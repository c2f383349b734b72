-------------------------------- MODULE Status --------------------------------
(***************************************************************************)
(* The event bus (events.c) and the status LED (services/led.c, and the    *)
(* LED functions of main.c), driven by the sessions of module Session.     *)
(*                                                                         *)
(* A thread that changes the logger's state publishes an event some time   *)
(* later, without waiting for room in the queue.  The event thread         *)
(* (priority 7, the lowest here) hands each event to the one subscriber,   *)
(* the LED, which reads the state anew.  The button's work queue (priority *)
(* 5) also sets the LED itself, and an mcumgr command overrides its colour.*)
(***************************************************************************)
EXTENDS Session, Sequences

CONSTANTS
  Threads,    \* the threads that change the state
  QueueSize,  \* EVENT_QUEUE_SIZE
  MaxBegun    \* bound: sessions begun

Button == "button"

ASSUME StatusAssumption ==
  Button \in Threads /\ QueueSize \in Nat \ {0} /\ MaxBegun \in Nat

VARIABLES
  owed,      \* thread: what it has still to do after its change of state
  queue,     \* event_queue: the types of the events
  handler,   \* event thread: "idle", "read" (about to read the state) or a colour
  app,       \* led_state.app_color
  override,  \* led_state.override_color while override_enabled, or "none"
  current_color, \* led_state.current_color
  shown,     \* the colour lit, or "off" (led_on = false)
  due        \* history: see LedCatchesUp

busVars == <<owed, queue, handler>>
ledVars == <<app, override, current_color, shown>>
statusVars == <<sessionVars, busVars, ledVars, due>>

Colors == {"blue", "black", "green", "orange", "magenta", "white"}
\* SESSION_START, SESSION_STOP and the events of the BLE link are "other".
Events == {"STATE_CHANGE", "other"}

\* update_led_for_state()
ColorOf(state) ==
  CASE state = "IDLE" -> "blue"     [] state = "ARMED" -> "black"
    [] state = "LOGGING" -> "green" [] state = "JUMPED" -> "orange"

StatusTypeOK ==
  /\ owed \in [Threads -> Seq(Events \cup {"led"})]
  /\ queue \in Seq(Events) /\ Len(queue) <= QueueSize
  /\ handler \in {"idle", "read"} \cup Colors
  /\ {app, current_color} \subseteq Colors /\ override \in Colors \cup {"none"}
  /\ shown \in Colors \cup {"off"} /\ due \in BOOLEAN

\* main() has subscribed the LED, armed the logger and set the LED for it; the
\* event of that is in the queue.
StatusInit ==
  /\ SessionInit
  /\ owed = [t \in Threads |-> <<>>]
  /\ queue = <<"STATE_CHANGE">> /\ handler = "idle"
  /\ app = "black" /\ override = "none" /\ current_color = "black"
  /\ shown = "off" /\ due \in BOOLEAN

-----------------------------------------------------------------------------
(* Changes of state and what they publish *)

Change(t, step, then) ==
  /\ owed[t] = <<>> /\ step
  /\ owed' = [owed EXCEPT ![t] = then]
  /\ due' = FALSE
  /\ UNCHANGED <<queue, handler, ledVars>>

\* A start by the button, or on the USB port, ends with its own call of
\* update_led_for_state(); USB starts publish nothing.
BeginBy(t) ==
  /\ begun < MaxBegun
  /\ \/ t # Button /\ Change(t, Begin, <<"other">>)
     \/ t = Button /\ Change(t, Begin, <<"other", "led">>)
     \/ t = Button /\ Change(t, Begin, <<"led">>)

EndBy(t) ==
  Change(t, End, IF t = Button THEN <<"other", "led">> ELSE <<"other">>)

AnnouncedBy(t) == t # Button /\ Change(t, MarkJump \/ Arm \/ Disarm, <<"STATE_CHANGE">>)

-----------------------------------------------------------------------------
(* event_bus_publish(): K_NO_WAIT, an event is dropped when the queue is full *)

Put(event) ==
  IF Len(queue) < QueueSize
  THEN queue' = Append(queue, event) /\ due' = (due \/ event = "STATE_CHANGE")
  ELSE UNCHANGED <<queue, due>>

Publish(t) ==
  /\ owed[t] # <<>> /\ Head(owed[t]) # "led"
  /\ Put(Head(owed[t]))
  /\ owed' = [owed EXCEPT ![t] = Tail(@)]
  /\ UNCHANGED <<sessionVars, handler, ledVars>>

\* connected() and disconnected() publish as well.
BleEvent ==
  /\ Put("other")
  /\ UNCHANGED <<sessionVars, owed, handler, ledVars>>

-----------------------------------------------------------------------------
(* The LED *)

\* Mutant: the colour is not kept while an override is active.
SetColorUnkept(color) ==
  /\ app' = IF override = "none" THEN color ELSE app
  /\ current_color' = IF override = "none" THEN color ELSE current_color

\* set_color_led_state(color, true)
SetColor(color) ==
  /\ app' = color
  /\ current_color' = IF override = "none" THEN color ELSE current_color

\* The button's thread reads the state and sets the LED: no thread that sets
\* it can run in between.
SetLed ==
  /\ owed[Button] # <<>> /\ Head(owed[Button]) = "led"
  /\ SetColor(ColorOf(LoggerState))
  /\ owed' = [owed EXCEPT ![Button] = Tail(@)]
  /\ UNCHANGED <<sessionVars, queue, handler, override, shown, due>>

\* The button's thread begins calibration streaming: magenta, whatever the state.
MagCalLed ==
  /\ owed[Button] = <<>> /\ SetColor("magenta")
  /\ due' = FALSE
  /\ UNCHANGED <<sessionVars, busVars, override, shown>>

\* The button's thread ends it, or the system work queue when the host goes; here
\* at any time, whether it is on or not.
MagCalLedBack ==
  /\ SetColor(ColorOf(LoggerState))
  /\ UNCHANGED <<sessionVars, busVars, override, shown, due>>

\* led_service_set_override(), by an mcumgr command: on, or back to app_color.
SetOverride ==
  /\ \E color \in {"white", "none"} :
       /\ override' = color
       /\ current_color' = IF color = "none" THEN app ELSE color
  /\ UNCHANGED <<sessionVars, busVars, app, shown, due>>

\* event_thread_func(): only STATE_CHANGE is in the LED's mask.
TakeEvent ==
  /\ handler = "idle" /\ queue # <<>>
  /\ queue' = Tail(queue)
  /\ handler' = IF Head(queue) = "STATE_CHANGE" THEN "read" ELSE "idle"
  /\ UNCHANGED <<sessionVars, owed, ledVars, due>>

ReadState ==
  /\ handler = "read" /\ handler' = ColorOf(LoggerState)
  /\ UNCHANGED <<sessionVars, owed, queue, ledVars, due>>

HandleEvent ==
  /\ handler \in Colors
  /\ SetColor(handler)
  /\ handler' = "idle"
  /\ UNCHANGED <<sessionVars, owed, queue, override, shown, due>>

\* blink_timer_handler() lights the LED when it is off, and schedules the work
\* that turns it off 50 ms later; the colour lit does not change meanwhile.
BlinkTimer ==
  /\ shown = "off" /\ shown' = current_color
  /\ UNCHANGED <<sessionVars, busVars, app, override, current_color, due>>

LedOffWork ==
  /\ shown # "off" /\ shown' = "off"
  /\ UNCHANGED <<sessionVars, busVars, app, override, current_color, due>>

-----------------------------------------------------------------------------
EventThread == TakeEvent \/ ReadState \/ HandleEvent

StatusNext ==
  \/ \E t \in Threads : BeginBy(t) \/ EndBy(t) \/ AnnouncedBy(t) \/ Publish(t)
  \/ BleEvent \/ SetLed \/ MagCalLed \/ MagCalLedBack \/ SetOverride
  \/ EventThread \/ BlinkTimer \/ LedOffWork

\* The event thread, the timer and the work queues run; nobody need change the
\* state.
StatusFairness ==
  /\ WF_statusVars(EventThread)
  /\ WF_statusVars(\E t \in Threads : Publish(t)) /\ WF_statusVars(SetLed)
  /\ WF_statusVars(BlinkTimer) /\ WF_statusVars(LedOffWork)

StatusSpec == StatusInit /\ [][StatusNext]_statusVars /\ StatusFairness

-----------------------------------------------------------------------------
(* Properties *)

\* due: since the last change of the state, or of the LED by the calibration, a
\* STATE_CHANGE has found room in the queue (events.c:187).  Then the LED comes to
\* light up in the state's colour, whichever threads published in whichever order
\* and whatever an override did to the colour in between; unless the state changes
\* again or an override is on.
LedCatchesUp == due ~> ~due \/ override # "none" \/ shown = ColorOf(LoggerState)
=============================================================================
