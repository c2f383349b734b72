------------------------------- MODULE UsbPort -------------------------------
(***************************************************************************)
(* The USB serial port (services/usb_tty.c) and its two users: a logging   *)
(* session in USB mode (services/logger.c) and the magnetometer's          *)
(* calibration (main.c), with the commands it accepts (services/usb_cmd.c).*)
(* Both open and close the same port and register one disconnect callback. *)
(* Buttons start and stop them on the button work queue, a host that goes  *)
(* away stops them on the system work queue, and any other thread may call *)
(* logger_start(), logger_stop(), logger_arm() and logger_disarm().        *)
(***************************************************************************)
EXTENDS Naturals

CONSTANTS
  MaxLines,   \* bound: lines received before rx_line_work runs
  UsbOthers   \* other threads that call logger_stop(): main, mcumgr

ButtonQueue == "button"    \* button_workq
SystemQueue == "sysworkq"  \* the system work queue

ASSUME LinesAssumption == MaxLines \in Nat
ASSUME OthersAssumption == ButtonQueue \notin UsbOthers /\ SystemQueue \notin UsbOthers

UsbThreads == {ButtonQueue, SystemQueue} \cup UsbOthers

VARIABLES
  host,       \* "none", "attached" or "terminal" (attached, DTR asserted)
  configured, \* usb_configured
  enabled,    \* usb_enabled: usb_tty_init() has succeeded
  open,       \* tty_open
  dtr,        \* dtr_state
  polling,    \* dtr_poll_work is scheduled
  callback,   \* disconnect_cb: "none", "log" or "cal"
  notice,     \* disconnect_work is pending
  logState,   \* logger state: "idle", "armed", or LOGGING or JUMPED, in a
              \* session that logger_start() ("file") or logger_start_usb() began
  usbMode,    \* logger_state.usb_mode
  pressed,    \* button1_short_press_work is pending
  streaming,  \* mag_cal_streaming
  commands,   \* cmd_active
  at,         \* thread: the step it is about to take
  rxWork,     \* rx_line_work is pending
  unread,     \* lines received since; rx_complete_buf holds the last of them
  overlap     \* history: see PortOwned

hostVars == <<host, configured, enabled>>
portVars == <<open, dtr, polling, callback, notice>>
userVars == <<logState, usbMode, pressed, streaming, commands, at, overlap>>
rxVars   == <<rxWork, unread>>
usbPortVars == <<hostVars, portVars, userVars, rxVars>>

UsbPlaces ==
  {"none", "open", "register", "aggregate"}                     \* logger_start_usb()
    \cup {"stop", "test", "close", "unregister", "clear"}       \* logger_stop()
    \cup {"calOpen", "calStart", "calCommands", "calRegister"}  \* a calibration starts
    \cup {"calStop", "calQuiet", "calClose"}                    \* and stops

UsbTypeOK ==
  /\ host \in {"none", "attached", "terminal"} /\ callback \in {"none", "log", "cal"}
  /\ \A b \in {configured, enabled, open, dtr, polling, notice, usbMode, pressed,
               streaming, commands, rxWork, overlap} : b \in BOOLEAN
  /\ logState \in {"idle", "armed", "file", "usb"}
  /\ at \in [UsbThreads -> UsbPlaces]
  /\ unread \in 0..MaxLines

\* The boot goes on when usb_tty_init() fails.
UsbInit ==
  /\ host = "none" /\ configured = FALSE /\ enabled \in BOOLEAN
  /\ open = FALSE /\ dtr = FALSE /\ polling = FALSE /\ callback = "none"
  /\ notice = FALSE /\ logState = "idle" /\ usbMode = FALSE /\ pressed = FALSE
  /\ streaming = FALSE /\ commands = FALSE
  /\ at = [t \in UsbThreads |-> "none"] /\ overlap = FALSE
  /\ rxWork = FALSE /\ unread = 0

Go(t, from, to) == at[t] = from /\ at' = [at EXCEPT ![t] = to]

-----------------------------------------------------------------------------
(* The host, and usb_status_callback() *)

Attach ==
  /\ host = "none"
  /\ host' \in {"attached", "terminal"} /\ configured' = enabled
  /\ UNCHANGED <<enabled, portVars, userVars, rxVars>>

Terminal ==
  /\ \/ host = "attached" /\ host' = "terminal"
     \/ host = "terminal" /\ host' = "attached"
  /\ UNCHANGED <<configured, enabled, portVars, userVars, rxVars>>

\* USB_DC_DISCONNECTED, or USB_DC_SUSPEND with the host still there.
HostGone ==
  /\ host # "none"
  /\ host' \in {"none", host} /\ configured' = FALSE
  /\ notice' = (notice \/ (configured /\ open))
  /\ UNCHANGED <<enabled, open, dtr, polling, callback, userVars, rxVars>>

-----------------------------------------------------------------------------
(* The port: usb_tty.c *)

\* usb_tty_is_connected(): DTR, or else a host that has configured the device.
IsConnected == enabled /\ (host = "terminal" \/ configured)

UsbTtyOpen == open' = TRUE /\ dtr' = TRUE /\ polling' = TRUE

UsbTtyClose == open' = FALSE /\ polling' = FALSE /\ UNCHANGED dtr

\* dtr_poll_handler(), 250 ms after the open or the last poll: a callback that is
\* registered right after the open is registered by then.
DtrPoll ==
  /\ polling /\ at[SystemQueue] = "none"
  /\ at[ButtonQueue] \notin {"register", "calStart", "calCommands", "calRegister"}
  /\ LET asserted == host = "terminal" IN
       /\ dtr' = asserted
       /\ notice' = (notice \/ (dtr /\ ~asserted /\ open))
       /\ polling' = (open /\ ~(dtr /\ ~asserted))
  /\ UNCHANGED <<hostVars, open, callback, userVars, rxVars>>

-----------------------------------------------------------------------------
(* A session in USB mode: logger.c *)

\* logger_start_usb() holds the lock from its test of the state to its end.
LockFree == at[ButtonQueue] \notin {"open", "register", "aggregate"}

\* A thread that is giving up the port, having decided to.
Closing(t) == at[t] \in {"close", "unregister", "clear", "calStop", "calQuiet", "calClose"}

\* logger_start_usb(), up to the port's opening
StartUsb ==
  /\ logState \in {"idle", "armed"} /\ IsConnected
  /\ Go(ButtonQueue, "none", "open") /\ usbMode' = TRUE
  /\ overlap' = (overlap \/ streaming \/ \E t \in UsbThreads : at[t] = "test" \/ Closing(t))
  /\ UNCHANGED <<hostVars, portVars, rxVars, logState, pressed, streaming, commands>>

OpenForLog ==
  /\ Go(ButtonQueue, "open", IF IsConnected THEN "register" ELSE "none")
  /\ IF IsConnected THEN UsbTtyOpen ELSE UNCHANGED <<open, dtr, polling>>
  /\ usbMode' = (usbMode /\ IsConnected)
  /\ UNCHANGED <<hostVars, callback, notice, rxVars, logState, pressed, streaming,
                 commands, overlap>>

RegisterLog ==
  /\ Go(ButtonQueue, "register", "aggregate") /\ callback' = "log"
  /\ UNCHANGED <<hostVars, open, dtr, polling, notice, rxVars, logState, usbMode, pressed,
                 streaming, commands, overlap>>

\* Mutant: a failure leaves the port open.
StartAggregatorLeavesOpen ==
  /\ Go(ButtonQueue, "aggregate", "none")
  /\ \/ logState' = "usb" /\ UNCHANGED <<open, dtr, polling, usbMode>>
     \/ usbMode' = FALSE /\ UNCHANGED <<open, dtr, polling, logState>>
  /\ UNCHANGED <<hostVars, callback, notice, rxVars, pressed, streaming, commands, overlap>>

\* aggregator_start(), the last step, may fail: the port is closed again, the
\* callback stays.
StartAggregator ==
  /\ Go(ButtonQueue, "aggregate", "none")
  /\ \/ logState' = "usb" /\ UNCHANGED <<open, dtr, polling, usbMode>>
     \/ usbMode' = FALSE /\ UsbTtyClose /\ UNCHANGED logState
  /\ UNCHANGED <<hostVars, callback, notice, rxVars, pressed, streaming, commands, overlap>>

\* logger_stop(): the state changes under the lock, everything else after it.
\* Called in any other state it returns at once.
StopTestState(t, from) ==
  /\ LockFree
  /\ LET ok == logState \in {"file", "usb"} IN
       /\ Go(t, from, IF ok THEN "test" ELSE "none")
       /\ logState' = IF ok THEN "idle" ELSE logState
  /\ UNCHANGED <<hostVars, portVars, rxVars, usbMode, pressed, streaming, commands, overlap>>

StopTestMode(t) ==
  /\ Go(t, "test", IF usbMode THEN "close" ELSE "none")
  /\ UNCHANGED <<hostVars, portVars, rxVars, logState, usbMode, pressed, streaming,
                 commands, overlap>>

StopClose(t) ==
  /\ Go(t, "close", "unregister") /\ UsbTtyClose
  /\ UNCHANGED <<hostVars, callback, notice, rxVars, logState, usbMode, pressed, streaming,
                 commands, overlap>>

StopUnregister(t) ==
  /\ Go(t, "unregister", "clear") /\ callback' = "none"
  /\ UNCHANGED <<hostVars, open, dtr, polling, notice, rxVars, logState, usbMode, pressed,
                 streaming, commands, overlap>>

StopClear(t) ==
  /\ Go(t, "clear", "none") /\ usbMode' = FALSE
  /\ UNCHANGED <<hostVars, portVars, rxVars, logState, pressed, streaming, commands, overlap>>

-----------------------------------------------------------------------------
(* The rest of the device: sessions on the card, arming, and their end *)

\* logger_start(), logger_arm() from any state, and logger_disarm(), which leave
\* the port and usb_mode alone.
StartOnCard == logState \in {"idle", "armed"} /\ logState' = "file" /\ UNCHANGED overlap

ArmAnyState == logState' = "armed" /\ overlap' = (overlap \/ logState = "usb")

DisarmArmed == logState = "armed" /\ logState' = "idle" /\ UNCHANGED overlap

OtherCalls ==
  /\ LockFree /\ (StartOnCard \/ ArmAnyState \/ DisarmArmed)
  /\ UNCHANGED <<hostVars, portVars, rxVars, usbMode, pressed, streaming, commands, at>>

\* logger_stop() of a thread that may come to it at any time
CallStop(t) == StopTestState(t, "none")

\* button1_action_handler() looks at the state first, and either function tests it
\* again: a press for which they differ has no effect.
LongPress == StartUsb \/ CallStop(ButtonQueue)

-----------------------------------------------------------------------------
(* Calibration: main.c *)

\* button1_isr(), at the end of a short press
ShortPress ==
  /\ streaming \/ logState \in {"idle", "armed"}
  /\ pressed' = TRUE
  /\ UNCHANGED <<hostVars, portVars, rxVars, logState, usbMode, streaming, commands, at,
                 overlap>>

\* button1_short_press_handler(); the magnetometer may not be ready.
ShortPressWork ==
  /\ pressed /\ pressed' = FALSE
  /\ \E next \in IF streaming THEN {"calStop"} ELSE {"none", "calOpen"} :
       Go(ButtonQueue, "none", next)
  /\ UNCHANGED <<hostVars, portVars, rxVars, logState, usbMode, streaming, commands, overlap>>

\* -ENOTCONN ends it; after -ENODEV it goes on without a port.
OpenForCal ==
  /\ Go(ButtonQueue, "calOpen", IF enabled /\ ~IsConnected THEN "none" ELSE "calStart")
  /\ IF IsConnected THEN UsbTtyOpen ELSE UNCHANGED <<open, dtr, polling>>
  /\ overlap' = (overlap \/ (IsConnected /\ (usbMode \/ \E t \in UsbThreads : Closing(t))))
  /\ UNCHANGED <<hostVars, callback, notice, rxVars, logState, usbMode, pressed, streaming,
                 commands>>

CalStart ==
  /\ Go(ButtonQueue, "calStart", "calCommands") /\ streaming' = TRUE
  /\ UNCHANGED <<hostVars, portVars, rxVars, logState, usbMode, pressed, commands, overlap>>

CalCommands ==
  /\ Go(ButtonQueue, "calCommands", "calRegister") /\ commands' = TRUE
  /\ UNCHANGED <<hostVars, portVars, rxVars, logState, usbMode, pressed, streaming, overlap>>

CalRegister ==
  /\ Go(ButtonQueue, "calRegister", "none") /\ callback' = "cal"
  /\ UNCHANGED <<hostVars, open, dtr, polling, notice, rxVars, logState, usbMode, pressed,
                 streaming, commands, overlap>>

\* The button's handler, and mag_cal_disconnect_handler().
CalStop(t) ==
  /\ Go(t, "calStop", "calQuiet") /\ streaming' = FALSE
  /\ UNCHANGED <<hostVars, portVars, rxVars, logState, usbMode, pressed, commands, overlap>>

CalQuiet(t) ==
  /\ Go(t, "calQuiet", "calClose") /\ commands' = FALSE
  /\ UNCHANGED <<hostVars, portVars, rxVars, logState, usbMode, pressed, streaming, overlap>>

CalClose(t) ==
  /\ Go(t, "calClose", "none") /\ UsbTtyClose
  /\ UNCHANGED <<hostVars, callback, notice, rxVars, logState, usbMode, pressed, streaming,
                 commands, overlap>>

-----------------------------------------------------------------------------
(* The system work queue *)

\* disconnect_work_handler(): usb_disconnect_handler() or
\* mag_cal_disconnect_handler(), whichever was registered last.
DisconnectWork ==
  /\ notice /\ notice' = FALSE
  /\ Go(SystemQueue, "none", CASE callback = "log" -> "stop"
                            [] callback = "cal" /\ streaming -> "calStop"
                            [] OTHER -> "none")
  /\ overlap' = (overlap \/ (callback = "cal" /\ streaming /\ at[ButtonQueue] = "calCommands"))
  /\ UNCHANGED <<hostVars, open, dtr, polling, callback, rxVars, logState, usbMode, pressed,
                 streaming, commands>>

\* ... and logger_stop(), which may have to wait for the lock.
StopLogging == StopTestState(SystemQueue, "stop")

\* uart_irq_callback(): the buffer is filled anew whether or not the last line
\* has been handled.
LineIn ==
  /\ open /\ unread < MaxLines
  /\ unread' = unread + 1 /\ rxWork' = TRUE
  /\ UNCHANGED <<hostVars, portVars, userVars>>

\* Mutant: one line for each run of the work.
RxLineWorkNext ==
  /\ rxWork /\ at[SystemQueue] = "none"
  /\ rxWork' = FALSE /\ unread' = unread - 1
  /\ UNCHANGED <<hostVars, portVars, userVars>>

\* rx_line_work_handler(): usb_cmd_process_line() gets the line of the buffer, and
\* ignores it while commands is FALSE.
RxLineWork ==
  /\ rxWork /\ at[SystemQueue] = "none"
  /\ rxWork' = FALSE /\ unread' = 0
  /\ UNCHANGED <<hostVars, portVars, userVars>>

-----------------------------------------------------------------------------
\* The step of a thread inside one of the functions.
Starting ==
  OpenForLog \/ RegisterLog \/ StartAggregator
    \/ OpenForCal \/ CalStart \/ CalCommands \/ CalRegister

Stopping(t) ==
  StopTestMode(t) \/ StopClose(t) \/ StopUnregister(t) \/ StopClear(t)
    \/ CalStop(t) \/ CalQuiet(t) \/ CalClose(t)

ButtonThread == Starting \/ Stopping(ButtonQueue)

UsbNext ==
  \/ Attach \/ Terminal \/ HostGone \/ LongPress \/ ShortPress \/ LineIn
  \/ ShortPressWork \/ ButtonThread \/ OtherCalls
  \/ DtrPoll \/ DisconnectWork \/ StopLogging \/ RxLineWork
  \/ \E t \in UsbThreads \ {ButtonQueue} : Stopping(t)
  \/ \E t \in UsbOthers : CallStop(t)

\* The system work queue takes its items in order, so one that is pending runs
\* however often the queue is busy in between, and it gets the lock in its turn.
UsbFairness ==
  /\ WF_usbPortVars(ButtonThread) /\ \A t \in UsbOthers : WF_usbPortVars(Stopping(t))
  /\ WF_usbPortVars(Stopping(SystemQueue)) /\ SF_usbPortVars(StopLogging)
  /\ WF_usbPortVars(DtrPoll) /\ SF_usbPortVars(DisconnectWork)
  /\ SF_usbPortVars(RxLineWork)

UsbSpec == UsbInit /\ [][UsbNext]_usbPortVars /\ UsbFairness

-----------------------------------------------------------------------------
(* Properties *)

AtRest == \A t \in UsbThreads : at[t] = "none"

\* When no thread is on its way through a start or a stop, the port is open for
\* exactly as long as a USB session or a calibration is on, commands are accepted
\* exactly during calibration, and a disconnect reaches the one that is on.  A
\* device without USB streams to a port that is not open (main.c:164).  Except
\* after one of what overlap records, each of which breaks it in the code: a
\* session in USB mode or a calibration opens the port while the other is on, or
\* while a thread is still stopping or closing the one before (logger.c:499-519,
\* main.c:134-139); logger_arm() takes the state of a session in USB mode away
\* (logger.c:577); a disconnect stops a calibration that is being started, by the
\* callback of the one before.
PortOwned ==
  ~overlap /\ AtRest =>
    /\ open <=> logState = "usb" \/ (streaming /\ enabled)
    /\ commands <=> streaming
    /\ (logState = "usb" => callback = "log") /\ (streaming => callback = "cal")

\* A host that is unplugged ends what uses the port, and the last line that came
\* in during a calibration is handled, however many came before its work ran
\* (usb_tty.c:116); except after an overlap, as above.
PortServed ==
  /\ open /\ host = "none" ~> ~open \/ host # "none" \/ overlap
  /\ commands /\ unread > 0 ~> unread = 0 \/ ~commands \/ overlap
=============================================================================
