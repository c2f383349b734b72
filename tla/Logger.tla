------------------------------- MODULE Logger -------------------------------
(***************************************************************************)
(* Logging sessions (services/logger.c) and what they drive: the           *)
(* aggregator, the log file, the USB stream, the BLE radio, the GNSS rate. *)
(* Four threads call the logger: main (logger_executive), the button work  *)
(* queue, the work queue that serves mcumgr commands, and the system work  *)
(* queue (USB disconnect); the barometer thread is a fifth.                *)
(*                                                                         *)
(* logger_state.lock covers the test and the change of the state, and all  *)
(* of what a start sets up, but not what a stop tears down: that runs      *)
(* after the unlock, beside whatever other threads start meanwhile.        *)
(***************************************************************************)
EXTENDS Integers, Sequences

CONSTANTS
  Threads,      \* the threads that call the logger
  MaxSessions   \* bound: sessions begun in a behaviour

Main == "main"          Button == "button"      Smp == "smp"
Baro == "baro"          SysWorkq == "sysworkq"

ASSUME ThreadAssumption ==
  /\ Threads \subseteq {Main, Button, Smp, Baro, SysWorkq}
  /\ SysWorkq \in Threads

VARIABLES
  state,      \* logger_state.state
  usbMode,    \* logger_state.usb_mode
  lock,       \* logger_state.lock: the thread that holds it, or "free"
  session,    \* sessions begun; the number of the last one
  running,    \* aggregator: running
  worker,     \* aggregator: its thread has been created and has not exited
  output,     \* aggregator: output_callback
  file,       \* the session whose log file_writer has open, or 0
  tty,        \* usb_tty: tty_open
  callback,   \* usb_tty: disconnect_cb is usb_disconnect_handler
  gone,       \* usb_tty: disconnect_work is pending
  accel,      \* the accelerometer filter is enabled
  rate,       \* GNSS navigation rate, Hz
  ground,     \* ground_altitude_work is scheduled
  radio,      \* ble_radio_active
  stopWork,   \* ble_stop_work is scheduled
  at,         \* thread: where it is in the call it is making
  todo,       \* thread: that call and those that follow it
  ended,      \* history: sessions a logger_stop has ended
  calm        \* history: no two threads have been in calls at once

usbVars   == <<usbMode, tty, callback, gone>>
aggVars   == <<running, worker, output>>
radioVars == <<radio, stopWork>>
histVars  == <<session, ended>>
vars == <<state, usbVars, lock, aggVars, file, accel, rate, ground, radioVars,
          at, todo, histVars, calm>>

Active == {"LOGGING", "JUMPED"}
Ready  == {"IDLE", "ARMED"}

Busy(t)   == todo[t] # <<>>
Quiescent == \A t \in Threads : ~Busy(t)
OneBusy   == \A s, t \in Threads : Busy(s) /\ Busy(t) => s = t

\* Observed by every step that changes todo, read by none.
Observe == calm' = (calm /\ OneBusy')

\* The parts of logger_start() and logger_start_usb() under the lock.
Locked == {"open", "aggregate", "ttyOpen", "usbAggregate"}

-----------------------------------------------------------------------------
(* The threads: what each decides to call *)

\* A thread about to make its next call, c.
Calls(t, c) == todo[t] # <<>> /\ Head(todo[t]) = c /\ at[t] = "idle"

Goto(t, step) == at' = [at EXCEPT ![t] = step] /\ UNCHANGED <<todo, calm>>

\* The call returns and the thread goes on; or the thread gives up the rest.
Return(t) ==
  /\ at' = [at EXCEPT ![t] = "idle"]
  /\ todo' = [todo EXCEPT ![t] = Tail(@)]
  /\ Observe

GiveUp(t) ==
  /\ at' = [at EXCEPT ![t] = "idle"]
  /\ todo' = [todo EXCEPT ![t] = <<>>]
  /\ Observe

\* What a thread comes to do without having read the state: an executive tick
\* past its test of usb_mode, a long press, a BLE request, a barometer sample.
Arrive(t) ==
  /\ t # SysWorkq
  /\ at[t] = "idle" /\ ~Busy(t)
  /\ t = Main => ~usbMode
  /\ t = Smp => radio
  /\ Goto(t, "look")
  /\ UNCHANGED <<state, usbVars, lock, aggVars, file, accel, rate, ground,
                 radioVars, histVars>>

Landing == <<"stop", "arm", "rate1">>

Plans == {<<>>, <<"start">>, <<"startUsb">>, <<"jumped">>, Landing, <<"stop">>, <<"arm">>,
          <<"disarm">>, <<"start", "reply">>, <<"arm", "start", "reply">>}

\* The calls a thread makes in a state; what the climb rate, the acceleration
\* and the commands are decides among them, and whether there is any.
Decides(t, plan) ==
  \/ plan = <<>>
  \/ plan = <<"start">> /\ t \in {Main, Baro, Button} /\ state = "ARMED"
  \/ plan = <<"jumped">> /\ t = Main /\ state = "LOGGING"
  \/ plan = Landing /\ t = Main /\ state \in Active
  \/ plan = <<"startUsb">> /\ t = Button /\ state \in Ready
  \/ plan = <<"stop">> /\ t = Button /\ state \in Active
  \/ plan = <<"stop">> /\ t = Smp /\ state = "LOGGING"
  \/ plan \in {<<"start", "reply">>, <<"disarm">>} /\ t = Smp /\ state = "ARMED"
  \/ plan \in {<<"arm", "start", "reply">>, <<"arm">>} /\ t = Smp /\ state = "IDLE"

\* The state is read (under the lock, except by logger_baro_handler) and the
\* first call decided, or none.
Look(t) ==
  /\ at[t] = "look"
  /\ t = Baro \/ lock = "free"
  /\ at' = [at EXCEPT ![t] = "idle"]
  /\ \E plan \in Plans : Decides(t, plan) /\ todo' = [todo EXCEPT ![t] = plan]
  /\ Observe
  /\ UNCHANGED <<state, usbVars, lock, aggVars, file, accel, rate, ground,
                 radioVars, histVars>>

-----------------------------------------------------------------------------
(* logger_start() *)

\* The lock is taken and the state tested.
LoggerStart(t) ==
  /\ Calls(t, "start")
  /\ lock = "free"
  /\ IF state \in Ready THEN lock' = t /\ Goto(t, "open")
                        ELSE UNCHANGED lock /\ GiveUp(t)
  /\ UNCHANGED <<state, usbVars, aggVars, file, accel, rate, ground, radioVars,
                 histVars>>

\* Mutant: the error path returns without giving the lock back.
StartOpenKeepsLock(t) ==
  /\ at[t] = "open"
  /\ \/ /\ session < MaxSessions
        /\ file' = session + 1
        /\ output' = "file"
        /\ ground' = FALSE
        /\ Goto(t, "aggregate")
     \/ /\ file' = 0
        /\ GiveUp(t)
        /\ UNCHANGED <<output, ground>>
  /\ UNCHANGED <<state, usbVars, lock, running, worker, accel, rate, radioVars, histVars>>

\* Mutant: the output callback of a USB session stays registered.
StartOpenKeepsOutput(t) ==
  /\ at[t] = "open"
  /\ \/ /\ session < MaxSessions
        /\ file' = session + 1
        /\ output' = IF output = "none" THEN "file" ELSE output
        /\ ground' = FALSE
        /\ Goto(t, "aggregate")
        /\ UNCHANGED lock
     \/ /\ file' = 0
        /\ lock' = "free"
        /\ GiveUp(t)
        /\ UNCHANGED <<output, ground>>
  /\ UNCHANGED <<state, usbVars, running, worker, accel, rate, radioVars, histVars>>

\* file_writer_open() closes the log that may be open, then opens the new one;
\* when that works the output is registered and ground sampling cancelled.
StartOpen(t) ==
  /\ at[t] = "open"
  /\ \/ /\ session < MaxSessions
        /\ file' = session + 1
        /\ output' = "file"
        /\ ground' = FALSE
        /\ Goto(t, "aggregate")
        /\ UNCHANGED lock
     \/ /\ file' = 0
        /\ lock' = "free"
        /\ GiveUp(t)
        /\ UNCHANGED <<output, ground>>
  /\ UNCHANGED <<state, usbVars, running, worker, accel, rate, radioVars, histVars>>

\* aggregator_start(): with the aggregator running the new log is closed again;
\* otherwise its thread is created and the session begins.
StartAggregate(t) ==
  /\ at[t] = "aggregate"
  /\ lock' = "free"
  /\ IF running
     THEN /\ file' = 0
          /\ GiveUp(t)
          /\ UNCHANGED <<state, running, worker, session>>
     ELSE /\ running' = TRUE /\ worker' = TRUE
          /\ state' = "LOGGING"
          /\ session' = session + 1
          /\ Goto(t, "announce")
          /\ UNCHANGED file
  /\ UNCHANGED <<usbVars, output, accel, rate, ground, radioVars, ended>>

\* After the unlock: the event, the GNSS rate, the accelerometer filter.
StartAnnounce(t) ==
  /\ at[t] = "announce"
  /\ rate' = 1
  /\ accel' = TRUE
  /\ Goto(t, "radioOff")
  /\ UNCHANGED <<state, usbVars, lock, aggVars, file, ground, radioVars, histVars>>

\* ble_mcumgr_stop().
StartRadioOff(t) ==
  /\ at[t] = "radioOff"
  /\ radio' = FALSE
  /\ Return(t)
  /\ UNCHANGED <<state, usbVars, lock, aggVars, file, accel, rate, ground,
                 stopWork, histVars>>

\* Mutant: no deferred stop.
ReplyForGood(t) ==
  /\ Calls(t, "reply")
  /\ radio' = TRUE
  /\ Return(t)
  /\ UNCHANGED <<state, usbVars, lock, aggVars, file, accel, rate, ground,
                 stopWork, histVars>>

\* After a start commanded over BLE: the radio comes back for the response, and
\* k_work_schedule() stops it 500 ms later unless a stop is already scheduled.
Reply(t) ==
  /\ Calls(t, "reply")
  /\ radio' = TRUE
  /\ stopWork' = TRUE
  /\ Return(t)
  /\ UNCHANGED <<state, usbVars, lock, aggVars, file, accel, rate, ground, histVars>>

-----------------------------------------------------------------------------
(* logger_start_usb() *)

LoggerStartUsb(t) ==
  /\ Calls(t, "startUsb")
  /\ lock = "free"
  /\ \/ /\ state \in Ready      \* and a host is connected
        /\ lock' = t
        /\ usbMode' = TRUE
        /\ Goto(t, "ttyOpen")
     \/ /\ UNCHANGED <<lock, usbMode>>
        /\ GiveUp(t)
  /\ UNCHANGED <<state, tty, callback, gone, aggVars, file, accel, rate, ground,
                 radioVars, histVars>>

UsbOpen(t) ==
  /\ at[t] = "ttyOpen"
  /\ \/ /\ session < MaxSessions
        /\ tty' = TRUE
        /\ callback' = TRUE
        /\ output' = "usb"
        /\ ground' = FALSE
        /\ Goto(t, "usbAggregate")
        /\ UNCHANGED <<lock, usbMode>>
     \/ /\ usbMode' = FALSE
        /\ lock' = "free"
        /\ GiveUp(t)
        /\ UNCHANGED <<tty, callback, output, ground>>
  /\ UNCHANGED <<state, gone, running, worker, file, accel, rate, radioVars, histVars>>

UsbAggregate(t) ==
  /\ at[t] = "usbAggregate"
  /\ lock' = "free"
  /\ IF running
     THEN /\ tty' = FALSE
          /\ usbMode' = FALSE
          /\ GiveUp(t)
          /\ UNCHANGED <<state, running, worker, session>>
     ELSE /\ running' = TRUE /\ worker' = TRUE
          /\ state' = "LOGGING"
          /\ session' = session + 1
          /\ Goto(t, "rate1")
          /\ UNCHANGED <<tty, usbMode>>
  /\ UNCHANGED <<callback, gone, output, file, accel, rate, ground, radioVars, ended>>

\* gnss_set_rate(), the last step of several calls.
SetRate(t) ==
  /\ \/ at[t] = "rate1" /\ rate' = 1
     \/ at[t] = "rate10" /\ rate' = 10
     \/ Calls(t, "rate1") /\ rate' = 1
  /\ Return(t)
  /\ UNCHANGED <<state, usbVars, lock, aggVars, file, accel, ground, radioVars, histVars>>

-----------------------------------------------------------------------------
(* logger_jumped(), logger_arm(), logger_disarm() *)

\* Mutant: the state is not tested again under the lock.
JumpedUntested(t) ==
  /\ Calls(t, "jumped")
  /\ lock = "free"
  /\ state' = "JUMPED"
  /\ Goto(t, "rate10")
  /\ UNCHANGED <<usbVars, lock, aggVars, file, accel, rate, ground, radioVars, histVars>>

LoggerJumped(t) ==
  /\ Calls(t, "jumped")
  /\ lock = "free"
  /\ IF state = "LOGGING" THEN state' = "JUMPED" /\ Goto(t, "rate10")
                          ELSE UNCHANGED state /\ Return(t)
  /\ UNCHANGED <<usbVars, lock, aggVars, file, accel, rate, ground, radioVars, histVars>>

\* The test of the state is commented out: any state becomes ARMED.
LoggerArm(t) ==
  /\ Calls(t, "arm")
  /\ lock = "free"
  /\ ground' = TRUE
  /\ state' = "ARMED"
  /\ Return(t)
  /\ UNCHANGED <<usbVars, lock, aggVars, file, accel, rate, radioVars, histVars>>

LoggerDisarm(t) ==
  /\ Calls(t, "disarm")
  /\ lock = "free"
  /\ IF state = "ARMED" THEN state' = "IDLE" /\ Goto(t, "sample")
                        ELSE UNCHANGED state /\ Return(t)
  /\ UNCHANGED <<usbVars, lock, aggVars, file, accel, rate, ground, radioVars, histVars>>

DisarmSample(t) ==
  /\ at[t] = "sample"
  /\ ground' = TRUE
  /\ Return(t)
  /\ UNCHANGED <<state, usbVars, lock, aggVars, file, accel, rate, radioVars, histVars>>

-----------------------------------------------------------------------------
(* logger_stop() *)

LoggerStop(t) ==
  /\ Calls(t, "stop")
  /\ lock = "free"
  /\ IF state \in Active
     THEN /\ state' = "IDLE"
          /\ ended' = ended \cup {session}
          /\ Goto(t, "accelOff")
     ELSE UNCHANGED <<state, ended>> /\ Return(t)
  /\ UNCHANGED <<usbVars, lock, aggVars, file, accel, rate, ground, radioVars, session>>

StopAccel(t) ==
  /\ at[t] = "accelOff"
  /\ accel' = FALSE
  /\ Goto(t, "halt")
  /\ UNCHANGED <<state, usbVars, lock, aggVars, file, rate, ground, radioVars, histVars>>

\* Mutant: the thread is joined while its flag still tells it to run.
HaltLate(t) ==
  /\ at[t] = "halt"
  /\ Goto(t, IF running THEN "join" ELSE "close")
  /\ UNCHANGED <<state, usbVars, lock, aggVars, file, accel, rate, ground,
                 radioVars, histVars>>

\* aggregator_stop() clears the flag and joins the thread, if it is running.
StopHalt(t) ==
  /\ at[t] = "halt"
  /\ running' = FALSE
  /\ Goto(t, IF running THEN "join" ELSE "close")
  /\ UNCHANGED <<state, usbVars, lock, worker, output, file, accel, rate, ground,
                 radioVars, histVars>>

StopJoin(t) ==
  /\ at[t] = "join"
  /\ ~worker
  /\ Goto(t, "close")
  /\ UNCHANGED <<state, usbVars, lock, aggVars, file, accel, rate, ground,
                 radioVars, histVars>>

\* usb_mode says what to close: the USB stream or the log file.
StopClose(t) ==
  /\ at[t] = "close"
  /\ IF usbMode THEN tty' = FALSE /\ Goto(t, "unregister") /\ UNCHANGED file
                ELSE file' = 0 /\ Goto(t, "publish") /\ UNCHANGED tty
  /\ UNCHANGED <<state, usbMode, callback, gone, lock, aggVars, accel, rate,
                 ground, radioVars, histVars>>

\* Mutant: usb_mode stays set.
UnregisterOnly(t) ==
  /\ at[t] = "unregister"
  /\ callback' = FALSE
  /\ Goto(t, "publish")
  /\ UNCHANGED <<state, usbMode, tty, gone, lock, aggVars, file, accel, rate,
                 ground, radioVars, histVars>>

StopUnregister(t) ==
  /\ at[t] = "unregister"
  /\ callback' = FALSE
  /\ usbMode' = FALSE
  /\ Goto(t, "publish")
  /\ UNCHANGED <<state, tty, gone, lock, aggVars, file, accel, rate, ground,
                 radioVars, histVars>>

\* SESSION_STOP; ground sampling resumes if the state, read unlocked, is IDLE.
StopPublish(t) ==
  /\ at[t] = "publish"
  /\ ground' = (ground \/ state = "IDLE")
  /\ Goto(t, "radioOn")
  /\ UNCHANGED <<state, usbVars, lock, aggVars, file, accel, rate, radioVars, histVars>>

\* ble_mcumgr_restart().
StopRadioOn(t) ==
  /\ at[t] = "radioOn"
  /\ radio' = TRUE
  /\ Return(t)
  /\ UNCHANGED <<state, usbVars, lock, aggVars, file, accel, rate, ground,
                 stopWork, histVars>>

-----------------------------------------------------------------------------
(* What runs by itself *)

\* The aggregator's thread leaves its loop.
WorkerExit ==
  /\ worker /\ ~running
  /\ worker' = FALSE
  /\ UNCHANGED <<state, usbVars, lock, running, output, file, accel, rate, ground,
                 radioVars, at, todo, histVars, calm>>

\* The host drops the line or the bus: disconnect_work is submitted.
HostGone ==
  /\ tty /\ ~gone
  /\ gone' = TRUE
  /\ UNCHANGED <<state, usbMode, tty, callback, lock, aggVars, file, accel, rate,
                 ground, radioVars, at, todo, histVars, calm>>

\* disconnect_work_handler(): usb_disconnect_handler() calls logger_stop().
DisconnectWork ==
  /\ gone /\ ~Busy(SysWorkq)
  /\ gone' = FALSE
  /\ todo' = IF callback THEN [todo EXCEPT ![SysWorkq] = <<"stop">>] ELSE todo
  /\ Observe
  /\ UNCHANGED <<state, usbMode, tty, callback, lock, aggVars, file, accel, rate,
                 ground, radioVars, at, histVars>>

\* ble_stop_work_handler(), whatever the state is by now.
BleStopWork ==
  /\ stopWork /\ ~Busy(SysWorkq)
  /\ stopWork' = FALSE
  /\ radio' = FALSE
  /\ UNCHANGED <<state, usbVars, lock, aggVars, file, accel, rate, ground, at,
                 todo, histVars, calm>>

\* ground_altitude_work_handler() reschedules itself in IDLE and ARMED only.
GroundWork ==
  /\ ground /\ ~Busy(SysWorkq)
  /\ ground' = (state \in Ready)
  /\ UNCHANGED <<state, usbVars, lock, aggVars, file, accel, rate, radioVars, at,
                 todo, histVars, calm>>

-----------------------------------------------------------------------------
\* main() has initialised the services and armed the logger.
Init ==
  /\ state = "ARMED" /\ lock = "free" /\ usbMode = FALSE
  /\ running = FALSE /\ worker = FALSE /\ output = "none"
  /\ file = 0 /\ tty = FALSE /\ callback = FALSE /\ gone = FALSE
  /\ accel = FALSE /\ rate = 1 /\ ground = TRUE
  /\ radio = TRUE /\ stopWork = FALSE
  /\ at = [t \in Threads |-> "idle"]
  /\ todo = [t \in Threads |-> <<>>]
  /\ session = 0 /\ ended = {} /\ calm = TRUE

CallStep(t) ==
  \/ LoggerStart(t) \/ StartOpen(t) \/ StartAggregate(t) \/ StartAnnounce(t)
  \/ StartRadioOff(t) \/ Reply(t)
  \/ LoggerStartUsb(t) \/ UsbOpen(t) \/ UsbAggregate(t) \/ SetRate(t)
  \/ LoggerJumped(t) \/ LoggerArm(t) \/ LoggerDisarm(t) \/ DisarmSample(t)
  \/ LoggerStop(t) \/ StopAccel(t) \/ StopHalt(t) \/ StopJoin(t) \/ StopClose(t)
  \/ StopUnregister(t) \/ StopPublish(t) \/ StopRadioOn(t)

Next ==
  \/ \E t \in Threads : Arrive(t) \/ Look(t) \/ CallStep(t)
  \/ WorkerExit \/ HostGone \/ DisconnectWork \/ BleStopWork \/ GroundWork

\* A call goes on once it can: every thread blocks often enough to let the
\* others run.  Nothing makes a thread look or decide.
Spec ==
  /\ Init /\ [][Next]_vars
  /\ \A t \in Threads : WF_vars(CallStep(t))
  /\ WF_vars(WorkerExit)

-----------------------------------------------------------------------------
(* Properties *)

Steps == {"idle", "look", "open", "aggregate", "announce", "radioOff", "ttyOpen",
          "usbAggregate", "rate1", "rate10", "sample", "accelOff", "halt", "join",
          "close", "unregister", "publish", "radioOn"}

CallNames == {"start", "startUsb", "reply", "jumped", "arm", "disarm", "stop", "rate1"}

\* Exactly the thread in the locked part of a start holds the lock.
LockOK == \A t \in Threads : lock = t <=> at[t] \in Locked

TypeSession ==
  /\ state \in Active \cup Ready
  /\ session \in Nat /\ \A n \in ended : n \in 1..session
  /\ state \in Active => session > 0

TypeFlags ==
  /\ usbMode \in BOOLEAN /\ running \in BOOLEAN /\ worker \in BOOLEAN
  /\ tty \in BOOLEAN /\ callback \in BOOLEAN /\ gone \in BOOLEAN
  /\ accel \in BOOLEAN /\ ground \in BOOLEAN /\ calm \in BOOLEAN
  /\ radio \in BOOLEAN /\ stopWork \in BOOLEAN

TypeOutput == output \in {"none", "file", "usb"} /\ rate \in {1, 10} /\ file \in Nat

TypeThreads ==
  /\ lock \in Threads \cup {"free"}
  /\ at \in [Threads -> Steps]
  /\ todo \in [Threads -> Seq(CallNames)]
  /\ \A t \in Threads : at[t] \notin {"idle", "look"} => Busy(t)

\* Types, and who holds the lock.
TypeOK == TypeSession /\ TypeFlags /\ TypeOutput /\ TypeThreads /\ LockOK

\* A start sets up in one piece what a stop tears down in pieces.  While calls
\* do not overlap, at every moment of a session its lines have somewhere to go:
\* the aggregator runs and its output leads to the open log of this session, or
\* to the open USB stream.
ActiveRecords ==
  calm /\ state \in Active =>
    /\ running /\ worker
    /\ \/ ~usbMode /\ output = "file" /\ file = session
       \/ usbMode /\ output = "usb" /\ tty /\ callback

\* And when no call is under way outside a session, nothing is left of one:
\* a USB disconnect then finds no callback, a start finds no aggregator
\* running, and the ground altitude is sampled.
InactiveReleases ==
  calm /\ Quiescent /\ state \in Ready =>
    /\ ~running /\ file = 0 /\ ~accel /\ ground
    /\ ~usbMode /\ ~tty /\ ~callback

\* Comment in logger_start(): "Disable BLE radio during active logging".  A BLE
\* command brings it back for its response, and a deferred stop takes it away.
RadioSilent ==
  calm /\ Quiescent /\ state \in Active /\ ~usbMode /\ ~stopWork => ~radio

\* Whatever the threads do, a session that a logger_stop() has ended does not
\* come back to life, so no two teardowns are for the same session.
EndedForGood == state \in Active => session \notin ended

\* Every path of the locked parts gives the lock back.
Unlocks == \A t \in Threads : lock = t ~> lock # t

\* A call returns, in particular from the join of the aggregator's thread.
CallsReturn == \A t \in Threads : Busy(t) ~> ~Busy(t) \/ ~calm

\* Comment in logger_stop(): "Re-enable BLE radio now that logging has stopped
\* ... This makes the device discoverable again for file transfer."
RadioBack == calm /\ Quiescent /\ state \in Ready => radio

\* What Session promises holds here whatever the threads do: no session begins
\* over another, a jump is marked in the session it happened in, and each step
\* of a call is one of the promised operations or leaves the control alone.
\* logger_get_state() answers what the promise says it does.
S == INSTANCE Session
       WITH begun <- session, current <- IF state \in Active THEN session ELSE 0,
            jumped <- state = "JUMPED", armed <- state = "ARMED", over <- ended

SessionsImplemented == S!SessionSpec /\ [](S!LoggerState = state)
=============================================================================
