--------------------------- MODULE InterfacesProofs ---------------------------
(***************************************************************************)
(* Theorems about the parts that face the user, the phone and the host:    *)
(* TestAlarm, UsbPort, Radio and Status.  For any length of hour and delay *)
(* and any number of alarms and lines, any threads and any size of the     *)
(* event queue: the types, together too; that a jump is not marked early;  *)
(* that the USB port has one owner, unless its users overlap; and that the *)
(* radio follows the last call, as far as the stack does what it is asked, *)
(* unless calls race.                                                      *)
(***************************************************************************)
EXTENDS MCInterfaces, SequenceTheorems, TLAPS

-----------------------------------------------------------------------------
(* The test alarm *)

Count(b) == IF b THEN 1 ELSE 0

\* While a handler that found a target is on its way, a queued pulse is one of
\* those since; the countdown has gone down once for a pulse at most, and not for
\* the one that is queued.  At MaxDelay, where the count of pulses is capped, no
\* jump can be early.
AlarmInv ==
  /\ pc \in {"begin", "start", "arm", "log", "began", "count"} =>
       since >= MaxDelay \/ Count(queued) <= since
  /\ pc = "begin" => alarm.state = "START"
  /\ calm /\ alarm.state = "JUMP" /\ pc = "idle" =>
       since >= MaxDelay \/ alarm.delay - alarm.count + Count(queued) <= since
  /\ calm /\ pc = "wait" =>
       since >= MaxDelay \/ alarm.delay - alarm.count + 1 + Count(queued) <= since
  /\ JumpNotEarly

LEMMA AlarmTypeInit == AlarmInit => AlarmTypeOK
<1> SUFFICES ASSUME AlarmInit PROVE AlarmTypeOK
  OBVIOUS
<1>1. queued \in BOOLEAN /\ calm \in BOOLEAN
  BY Zenon DEF AlarmInit
<1>2. QED
  BY <1>1, AlarmAssumption DEF AlarmInit, AlarmTypeOK, Steps

LEMMA AlarmTypeStep == AlarmTypeOK /\ [AlarmNext]_alarmVars => AlarmTypeOK'
<1> SUFFICES ASSUME AlarmTypeOK, [AlarmNext]_alarmVars PROVE AlarmTypeOK'
  OBVIOUS
<1> USE AlarmAssumption DEF AlarmTypeOK
<1>1. ASSUME TimeFix PROVE AlarmTypeOK'
  BY <1>1 DEF TimeFix
<1>2. ASSUME SecondPasses, queued' \in BOOLEAN, since' \in 0..MaxDelay, pc' = pc
      PROVE  AlarmTypeOK'
  BY <1>2 DEF SecondPasses
<1>3. ASSUME Pulse \/ NoPulse PROVE AlarmTypeOK'
  <2>1. queued' \in BOOLEAN
    BY <1>3, Zenon DEF Pulse, NoPulse
  <2>2. QED
    BY <1>3, <2>1, <1>2 DEF Pulse, NoPulse
<1>4. ASSUME SetAlarm PROVE AlarmTypeOK'
  <2>1. PICK mmss \in 0..(Hour - 1), delay \in 0..MaxDelay :
          /\ alarm' = [state |-> "START", delay |-> delay, count |-> 0]
          /\ left' = IF Ahead(mmss) > age THEN Ahead(mmss) - age ELSE -1
    BY <1>4 DEF SetAlarm
  <2>2. Ahead(mmss) \in 0..Hour
    BY <1>4 DEF SetAlarm, Ahead
  <2>3. left' \in -1..Hour
    BY <2>1, <2>2
  <2>4. calm' \in BOOLEAN
    BY <1>4, Zenon DEF SetAlarm
  <2>5. QED
    BY <1>4, <2>1, <2>3, <2>4 DEF SetAlarm
<1>5. ASSUME HandlerStep PROVE AlarmTypeOK'
  <2>1. alarm' \in [state : {"IDLE", "START", "JUMP"}, delay : 0..MaxDelay, count : 0..MaxDelay]
    <3>1. CASE StartCountdown
      BY <3>1 DEF StartCountdown
    <3>2. CASE Decrement
      BY <3>2 DEF Decrement
    <3>3. ASSUME alarm' = alarm \/ \E s \in {"IDLE", "JUMP"} : SetState(s)
          PROVE  alarm' \in [state : {"IDLE", "START", "JUMP"}, delay : 0..MaxDelay, count : 0..MaxDelay]
      BY <3>3 DEF SetState
    <3>4. CASE TakeItem \/ CompareTarget \/ AskState \/ ArmLogger \/ StartLogger \/ ReadDelay \/ Jump
      BY <3>3, <3>4 DEF TakeItem, CompareTarget, AskState, ArmLogger, StartLogger, ReadDelay, Jump
    <3>5. QED
      BY <1>5, <3>1, <3>2, <3>4 DEF HandlerStep
  <2>2. queued' \in BOOLEAN /\ calm' \in BOOLEAN
    BY <1>5, Zenon DEF HandlerStep, TakeItem, CompareTarget, AskState, ArmLogger, StartLogger,
         ReadDelay, StartCountdown, Decrement, Jump, Quiet
  <2>3. pc' \in Steps /\ UNCHANGED <<corr, age, left, sets>>
    BY <1>5 DEF HandlerStep, TakeItem, CompareTarget, AskState, ArmLogger, StartLogger, ReadDelay,
         StartCountdown, Decrement, Jump, Handler, Steps
  <2>4. since' \in 0..MaxDelay
    BY <1>5 DEF HandlerStep, TakeItem, CompareTarget, AskState, ArmLogger, StartLogger, ReadDelay,
         StartCountdown, Decrement, Jump, Quiet
  <2>5. QED
    BY <2>1, <2>2, <2>3, <2>4
<1>6. ASSUME UNCHANGED alarmVars PROVE AlarmTypeOK'
  BY <1>6 DEF alarmVars
<1>7. QED
  BY <1>1, <1>3, <1>4, <1>5, <1>6 DEF AlarmNext

LEMMA AlarmInvInit == AlarmInit => AlarmInv
BY AlarmAssumption DEF AlarmInit, AlarmInv, JumpNotEarly

LEMMA AlarmInvStep == AlarmTypeOK /\ AlarmInv /\ [AlarmNext]_alarmVars => AlarmInv'
<1> SUFFICES ASSUME AlarmTypeOK, AlarmInv, [AlarmNext]_alarmVars PROVE AlarmInv'
  OBVIOUS
<1> USE AlarmAssumption DEF AlarmTypeOK, AlarmInv, JumpNotEarly, Count
<1>1. ASSUME TimeFix PROVE AlarmInv'
  BY <1>1 DEF TimeFix
<1>2. ASSUME Pulse PROVE AlarmInv'
  BY <1>2 DEF Pulse, SecondPasses
<1>3. ASSUME NoPulse PROVE AlarmInv'
  BY <1>3 DEF NoPulse, SecondPasses
<1>4. ASSUME SetAlarm PROVE AlarmInv'
  <2>1. alarm'.state = "START" /\ UNCHANGED <<queued, pc, since>>
    BY <1>4 DEF SetAlarm
  <2>2. calm' => pc = "idle"
    BY <1>4, Zenon DEF SetAlarm
  <2>3. QED
    BY <2>1, <2>2
<1>5. ASSUME TakeItem PROVE AlarmInv'
  BY <1>5 DEF TakeItem, Handler
<1>6. ASSUME CompareTarget PROVE AlarmInv'
  BY <1>6 DEF CompareTarget, Handler
<1>7. ASSUME AskState \/ ArmLogger \/ StartLogger \/ ReadDelay \/ Jump PROVE AlarmInv'
  BY <1>7 DEF AskState, ArmLogger, StartLogger, ReadDelay, Jump, Handler, Quiet, SetState
<1>8. ASSUME StartCountdown PROVE AlarmInv'
  BY <1>8 DEF StartCountdown, Handler, Quiet
<1>9. ASSUME Decrement PROVE AlarmInv'
  BY <1>9 DEF Decrement, Handler, Quiet
<1>10. ASSUME UNCHANGED alarmVars PROVE AlarmInv'
  BY <1>10 DEF alarmVars
<1>11. QED
  BY <1>1, <1>2, <1>3, <1>4, <1>5, <1>6, <1>7, <1>8, <1>9, <1>10 DEF AlarmNext, HandlerStep

\* The alarm's state, countdown and delay have their types: in particular the
\* unsigned countdown (mcumgr_custom.c:92) never passes zero, whenever a command
\* resets it.
THEOREM AlarmTypes == AlarmSpec => []AlarmTypeOK
BY AlarmTypeInit, AlarmTypeStep, PTL DEF AlarmSpec

\* The jump is marked no earlier than the delay asked for (timebase.c,
\* test_alarm_work_handler()).
THEOREM JumpKeepsDelay == AlarmSpec => []JumpNotEarly
<1>1. AlarmInv => JumpNotEarly
  BY DEF AlarmInv
<1>2. QED
  BY AlarmTypeInit, AlarmTypeStep, AlarmInvInit, AlarmInvStep, <1>1, PTL DEF AlarmSpec

-----------------------------------------------------------------------------
(* The USB serial port *)

UsbFlags ==
  \A b \in {configured, enabled, open, dtr, polling, notice, usbMode, pressed, streaming,
            commands, rxWork, overlap} : b \in BOOLEAN

\* Every variable of the port that is a flag is left alone, set, reset, or set
\* to a condition.
LEMMA UsbFlagsStep == UsbFlags /\ [UsbNext]_usbPortVars => UsbFlags'
<1> SUFFICES ASSUME UsbFlags, [UsbNext]_usbPortVars PROVE UsbFlags'
  OBVIOUS
<1> USE DEF UsbNext, ButtonThread, Starting, Stopping, LongPress, StartUsb, CallStop, StopTestState,
        StopLogging, OpenForLog, RegisterLog, StartAggregator, StopTestMode, StopClose,
        StopUnregister, StopClear, OtherCalls, StartOnCard, ArmAnyState, DisarmArmed, ShortPress,
        ShortPressWork, OpenForCal, CalStart, CalCommands, CalRegister, CalStop, CalQuiet,
        CalClose, Attach, Terminal, HostGone, DtrPoll, DisconnectWork, LineIn, RxLineWork,
        UsbTtyOpen, UsbTtyClose, usbPortVars, hostVars, portVars, userVars, rxVars
<1>1. /\ configured' = configured \/ configured' = enabled \/ configured' = FALSE
      /\ enabled' = enabled
  BY Zenon
<1>2. open' = open \/ open' = TRUE \/ open' = FALSE
  BY Zenon
<1>3. dtr' = dtr \/ dtr' = TRUE \/ dtr' = (host = "terminal")
  BY Zenon
<1>4. \/ polling' = polling \/ polling' = TRUE \/ polling' = FALSE
      \/ polling' = (open /\ ~(dtr /\ ~(host = "terminal")))
  BY Zenon
<1>5. \/ notice' = notice \/ notice' = FALSE \/ notice' = (notice \/ (configured /\ open))
      \/ notice' = (notice \/ (dtr /\ ~(host = "terminal") /\ open))
  BY Zenon
<1>6. \/ usbMode' = usbMode \/ usbMode' = TRUE \/ usbMode' = FALSE
      \/ usbMode' = (usbMode /\ IsConnected)
  BY Zenon
<1>7. /\ pressed' = pressed \/ pressed' = TRUE \/ pressed' = FALSE
      /\ streaming' = streaming \/ streaming' = TRUE \/ streaming' = FALSE
      /\ commands' = commands \/ commands' = TRUE \/ commands' = FALSE
      /\ rxWork' = rxWork \/ rxWork' = TRUE \/ rxWork' = FALSE
  BY Zenon
<1>8. overlap' = overlap \/ \E b : overlap' = (overlap \/ b)
  BY Zenon
<1>9. configured' \in BOOLEAN /\ enabled' \in BOOLEAN /\ open' \in BOOLEAN /\ dtr' \in BOOLEAN
  BY <1>1, <1>2, <1>3, Zenon DEF UsbFlags
<1>10. polling' \in BOOLEAN /\ notice' \in BOOLEAN /\ usbMode' \in BOOLEAN
  BY <1>4, <1>5, <1>6, Zenon DEF UsbFlags
<1>11. pressed' \in BOOLEAN /\ streaming' \in BOOLEAN /\ commands' \in BOOLEAN /\ rxWork' \in BOOLEAN
  BY <1>7, Zenon DEF UsbFlags
<1>12. overlap' \in BOOLEAN
  <2>1. \A b : (overlap \/ b) \in BOOLEAN
    OBVIOUS
  <2>2. QED
    BY <1>8, <2>1, Zenon DEF UsbFlags
<1>13. QED
  BY <1>9, <1>10, <1>11, <1>12 DEF UsbFlags

LEMMA UsbTypeInit == UsbInit => UsbTypeOK
<1> SUFFICES ASSUME UsbInit PROVE UsbTypeOK
  OBVIOUS
<1>1. UsbFlags
  BY Zenon DEF UsbInit, UsbFlags
<1>2. at \in [UsbThreads -> UsbPlaces]
  BY DEF UsbInit, UsbPlaces
<1>3. QED
  BY <1>1, <1>2, LinesAssumption DEF UsbInit, UsbTypeOK, UsbFlags

LEMMA UsbTypeStep == UsbTypeOK /\ [UsbNext]_usbPortVars => UsbTypeOK'
<1> SUFFICES ASSUME UsbTypeOK, [UsbNext]_usbPortVars PROVE UsbTypeOK'
  OBVIOUS
<1>1. UsbFlags'
  BY UsbFlagsStep, Zenon DEF UsbFlags, UsbTypeOK
<1>2. ASSUME NEW t \in UsbThreads, NEW from, NEW to \in UsbPlaces, Go(t, from, to)
      PROVE  at' \in [UsbThreads -> UsbPlaces]
  BY <1>2 DEF Go, UsbTypeOK
<1>3. at' \in [UsbThreads -> UsbPlaces]
  <2>1. \/ \E t \in UsbThreads, from \in UsbPlaces, to \in UsbPlaces : Go(t, from, to)
        \/ at' = at
    <3>1. ButtonQueue \in UsbThreads /\ SystemQueue \in UsbThreads
      BY DEF UsbThreads
    <3>2. ASSUME NEW t \in UsbThreads, Stopping(t) \/ CallStop(t)
          PROVE  \E from \in UsbPlaces, to \in UsbPlaces : Go(t, from, to)
      BY <3>2 DEF Stopping, CallStop, StopTestState, StopTestMode, StopClose, StopUnregister,
           StopClear, CalStop, CalQuiet, CalClose, UsbPlaces
    <3>3. CASE Starting
      BY <3>1, <3>3 DEF Starting, OpenForLog, RegisterLog, StartAggregator, OpenForCal, CalStart,
           CalCommands, CalRegister, UsbPlaces
    <3>4. CASE StartUsb \/ ShortPressWork
      BY <3>1, <3>4 DEF StartUsb, ShortPressWork, UsbPlaces
    <3>5. CASE DisconnectWork \/ StopLogging
      BY <3>1, <3>5 DEF DisconnectWork, StopLogging, StopTestState, UsbPlaces
    <3>6. CASE UNCHANGED at
      BY <3>6
    <3>7. UsbOthers \subseteq UsbThreads
      BY DEF UsbThreads
    <3>8. QED
      BY <3>1, <3>2, <3>3, <3>4, <3>5, <3>6, <3>7 DEF UsbNext, ButtonThread, LongPress, OtherCalls,
           ShortPress, Attach, Terminal, HostGone, DtrPoll, LineIn, RxLineWork, usbPortVars, userVars
  <2>2. QED
    BY <1>2, <2>1 DEF UsbTypeOK
<1> USE DEF UsbNext, ButtonThread, Starting, Stopping, LongPress, StartUsb, CallStop, StopTestState,
        StopLogging, OpenForLog, RegisterLog, StartAggregator, StopTestMode, StopClose,
        StopUnregister, StopClear, OtherCalls, StartOnCard, ArmAnyState, DisarmArmed, ShortPress,
        ShortPressWork, OpenForCal, CalStart, CalCommands, CalRegister, CalStop, CalQuiet,
        CalClose, Attach, Terminal, HostGone, DtrPoll, DisconnectWork, LineIn, RxLineWork,
        usbPortVars, hostVars, portVars, userVars, rxVars
<1>4. host' \in {"none", "attached", "terminal"}
  <2>1. \/ host' = host \/ host' \in {"attached", "terminal"} \/ host' \in {"none", host}
    BY Zenon
  <2>2. QED
    BY <2>1 DEF UsbTypeOK
<1>5. callback' \in {"none", "log", "cal"}
  <2>1. callback' = callback \/ callback' = "none" \/ callback' = "log" \/ callback' = "cal"
    BY Zenon
  <2>2. QED
    BY <2>1 DEF UsbTypeOK
<1>6. logState' \in {"idle", "armed", "file", "usb"}
  <2>1. logState' \in {logState, "idle", "armed", "file", "usb"}
    BY Zenon
  <2>2. QED
    BY <2>1 DEF UsbTypeOK
<1>7. unread' \in 0..MaxLines
  <2>1. unread' = unread \/ (unread < MaxLines /\ unread' = unread + 1) \/ unread' = 0
    BY Zenon
  <2>2. unread \in 0..MaxLines
    BY DEF UsbTypeOK
  <2>3. QED
    BY ONLY <2>1, <2>2, LinesAssumption
<1>8. QED
  BY <1>1, <1>3, <1>4, <1>5, <1>6, <1>7, Zenon DEF UsbTypeOK, UsbFlags

\* Only the button's queue starts anything, and without USB nothing gets as far as
\* the port.
UsbRoles ==
  /\ \A t \in UsbThreads \ {ButtonQueue} :
       at[t] \in {"none", "stop", "test", "close", "unregister", "clear", "calStop", "calQuiet",
                 "calClose"}
  /\ \A t \in UsbOthers : at[t] \notin {"calStop", "calQuiet", "calClose"}
  /\ ~enabled =>
       /\ ~open /\ ~notice /\ ~usbMode /\ ~configured /\ at[SystemQueue] = "none"
       /\ \A t \in UsbThreads :
            at[t] \notin {"open", "register", "aggregate", "close", "unregister", "clear"}

Calm == \A t \in UsbThreads : ~Closing(t)

NoStop == \A t \in UsbThreads : at[t] # "test"

SessionStarts ==
  at[ButtonQueue] \in {"open", "register", "aggregate"} =>
    /\ Calm /\ NoStop /\ usbMode /\ logState # "usb" /\ ~streaming
    /\ (at[ButtonQueue] # "open" => open)
    /\ (at[ButtonQueue] = "aggregate" => callback = "log")

SessionOn ==
  logState = "usb" => Calm /\ NoStop /\ usbMode /\ open /\ callback = "log" /\ ~streaming

CalStarts ==
  /\ at[ButtonQueue] = "calOpen" => ~streaming
  /\ at[ButtonQueue] = "calStart" => ~streaming /\ (enabled => open)
  /\ at[ButtonQueue] = "calCommands" => streaming
  /\ at[ButtonQueue] \in {"calStart", "calCommands"} => Calm
  /\ at[ButtonQueue] \in {"calStart", "calCommands", "calRegister"} => ~usbMode

CalOn ==
  streaming =>
    /\ ~usbMode /\ (enabled => open)
    /\ \A t \in UsbThreads :
         at[t] \notin {"close", "unregister", "clear", "calQuiet", "calClose"}
    /\ at[ButtonQueue] \in {"calCommands", "calRegister"} \/ callback = "cal"
    /\ at[ButtonQueue] = "calCommands" \/ commands

CommandsOn == commands => streaming \/ \E t \in UsbThreads : at[t] = "calQuiet"

\* Somebody is on, or is about to close what is open.
OpenFor ==
  open =>
    \/ logState = "usb" \/ streaming
    \/ at[ButtonQueue] \in {"register", "aggregate", "calStart"}
    \/ \E t \in UsbThreads : at[t] \in {"close", "calQuiet", "calClose"}
    \/ usbMode /\ \E t \in UsbThreads : at[t] = "test"

Closed == \A t \in UsbThreads : at[t] \in {"unregister", "clear"} => ~open

\* Until an overlap, who has the port is told by the state and by where the
\* threads are.
PortInv ==
  /\ UsbRoles
  /\ ~overlap => /\ SessionStarts /\ SessionOn /\ CalStarts /\ CalOn /\ CommandsOn
                 /\ OpenFor /\ Closed

\* Where a step leaves the threads.
LEMMA GoMoves ==
  ASSUME UsbTypeOK, NEW t \in UsbThreads, NEW from, NEW to, Go(t, from, to)
  PROVE  /\ at[t] = from /\ at'[t] = to
         /\ \A s \in UsbThreads \ {t} : at'[s] = at[s]
BY DEF Go, UsbTypeOK

LEMMA PortInvInit == UsbInit => PortInv
BY DEF UsbInit, PortInv, UsbRoles, SessionStarts, SessionOn, CalStarts, CalOn, CommandsOn,
   OpenFor, Closed, UsbThreads

StopPlaces == {"none", "stop", "test", "close", "unregister", "clear", "calStop", "calQuiet", "calClose"}

Roles(t, to) ==
  /\ t # ButtonQueue => to \in StopPlaces
  /\ t \in UsbOthers => to \notin {"calStop", "calQuiet", "calClose"}
  /\ ~enabled => /\ t # SystemQueue \/ to = "none"
                 /\ to \notin {"open", "register", "aggregate", "close", "unregister", "clear"}

LEMMA RolesMove ==
  ASSUME UsbTypeOK, UsbRoles, NEW t \in UsbThreads, NEW from, NEW to, Go(t, from, to),
         Roles(t, to), enabled' = enabled,
         ~enabled => ~open' /\ ~notice' /\ ~usbMode' /\ ~configured'
  PROVE  UsbRoles'
<1>1. at'[t] = to /\ \A s \in UsbThreads \ {t} : at'[s] = at[s]
  BY GoMoves
<1>2. SystemQueue \in UsbThreads /\ UsbOthers \subseteq UsbThreads
  BY DEF UsbThreads
<1>3. \A s \in UsbThreads \ {ButtonQueue} : at'[s] \in StopPlaces
  BY <1>1, SMT DEF UsbRoles, Roles, StopPlaces
<1>4. \A s \in UsbOthers : at'[s] \notin {"calStop", "calQuiet", "calClose"}
  BY <1>1, <1>2, SMT DEF UsbRoles, Roles
<1>5. ~enabled' => at'[SystemQueue] = "none" /\ \A s \in UsbThreads :
        at'[s] \notin {"open", "register", "aggregate", "close", "unregister", "clear"}
  BY <1>1, <1>2, SMT DEF UsbRoles, Roles
<1>6. QED
  BY <1>3, <1>4, <1>5, Zenon DEF UsbRoles, StopPlaces

LEMMA UsbRolesStep == UsbTypeOK /\ UsbRoles /\ [UsbNext]_usbPortVars => UsbRoles'
<1> SUFFICES ASSUME UsbTypeOK, UsbRoles, [UsbNext]_usbPortVars PROVE UsbRoles'
  OBVIOUS
<1>0. ButtonQueue \in UsbThreads /\ SystemQueue \in UsbThreads /\ ButtonQueue # SystemQueue
      /\ UsbOthers \subseteq UsbThreads /\ ButtonQueue \notin UsbOthers /\ SystemQueue \notin UsbOthers
  BY OthersAssumption DEF UsbThreads, ButtonQueue, SystemQueue
<1>1. ASSUME NEW t \in UsbThreads, Stopping(t) PROVE UsbRoles'
  <2>1. at[t] # "none" /\ (t = SystemQueue => enabled) /\ (at[t] \in {"close", "unregister", "clear"} => enabled)
    BY <1>1 DEF Stopping, StopTestMode, StopClose, StopUnregister, StopClear, CalStop, CalQuiet,
         CalClose, Go, UsbRoles
  <2>2. t \in UsbOthers => at[t] \notin {"calStop", "calQuiet", "calClose"}
    BY DEF UsbRoles
  <2>3. UNCHANGED <<enabled, notice, configured>>
        /\ (open' = open \/ open' = FALSE) /\ (usbMode' = usbMode \/ usbMode' = FALSE)
    BY <1>1, Zenon DEF Stopping, StopTestMode, StopClose, StopUnregister, StopClear, CalStop,
         CalQuiet, CalClose, UsbTtyClose, hostVars, portVars
  <2>4. ~enabled => ~open' /\ ~notice' /\ ~usbMode' /\ ~configured'
    BY <2>3, Zenon DEF UsbRoles
  <2>5. ~enabled => ~usbMode
    BY Zenon DEF UsbRoles
  <2>6. \E from, to : Go(t, from, to) /\ Roles(t, to)
    BY <1>0, <1>1, <2>1, <2>2, <2>5 DEF Stopping, StopTestMode, StopClose, StopUnregister, StopClear,
         CalStop, CalQuiet, CalClose, Go, Roles, StopPlaces
  <2>7. QED
    BY <2>3, <2>4, <2>6, RolesMove
<1>2. ASSUME NEW t \in UsbThreads,
             (CallStop(t) /\ t # SystemQueue) \/ (StopLogging /\ t = SystemQueue)
      PROVE  UsbRoles'
  <2>1. PICK from \in {"none", "stop"}, to \in {"none", "test"} :
          Go(t, from, to) /\ (t = SystemQueue => from = "stop")
    BY <1>2 DEF CallStop, StopTestState, StopLogging
  <2>2. UNCHANGED <<enabled, notice, configured, open, usbMode>>
    BY <1>2, Zenon DEF CallStop, StopTestState, StopLogging, hostVars, portVars
  <2>3. t = SystemQueue => enabled
    BY <2>1 DEF Go, UsbRoles
  <2>4. Roles(t, to)
    BY <2>3 DEF Roles, StopPlaces
  <2>5. ~enabled => ~open' /\ ~notice' /\ ~usbMode' /\ ~configured'
    BY <2>2, Zenon DEF UsbRoles
  <2>6. QED
    BY <2>1, <2>2, <2>4, <2>5, RolesMove
<1>3. ASSUME Starting PROVE UsbRoles'
  <2>1. enabled \/ at[ButtonQueue] \notin {"open", "register", "aggregate"}
    BY <1>0 DEF UsbRoles
  <2>2. UNCHANGED <<enabled, notice, configured>>
    BY <1>3, Zenon DEF Starting, OpenForLog, RegisterLog, StartAggregator, OpenForCal, CalStart,
         CalCommands, CalRegister, hostVars, portVars
  <2>3. enabled \/ OpenForCal \/ CalStart \/ CalCommands \/ CalRegister
    BY <1>3, <2>1 DEF Starting, OpenForLog, RegisterLog, StartAggregator, Go
  <2>4. ~enabled => open' = open /\ usbMode' = usbMode
    BY <2>3, Zenon DEF OpenForCal, CalStart, CalCommands, CalRegister, IsConnected, portVars
  <2>5. ~enabled => ~open' /\ ~notice' /\ ~usbMode' /\ ~configured'
    BY <2>2, <2>4, Zenon DEF UsbRoles
  <2>6. \E from, to : Go(ButtonQueue, from, to) /\ Roles(ButtonQueue, to)
    BY <1>0, <1>3, <2>1 DEF Starting, OpenForLog, RegisterLog, StartAggregator, OpenForCal, CalStart,
         CalCommands, CalRegister, Go, Roles
  <2>7. QED
    BY <1>0, <2>2, <2>5, <2>6, RolesMove
<1>4. CASE StartUsb
  <2>1. Go(ButtonQueue, "none", "open") /\ Roles(ButtonQueue, "open")
    BY <1>0, <1>4 DEF StartUsb, IsConnected, Roles
  <2>2. enabled /\ enabled' = enabled
    BY <1>4, Zenon DEF StartUsb, IsConnected, hostVars
  <2>3. QED
    BY <1>0, <2>1, <2>2, RolesMove
<1>5. CASE ShortPressWork
  <2>1. PICK to \in {"none", "calStop", "calOpen"} : Go(ButtonQueue, "none", to)
    BY <1>5 DEF ShortPressWork
  <2>2. Roles(ButtonQueue, to)
    BY <1>0 DEF Roles
  <2>3. UNCHANGED <<enabled, notice, configured, open, usbMode>>
    BY <1>5, Zenon DEF ShortPressWork, hostVars, portVars
  <2>4. ~enabled => ~open' /\ ~notice' /\ ~usbMode' /\ ~configured'
    BY <2>3, Zenon DEF UsbRoles
  <2>5. QED
    BY <1>0, <2>1, <2>2, <2>3, <2>4, RolesMove
<1>6. CASE DisconnectWork
  <2>1. PICK to \in {"none", "stop", "calStop"} : Go(SystemQueue, "none", to)
    BY <1>6 DEF DisconnectWork
  <2>2. enabled /\ enabled' = enabled
    BY <1>6, Zenon DEF DisconnectWork, hostVars, UsbRoles
  <2>3. Roles(SystemQueue, to)
    BY <1>0, <2>2 DEF Roles, StopPlaces
  <2>4. QED
    BY <1>0, <2>1, <2>2, <2>3, RolesMove
<1>7. CASE DtrPoll \/ HostGone \/ Attach
  <2>1. UNCHANGED <<enabled, open, usbMode, at>>
    BY <1>7, Zenon DEF DtrPoll, HostGone, Attach, hostVars, portVars, userVars
  <2>2. ~enabled => ~notice' /\ ~configured'
    BY <1>7, Zenon DEF DtrPoll, HostGone, Attach, hostVars, portVars, userVars, UsbRoles
  <2>3. QED
    BY <2>1, <2>2, Zenon DEF UsbRoles
<1>8. CASE UNCHANGED <<enabled, open, notice, usbMode, configured, at>>
  BY <1>8, Zenon DEF UsbRoles
<1>9. QED
  BY <1>0, <1>1, <1>2, <1>3, <1>4, <1>5, <1>6, <1>7, <1>8 DEF UsbNext, ButtonThread, LongPress,
     OtherCalls, ShortPress, Terminal, LineIn, RxLineWork, usbPortVars, userVars, hostVars, portVars

PortIs ==
  /\ SessionStarts /\ SessionOn /\ CalStarts /\ CalOn /\ CommandsOn /\ OpenFor /\ Closed

LEMMA StoppingKeeps ==
  ASSUME UsbTypeOK, UsbRoles, PortIs, NEW t \in UsbThreads, Stopping(t)
  PROVE  PortIs'
<1> USE DEF PortIs, SessionStarts, SessionOn, CalStarts, CalOn, CommandsOn, OpenFor, Closed, Calm,
        NoStop, Closing
<1>0. ButtonQueue \in UsbThreads /\ SystemQueue \in UsbThreads
  BY DEF UsbThreads
<1>1. CASE StopTestMode(t)
  <2>1. at[t] = "test" /\ at'[t] = (IF usbMode THEN "close" ELSE "none")
        /\ \A s \in UsbThreads \ {t} : at'[s] = at[s]
    BY <1>1, GoMoves DEF StopTestMode
  <2>2. UNCHANGED <<open, callback, logState, usbMode, streaming, commands, enabled>>
    BY <1>1 DEF StopTestMode, portVars, hostVars
  <2>3. QED
    BY <1>0, <2>1, <2>2
<1>2. CASE StopClose(t)
  <2>1. at[t] = "close" /\ at'[t] = "unregister" /\ \A s \in UsbThreads \ {t} : at'[s] = at[s]
    BY <1>2, GoMoves DEF StopClose
  <2>2. ~open' /\ UNCHANGED <<callback, logState, usbMode, streaming, commands, enabled>>
    BY <1>2 DEF StopClose, UsbTtyClose, hostVars
  <2>3. QED
    BY <1>0, <2>1, <2>2
<1>3. CASE StopUnregister(t)
  <2>1. at[t] = "unregister" /\ at'[t] = "clear" /\ \A s \in UsbThreads \ {t} : at'[s] = at[s]
    BY <1>3, GoMoves DEF StopUnregister
  <2>2. UNCHANGED <<open, logState, usbMode, streaming, commands, enabled>>
    BY <1>3 DEF StopUnregister, hostVars
  <2>3. QED
    BY <1>0, <2>1, <2>2
<1>4. CASE StopClear(t)
  <2>1. at[t] = "clear" /\ at'[t] = "none" /\ \A s \in UsbThreads \ {t} : at'[s] = at[s]
    BY <1>4, GoMoves DEF StopClear
  <2>2. ~usbMode' /\ UNCHANGED <<open, callback, logState, streaming, commands, enabled>>
    BY <1>4 DEF StopClear, hostVars, portVars
  <2>3. QED
    BY <1>0, <2>1, <2>2
<1>5. CASE CalStop(t)
  <2>1. at[t] = "calStop" /\ at'[t] = "calQuiet" /\ \A s \in UsbThreads \ {t} : at'[s] = at[s]
    BY <1>5, GoMoves DEF CalStop
  <2>2. ~streaming' /\ UNCHANGED <<open, callback, logState, usbMode, commands, enabled>>
    BY <1>5 DEF CalStop, hostVars, portVars
  <2>3. CommandsOn' /\ CalOn' /\ Closed'
    BY <2>1, <2>2
  <2>4. SessionStarts' /\ SessionOn'
    BY <1>0, <2>1, <2>2
  <2>5. CalStarts'
    <3>1. at[ButtonQueue] \notin {"calStart", "calCommands"}
      BY <2>1
    <3>2. at'[ButtonQueue] \in {"calQuiet", at[ButtonQueue]}
      BY <1>0, <2>1
    <3>3. at'[ButtonQueue] \notin {"calStart", "calCommands"}
      BY <3>1, <3>2
    <3>4. QED
      BY <2>2, <3>2, <3>3
  <2>6. OpenFor'
    <3>1. \E s \in UsbThreads : at'[s] \in {"close", "calQuiet", "calClose"}
      BY <2>1
    <3>2. QED
      BY <3>1
  <2>7. QED
    BY <2>3, <2>4, <2>5, <2>6
<1>6. CASE CalQuiet(t)
  <2>1. at[t] = "calQuiet" /\ at'[t] = "calClose" /\ \A s \in UsbThreads \ {t} : at'[s] = at[s]
    BY <1>6, GoMoves DEF CalQuiet
  <2>2. ~commands' /\ UNCHANGED <<open, callback, logState, usbMode, streaming, enabled>>
    BY <1>6 DEF CalQuiet, hostVars, portVars
  <2>3. QED
    BY <1>0, <2>1, <2>2
<1>7. CASE CalClose(t)
  <2>1. at[t] = "calClose" /\ at'[t] = "none" /\ \A s \in UsbThreads \ {t} : at'[s] = at[s]
    BY <1>7, GoMoves DEF CalClose
  <2>2. ~open' /\ UNCHANGED <<callback, logState, usbMode, streaming, commands, enabled>>
    BY <1>7 DEF CalClose, UsbTtyClose, hostVars
  <2>3. QED
    BY <1>0, <2>1, <2>2
<1>8. QED
  BY <1>1, <1>2, <1>3, <1>4, <1>5, <1>6, <1>7 DEF Stopping

LEMMA StartingKeeps ==
  ASSUME UsbTypeOK, UsbRoles, ~overlap => PortIs, Starting, ~overlap'
  PROVE  PortIs'
<1>a. overlap \in BOOLEAN
  BY DEF UsbTypeOK
<1>b. ~overlap
  BY Zenon DEF Starting, OpenForLog, RegisterLog, StartAggregator, OpenForCal, CalStart, CalCommands,
     CalRegister
<1> USE <1>b DEF PortIs, SessionStarts, SessionOn, CalStarts, CalOn, CommandsOn, OpenFor, Closed, Calm,
        NoStop, Closing
<1>0. ButtonQueue \in UsbThreads /\ SystemQueue \in UsbThreads
  BY DEF UsbThreads
<1>1. CASE OpenForLog
  <2>1. at[ButtonQueue] = "open" /\ at'[ButtonQueue] = (IF IsConnected THEN "register" ELSE "none")
        /\ \A s \in UsbThreads \ {ButtonQueue} : at'[s] = at[s]
    BY <1>0, <1>1, GoMoves DEF OpenForLog
  <2>2. UNCHANGED <<callback, logState, streaming, commands, enabled>>
    BY <1>1 DEF OpenForLog, hostVars
  <2>3. CASE IsConnected
    <3>1. open'
      BY <1>1, <2>3, Zenon DEF OpenForLog, UsbTtyOpen
    <3>2. usbMode' = (usbMode /\ TRUE)
      BY <1>1, <2>3, Zenon DEF OpenForLog
    <3>3. usbMode'
      BY <1>0, <2>1, <3>2
    <3>4. QED
      BY <1>0, <2>1, <2>2, <2>3, <3>1, <3>3
  <2>4. CASE ~IsConnected
    <3>1. ~usbMode' /\ open' = open
      BY <1>1, <2>4, Zenon DEF OpenForLog
    <3>2. QED
      BY <1>0, <2>1, <2>2, <2>4, <3>1
  <2>5. QED
    BY <2>3, <2>4
<1>2. CASE RegisterLog
  <2>1. at[ButtonQueue] = "register" /\ at'[ButtonQueue] = "aggregate"
        /\ \A s \in UsbThreads \ {ButtonQueue} : at'[s] = at[s]
    BY <1>0, <1>2, GoMoves DEF RegisterLog
  <2>2. callback' = "log" /\ UNCHANGED <<open, logState, usbMode, streaming, commands, enabled>>
    BY <1>2 DEF RegisterLog, hostVars
  <2>3. QED
    BY <1>0, <2>1, <2>2
<1>3. CASE StartAggregator
  <2>1. at[ButtonQueue] = "aggregate" /\ at'[ButtonQueue] = "none"
        /\ \A s \in UsbThreads \ {ButtonQueue} : at'[s] = at[s]
    BY <1>0, <1>3, GoMoves DEF StartAggregator
  <2>2. UNCHANGED <<callback, streaming, commands, enabled>>
    BY <1>3 DEF StartAggregator, hostVars
  <2>3. CASE logState' = "usb" /\ UNCHANGED <<open, usbMode>>
    BY <1>0, <2>1, <2>2, <2>3
  <2>4. CASE ~usbMode' /\ ~open' /\ logState' = logState
    BY <1>0, <2>1, <2>2, <2>4
  <2>5. QED
    BY <1>3, <2>3, <2>4, Zenon DEF StartAggregator, UsbTtyClose
<1>4. CASE OpenForCal
  <2>1. at[ButtonQueue] = "calOpen"
        /\ at'[ButtonQueue] = (IF enabled /\ ~IsConnected THEN "none" ELSE "calStart")
        /\ \A s \in UsbThreads \ {ButtonQueue} : at'[s] = at[s]
    BY <1>0, <1>4, GoMoves DEF OpenForCal
  <2>2. UNCHANGED <<callback, logState, usbMode, streaming, commands, enabled>>
    BY <1>4 DEF OpenForCal, hostVars
  <2>3. IsConnected => open' /\ ~usbMode /\ Calm /\ enabled
    BY <1>4, Zenon DEF OpenForCal, UsbTtyOpen, IsConnected
  <2>4. ~IsConnected => open' = open
    BY <1>4, Zenon DEF OpenForCal
  <2>5. CASE IsConnected
    BY <1>0, <2>1, <2>2, <2>3, <2>5
  <2>6. CASE enabled /\ ~IsConnected
    BY <1>0, <2>1, <2>2, <2>4, <2>6
  <2>7. CASE ~enabled
    <3>1. ~IsConnected
      BY <2>7 DEF IsConnected
    <3>2. ~usbMode /\ \A t \in UsbThreads : at[t] \notin {"close", "unregister", "clear"}
      BY <2>7 DEF UsbRoles
    <3>3. \A t \in UsbThreads : at[t] \notin {"calStop", "calQuiet", "calClose"}
      BY <2>1, <2>7 DEF UsbRoles, UsbThreads
    <3>4. QED
      BY <1>0, <2>1, <2>2, <2>4, <2>7, <3>1, <3>2, <3>3
  <2>8. QED
    BY <2>5, <2>6, <2>7
<1>5. CASE CalStart
  <2>1. at[ButtonQueue] = "calStart" /\ at'[ButtonQueue] = "calCommands"
        /\ \A s \in UsbThreads \ {ButtonQueue} : at'[s] = at[s]
    BY <1>0, <1>5, GoMoves DEF CalStart
  <2>2. streaming' /\ UNCHANGED <<open, callback, logState, usbMode, commands, enabled>>
    BY <1>5 DEF CalStart, hostVars, portVars
  <2>3. QED
    BY <1>0, <2>1, <2>2
<1>6. CASE CalCommands
  <2>1. at[ButtonQueue] = "calCommands" /\ at'[ButtonQueue] = "calRegister"
        /\ \A s \in UsbThreads \ {ButtonQueue} : at'[s] = at[s]
    BY <1>0, <1>6, GoMoves DEF CalCommands
  <2>2. commands' /\ UNCHANGED <<open, callback, logState, usbMode, streaming, enabled>>
    BY <1>6 DEF CalCommands, hostVars, portVars
  <2>3. QED
    BY <1>0, <2>1, <2>2
<1>7. CASE CalRegister
  <2>1. at[ButtonQueue] = "calRegister" /\ at'[ButtonQueue] = "none"
        /\ \A s \in UsbThreads \ {ButtonQueue} : at'[s] = at[s]
    BY <1>0, <1>7, GoMoves DEF CalRegister
  <2>2. callback' = "cal" /\ UNCHANGED <<open, logState, usbMode, streaming, commands, enabled>>
    BY <1>7 DEF CalRegister, hostVars
  <2>3. QED
    BY <1>0, <2>1, <2>2
<1>8. QED
  BY <1>1, <1>2, <1>3, <1>4, <1>5, <1>6, <1>7 DEF Starting

LEMMA StopTestKeeps ==
  ASSUME UsbTypeOK, ~overlap => PortIs, ~overlap', NEW t \in UsbThreads,
         NEW from, from \in {"none", "stop"}, StopTestState(t, from)
  PROVE  PortIs'
<1>1. ~overlap
  BY Zenon DEF StopTestState
<1> USE <1>1 DEF PortIs, SessionStarts, SessionOn, CalStarts, CalOn, CommandsOn, OpenFor, Closed, Calm,
        NoStop, Closing
<1>0. ButtonQueue \in UsbThreads /\ SystemQueue \in UsbThreads
  BY DEF UsbThreads
<1>2. UNCHANGED <<open, callback, usbMode, streaming, commands, enabled>>
      /\ at[ButtonQueue] \notin {"open", "register", "aggregate"}
  BY DEF StopTestState, hostVars, portVars, LockFree
<1>3. CASE logState \in {"file", "usb"}
  <2>1. at[t] = from /\ at'[t] = "test" /\ (\A s \in UsbThreads \ {t} : at'[s] = at[s])
        /\ logState' = "idle"
    BY <1>3, GoMoves DEF StopTestState
  <2>2. QED
    BY <1>0, <1>2, <1>3, <2>1
<1>4. CASE logState \notin {"file", "usb"}
  <2>1. at[t] = from /\ at'[t] = "none" /\ (\A s \in UsbThreads \ {t} : at'[s] = at[s])
        /\ logState' = logState
    BY <1>4, GoMoves DEF StopTestState
  <2>2. QED
    BY <1>0, <1>2, <1>4, <2>1
<1>5. QED
  BY <1>3, <1>4

LEMMA CallsKeep ==
  ASSUME UsbTypeOK, UsbRoles, ~overlap => PortIs, ~overlap',
         StartUsb \/ ShortPressWork \/ DisconnectWork \/ OtherCalls
  PROVE  PortIs'
<1>1. ~overlap
  BY Zenon DEF StartUsb, ShortPressWork, DisconnectWork, OtherCalls, StartOnCard, ArmAnyState,
     DisarmArmed
<1> USE <1>1 DEF PortIs, SessionStarts, SessionOn, CalStarts, CalOn, CommandsOn, OpenFor, Closed, Calm,
        NoStop, Closing
<1>0. ButtonQueue \in UsbThreads /\ SystemQueue \in UsbThreads
  BY DEF UsbThreads
<1>2. CASE StartUsb
  <2>1. at[ButtonQueue] = "none" /\ at'[ButtonQueue] = "open"
        /\ \A s \in UsbThreads \ {ButtonQueue} : at'[s] = at[s]
    BY <1>0, <1>2, GoMoves DEF StartUsb
  <2>2. usbMode' /\ UNCHANGED <<open, callback, logState, streaming, commands, enabled>>
    BY <1>2 DEF StartUsb, hostVars, portVars
  <2>3. ~streaming /\ NoStop /\ Calm
    BY <1>2, Zenon DEF StartUsb
  <2>4. logState # "usb"
    BY <1>2 DEF StartUsb
  <2>5. QED
    BY <1>0, <2>1, <2>2, <2>3, <2>4
<1>3. CASE ShortPressWork
  <2>1. UNCHANGED <<open, callback, logState, usbMode, streaming, commands, enabled>>
    BY <1>3 DEF ShortPressWork, hostVars, portVars
  <2>2. PICK to \in IF streaming THEN {"calStop"} ELSE {"none", "calOpen"} : Go(ButtonQueue, "none", to)
    BY <1>3 DEF ShortPressWork
  <2>3. at[ButtonQueue] = "none" /\ at'[ButtonQueue] = to
        /\ \A s \in UsbThreads \ {ButtonQueue} : at'[s] = at[s]
    BY <1>0, <2>2, GoMoves
  <2>4. QED
    BY <1>0, <2>1, <2>2, <2>3
<1>4. CASE DisconnectWork
  <2>1. UNCHANGED <<open, callback, logState, usbMode, streaming, commands, enabled>>
    BY <1>4 DEF DisconnectWork, hostVars
  <2>2. PICK to \in {"none", "stop", "calStop"} :
          Go(SystemQueue, "none", to) /\ (to = "calStop" => callback = "cal" /\ streaming)
    BY <1>4 DEF DisconnectWork
  <2>3. at[SystemQueue] = "none" /\ at'[SystemQueue] = to
        /\ \A s \in UsbThreads \ {SystemQueue} : at'[s] = at[s]
    BY <1>0, <2>2, GoMoves
  <2>4. to = "calStop" => at[ButtonQueue] # "calCommands"
    BY <1>4, <2>2, Zenon DEF DisconnectWork
  <2>5. ButtonQueue # SystemQueue
    BY DEF ButtonQueue, SystemQueue
  <2>6. QED
    BY <1>0, <2>1, <2>2, <2>3, <2>4, <2>5
<1>5. CASE OtherCalls
  <2>1. UNCHANGED <<open, callback, usbMode, streaming, commands, enabled, at>>
        /\ at[ButtonQueue] \notin {"open", "register", "aggregate"}
    BY <1>5 DEF OtherCalls, hostVars, portVars, LockFree
  <2>2. logState # "usb" /\ logState' # "usb"
    <3>1. logState # "usb"
      <4>1. ArmAnyState => ~(logState = "usb")
        BY Zenon DEF ArmAnyState
      <4>2. QED
        BY <1>5, <4>1 DEF OtherCalls, StartOnCard, DisarmArmed
    <3>2. QED
      BY <1>5, <3>1 DEF OtherCalls, StartOnCard, ArmAnyState, DisarmArmed
  <2>3. QED
    BY <1>0, <2>1, <2>2
<1>6. QED
  BY <1>2, <1>3, <1>4, <1>5

LEMMA PortInvStep == UsbTypeOK /\ PortInv /\ [UsbNext]_usbPortVars => PortInv'
<1> SUFFICES ASSUME UsbTypeOK, PortInv, [UsbNext]_usbPortVars PROVE PortInv'
  OBVIOUS
<1>1. UsbRoles' /\ UsbRoles
  BY UsbRolesStep DEF PortInv
<1>2. SUFFICES ASSUME ~overlap' PROVE PortIs'
  BY <1>1 DEF PortInv, PortIs
<1>3. ~overlap => PortIs
  BY DEF PortInv, PortIs
<1>4. ButtonQueue \in UsbThreads /\ SystemQueue \in UsbThreads /\ UsbOthers \subseteq UsbThreads
  BY DEF UsbThreads
<1>5. ASSUME NEW t \in UsbThreads, Stopping(t) PROVE PortIs'
  <2>1. ~overlap
    BY <1>2, <1>5, Zenon DEF Stopping, StopTestMode, StopClose, StopUnregister, StopClear, CalStop,
         CalQuiet, CalClose
  <2>2. QED
    BY <1>1, <1>3, <1>5, <2>1, StoppingKeeps
<1>6. ASSUME Starting PROVE PortIs'
  BY <1>1, <1>2, <1>3, <1>6, StartingKeeps
<1>7. ASSUME NEW t \in UsbThreads, NEW from, from \in {"none", "stop"}, StopTestState(t, from) PROVE PortIs'
  BY <1>1, <1>2, <1>3, <1>4, <1>7, StopTestKeeps
<1>8. ASSUME StartUsb \/ ShortPressWork \/ DisconnectWork \/ OtherCalls PROVE PortIs'
  BY <1>1, <1>2, <1>3, <1>8, CallsKeep
<1>9. ASSUME UNCHANGED <<enabled, open, callback, logState, usbMode, streaming, commands, at, overlap>>
      PROVE  PortIs'
  BY <1>2, <1>3, <1>9, Zenon DEF PortIs, SessionStarts, SessionOn, CalStarts, CalOn, CommandsOn,
       OpenFor, Closed, Calm, NoStop, Closing
<1>10. QED
  <2>1. CASE Attach \/ Terminal \/ HostGone \/ ShortPress \/ LineIn \/ DtrPoll \/ RxLineWork
             \/ UNCHANGED usbPortVars
    BY <1>9, <2>1, Zenon DEF Attach, Terminal, HostGone, ShortPress, LineIn, DtrPoll, RxLineWork,
         usbPortVars, hostVars, portVars, userVars
  <2>2. QED
    BY <1>4, <1>5, <1>6, <1>7, <1>8, <2>1 DEF UsbNext, ButtonThread, LongPress, CallStop, StopLogging

\* The types of the serial port: its flags, the session's state, and the step each
\* thread is at, whichever of them calls what.
THEOREM UsbTypes == UsbSpec => []UsbTypeOK
BY UsbTypeInit, UsbTypeStep, PTL DEF UsbSpec

\* At rest, the port is open for exactly as long as a USB session or a calibration
\* is on, commands are accepted exactly during calibration, and a disconnect
\* reaches the one that is on; for any threads that stop, arm or disarm sessions,
\* and whichever of the starts fails.  Out of it is what overlap records, listed
\* at PortOwned: a start over the other user, over a stop that is still closing
\* (logger.c:499-519), and logger_arm() of a session in USB mode (logger.c:577).
THEOREM PortHasOneOwner == UsbSpec => []PortOwned
<1>1. UsbTypeOK /\ PortInv => PortOwned
  <2> SUFFICES ASSUME UsbTypeOK, PortInv, ~overlap, AtRest
               PROVE  /\ open <=> logState = "usb" \/ (streaming /\ enabled)
                      /\ commands <=> streaming
                      /\ (logState = "usb" => callback = "log") /\ (streaming => callback = "cal")
    BY DEF PortOwned
  <2>1. \A t \in UsbThreads : at[t] = "none"
    BY DEF AtRest
  <2>2. ButtonQueue \in UsbThreads
    BY DEF UsbThreads
  <2>3. SessionOn /\ CalOn /\ CommandsOn /\ OpenFor /\ (open => enabled)
    BY Zenon DEF PortInv, UsbRoles
  <2>4. QED
    BY <2>1, <2>2, <2>3 DEF SessionOn, CalOn, CommandsOn, OpenFor
<1>2. QED
  BY UsbTypeInit, UsbTypeStep, PortInvInit, PortInvStep, <1>1, PTL DEF UsbSpec

-----------------------------------------------------------------------------
(* The radio *)

Moving(r) == call[r] # "idle"

LinkTold == conn = told /\ (told => link # "none")

OneCall == \A r, s \in Runners : Moving(r) /\ Moving(s) => r = s

\* Where a call is says what it has already done.
CallStage ==
  \A r \in Runners :
    /\ call[r] \in {"advStop", "close"} => ~active
    /\ call[r] = "advStart" => active
    /\ call[r] = "close" => ~adv \/ "adv_stop" \in failed

Findable ==
  active => \/ adv \/ link # "none" \/ advWork \/ "adv_start" \in failed
            \/ \E r \in Runners : call[r] = "advStart"

Gone ==
  ~active /\ (\A r \in Runners : call[r] \notin {"advStop", "close"}) =>
    "adv_stop" \in failed \/ (~adv /\ (link # "up" \/ "disconnect" \in failed))

\* Without a race one call at most is under way, and where it is says how far the
\* advertising and the link have followed ble_radio_active, but for the calls of
\* the stack that have failed.
RadioInv ==
  LinkTold /\ (~raced => OneCall /\ CallStage /\ Findable /\ Gone)

LEMMA RadioTypeInit == RadioInit => RadioTypeOK
<1> SUFFICES ASSUME RadioInit PROVE RadioTypeOK
  OBVIOUS
<1>1. call \in [Runners -> {"idle", "stop", "advStop", "close", "restart", "advStart"}]
  BY DEF RadioInit
<1>2. QED
  BY <1>1, Zenon DEF RadioInit, RadioTypeOK

LEMMA RadioTypeStep == RadioTypeOK /\ [RadioNext]_radioVars => RadioTypeOK'
<1> SUFFICES ASSUME RadioTypeOK, [RadioNext]_radioVars PROVE RadioTypeOK'
  OBVIOUS
<1> DEFINE Places == {"idle", "stop", "advStop", "close", "restart", "advStart"}
<1>1. call' \in [Runners -> Places]
  <2>1. ASSUME NEW r \in Runners, NEW from, NEW to \in Places, Step(r, from, to)
        PROVE  call' \in [Runners -> Places]
    BY <2>1 DEF Step, RadioTypeOK
  <2>2. ASSUME NEW r \in Runners, StopTest(r) \/ AdvStop(r) \/ CloseConn(r) \/ RestartTest(r) \/ AdvStart(r)
        PROVE  call' \in [Runners -> Places]
    BY <2>1, <2>2 DEF StopTest, AdvStop, CloseConn, RestartTest, AdvStart
  <2>3. ASSUME NEW r \in RadioCallers, Call(r) \/ StopWork(r)
        PROVE  call' \in [Runners -> Places]
    BY <2>1, <2>3 DEF Call, StopWork, Runners
  <2>4. ASSUME AdvWork PROVE call' \in [Runners -> Places]
    BY <2>1, <2>4 DEF AdvWork, Runners
  <2>5. ASSUME UNCHANGED call PROVE call' \in [Runners -> Places]
    BY <2>5 DEF RadioTypeOK
  <2>6. QED
    BY <2>2, <2>3, <2>4, <2>5 DEF RadioNext, Progress, StopDeferred, Connected, Disconnected,
         LinkMade, LinkLost, radioVars
<1>2. link' \in {"none", "up", "closing", "down"}
  BY DEF RadioTypeOK, RadioNext, Progress, StopTest, AdvStop, CloseConn, RestartTest, AdvStart,
     Call, StopWork, AdvWork, StopDeferred, Connected, Disconnected, LinkMade, LinkLost, radioVars
<1>3. /\ active' = active \/ active' = TRUE \/ active' = FALSE
      /\ adv' = adv \/ adv' = TRUE \/ adv' = FALSE
      /\ told' = told \/ told' = TRUE \/ told' = FALSE
      /\ conn' = conn \/ conn' = TRUE \/ conn' = FALSE
  BY Zenon DEF RadioNext, Progress, StopTest, AdvStop, CloseConn, RestartTest, AdvStart,
     Call, StopWork, AdvWork, StopDeferred, Connected, Disconnected, LinkMade, LinkLost, radioVars
<1>4. /\ advWork' = advWork \/ advWork' = TRUE \/ advWork' = FALSE
      /\ deferred' = deferred \/ deferred' = TRUE \/ deferred' = FALSE
  BY Zenon DEF RadioNext, Progress, StopTest, AdvStop, CloseConn, RestartTest, AdvStart,
     Call, StopWork, AdvWork, StopDeferred, Connected, Disconnected, LinkMade, LinkLost, radioVars
<1>5. raced' \in BOOLEAN
  <2>1. raced \in BOOLEAN
    BY DEF RadioTypeOK
  <2>2. \A b : (raced \/ b) \in BOOLEAN
    OBVIOUS
  <2>3. raced' = raced \/ \E b : raced' = (raced \/ b)
    BY Zenon DEF RadioNext, Progress, StopTest, AdvStop, CloseConn, RestartTest, AdvStart,
       Call, StopWork, AdvWork, StopDeferred, Connected, Disconnected, LinkMade, LinkLost, radioVars
  <2>4. QED
    BY <2>1, <2>2, <2>3, Zenon
<1>6. active' \in BOOLEAN /\ adv' \in BOOLEAN /\ told' \in BOOLEAN
  BY <1>3, Zenon DEF RadioTypeOK
<1>7. conn' \in BOOLEAN /\ advWork' \in BOOLEAN /\ deferred' \in BOOLEAN
  BY <1>3, <1>4, Zenon DEF RadioTypeOK
<1>8. failed' \subseteq {"adv_start", "adv_stop", "disconnect"}
  <2>1. failed' = failed \/ \E f \in {"adv_start", "adv_stop", "disconnect"} : Succeeds(f) \/ Fails(f)
    BY Zenon DEF RadioNext, Progress, StopTest, AdvStop, CloseConn, RestartTest, AdvStart,
       Call, StopWork, AdvWork, StopDeferred, Connected, Disconnected, LinkMade, LinkLost, radioVars
  <2>2. QED
    BY <2>1 DEF Succeeds, Fails, RadioTypeOK
<1>9. QED
  BY <1>1, <1>2, <1>5, <1>6, <1>7, <1>8 DEF RadioTypeOK

LEMMA RadioInvInit == RadioInit => RadioInv
BY DEF RadioInit, RadioInv, LinkTold, OneCall, Moving, CallStage, Findable, Gone, Runners

LEMMA LinkToldStep == LinkTold /\ [RadioNext]_radioVars => LinkTold'
<1> SUFFICES ASSUME LinkTold, [RadioNext]_radioVars PROVE LinkTold'
  OBVIOUS
<1>1. CASE Connected \/ Disconnected
  BY <1>1, Zenon DEF Connected, Disconnected, LinkTold
<1>2. CASE \E r \in Runners : CloseConn(r)
  BY <1>2 DEF CloseConn, LinkTold
<1>3. CASE LinkMade \/ LinkLost
  BY <1>3 DEF LinkMade, LinkLost, LinkTold
<1>4. CASE UNCHANGED <<conn, told, link>>
  BY <1>4 DEF LinkTold
<1>5. QED
  BY <1>1, <1>2, <1>3, <1>4 DEF RadioNext, Progress, StopTest, AdvStop, RestartTest, AdvStart,
     Call, StopWork, AdvWork, StopDeferred, radioVars

\* Where a step leaves the calls.
LEMMA StepMoves ==
  ASSUME RadioTypeOK, NEW r \in Runners, NEW from, NEW to, Step(r, from, to)
  PROVE  /\ call[r] = from /\ call'[r] = to
         /\ \A s \in Runners \ {r} : call'[s] = call[s]
BY DEF Step, RadioTypeOK

LEMMA CallBegins ==
  ASSUME RadioTypeOK, RadioInv, ~raced', NEW r \in Runners,
         NEW to \in {"stop", "restart"}, Step(r, "idle", to),
         raced' = (raced \/ Overlap(r)), UNCHANGED <<active, adv, link, advWork, failed>>
  PROVE  OneCall' /\ CallStage' /\ Findable' /\ Gone'
<1>1. ~raced /\ ~Overlap(r)
  BY Zenon
<1>2. call[r] = "idle" /\ call'[r] = to /\ \A s \in Runners \ {r} : call'[s] = call[s]
  BY StepMoves
<1>3. OneCall'
  BY <1>1, <1>2 DEF Overlap, OneCall, Moving
<1>4. CallStage'
  BY <1>1, <1>2 DEF RadioInv, CallStage
<1>5. Findable'
  BY <1>1, <1>2 DEF RadioInv, Findable
<1>6. Gone'
  BY <1>1, <1>2 DEF RadioInv, Gone
<1>7. QED
  BY <1>3, <1>4, <1>5, <1>6

LEMMA CallGoesOn ==
  ASSUME RadioTypeOK, RadioInv, ~raced', NEW r \in Runners,
         StopTest(r) \/ AdvStop(r) \/ CloseConn(r) \/ RestartTest(r) \/ AdvStart(r)
  PROVE  OneCall' /\ CallStage' /\ Findable' /\ Gone'
<1> USE DEF RadioInv
<1>1. ~raced
  BY Zenon DEF StopTest, AdvStop, CloseConn, RestartTest, AdvStart
<1>2. \E from \in {"stop", "advStop", "close", "restart", "advStart"} : \E to : Step(r, from, to)
  BY SMT DEF StopTest, AdvStop, CloseConn, RestartTest, AdvStart
<1>3. Moving(r) /\ (\A s \in Runners \ {r} : call[s] = "idle" /\ call'[s] = "idle")
  BY <1>1, <1>2, StepMoves DEF OneCall, Moving
<1>4. OneCall'
  BY <1>3 DEF OneCall, Moving
<1>5. CASE StopTest(r)
  <2>1. call[r] = "stop" /\ call'[r] = (IF active THEN "advStop" ELSE "idle")
    BY <1>5, StepMoves DEF StopTest
  <2>2. ~active' /\ UNCHANGED <<adv, link, advWork, failed>>
    BY <1>5, Zenon DEF StopTest
  <2>3. CallStage' /\ Findable' /\ Gone'
    BY <1>1, <1>3, <2>1, <2>2 DEF CallStage, Findable, Gone
  <2>4. QED
    BY <1>4, <2>3
<1>6. CASE AdvStop(r)
  <2>1. call[r] = "advStop" /\ call'[r] = "close"
    BY <1>6, StepMoves DEF AdvStop
  <2>2. (~adv' \/ "adv_stop" \in failed') /\ UNCHANGED <<active, link, advWork>>
    BY <1>6 DEF AdvStop, Fails
  <2>3. CallStage' /\ Findable' /\ Gone'
    BY <1>1, <1>3, <2>1, <2>2 DEF CallStage, Findable, Gone
  <2>4. QED
    BY <1>4, <2>3
<1>7. CASE CloseConn(r)
  <2>1. call[r] = "close" /\ call'[r] = "idle"
    BY <1>7, StepMoves DEF CloseConn
  <2>2. UNCHANGED <<active, adv, advWork>> /\ (link' # "up" \/ "disconnect" \in failed')
    BY <1>7 DEF CloseConn, LinkTold, Fails
  <2>3. "adv_stop" \in failed => "adv_stop" \in failed'
    BY <1>7 DEF CloseConn, Succeeds, Fails
  <2>4. CallStage' /\ Findable' /\ Gone'
    BY <1>1, <1>3, <2>1, <2>2, <2>3 DEF CallStage, Findable, Gone
  <2>5. QED
    BY <1>4, <2>4
<1>8. CASE RestartTest(r)
  <2>1. call[r] = "restart" /\ call'[r] = (IF active THEN "idle" ELSE "advStart")
    BY <1>8, StepMoves DEF RestartTest
  <2>2. active' /\ UNCHANGED <<adv, link, advWork, failed>>
    BY <1>8, Zenon DEF RestartTest
  <2>3. CallStage' /\ Findable' /\ Gone'
    BY <1>1, <1>3, <2>1, <2>2 DEF CallStage, Findable, Gone
  <2>4. QED
    BY <1>4, <2>3
<1>9. CASE AdvStart(r)
  <2>1. call[r] = "advStart" /\ call'[r] = "idle"
    BY <1>9, StepMoves DEF AdvStart
  <2>2. (adv' \/ "adv_start" \in failed') /\ UNCHANGED <<active, link, advWork>>
    BY <1>9 DEF AdvStart, Fails
  <2>3. CallStage' /\ Findable' /\ Gone'
    BY <1>1, <1>3, <2>1, <2>2 DEF CallStage, Findable, Gone
  <2>4. QED
    BY <1>4, <2>3
<1>10. QED
  BY <1>5, <1>6, <1>7, <1>8, <1>9

LEMMA AdvWorkRuns ==
  ASSUME RadioTypeOK, RadioInv, ~raced', AdvWork
  PROVE  OneCall' /\ CallStage' /\ Findable' /\ Gone'
<1> USE DEF RadioInv
<1>1. ~raced /\ Work \in Runners /\ UNCHANGED <<active, adv, link, failed>>
  BY Zenon DEF AdvWork, Runners
<1>2. /\ call[Work] = "idle" /\ call'[Work] = (IF active THEN "advStart" ELSE "idle")
      /\ \A s \in Runners \ {Work} : call'[s] = call[s]
  BY <1>1, StepMoves DEF AdvWork
<1>3. active => \A s \in Runners \ {Work} : call[s] = "idle"
  BY Zenon DEF AdvWork, Overlap
<1>4. OneCall'
  BY <1>1, <1>2, <1>3 DEF OneCall, Moving
<1>5. CallStage' /\ Findable' /\ Gone'
  BY <1>1, <1>2, <1>3 DEF CallStage, Findable, Gone
<1>6. QED
  BY <1>4, <1>5

LEMMA StackSteps ==
  ASSUME RadioTypeOK, RadioInv, ~raced',
         StopDeferred \/ LinkMade \/ Connected \/ LinkLost \/ Disconnected
  PROVE  OneCall' /\ CallStage' /\ Findable' /\ Gone'
<1> USE DEF RadioInv
<1>1. ~raced /\ UNCHANGED <<active, call, failed>>
  BY SMT DEF StopDeferred, LinkMade, Connected, LinkLost, Disconnected
<1>2. OneCall'
  BY <1>1 DEF OneCall, Moving
<1>3. CallStage'
  BY <1>1 DEF CallStage, StopDeferred, LinkMade, Connected, LinkLost, Disconnected
<1>4. Findable' /\ Gone'
  BY <1>1 DEF Findable, Gone, StopDeferred, LinkMade, Connected, LinkLost, Disconnected
<1>5. QED
  BY <1>2, <1>3, <1>4

LEMMA RadioInvStep == RadioTypeOK /\ RadioInv /\ [RadioNext]_radioVars => RadioInv'
<1> SUFFICES ASSUME RadioTypeOK, RadioInv, [RadioNext]_radioVars PROVE RadioInv'
  OBVIOUS
<1> DEFINE Settled == OneCall /\ CallStage /\ Findable /\ Gone
<1>1. LinkTold'
  BY LinkToldStep DEF RadioInv
<1>2. SUFFICES ASSUME ~raced' PROVE Settled'
  BY <1>1 DEF RadioInv
<1>3. ASSUME NEW r \in Runners,
             StopTest(r) \/ AdvStop(r) \/ CloseConn(r) \/ RestartTest(r) \/ AdvStart(r)
      PROVE  Settled'
  BY <1>2, <1>3, CallGoesOn
<1>4. ASSUME NEW r \in RadioCallers, Call(r) \/ StopWork(r) PROVE Settled'
  BY <1>2, <1>4, CallBegins DEF Call, StopWork, Runners
<1>5. ASSUME AdvWork PROVE Settled'
  BY <1>2, <1>5, AdvWorkRuns
<1>6. ASSUME StopDeferred \/ LinkMade \/ Connected \/ LinkLost \/ Disconnected PROVE Settled'
  BY <1>2, <1>6, StackSteps
<1>7. ASSUME UNCHANGED radioVars PROVE Settled'
  BY <1>2, <1>7 DEF radioVars, RadioInv, OneCall, Moving, CallStage, Findable, Gone
<1>8. QED
  BY <1>3, <1>4, <1>5, <1>6, <1>7 DEF RadioNext, Progress

\* The types of the radio's state and of its callers' places.
THEOREM RadioTypes == RadioSpec => []RadioTypeOK
BY RadioTypeInit, RadioTypeStep, PTL DEF RadioSpec

\* Stopped and settled, the device neither advertises nor keeps a link; restarted
\* and settled, a phone can find it or is connected: unless calls or a link's
\* making have overlapped (ble_mcumgr.c, ble_mcumgr_stop(), ble_mcumgr_restart()),
\* and each clause unless the last call of the stack's function that it rests on
\* has failed (ble_mcumgr.c:296-306, 326-333).
THEOREM RadioObeys == RadioSpec => []RadioFollows
<1>1. RadioTypeOK /\ RadioInv => RadioFollows
  BY DEF RadioInv, Findable, Gone, RadioFollows, RadioSettled, RadioTypeOK
<1>2. QED
  BY RadioTypeInit, RadioTypeStep, RadioInvInit, RadioInvStep, <1>1, PTL DEF RadioSpec

-----------------------------------------------------------------------------
(* Events and the LED *)

Owings == Events \cup {"led"}

\* Every state of the logger has a colour.
LEMMA StateHasColor == ColorOf(LoggerState) \in Colors
BY DEF ColorOf, LoggerState, Colors

LEMMA StatusTypeInit == StatusInit => StatusTypeOK
<1> SUFFICES ASSUME StatusInit PROVE StatusTypeOK
  OBVIOUS
<1>1. owed \in [Threads -> Seq(Owings)]
  BY DEF StatusInit
<1>2. queue \in Seq(Events) /\ Len(queue) = 1
  <2>1. <<"STATE_CHANGE">> \in Seq(Events) /\ Len(<<"STATE_CHANGE">>) = 1
    BY DEF Events
  <2>2. QED
    BY <2>1 DEF StatusInit
<1>3. Len(queue) <= QueueSize
  BY <1>2, StatusAssumption
<1>4. due \in BOOLEAN
  BY Zenon DEF StatusInit
<1>5. /\ handler \in {"idle", "read"} \cup Colors
      /\ {app, current_color} \subseteq Colors /\ override \in Colors \cup {"none"}
      /\ shown \in Colors \cup {"off"}
  BY DEF StatusInit, Colors
<1>6. QED
  BY <1>1, <1>2, <1>3, <1>4, <1>5 DEF StatusTypeOK, Owings

\* event_bus_publish() never fills the queue beyond its size.
LEMMA PutFits ==
  ASSUME StatusTypeOK, NEW e \in Events, Put(e)
  PROVE  queue' \in Seq(Events) /\ Len(queue') <= QueueSize /\ due' \in BOOLEAN
<1>1. CASE Len(queue) < QueueSize
  <2>1. queue' = Append(queue, e)
    BY <1>1 DEF Put
  <2>2. queue' \in Seq(Events) /\ Len(queue') = Len(queue) + 1
    BY <2>1, AppendProperties DEF StatusTypeOK
  <2>3. Len(queue) \in Nat
    BY LenProperties DEF StatusTypeOK
  <2>4. Len(queue') <= QueueSize
    BY <1>1, <2>2, <2>3, StatusAssumption
  <2>5. due' = (due \/ e = "STATE_CHANGE")
    BY <1>1, Zenon DEF Put
  <2>6. due' \in BOOLEAN
    BY <2>5, Zenon DEF StatusTypeOK
  <2>7. QED
    BY <2>2, <2>4, <2>6
<1>2. CASE ~(Len(queue) < QueueSize)
  BY <1>2 DEF Put, StatusTypeOK
<1>3. QED
  BY <1>1, <1>2

\* A thread has done the first of what it owed.
LEMMA OwedShrinks ==
  ASSUME StatusTypeOK, NEW t \in Threads, owed[t] # <<>>,
         owed' = [owed EXCEPT ![t] = Tail(@)]
  PROVE  Head(owed[t]) \in Owings /\ owed' \in [Threads -> Seq(Owings)]
<1>1. owed \in [Threads -> Seq(Owings)]
  BY DEF StatusTypeOK, Owings
<1>2. owed[t] \in Seq(Owings)
  BY <1>1
<1>3. Head(owed[t]) \in Owings /\ Tail(owed[t]) \in Seq(Owings)
  BY <1>2, HeadTailProperties
<1>4. QED
  BY <1>1, <1>3

\* A change of state leaves the thread what it owes.
LEMMA ChangeTyped ==
  ASSUME StatusTypeOK, NEW t \in Threads, NEW step, NEW then \in Seq(Owings), Change(t, step, then)
  PROVE  StatusTypeOK'
<1>1. owed' \in [Threads -> Seq(Owings)]
  BY DEF Change, StatusTypeOK, Owings
<1>2. due' \in BOOLEAN
  BY Zenon DEF Change
<1>3. UNCHANGED <<queue, handler, app, override, current_color, shown>>
  BY DEF Change, ledVars
<1>4. QED
  BY <1>1, <1>2, <1>3 DEF StatusTypeOK, Owings

LEMMA StatusTypeStep == StatusTypeOK /\ [StatusNext]_statusVars => StatusTypeOK'
<1> SUFFICES ASSUME StatusTypeOK, [StatusNext]_statusVars PROVE StatusTypeOK'
  OBVIOUS
<1>1. ASSUME NEW t \in Threads, BeginBy(t) \/ EndBy(t) \/ AnnouncedBy(t) PROVE StatusTypeOK'
  <2>1. /\ <<"other">> \in Seq(Owings) /\ <<"led">> \in Seq(Owings)
        /\ <<"other", "led">> \in Seq(Owings) /\ <<"STATE_CHANGE">> \in Seq(Owings)
    BY DEF Owings, Events
  <2>2. QED
    BY <1>1, <2>1, ChangeTyped DEF BeginBy, EndBy, AnnouncedBy
<1>2. ASSUME NEW t \in Threads, Publish(t) PROVE StatusTypeOK'
  <2>1. Head(owed[t]) \in Events /\ owed' \in [Threads -> Seq(Owings)]
    BY <1>2, OwedShrinks DEF Publish, Owings
  <2>2. queue' \in Seq(Events) /\ Len(queue') <= QueueSize /\ due' \in BOOLEAN
    BY <1>2, <2>1, PutFits DEF Publish
  <2>3. QED
    BY <1>2, <2>1, <2>2 DEF Publish, StatusTypeOK, Owings, ledVars
<1>3. ASSUME BleEvent PROVE StatusTypeOK'
  <2>1. queue' \in Seq(Events) /\ Len(queue') <= QueueSize /\ due' \in BOOLEAN
    BY <1>3, PutFits DEF BleEvent, Events
  <2>2. QED
    BY <1>3, <2>1 DEF BleEvent, StatusTypeOK, ledVars
<1>4. ASSUME SetLed PROVE StatusTypeOK'
  <2>1. owed' \in [Threads -> Seq(Owings)]
    BY <1>4, OwedShrinks, StatusAssumption DEF SetLed
  <2>2. QED
    BY <1>4, <2>1, StateHasColor DEF SetLed, SetColor, StatusTypeOK, Owings
<1>5. ASSUME MagCalLed PROVE StatusTypeOK'
  <2>1. due' \in BOOLEAN
    BY <1>5, Zenon DEF MagCalLed
  <2>2. QED
    BY <1>5, <2>1 DEF MagCalLed, SetColor, StatusTypeOK, busVars, Colors
<1>6. ASSUME MagCalLedBack PROVE StatusTypeOK'
  BY <1>6, StateHasColor DEF MagCalLedBack, SetColor, StatusTypeOK, busVars
<1>7. ASSUME SetOverride PROVE StatusTypeOK'
  <2>1. "white" \in Colors
    BY DEF Colors
  <2>2. QED
    BY <1>7, <2>1 DEF SetOverride, StatusTypeOK, busVars
<1>8. ASSUME TakeEvent PROVE StatusTypeOK'
  <2>1. queue' \in Seq(Events) /\ Len(queue') = Len(queue) - 1 /\ Len(queue) \in Nat
    BY <1>8, HeadTailProperties, LenProperties DEF TakeEvent, StatusTypeOK
  <2>2. Len(queue') <= QueueSize
    BY <2>1, StatusAssumption DEF StatusTypeOK
  <2>3. QED
    BY <1>8, <2>1, <2>2 DEF TakeEvent, StatusTypeOK, ledVars
<1>9. ASSUME ReadState \/ HandleEvent PROVE StatusTypeOK'
  BY <1>9, StateHasColor DEF ReadState, HandleEvent, SetColor, StatusTypeOK, ledVars
<1>10. ASSUME BlinkTimer \/ LedOffWork PROVE StatusTypeOK'
  BY <1>10 DEF BlinkTimer, LedOffWork, StatusTypeOK, busVars
<1>11. ASSUME UNCHANGED statusVars PROVE StatusTypeOK'
  BY <1>11 DEF statusVars, StatusTypeOK, busVars, ledVars
<1>12. QED
  BY <1>1, <1>2, <1>3, <1>4, <1>5, <1>6, <1>7, <1>8, <1>9, <1>10, <1>11
     DEF StatusNext, EventThread

\* The types of the event bus and the LED: the queue never holds more than its
\* size, and the event thread ever carries an event, the state's colour or nothing.
THEOREM StatusTypes == StatusSpec => []StatusTypeOK
BY StatusTypeInit, StatusTypeStep, PTL DEF StatusSpec

-----------------------------------------------------------------------------
(* The parts together *)

\* A step of one part is a step of that part's specification and leaves the
\* others alone.
LEMMA PartSteps ==
  [InterfacesNext]_allVars =>
    /\ [AlarmNext]_alarmVars /\ [StatusNext]_statusVars
    /\ [UsbNext]_usbPortVars /\ [RadioNext]_radioVars
BY DEF InterfacesNext, UsbPart, allVars

\* Whichever part runs, with whatever the others hold, every part keeps its types.
THEOREM InterfacesTypes == InterfacesSpec => []InterfacesTypeOK
<1>1. InterfacesInit => AlarmTypeOK /\ StatusTypeOK /\ UsbTypeOK /\ RadioTypeOK
  BY AlarmTypeInit, StatusTypeInit, UsbTypeInit, RadioTypeInit DEF InterfacesInit
<1>2. /\ AlarmTypeOK /\ StatusTypeOK /\ UsbTypeOK /\ RadioTypeOK
      /\ [InterfacesNext]_allVars
      => AlarmTypeOK' /\ StatusTypeOK' /\ UsbTypeOK' /\ RadioTypeOK'
  BY AlarmTypeStep, StatusTypeStep, UsbTypeStep, RadioTypeStep, PartSteps
<1>3. AlarmTypeOK /\ StatusTypeOK /\ UsbTypeOK /\ RadioTypeOK => InterfacesTypeOK
  BY DEF InterfacesTypeOK
<1>4. QED
  BY <1>1, <1>2, <1>3, PTL DEF InterfacesSpec
=============================================================================
