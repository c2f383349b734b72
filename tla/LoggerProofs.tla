---------------------------- MODULE LoggerProofs ----------------------------
(***************************************************************************)
(* Theorems about Logger, for any of its threads and any number of         *)
(* sessions: the types, with the lock held by exactly the thread inside    *)
(* the locked part of a start; that an ended session stays ended; that the *)
(* promise of Session is kept; and, while calls do not overlap, that a     *)
(* session in progress is recorded, one that is over leaves nothing on,    *)
(* and the radio is silent.                                                *)
(***************************************************************************)
EXTENDS Logger, TLAPS

LEMMA InitType == Init => TypeOK
<1> SUFFICES ASSUME Init PROVE TypeOK
  OBVIOUS
<1> USE DEF Init
<1>1. TypeSession /\ TypeFlags /\ TypeOutput
  BY DEF TypeSession, TypeFlags, TypeOutput, Active, Ready
<1>2. TypeThreads
  BY DEF TypeThreads, Steps
<1>3. LockOK
  BY ThreadAssumption DEF LockOK, Locked, Main, Button, Smp, Baro, SysWorkq
<1>4. QED
  BY <1>1, <1>2, <1>3 DEF TypeOK

LEMMA StepTypeSession == TypeOK /\ [Next]_vars => TypeSession'
<1> SUFFICES ASSUME TypeSession, [Next]_vars PROVE TypeSession'
  BY DEF TypeOK
<1> USE DEF TypeSession, Active, Ready
<1>1. ASSUME NEW t \in Threads, StartAggregate(t) \/ UsbAggregate(t) PROVE TypeSession'
  BY <1>1 DEF StartAggregate, UsbAggregate
<1>2. ASSUME NEW t \in Threads, LoggerStop(t) PROVE TypeSession'
  BY <1>2 DEF LoggerStop
<1>3. ASSUME NEW t \in Threads, LoggerJumped(t) \/ LoggerArm(t) \/ LoggerDisarm(t)
      PROVE  TypeSession'
  BY <1>3 DEF LoggerJumped, LoggerArm, LoggerDisarm, histVars
<1>4. ASSUME UNCHANGED <<state, histVars>> PROVE TypeSession'
  BY <1>4 DEF histVars
<1>5. QED
  BY <1>1, <1>2, <1>3, <1>4
     DEF vars, Next, CallStep, Arrive, Look, LoggerStart, StartOpen, StartAnnounce,
         StartRadioOff, Reply, LoggerStartUsb, UsbOpen, SetRate, DisarmSample, StopAccel,
         StopHalt, StopJoin, StopClose, StopUnregister, StopPublish, StopRadioOn,
         WorkerExit, HostGone, DisconnectWork, BleStopWork, GroundWork

LEMMA StepTypeFlags == TypeOK /\ [Next]_vars => TypeFlags'
<1> SUFFICES ASSUME TypeFlags, [Next]_vars PROVE TypeFlags'
  BY DEF TypeOK
<1>1. (usbMode' = usbMode \/ usbMode' \in BOOLEAN) /\ (tty' = tty \/ tty' \in BOOLEAN)
      /\ (callback' = callback \/ callback' \in BOOLEAN) /\ (gone' = gone \/ gone' \in BOOLEAN)
  BY DEF vars, usbVars, Next, CallStep, Arrive, Look, LoggerStart, StartOpen, StartAggregate, StartAnnounce,
       StartRadioOff, Reply, LoggerStartUsb, UsbOpen, UsbAggregate, SetRate, LoggerJumped,
       LoggerArm, LoggerDisarm, DisarmSample, LoggerStop, StopAccel, StopHalt, StopJoin,
       StopClose, StopUnregister, StopPublish, StopRadioOn,
       WorkerExit, HostGone, DisconnectWork, BleStopWork, GroundWork
<1>2. (running' = running \/ running' \in BOOLEAN) /\ (worker' = worker \/ worker' \in BOOLEAN)
      /\ (accel' = accel \/ accel' \in BOOLEAN) /\ (radio' = radio \/ radio' \in BOOLEAN)
      /\ (stopWork' = stopWork \/ stopWork' \in BOOLEAN)
  BY DEF vars, aggVars, radioVars, Next, CallStep, Arrive, Look, LoggerStart, StartOpen, StartAggregate, StartAnnounce,
       StartRadioOff, Reply, LoggerStartUsb, UsbOpen, UsbAggregate, SetRate, LoggerJumped,
       LoggerArm, LoggerDisarm, DisarmSample, LoggerStop, StopAccel, StopHalt, StopJoin,
       StopClose, StopUnregister, StopPublish, StopRadioOn,
       WorkerExit, HostGone, DisconnectWork, BleStopWork, GroundWork
<1>3. calm' = calm \/ calm' = (calm /\ OneBusy')
  BY DEF vars, Goto, Return, GiveUp, Observe, Next, CallStep, Arrive, Look,
       LoggerStart, StartOpen, StartAggregate, StartAnnounce,
       StartRadioOff, Reply, LoggerStartUsb, UsbOpen, UsbAggregate, SetRate, LoggerJumped,
       LoggerArm, LoggerDisarm, DisarmSample, LoggerStop, StopAccel, StopHalt, StopJoin,
       StopClose, StopUnregister, StopPublish, StopRadioOn,
       WorkerExit, HostGone, DisconnectWork, BleStopWork, GroundWork
<1>4. \/ ground' = ground \/ ground' = TRUE \/ ground' = FALSE
      \/ ground' = (state \in Ready) \/ ground' = (ground \/ state = "IDLE")
  BY DEF vars, Next, CallStep, Arrive, Look, LoggerStart, StartOpen, StartAggregate, StartAnnounce,
       StartRadioOff, Reply, LoggerStartUsb, UsbOpen, UsbAggregate, SetRate, LoggerJumped,
       LoggerArm, LoggerDisarm, DisarmSample, LoggerStop, StopAccel, StopHalt, StopJoin,
       StopClose, StopUnregister, StopPublish, StopRadioOn,
       WorkerExit, HostGone, DisconnectWork, BleStopWork, GroundWork
<1>5. calm' \in BOOLEAN
  <2>1. (calm /\ OneBusy') \in BOOLEAN
    OBVIOUS
  <2>2. QED
    BY <1>3, <2>1 DEF TypeFlags
<1>6. ground' \in BOOLEAN
  <2>1. (state \in Ready) \in BOOLEAN /\ (ground \/ state = "IDLE") \in BOOLEAN
    OBVIOUS
  <2>2. ground \in BOOLEAN
    BY DEF TypeFlags
  <2>3. CASE ground' = (state \in Ready)
    BY <2>1, <2>3
  <2>4. CASE ground' = (ground \/ state = "IDLE")
    BY <2>1, <2>4
  <2>5. QED
    BY <1>4, <2>2, <2>3, <2>4
<1>7. /\ usbMode' \in BOOLEAN /\ tty' \in BOOLEAN /\ callback' \in BOOLEAN
      /\ gone' \in BOOLEAN
  BY <1>1, Zenon DEF TypeFlags
<1>8. /\ running' \in BOOLEAN /\ worker' \in BOOLEAN /\ accel' \in BOOLEAN
      /\ radio' \in BOOLEAN /\ stopWork' \in BOOLEAN
  BY <1>2, Zenon DEF TypeFlags
<1>9. QED
  BY <1>5, <1>6, <1>7, <1>8, Zenon DEF TypeFlags

LEMMA StepTypeOutput == TypeOK /\ [Next]_vars => TypeOutput'
<1> SUFFICES ASSUME TypeSession, TypeOutput, [Next]_vars PROVE TypeOutput'
  BY DEF TypeOK
<1> USE DEF TypeSession, TypeOutput, aggVars
<1>1. ASSUME NEW t \in Threads, CallStep(t) PROVE TypeOutput'
  BY <1>1 DEF CallStep, LoggerStart, StartOpen, StartAggregate, StartAnnounce, StartRadioOff,
     Reply, LoggerStartUsb, UsbOpen, UsbAggregate, SetRate, LoggerJumped, LoggerArm,
     LoggerDisarm, DisarmSample, LoggerStop, StopAccel, StopHalt, StopJoin, StopClose,
     StopUnregister, StopPublish, StopRadioOn
<1>3. ASSUME NEW t \in Threads, Arrive(t) \/ Look(t) PROVE TypeOutput'
  BY <1>3 DEF Arrive, Look
<1>4. ASSUME WorkerExit \/ HostGone \/ DisconnectWork \/ BleStopWork \/ GroundWork
      PROVE  TypeOutput'
  BY <1>4 DEF WorkerExit, HostGone, DisconnectWork, BleStopWork, GroundWork
<1>5. CASE UNCHANGED vars
  BY <1>5 DEF vars
<1>6. QED
  BY <1>1, <1>3, <1>4, <1>5 DEF Next

\* What a thread may plan are the logger's calls.
LEMMA PlansType == Plans \subseteq Seq(CallNames)
  BY SMT DEF Plans, Landing, CallNames

LEMMA GotoType ==
  ASSUME TypeThreads, lock' \in Threads \cup {"free"}, NEW t \in Threads, NEW step \in Steps,
         Goto(t, step), step = "look" \/ Busy(t)
  PROVE  TypeThreads'
  BY DEF TypeThreads, Goto, Busy

LEMMA ReturnType ==
  ASSUME TypeThreads, lock' \in Threads \cup {"free"}, NEW t \in Threads, Busy(t),
         Return(t) \/ GiveUp(t)
  PROVE  TypeThreads'
<1>1. PICK rest \in Seq(CallNames) :
        at' = [at EXCEPT ![t] = "idle"] /\ todo' = [todo EXCEPT ![t] = rest]
  <2>1. todo[t] \in Seq(CallNames) /\ <<>> \in Seq(CallNames)
    BY DEF TypeThreads
  <2>2. Tail(todo[t]) \in Seq(CallNames)
    BY <2>1 DEF Busy
  <2>3. CASE Return(t)
    BY <2>2, <2>3 DEF Return
  <2>4. CASE GiveUp(t)
    BY <2>1, <2>4 DEF GiveUp
  <2>5. QED
    BY <2>3, <2>4
<1>2. at' \in [Threads -> Steps] /\ todo' \in [Threads -> Seq(CallNames)]
  BY <1>1 DEF TypeThreads, Steps
<1>3. \A u \in Threads : at'[u] \notin {"idle", "look"} => todo'[u] # <<>>
  BY <1>1 DEF TypeThreads, Busy
<1>4. QED
  BY <1>2, <1>3 DEF TypeThreads, Busy

\* A thread is in a call at each of its steps.
LEMMA StepBusy ==
  ASSUME TypeThreads, NEW t \in Threads, CallStep(t)
  PROVE  Busy(t)
<1>1. Calls(t, Head(todo[t])) \/ at[t] \notin {"idle", "look"}
  BY DEF CallStep, Calls, LoggerStart, StartOpen, StartAggregate, StartAnnounce, StartRadioOff,
       Reply, LoggerStartUsb, UsbOpen, UsbAggregate, SetRate, LoggerJumped, LoggerArm,
       LoggerDisarm, DisarmSample, LoggerStop, StopAccel, StopHalt, StopJoin, StopClose,
       StopUnregister, StopPublish, StopRadioOn
<1>2. QED
  BY <1>1 DEF TypeThreads, Calls, Busy

\* A step of a call leads to its next step, or ends it.
LEMMA StepFlow ==
  ASSUME TypeThreads, NEW t \in Threads, CallStep(t)
  PROVE  (\E step \in Steps : Goto(t, step)) \/ Return(t) \/ GiveUp(t)
  BY DEF CallStep, Steps, LoggerStart, StartOpen, StartAggregate, StartAnnounce, StartRadioOff,
       Reply, LoggerStartUsb, UsbOpen, UsbAggregate, SetRate, LoggerJumped, LoggerArm,
       LoggerDisarm, DisarmSample, LoggerStop, StopAccel, StopHalt, StopJoin, StopClose,
       StopUnregister, StopPublish, StopRadioOn

LEMMA StepTypeThreads == TypeOK /\ [Next]_vars => TypeThreads'
<1> SUFFICES ASSUME TypeThreads, [Next]_vars PROVE TypeThreads'
  BY DEF TypeOK
<1>1. ASSUME NEW t \in Threads, Arrive(t) PROVE TypeThreads'
  <2>1. UNCHANGED lock /\ Goto(t, "look") /\ "look" \in Steps
    BY <1>1 DEF Arrive, Steps
  <2>2. lock' \in Threads \cup {"free"}
    BY <2>1 DEF TypeThreads
  <2>3. QED
    BY <2>1, <2>2, GotoType
<1>2. ASSUME NEW t \in Threads, Look(t) PROVE TypeThreads'
  <2>1. PICK plan \in Plans : todo' = [todo EXCEPT ![t] = plan]
    BY <1>2 DEF Look
  <2>2. UNCHANGED lock /\ at' = [at EXCEPT ![t] = "idle"]
    BY <1>2 DEF Look
  <2>3. plan \in Seq(CallNames)
    BY PlansType
  <2>4. QED
    BY <2>1, <2>2, <2>3 DEF TypeThreads, Steps, Busy
<1>3. ASSUME NEW t \in Threads, CallStep(t) PROVE TypeThreads'
  <2>1. lock' \in {lock, t, "free"}
    BY <1>3 DEF CallStep, LoggerStart, StartOpen, StartAggregate, StartAnnounce, StartRadioOff,
       Reply, LoggerStartUsb, UsbOpen, UsbAggregate, SetRate, LoggerJumped, LoggerArm,
       LoggerDisarm, DisarmSample, LoggerStop, StopAccel, StopHalt, StopJoin, StopClose,
       StopUnregister, StopPublish, StopRadioOn
  <2>2. lock' \in Threads \cup {"free"}
    BY <2>1 DEF TypeThreads
  <2>3. QED
    BY <1>3, <2>2, StepBusy, StepFlow, GotoType, ReturnType
<1>4. CASE DisconnectWork
  <2> DEFINE stop == <<"stop">>
  <2>1. /\ UNCHANGED <<lock, at>>
        /\ todo' = todo \/ todo' = [todo EXCEPT ![SysWorkq] = stop]
    BY <1>4 DEF DisconnectWork
  <2>2. stop \in Seq(CallNames) /\ stop # <<>>
    BY SMT DEF CallNames
  <2> HIDE DEF stop
  <2>3. QED
    BY <2>1, <2>2 DEF TypeThreads, Busy
<1>5. ASSUME UNCHANGED <<lock, at, todo>> PROVE TypeThreads'
  BY <1>5 DEF TypeThreads, Busy
<1>6. QED
  BY <1>1, <1>2, <1>3, <1>4, <1>5
     DEF Next, vars, WorkerExit, HostGone, BleStopWork, GroundWork

LEMMA StepLockOK == TypeOK /\ [Next]_vars => LockOK'
<1> SUFFICES ASSUME TypeThreads, LockOK, [Next]_vars PROVE LockOK'
  BY DEF TypeOK
<1> USE DEF LockOK, TypeThreads, Locked
<1>1. ASSUME NEW t \in Threads, Arrive(t) \/ Look(t) PROVE LockOK'
  BY <1>1 DEF Arrive, Look, Goto
<1>2. ASSUME NEW t \in Threads, CallStep(t) PROVE LockOK'
  <2>1. "free" \notin Threads
    BY ThreadAssumption DEF Main, Button, Smp, Baro, SysWorkq
  <2>2. PICK step \in Steps : at' = [at EXCEPT ![t] = step]
    <3>1. (\E step \in Steps : Goto(t, step)) \/ Return(t) \/ GiveUp(t)
      BY <1>2, StepFlow
    <3>2. "idle" \in Steps
      BY DEF Steps
    <3>3. QED
      BY <3>1, <3>2 DEF Goto, Return, GiveUp
  <2>3. CASE UNCHANGED lock /\ (at[t] \in Locked <=> step \in Locked)
    BY <2>2, <2>3
  <2>4. CASE lock = "free" /\ lock' = t /\ step \in Locked
    BY <2>1, <2>2, <2>4
  <2>5. CASE at[t] \in Locked /\ lock' = "free" /\ step \notin Locked
    BY <2>1, <2>2, <2>5
  <2>6. step = at'[t]
    BY <2>2
  <2>7. \/ UNCHANGED lock /\ (at[t] \in Locked <=> at'[t] \in Locked)
        \/ lock = "free" /\ lock' = t /\ at'[t] \in Locked
        \/ at[t] \in Locked /\ lock' = "free" /\ at'[t] \notin Locked
    BY <1>2 DEF CallStep, Goto, Return, GiveUp, Calls, LoggerStart, StartOpen, StartAggregate, StartAnnounce, StartRadioOff,
       Reply, LoggerStartUsb, UsbOpen, UsbAggregate, SetRate, LoggerJumped, LoggerArm,
       LoggerDisarm, DisarmSample, LoggerStop, StopAccel, StopHalt, StopJoin, StopClose,
       StopUnregister, StopPublish, StopRadioOn
  <2>8. QED
    BY <2>3, <2>4, <2>5, <2>6, <2>7
<1>3. ASSUME UNCHANGED <<lock, at>> PROVE LockOK'
  BY <1>3
<1>4. QED
  BY <1>1, <1>2, <1>3
     DEF Next, vars, WorkerExit, HostGone, DisconnectWork, BleStopWork, GroundWork

LEMMA StepType == TypeOK /\ [Next]_vars => TypeOK'
  BY StepTypeSession, StepTypeFlags, StepTypeOutput, StepTypeThreads, StepLockOK DEF TypeOK

\* In any interleaving of the threads' calls the lock is held by exactly the
\* thread inside the locked part of a start, and every variable has its type.
THEOREM TypeCorrect == Spec => []TypeOK
  BY InitType, StepType, PTL DEF Spec

-----------------------------------------------------------------------------
(* Sessions end once *)

LEMMA InitEnded == Init => EndedForGood
  BY DEF Init, EndedForGood, Active

LEMMA StepEnded == TypeOK /\ EndedForGood /\ [Next]_vars => EndedForGood'
<1> SUFFICES ASSUME TypeSession, EndedForGood, [Next]_vars PROVE EndedForGood'
  BY DEF TypeOK
<1> USE DEF TypeSession, EndedForGood, Active, Ready
\* A new session has a number beyond every one that has ended.
<1>1. ASSUME NEW t \in Threads, StartAggregate(t) \/ UsbAggregate(t) PROVE EndedForGood'
  BY <1>1 DEF StartAggregate, UsbAggregate
<1>2. ASSUME NEW t \in Threads, LoggerStop(t) PROVE EndedForGood'
  BY <1>2 DEF LoggerStop
\* JUMPED is reached from LOGGING, tested under the same lock.
<1>3. ASSUME NEW t \in Threads, LoggerJumped(t) \/ LoggerArm(t) \/ LoggerDisarm(t)
      PROVE  EndedForGood'
  BY <1>3 DEF LoggerJumped, LoggerArm, LoggerDisarm, histVars
<1>4. ASSUME UNCHANGED <<state, histVars>> PROVE EndedForGood'
  BY <1>4 DEF histVars
<1>5. QED
  BY <1>1, <1>2, <1>3, <1>4
     DEF vars, Next, CallStep, Arrive, Look, LoggerStart, StartOpen, StartAnnounce,
         StartRadioOff, Reply, LoggerStartUsb, UsbOpen, SetRate, DisarmSample, StopAccel,
         StopHalt, StopJoin, StopClose, StopUnregister, StopPublish, StopRadioOn,
         WorkerExit, HostGone, DisconnectWork, BleStopWork, GroundWork

\* No session that logger_stop() has ended becomes active again, so no session
\* is torn down twice, whatever calls race.
THEOREM EndsOnce == Spec => []EndedForGood
<1>1. Init => TypeOK /\ EndedForGood
  BY InitType, InitEnded
<1>2. TypeOK /\ EndedForGood /\ [Next]_vars => (TypeOK /\ EndedForGood)'
  BY StepType, StepEnded
<1>3. QED
  BY <1>1, <1>2, PTL DEF Spec

-----------------------------------------------------------------------------
(* The promise of Session is kept *)

\* Whoever is inside the locked part of a start has found the state ready, and
\* nobody changes it under its hands.
StartsReady == \A t \in Threads : at[t] \in Locked => state \in Ready

LEMMA InitReady == Init => StartsReady
  BY DEF Init, StartsReady, Ready

\* The state changes only where the lock is free or by the thread that holds it.
LEMMA StepReady == TypeOK /\ StartsReady /\ [Next]_vars => StartsReady'
<1> SUFFICES ASSUME TypeThreads, LockOK, StartsReady, [Next]_vars PROVE StartsReady'
  BY DEF TypeOK
<1> USE DEF StartsReady, LockOK
<1>1. ASSUME NEW t \in Threads, Arrive(t) \/ Look(t) PROVE StartsReady'
  BY <1>1 DEF Arrive, Look, Goto, Locked, TypeThreads
<1>2. ASSUME NEW t \in Threads, CallStep(t) PROVE StartsReady'
  <2>1. PICK step \in Steps : at' = [at EXCEPT ![t] = step]
    <3>1. (\E step \in Steps : Goto(t, step)) \/ Return(t) \/ GiveUp(t)
      BY <1>2, StepFlow
    <3>2. "idle" \in Steps
      BY DEF Steps
    <3>3. QED
      BY <3>1, <3>2 DEF Goto, Return, GiveUp
  <2>2. at'[t] = step /\ \A u \in Threads \ {t} : at'[u] = at[u]
    BY <2>1 DEF TypeThreads
  <2>3. "free" \notin Threads
    BY ThreadAssumption DEF Main, Button, Smp, Baro, SysWorkq
  <2>4. CASE LoggerStart(t) \/ LoggerStartUsb(t)
    <3>1. UNCHANGED state /\ (state \in Ready \/ GiveUp(t))
      BY <2>4 DEF LoggerStart, LoggerStartUsb
    <3>2. GiveUp(t) => at'[t] \notin Locked
      BY DEF GiveUp, Locked, TypeThreads
    <3>3. QED
      BY <2>2, <3>1, <3>2
  <2>6. CASE at[t] \in Locked /\ at'[t] \notin Locked
    <3>1. \A u \in Threads \ {t} : at[u] \notin Locked
      BY <2>6
    <3>2. QED
      BY <2>2, <2>6, <3>1
  <2>7. CASE lock = "free" /\ at'[t] \notin Locked
    BY <2>2, <2>3, <2>7
  <2>8. CASE UNCHANGED state /\ (at'[t] \in Locked => at[t] \in Locked)
    BY <2>2, <2>8
  <2>9. \/ LoggerStart(t) \/ LoggerStartUsb(t)
        \/ at[t] \in Locked /\ at'[t] \notin Locked
        \/ lock = "free" /\ at'[t] \notin Locked
        \/ UNCHANGED state /\ (at'[t] \in Locked => at[t] \in Locked)
    BY <1>2 DEF CallStep, Goto, Return, GiveUp, Calls, TypeThreads, Locked, StartOpen,
       StartAggregate, StartAnnounce, StartRadioOff, Reply, UsbOpen, UsbAggregate, SetRate,
       LoggerJumped, LoggerArm, LoggerDisarm, DisarmSample, LoggerStop, StopAccel, StopHalt,
       StopJoin, StopClose, StopUnregister, StopPublish, StopRadioOn
  <2>10. QED
    BY <2>4, <2>6, <2>7, <2>8, <2>9
<1>3. ASSUME UNCHANGED <<state, at>> PROVE StartsReady'
  BY <1>3
<1>4. QED
  BY <1>1, <1>2, <1>3
     DEF Next, vars, WorkerExit, HostGone, DisconnectWork, BleStopWork, GroundWork

LEMMA InitImplements == Init => S!SessionInit
  BY DEF Init, S!SessionInit, Active

\* A start begins a session where none is in progress.
LEMMA BeginImplements ==
  ASSUME TypeOK, StartsReady, NEW t \in Threads, StartAggregate(t) \/ UsbAggregate(t)
  PROVE  [S!SessionNext]_S!sessionVars
<1>1. state \in Ready
  BY DEF StartsReady, Locked, StartAggregate, UsbAggregate
<1>2. CASE UNCHANGED <<state, session, ended>>
  BY <1>2 DEF S!sessionVars
<1>3. CASE state' = "LOGGING" /\ session' = session + 1 /\ ended' = ended
  <2>1. S!Begin
    BY <1>1, <1>3 DEF S!Begin, Active, Ready, TypeOK, TypeSession
  <2>2. QED
    BY <2>1 DEF S!SessionNext
<1>4. QED
  BY <1>2, <1>3 DEF StartAggregate, UsbAggregate, histVars

\* The other locked changes of the state are the promised ones, or none.
LEMMA ChangeImplements ==
  ASSUME TypeOK, NEW t \in Threads,
         LoggerJumped(t) \/ LoggerArm(t) \/ LoggerDisarm(t) \/ LoggerStop(t)
  PROVE  [S!SessionNext]_S!sessionVars
<1> USE DEF TypeOK, TypeSession, Active, Ready
<1>1. CASE LoggerJumped(t)
  <2>1. CASE state = "LOGGING"
    <3>1. S!MarkJump
      BY <1>1, <2>1 DEF LoggerJumped, S!MarkJump, histVars
    <3>2. QED
      BY <3>1 DEF S!SessionNext
  <2>2. CASE state # "LOGGING"
    BY <1>1, <2>2 DEF LoggerJumped, S!sessionVars, histVars
  <2>3. QED
    BY <2>1, <2>2
<1>2. CASE LoggerArm(t)
  <2>1. S!Arm
    BY <1>2 DEF LoggerArm, S!Arm, histVars
  <2>2. QED
    BY <2>1 DEF S!SessionNext
<1>3. CASE LoggerDisarm(t)
  <2>1. CASE state = "ARMED"
    <3>1. S!Disarm
      BY <1>3, <2>1 DEF LoggerDisarm, S!Disarm, histVars
    <3>2. QED
      BY <3>1 DEF S!SessionNext
  <2>2. CASE state # "ARMED"
    BY <1>3, <2>2 DEF LoggerDisarm, S!sessionVars, histVars
  <2>3. QED
    BY <2>1, <2>2
<1>4. CASE LoggerStop(t)
  <2>1. CASE state \in Active
    <3>1. S!End
      BY <1>4, <2>1 DEF LoggerStop, S!End
    <3>2. QED
      BY <3>1 DEF S!SessionNext
  <2>2. CASE state \notin Active
    BY <1>4, <2>2 DEF LoggerStop, S!sessionVars
  <2>3. QED
    BY <2>1, <2>2
<1>5. QED
  BY <1>1, <1>2, <1>3, <1>4

\* Every step of the threads is a promised operation or leaves the control alone.
LEMMA StepImplements ==
  TypeOK /\ StartsReady /\ [Next]_vars => [S!SessionNext]_S!sessionVars
<1> SUFFICES ASSUME TypeOK, StartsReady, [Next]_vars PROVE [S!SessionNext]_S!sessionVars
  OBVIOUS
<1>1. ASSUME UNCHANGED <<state, histVars>> PROVE [S!SessionNext]_S!sessionVars
  BY <1>1 DEF S!sessionVars, histVars
<1>2. QED
  BY <1>1, BeginImplements, ChangeImplements
     DEF vars, Next, CallStep, Arrive, Look, LoggerStart, StartOpen, StartAnnounce,
         StartRadioOff, Reply, LoggerStartUsb, UsbOpen, SetRate, DisarmSample, StopAccel,
         StopHalt, StopJoin, StopClose, StopUnregister, StopPublish, StopRadioOn,
         WorkerExit, HostGone, DisconnectWork, BleStopWork, GroundWork

LEMMA AnswersState == TypeOK => S!LoggerState = state
  BY DEF TypeOK, TypeSession, S!LoggerState, Active, Ready

\* For any threads, calls and races the session control keeps the promise of
\* Session: no session begins over another, a jump is marked in a session in
\* progress and once, an ended session stays so, and logger_get_state() answers
\* what the promise says.
THEOREM Implements == Spec => SessionsImplemented
<1>1. Init => TypeOK /\ StartsReady
  BY InitType, InitReady
<1>2. TypeOK /\ StartsReady /\ [Next]_vars => (TypeOK /\ StartsReady)'
  BY StepType, StepReady
<1>3. QED
  BY <1>1, <1>2, InitImplements, StepImplements, AnswersState, PTL
     DEF Spec, SessionsImplemented, S!SessionSpec

-----------------------------------------------------------------------------
(* Calls that do not overlap *)

StartSteps == {"open", "aggregate", "announce", "radioOff"}
UsbSteps   == {"ttyOpen", "usbAggregate", "rate1"}
StopSteps  == {"accelOff", "halt", "join", "close", "unregister", "publish", "radioOn"}

\* What remains of a plan after some of its calls.
Rests == Plans \cup {<<"arm", "rate1">>, <<"rate1">>, <<"reply">>}

\* A thread goes through its plan, and the step it is at belongs to the call its
\* plan has come to.
StepOfCall(t) ==
  /\ todo[t] \in Rests
  /\ at[t] \in StartSteps => Head(todo[t]) = "start"
  /\ at[t] \in UsbSteps   => Head(todo[t]) = "startUsb"
  /\ at[t] \in StopSteps  => Head(todo[t]) = "stop"
  /\ at[t] = "rate10"     => Head(todo[t]) = "jumped"
  /\ at[t] = "sample"     => Head(todo[t]) = "disarm"

FollowsPlan == \A t \in Threads : StepOfCall(t)

\* Only what usb_mode names can be open.
OneOutlet == IF usbMode THEN file = 0 ELSE ~tty /\ ~callback

Recording ==
  /\ running /\ worker /\ OneOutlet
  /\ IF usbMode THEN output = "usb" /\ tty /\ callback
                ELSE output = "file" /\ file = session

AllOff   == ~running /\ ~accel /\ OneOutlet
Released == AllOff /\ ~usbMode /\ file = 0 /\ ground

\* Outside a session, what is on when the one thread in a call is at p: what the
\* steps of a start have set up, what those of a stop have yet to tear down.
Setup(p) ==
  /\ p = "aggregate" => AllOff /\ ~usbMode /\ output = "file" /\ file = session + 1
  /\ p = "ttyOpen" => /\ ~running /\ ~accel /\ file = 0 /\ ground
                      /\ usbMode /\ ~tty /\ ~callback
  /\ p = "usbAggregate" => AllOff /\ usbMode /\ output = "usb" /\ tty /\ callback
  /\ p = "accelOff" => running /\ OneOutlet
  /\ p = "halt" => running /\ ~accel /\ OneOutlet
  /\ p \in {"join", "close"} => AllOff
  /\ p = "unregister" => ~running /\ ~accel /\ usbMode /\ ~tty /\ file = 0
  /\ p = "publish" => AllOff /\ ~usbMode /\ file = 0
  /\ p \notin {"aggregate", "ttyOpen", "usbAggregate"} \cup StopSteps => Released
  /\ p = "radioOn" => Released

\* The radio is off in a session once the start has turned it off, or about to be.
RadioOff(p) ==
  state \in Active /\ ~usbMode /\ p \notin {"announce", "radioOff"} => stopWork \/ ~radio

Fits(p) ==
  /\ state \in Active => Recording
  /\ state \in Ready => Setup(p)
  /\ p \in StopSteps => state = "IDLE"
  /\ p \in {"announce", "radioOff"} => state \in Active
  /\ RadioOff(p)

\* While no two threads have been in calls at once: what is on fits the place of
\* the one that is in a call, and a thread about to arm is not in a session.
Alone(t) == \A u \in Threads \ {t} : at[u] \in {"idle", "look"}

CalmInv ==
  calm =>
    /\ OneBusy
    /\ \A t \in Threads : Alone(t) => Fits(at[t])
    /\ \A t \in Threads : Calls(t, "arm") => state \in Ready

\* What is left of a plan after its first call is one of the rests.
LEMMA RestsTail == \A rest \in Rests : rest # <<>> => Tail(rest) \in Rests
<1> SUFFICES ASSUME NEW rest \in Rests, rest # <<>> PROVE Tail(rest) \in Rests
  OBVIOUS
<1>1. CASE rest = Landing
  <2>1. Tail(Landing) = <<"arm", "rate1">>
    BY DEF Landing
  <2>2. QED
    BY <1>1, <2>1 DEF Rests
<1>2. CASE rest = <<"start", "reply">>
  <2>1. Tail(<<"start", "reply">>) = <<"reply">>
    OBVIOUS
  <2>2. QED
    BY <1>2, <2>1 DEF Rests
<1>3. CASE rest = <<"arm", "start", "reply">>
  <2>1. Tail(<<"arm", "start", "reply">>) = <<"start", "reply">>
    OBVIOUS
  <2>2. QED
    BY <1>3, <2>1 DEF Rests, Plans
<1>4. CASE rest = <<"arm", "rate1">>
  <2>1. Tail(<<"arm", "rate1">>) = <<"rate1">>
    OBVIOUS
  <2>2. QED
    BY <1>4, <2>1 DEF Rests
<1>5. CASE \E c \in CallNames : rest = <<c>>
  <2>1. Tail(rest) = <<>>
    BY <1>5
  <2>2. QED
    BY <2>1 DEF Rests, Plans
<1>6. QED
  BY <1>1, <1>2, <1>3, <1>4, <1>5, Zenon DEF Rests, Plans, CallNames

\* After a stop that began a landing, and only then, the next call is an arm.
LEMMA RestsArm ==
  \A rest \in Rests : rest # <<>> /\ Tail(rest) # <<>> /\ Head(Tail(rest)) = "arm"
                      => Head(rest) = "stop"
  BY SMT DEF Rests, Plans, Landing

LEMMA InitFollows == Init => FollowsPlan
  BY DEF Init, FollowsPlan, StepOfCall, Rests, Plans, StartSteps, UsbSteps, StopSteps

\* A thread that goes to a step of the call it is in follows its plan.
LEMMA GotoFollows ==
  ASSUME TypeThreads, FollowsPlan, NEW t \in Threads, NEW step \in Steps, Goto(t, step),
         /\ step \in StartSteps => Head(todo[t]) = "start"
         /\ step \in UsbSteps   => Head(todo[t]) = "startUsb"
         /\ step \in StopSteps  => Head(todo[t]) = "stop"
         /\ step = "rate10"     => Head(todo[t]) = "jumped"
         /\ step = "sample"     => Head(todo[t]) = "disarm"
  PROVE  FollowsPlan'
  BY DEF FollowsPlan, StepOfCall, Goto, TypeThreads

\* Nothing but idle or look follows the return from a call.
LEMMA IdleFollows ==
  ASSUME TypeThreads, FollowsPlan, NEW t \in Threads, NEW rest \in Rests,
         at' = [at EXCEPT ![t] = "idle"], todo' = [todo EXCEPT ![t] = rest]
  PROVE  FollowsPlan'
  BY DEF FollowsPlan, StepOfCall, TypeThreads, StartSteps, UsbSteps, StopSteps

LEMMA ReturnFollows ==
  ASSUME TypeThreads, FollowsPlan, NEW t \in Threads, Busy(t), Return(t) \/ GiveUp(t)
  PROVE  FollowsPlan'
<1>1. <<>> \in Rests
  BY DEF Rests, Plans
<1>2. Tail(todo[t]) \in Rests
  BY RestsTail DEF FollowsPlan, StepOfCall, Busy
<1>3. CASE Return(t)
  BY <1>2, <1>3, IdleFollows DEF Return
<1>4. CASE GiveUp(t)
  BY <1>1, <1>4, IdleFollows DEF GiveUp
<1>5. QED
  BY <1>3, <1>4

LEMMA StepFollows == TypeOK /\ FollowsPlan /\ [Next]_vars => FollowsPlan'
<1> SUFFICES ASSUME TypeThreads, FollowsPlan, [Next]_vars PROVE FollowsPlan'
  BY DEF TypeOK
<1>1. ASSUME NEW t \in Threads, Arrive(t) PROVE FollowsPlan'
  BY <1>1, GotoFollows DEF Arrive, Steps, StartSteps, UsbSteps, StopSteps
<1>2. ASSUME NEW t \in Threads, Look(t) PROVE FollowsPlan'
  <2>1. PICK plan \in Plans : todo' = [todo EXCEPT ![t] = plan]
    BY <1>2 DEF Look
  <2>2. plan \in Rests /\ at' = [at EXCEPT ![t] = "idle"]
    BY <1>2 DEF Look, Rests
  <2>3. QED
    BY <2>1, <2>2, IdleFollows
<1>3. ASSUME NEW t \in Threads, CallStep(t) PROVE FollowsPlan'
  <2>1. StepOfCall(t)
    BY DEF FollowsPlan
  <2>2. CASE Return(t) \/ GiveUp(t)
    BY <1>3, <2>2, StepBusy, ReturnFollows
  <2>3. \/ Return(t) \/ GiveUp(t)
        \/ \E step \in Steps :
             /\ Goto(t, step)
             /\ step \in StartSteps => Head(todo[t]) = "start"
             /\ step \in UsbSteps   => Head(todo[t]) = "startUsb"
             /\ step \in StopSteps  => Head(todo[t]) = "stop"
             /\ step = "rate10"     => Head(todo[t]) = "jumped"
             /\ step = "sample"     => Head(todo[t]) = "disarm"
    BY <1>3, <2>1 DEF StepOfCall, Calls, Steps, StartSteps, UsbSteps, StopSteps,
       CallStep, LoggerStart, StartOpen, StartAggregate, StartAnnounce, StartRadioOff,
       Reply, LoggerStartUsb, UsbOpen, UsbAggregate, SetRate, LoggerJumped, LoggerArm,
       LoggerDisarm, DisarmSample, LoggerStop, StopAccel, StopHalt, StopJoin, StopClose,
       StopUnregister, StopPublish, StopRadioOn
  <2>4. QED
    BY <2>2, <2>3, GotoFollows
<1>4. CASE DisconnectWork
  <2> DEFINE stop == <<"stop">>
  <2>1. /\ UNCHANGED at
        /\ todo' = todo \/ todo' = [todo EXCEPT ![SysWorkq] = stop]
    BY <1>4 DEF DisconnectWork
  <2>2. stop \in Rests
    BY DEF Rests, Plans
  <2>3. SysWorkq \in Threads /\ at[SysWorkq] \in {"idle", "look"}
    BY <1>4, ThreadAssumption DEF DisconnectWork, TypeThreads
  <2> HIDE DEF stop
  <2>4. QED
    BY <2>1, <2>2, <2>3 DEF FollowsPlan, StepOfCall, TypeThreads, StartSteps, UsbSteps, StopSteps
<1>5. ASSUME UNCHANGED <<at, todo>> PROVE FollowsPlan'
  BY <1>5 DEF FollowsPlan, StepOfCall
<1>6. QED
  BY <1>1, <1>2, <1>3, <1>4, <1>5
     DEF Next, vars, WorkerExit, HostGone, BleStopWork, GroundWork

LEMMA InitCalm == Init => CalmInv
<1> SUFFICES ASSUME Init PROVE CalmInv
  OBVIOUS
<1>1. OneBusy
  BY DEF Init, OneBusy, Busy
<1>2. ASSUME NEW t \in Threads PROVE Fits(at[t]) /\ ~Calls(t, "arm")
  BY DEF Init, Fits, Setup, Released, AllOff, OneOutlet, RadioOff, Active, Ready, StopSteps, Calls
<1>3. QED
  BY <1>1, <1>2 DEF CalmInv

\* The step of a start, alone, takes what is on from one place to the next.
LEMMA StartFits ==
  ASSUME TypeOK, StartsReady, NEW t \in Threads, Fits(at[t]),
         LoggerStart(t) \/ StartOpen(t) \/ StartAggregate(t) \/ StartAnnounce(t)
           \/ StartRadioOff(t) \/ Reply(t)
  PROVE  Fits(at[t])'
<1> USE DEF Fits, Setup, RadioOff, Released, AllOff, OneOutlet, Recording, StopSteps,
        TypeOK, TypeThreads, TypeFlags, TypeSession, Active, Ready, Goto, Return, GiveUp
<1>1. CASE LoggerStart(t)
  BY <1>1 DEF LoggerStart, Calls, usbVars, aggVars, radioVars, histVars
<1>2. CASE StartOpen(t)
  BY <1>2 DEF StartOpen, StartsReady, Locked, usbVars, radioVars, histVars
<1>3. CASE StartAggregate(t)
  BY <1>3 DEF StartAggregate, StartsReady, Locked, usbVars, radioVars
<1>4. CASE StartAnnounce(t)
  BY <1>4 DEF StartAnnounce, usbVars, aggVars, radioVars, histVars
<1>5. CASE StartRadioOff(t)
  BY <1>5 DEF StartRadioOff, usbVars, aggVars, histVars
<1>6. CASE Reply(t)
  BY <1>6 DEF Reply, Calls, usbVars, aggVars, histVars
<1>7. QED
  BY <1>1, <1>2, <1>3, <1>4, <1>5, <1>6

\* So does the step of a start of the USB stream, or of a call that changes only
\* the state.
LEMMA UsbFits ==
  ASSUME TypeOK, StartsReady, NEW t \in Threads, Fits(at[t]),
         LoggerStartUsb(t) \/ UsbOpen(t) \/ UsbAggregate(t) \/ SetRate(t)
  PROVE  Fits(at[t])'
<1> USE DEF Fits, Setup, RadioOff, Released, AllOff, OneOutlet, Recording, StopSteps,
        TypeOK, TypeThreads, TypeFlags, TypeSession, Active, Ready, Goto, Return, GiveUp
<1>1. CASE LoggerStartUsb(t)
  BY <1>1 DEF LoggerStartUsb, Calls, aggVars, radioVars, histVars
<1>2. CASE UsbOpen(t)
  BY <1>2 DEF UsbOpen, StartsReady, Locked, radioVars, histVars
<1>3. CASE UsbAggregate(t)
  BY <1>3 DEF UsbAggregate, StartsReady, Locked, radioVars
<1>4. CASE SetRate(t)
  BY <1>4 DEF SetRate, Calls, usbVars, aggVars, radioVars, histVars
<1>5. QED
  BY <1>1, <1>2, <1>3, <1>4

LEMMA ChangeFits ==
  ASSUME TypeOK, NEW t \in Threads, Fits(at[t]), Calls(t, "arm") => state \in Ready,
         LoggerJumped(t) \/ LoggerArm(t) \/ LoggerDisarm(t) \/ DisarmSample(t)
  PROVE  Fits(at[t])'
<1> USE DEF Fits, Setup, RadioOff, Released, AllOff, OneOutlet, Recording, StopSteps,
        TypeOK, TypeThreads, TypeFlags, TypeSession, Active, Ready, Goto, Return, GiveUp
<1>1. CASE LoggerJumped(t)
  BY <1>1 DEF LoggerJumped, Calls, usbVars, aggVars, radioVars, histVars
<1>2. CASE LoggerArm(t)
  BY <1>2 DEF LoggerArm, Calls, usbVars, aggVars, radioVars, histVars
<1>3. CASE LoggerDisarm(t)
  BY <1>3 DEF LoggerDisarm, Calls, usbVars, aggVars, radioVars, histVars
<1>4. CASE DisarmSample(t)
  BY <1>4 DEF DisarmSample, usbVars, aggVars, radioVars, histVars
<1>5. QED
  BY <1>1, <1>2, <1>3, <1>4

\* And the step of a stop, whose seven places lie between the session and Released.
LEMMA StopFits ==
  ASSUME TypeOK, NEW t \in Threads, Fits(at[t]),
         LoggerStop(t) \/ StopAccel(t) \/ StopHalt(t) \/ StopJoin(t) \/ StopClose(t)
           \/ StopUnregister(t) \/ StopPublish(t) \/ StopRadioOn(t)
  PROVE  Fits(at[t])'
<1> USE DEF Fits, Setup, RadioOff, Released, AllOff, OneOutlet, Recording, StopSteps,
        TypeOK, TypeThreads, TypeFlags, TypeSession, Active, Ready, Goto, Return, GiveUp
<1>1. CASE LoggerStop(t)
  BY <1>1 DEF LoggerStop, Calls, usbVars, aggVars, radioVars
<1>2. CASE StopAccel(t)
  BY <1>2 DEF StopAccel, usbVars, aggVars, radioVars, histVars
<1>3. CASE StopHalt(t)
  BY <1>3 DEF StopHalt, usbVars, aggVars, radioVars, histVars
<1>4. CASE StopJoin(t)
  BY <1>4 DEF StopJoin, usbVars, aggVars, radioVars, histVars
<1>5. CASE StopClose(t)
  BY <1>5 DEF StopClose, usbVars, aggVars, radioVars, histVars
<1>6. CASE StopUnregister(t)
  BY <1>6 DEF StopUnregister, usbVars, aggVars, radioVars, histVars
<1>7. CASE StopPublish(t)
  BY <1>7 DEF StopPublish, usbVars, aggVars, radioVars, histVars
<1>8. CASE StopRadioOn(t)
  BY <1>8 DEF StopRadioOn, usbVars, aggVars, radioVars, histVars
<1>9. QED
  BY <1>1, <1>2, <1>3, <1>4, <1>5, <1>6, <1>7, <1>8

\* What runs by itself disturbs nothing at any place.
LEMMA SelfFits ==
  ASSUME TypeFlags, NEW p \in Steps, Fits(p),
         WorkerExit \/ HostGone \/ DisconnectWork \/ BleStopWork \/ GroundWork
  PROVE  Fits(p)'
<1> USE DEF Fits, Setup, RadioOff, Released, AllOff, OneOutlet, Recording, TypeFlags
<1>1. CASE WorkerExit
  BY <1>1 DEF WorkerExit, usbVars, radioVars, histVars
<1>2. CASE HostGone
  BY <1>2 DEF HostGone, aggVars, radioVars, histVars
<1>3. CASE DisconnectWork
  BY <1>3 DEF DisconnectWork, aggVars, radioVars, histVars
<1>4. CASE BleStopWork
  BY <1>4 DEF BleStopWork, usbVars, aggVars, histVars
<1>5. CASE GroundWork
  BY <1>5 DEF GroundWork, usbVars, aggVars, radioVars, histVars, Ready
<1>6. QED
  BY <1>1, <1>2, <1>3, <1>4, <1>5

\* A thread in a call is the only one, so the places of the others say nothing.
LEMMA AloneInCall ==
  ASSUME TypeThreads, OneBusy, NEW t \in Threads, Busy(t)
  PROVE  Alone(t) /\ \A u \in Threads \ {t} : ~Busy(u)
  BY DEF OneBusy, Alone, TypeThreads, Busy

\* Where one thread is alone and its place fits, the place of any other that is
\* alone does too: both are then in no call.
LEMMA OthersFit ==
  ASSUME TypeThreads', NEW t \in Threads, Alone(t)', Fits(at[t])'
  PROVE  \A u \in Threads : Alone(u)' => Fits(at[u])'
<1> SUFFICES ASSUME NEW u \in Threads, u # t, Alone(u)' PROVE Fits(at[u])'
  OBVIOUS
<1>1. at'[t] \in {"idle", "look"} /\ at'[u] \in {"idle", "look"}
  BY DEF Alone
<1>2. ASSUME NEW p \in {"idle", "look"}, NEW q \in {"idle", "look"}, Fits(p)'
      PROVE  Fits(q)'
  BY <1>2 DEF Fits, Setup, RadioOff, StopSteps
<1>3. QED
  BY <1>1, <1>2

\* A call that does not return goes to one of its steps.
LEMMA StepInside ==
  ASSUME NEW t \in Threads, CallStep(t)
  PROVE  (\E step \in Steps \ {"idle", "look"} : Goto(t, step)) \/ Return(t) \/ GiveUp(t)
  BY DEF CallStep, Steps, LoggerStart, StartOpen, StartAggregate, StartAnnounce, StartRadioOff,
       Reply, LoggerStartUsb, UsbOpen, UsbAggregate, SetRate, LoggerJumped, LoggerArm,
       LoggerDisarm, DisarmSample, LoggerStop, StopAccel, StopHalt, StopJoin, StopClose,
       StopUnregister, StopPublish, StopRadioOn

\* What remains of the plan of a thread that has come to an arm was decided
\* outside a session, or the landing has just stopped it.
LEMMA ArmsReady ==
  ASSUME TypeOK, FollowsPlan, NEW t \in Threads, CallStep(t), Fits(at[t]), Calls(t, "arm")'
  PROVE  (state \in Ready)'
<1> USE DEF TypeOK
<1>1. StepOfCall(t)
  BY DEF FollowsPlan
<1>2. Busy(t)
  BY StepBusy
<1>3. CASE \E step \in Steps \ {"idle", "look"} : Goto(t, step)
  BY <1>3 DEF Calls, Goto, TypeThreads
<1>4. CASE GiveUp(t)
  BY <1>4 DEF GiveUp, Calls, TypeThreads
<1>5. CASE Return(t)
  <2>1. todo'[t] = Tail(todo[t]) /\ todo'[t] # <<>> /\ Head(todo'[t]) = "arm"
    BY <1>5 DEF Return, Calls, TypeThreads
  <2>2. Head(todo[t]) = "stop"
    BY <1>1, <1>2, <2>1, RestsArm DEF StepOfCall, Busy
  <2>3. LoggerStop(t) \/ StopRadioOn(t)
    BY <1>1, <2>2, <1>5 DEF StepOfCall, Calls, Return, CallStep, Goto, TypeThreads, StartSteps, UsbSteps, StopSteps, LoggerStart, StartOpen, StartAggregate,
       StartAnnounce, StartRadioOff, Reply, LoggerStartUsb, UsbOpen, UsbAggregate, SetRate,
       LoggerJumped, LoggerArm, LoggerDisarm, DisarmSample, StopAccel, StopHalt,
       StopJoin, StopClose, StopUnregister, StopPublish
  <2>4. CASE LoggerStop(t)
    BY <2>4 DEF LoggerStop, TypeSession, Active, Ready
  <2>5. CASE StopRadioOn(t)
    BY <2>5 DEF StopRadioOn, Fits, StopSteps, Ready
  <2>6. QED
    BY <2>3, <2>4, <2>5
<1>6. QED
  BY <1>3, <1>4, <1>5, StepInside

\* calm only ever goes from TRUE to FALSE, and is looked at by every step that
\* changes what the threads have to do.
LEMMA CalmObserved ==
  ASSUME [Next]_vars, calm'
  PROVE  calm /\ (OneBusy => OneBusy')
<1>1. \/ calm' = calm /\ UNCHANGED todo
      \/ calm' = (calm /\ OneBusy')
  <2>1. ASSUME NEW t \in Threads, Arrive(t) \/ Look(t) \/ CallStep(t)
        PROVE  (calm' = calm /\ UNCHANGED todo) \/ Observe
    BY <2>1, StepInside DEF Arrive, Look, Goto, Return, GiveUp
  <2>2. ASSUME WorkerExit \/ HostGone \/ DisconnectWork \/ BleStopWork \/ GroundWork
                 \/ UNCHANGED vars
        PROVE  (calm' = calm /\ UNCHANGED todo) \/ Observe
    BY <2>2 DEF WorkerExit, HostGone, DisconnectWork, BleStopWork, GroundWork, vars
  <2>3. QED
    BY <2>1, <2>2, Zenon DEF Next, Observe
<1>2. CASE calm' = calm /\ UNCHANGED todo
  BY <1>2 DEF OneBusy, Busy
<1>3. CASE calm' = (calm /\ OneBusy')
  BY <1>3, Zenon
<1>4. QED
  BY <1>1, <1>2, <1>3

\* A step of a call, with the lock and the plans as they are.
LEMMA CallCalm ==
  ASSUME TypeOK, StartsReady, FollowsPlan, CalmInv, calm, calm', TypeThreads', OneBusy',
         NEW t \in Threads, CallStep(t)
  PROVE  CalmInv'
<1> USE DEF TypeOK
<1>1. OneBusy /\ Alone(t) /\ Busy(t) /\ \A u \in Threads \ {t} : ~Busy(u)
  BY StepBusy, AloneInCall DEF CalmInv
<1>2. Fits(at[t]) /\ (Calls(t, "arm") => state \in Ready)
  BY <1>1 DEF CalmInv
<1>3. Fits(at[t])'
  BY <1>2, StartFits, UsbFits, ChangeFits, StopFits DEF CallStep
<1>4. \A u \in Threads \ {t} : at'[u] = at[u] /\ todo'[u] = todo[u]
  BY StepFlow DEF Goto, Return, GiveUp, TypeThreads
<1>5. Alone(t)'
  BY <1>1, <1>4 DEF Alone
<1>6. \A u \in Threads : Calls(u, "arm")' => (state \in Ready)'
  BY <1>1, <1>2, <1>4, ArmsReady DEF Busy, Calls
<1>7. QED
  BY <1>3, <1>5, <1>6, OthersFit DEF CalmInv

LEMMA StepCalm == TypeOK /\ StartsReady /\ FollowsPlan /\ CalmInv /\ [Next]_vars => CalmInv'
<1> SUFFICES ASSUME TypeOK, StartsReady, FollowsPlan, CalmInv, [Next]_vars, calm'
             PROVE  CalmInv'
  BY DEF CalmInv
<1>1. calm /\ OneBusy /\ OneBusy' /\ TypeThreads'
  BY CalmObserved, StepType DEF TypeOK, CalmInv
<1>2. ASSUME NEW t \in Threads, Arrive(t) \/ Look(t) PROVE CalmInv'
  <2>1. at[t] \in {"idle", "look"} /\ at' = [at EXCEPT ![t] = at'[t]] /\ at'[t] \in {"idle", "look"}
    BY <1>2 DEF Arrive, Look, Goto, TypeOK, TypeThreads
  <2>2. ASSUME NEW u \in Threads, Alone(u)' PROVE Fits(at[u])'
    <3>1. Alone(u)
      BY <2>1, <2>2 DEF Alone, TypeOK, TypeThreads
    <3>2. Fits(at[u])
      BY <3>1, <1>1 DEF CalmInv
    <3>3. at'[u] = at[u] \/ (at[u] \in {"idle", "look"} /\ at'[u] \in {"idle", "look"})
      <4>1. u # t => at'[u] = at[u]
        BY <2>1 DEF TypeOK, TypeThreads
      <4>2. QED
        BY <2>1, <4>1
    <3>4. UNCHANGED <<state, usbVars, aggVars, file, accel, ground, radioVars, histVars>>
      BY <1>2 DEF Arrive, Look
    <3>5. QED
      BY <3>2, <3>3, <3>4 DEF Fits, Setup, RadioOff, Released, AllOff, OneOutlet, Recording,
         StopSteps, usbVars, aggVars, radioVars, histVars
  <2>3. ASSUME NEW u \in Threads, Calls(u, "arm")' PROVE (state \in Ready)'
    <3>1. UNCHANGED state
      BY <1>2 DEF Arrive, Look
    <3>2. CASE u # t \/ Arrive(t)
      <4>1. Calls(u, "arm")
        BY <1>2, <2>3, <3>2, <2>1 DEF Calls, Arrive, Look, Goto, TypeOK, TypeThreads
      <4>2. QED
        BY <4>1, <3>1, <1>1 DEF CalmInv
    <3>3. CASE u = t /\ Look(t)
      <4>1. PICK plan \in Plans : Decides(t, plan) /\ todo' = [todo EXCEPT ![t] = plan]
        BY <3>3 DEF Look
      <4>2. plan # <<>> /\ Head(plan) = "arm"
        BY <4>1, <2>3, <3>3 DEF Calls, TypeOK, TypeThreads
      <4>3. plan \in {<<"arm", "start", "reply">>, <<"arm">>}
        BY <4>2, SMT DEF Plans, Landing
      <4>4. state = "IDLE"
        BY <4>1, <4>3 DEF Decides, Landing
      <4>5. QED
        BY <4>4, <3>1 DEF Ready
    <3>4. QED
      BY <1>2, <3>2, <3>3
  <2>4. QED
    BY <1>1, <2>2, <2>3 DEF CalmInv
<1>3. ASSUME NEW t \in Threads, CallStep(t) PROVE CalmInv'
  BY <1>1, <1>3, CallCalm
<1>4. CASE WorkerExit \/ HostGone \/ DisconnectWork \/ BleStopWork \/ GroundWork
  <2>1. UNCHANGED <<at, state>>
    BY <1>4 DEF WorkerExit, HostGone, DisconnectWork, BleStopWork, GroundWork
  <2>2. ASSUME NEW u \in Threads, Alone(u)' PROVE Fits(at[u])'
    <3>1. Fits(at[u]) /\ at[u] \in Steps
      BY <1>1, <2>1, <2>2 DEF CalmInv, Alone, TypeOK, TypeThreads
    <3>2. \A p \in Steps : Fits(p) => Fits(p)'
      BY <1>4, SelfFits DEF TypeOK
    <3>3. QED
      BY <2>1, <3>1, <3>2
  <2>3. ASSUME NEW u \in Threads, Calls(u, "arm")' PROVE (state \in Ready)'
    <3>1. Calls(u, "arm")
      <4>1. CASE UNCHANGED todo
        BY <2>1, <2>3, <4>1 DEF Calls
      <4>2. CASE todo' = [todo EXCEPT ![SysWorkq] = <<"stop">>]
        BY <2>1, <2>3, <4>2 DEF Calls, TypeOK, TypeThreads
      <4>3. QED
        BY <1>4, <4>1, <4>2 DEF WorkerExit, HostGone, DisconnectWork, BleStopWork, GroundWork
    <3>2. QED
      BY <1>1, <2>1, <3>1 DEF CalmInv
  <2>4. QED
    BY <1>1, <2>2, <2>3 DEF CalmInv
<1>5. CASE UNCHANGED vars
  BY <1>5 DEF vars, CalmInv, OneBusy, Busy, Alone, Calls, Fits, Setup, RadioOff, Released,
     AllOff, OneOutlet, Recording, usbVars, aggVars, radioVars, histVars
<1>6. QED
  BY <1>2, <1>3, <1>4, <1>5 DEF Next

IInv == TypeOK /\ StartsReady /\ FollowsPlan /\ CalmInv

LEMMA AlwaysIInv == Spec => []IInv
<1>1. Init => IInv
  BY InitType, InitReady, InitFollows, InitCalm DEF IInv
<1>2. IInv /\ [Next]_vars => IInv'
  BY StepType, StepReady, StepFollows, StepCalm DEF IInv
<1>3. QED
  BY <1>1, <1>2, PTL DEF Spec

\* With no call under way every thread is alone, at a place of no step.
LEMMA QuietFits ==
  ASSUME IInv, calm, Quiescent
  PROVE  Fits("idle")
<1>1. SysWorkq \in Threads
  BY ThreadAssumption
<1>2. \A t \in Threads : at[t] \in {"idle", "look"}
  BY DEF IInv, TypeOK, TypeThreads, Quiescent
<1>3. Fits(at[SysWorkq])
  BY <1>1, <1>2 DEF IInv, CalmInv, Alone
<1>4. QED
  BY <1>1, <1>2, <1>3 DEF Fits, Setup, RadioOff, StopSteps

\* While calls do not overlap, whatever they are and however they fail, the
\* lines of a session in progress have somewhere to go at every moment of it:
\* the aggregator runs and its output leads to this session's open log or to
\* the open USB stream.
THEOREM Recorded == Spec => []ActiveRecords
<1>1. IInv => ActiveRecords
  <2> SUFFICES ASSUME IInv, calm, state \in Active PROVE Recording
    BY DEF ActiveRecords, Recording, OneOutlet
  <2>1. PICK t \in Threads : Fits(at[t])
    <3>1. CASE \E t \in Threads : Busy(t)
      BY <3>1, AloneInCall DEF IInv, CalmInv, TypeOK
    <3>2. CASE Quiescent
      BY <3>2, ThreadAssumption DEF Quiescent, IInv, TypeOK, TypeThreads, CalmInv, Alone
    <3>3. QED
      BY <3>1, <3>2 DEF Quiescent
  <2>2. QED
    BY <2>1 DEF Fits
<1>2. QED
  BY <1>1, AlwaysIInv, PTL

\* And nothing of a session is left when its calls are over: no aggregator, no
\* open log or stream, no callback, and ground sampling goes on.
THEOREM ReleasedAfterwards == Spec => []InactiveReleases
<1>1. IInv => InactiveReleases
  BY QuietFits DEF InactiveReleases, Fits, Setup, Released, AllOff, OneOutlet, StopSteps
<1>2. QED
  BY <1>1, AlwaysIInv, PTL

\* The radio is silent in a session, but for the response to a command, for
\* which its stop is then scheduled.
THEOREM Silent == Spec => []RadioSilent
<1>1. IInv => RadioSilent
  BY QuietFits DEF RadioSilent, Fits, RadioOff
<1>2. QED
  BY <1>1, AlwaysIInv, PTL
=============================================================================
