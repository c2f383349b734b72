--------------------------- MODULE ExecutiveProofs ---------------------------
(***************************************************************************)
(* Proofs about Executive: for every debounce time, whatever the other     *)
(* threads do, the executive decides on full counts of its own state.      *)
(***************************************************************************)
EXTENDS Executive, TLAPS

\* A count modulo Width stays one and grows by at most one.
LEMMA NextCount ==
  ASSUME NEW c \in 0..(Width - 1)
  PROVE  (c + 1) % Width \in 0..(Width - 1) /\ (c + 1) % Width <= c + 1
<1>1. Width \in Nat /\ Width > 0
  BY TickAssumption
<1>2. CASE c = Width - 1
  <2>1. c + 1 = Width
    BY <1>1, <1>2
  <2>2. Width % Width = 0
    BY <1>1
  <2> QED
    BY <1>1, <2>1, <2>2
<1>3. CASE c # Width - 1
  <2>1. c + 1 \in 0..(Width - 1)
    BY <1>1, <1>3
  <2>2. (c + 1) % Width = c + 1
    BY <1>1, <2>1
  <2> QED
    BY <1>1, <2>1, <2>2
<1> QED
  BY <1>2, <1>3

\* The history counts no further than Cap.
LEMMA ExtendBound ==
  ASSUME NEW n \in 0..Cap, NEW holds \in BOOLEAN
  PROVE  /\ Extend(n, holds) \in 0..Cap
         /\ holds /\ paced => Extend(n, holds) = Cap \/ Extend(n, holds) = n + 1
  BY TickAssumption DEF Extend

-----------------------------------------------------------------------------
(* Types *)

LEMMA InitType == Init => TypeOK
<1> SUFFICES ASSUME Init PROVE TypeOK
  OBVIOUS
<1> USE DEF Init
<1>1. TypeFlags
  BY DEF TypeFlags
<1>2. TypeCounts
  BY TickAssumption DEF TypeCounts, NoTicks
<1>3. TypeOthers /\ TypeMain
  BY TickAssumption DEF TypeOthers, TypeMain, Rates, Active, Ready, Pcs
<1> QED
  BY <1>1, <1>2, <1>3 DEF TypeOK

\* How a step can change each flag.
LEMMA FlagUpdates ==
  ASSUME [Next]_vars
  PROVE  /\ \/ usbMode' = usbMode \/ usbMode' = FALSE
            \/ \E usb \in BOOLEAN : usbMode' = (usbMode \/ usb)
         /\ opening' = opening \/ opening' \in BOOLEAN
         /\ armWish' = armWish \/ armWish' \in BOOLEAN
         /\ closing' = closing \/ closing' \in BOOLEAN
         /\ rested' = rested \/ rested' = FALSE \/ rested' = (paced /\ (rested \/ state = "IDLE"))
         /\ \/ paced' = paced
            \/ paced' = (paced /\ pc \in {"idle", "look"} /\ (state = "IDLE" => rested))
            \/ paced' = (paced /\ pc \in {"idle", "look"} /\ state = "IDLE" /\ rested)
         /\ clean' = clean \/ clean' = (clean /\ paced /\ alarm = "idle")
<1> USE DEF vars, Next, MainStep, OtherStep, TickBegin, TickRead, Handling, HandleArmed,
      HandleFall, HandleLowG, HandleActivity, HandleJumped, HandleIdle, StartTakeoff,
      JumpState, JumpReset, StopState, ArmAgain, ArmReset, BaroSample, BaroStart, BaroReset,
      AlarmJump, AlarmReset, OtherStart, OtherReset, OtherStop, OtherStopped, OtherWish, OtherArm,
      OtherDisarm, ChangeByMain, ChangeByOther
<1>1. \/ usbMode' = usbMode \/ usbMode' = FALSE
      \/ \E usb \in BOOLEAN : usbMode' = (usbMode \/ usb)
  OBVIOUS
<1>2. /\ (opening' = opening \/ opening' \in BOOLEAN)
      /\ (armWish' = armWish \/ armWish' \in BOOLEAN)
      /\ (closing' = closing \/ closing' \in BOOLEAN)
  OBVIOUS
<1>3. rested' = rested \/ rested' = FALSE \/ rested' = (paced /\ (rested \/ state = "IDLE"))
  OBVIOUS
<1>4. \/ paced' = paced
      \/ paced' = (paced /\ pc \in {"idle", "look"} /\ (state = "IDLE" => rested))
      \/ paced' = (paced /\ pc \in {"idle", "look"} /\ state = "IDLE" /\ rested)
  OBVIOUS
<1>5. clean' = clean \/ clean' = (clean /\ paced /\ alarm = "idle")
  OBVIOUS
<1> HIDE DEF vars, Next, MainStep, OtherStep
<1> QED
  BY <1>1, <1>2, <1>3, <1>4, <1>5

LEMMA StepTypeFlags == TypeOK /\ [Next]_vars => TypeFlags'
<1> SUFFICES ASSUME TypeFlags, [Next]_vars PROVE TypeFlags'
  BY DEF TypeOK
<1> QED
  BY FlagUpdates, Zenon DEF TypeFlags

LEMMA StepTypeOthers == TypeOK /\ [Next]_vars => TypeOthers'
<1> SUFFICES ASSUME TypeOthers, [Next]_vars PROVE TypeOthers'
  BY DEF TypeOK
<1> USE DEF TypeOthers
<1>1. ASSUME NEW r \in Rates, NEW strong \in BOOLEAN, BaroSample(r, strong)
      PROVE  TypeOthers'
  BY <1>1, TickAssumption DEF BaroSample
<1>2. CASE UNCHANGED baroVars
  <2>1. alarm' \in {alarm, "idle", "reset"}
    BY <1>2 DEF vars, Next, MainStep, OtherStep, TickBegin, TickRead, Handling,
         HandleArmed, HandleFall, HandleLowG, HandleActivity, HandleJumped, HandleIdle,
         StartTakeoff, JumpState, JumpReset, StopState, ArmAgain, ArmReset, BaroSample,
         BaroStart, BaroReset, AlarmJump, AlarmReset, OtherStart, OtherReset, OtherStop, OtherStopped,
         OtherWish, OtherArm, OtherDisarm
  <2> QED
    BY <1>2, <2>1 DEF baroVars
<1>3. CASE BaroStart \/ BaroReset
  BY <1>3 DEF BaroStart, BaroReset
<1> QED
  BY <1>1, <1>2, <1>3 DEF vars, Next, MainStep, OtherStep, TickBegin, TickRead,
     Handling, HandleArmed, HandleFall, HandleLowG, HandleActivity, HandleJumped,
     HandleIdle, StartTakeoff, JumpState, JumpReset, StopState, ArmAgain, ArmReset,
     AlarmJump, AlarmReset, OtherStart, OtherReset, OtherStop, OtherStopped,
     OtherWish, OtherArm, OtherDisarm

LEMMA StepTypeMain == TypeOK /\ [Next]_vars => TypeMain'
<1> SUFFICES ASSUME TypeMain, [Next]_vars PROVE TypeMain'
  BY DEF TypeOK
<1> USE DEF TypeMain, Active, Ready, Pcs, mainVars, Done
<1>1. CASE TickBegin \/ TickRead \/ HandleIdle
  BY <1>1 DEF TickBegin, TickRead, HandleIdle, Handling
<1>2. CASE HandleArmed
  BY <1>2 DEF HandleArmed, Handling, Decide
<1>3. CASE HandleFall \/ HandleLowG
  BY <1>3 DEF HandleFall, HandleLowG, Handling, Decide
<1>4. CASE HandleActivity \/ HandleJumped
  BY <1>4 DEF HandleActivity, HandleJumped, Handling, Decide
<1>5. CASE StartTakeoff \/ JumpState \/ JumpReset
  BY <1>5 DEF StartTakeoff, JumpState, JumpReset
<1>6. CASE StopState \/ ArmAgain \/ ArmReset
  BY <1>6 DEF StopState, ArmAgain, ArmReset
<1>7. CASE OtherStep
  <2>1. UNCHANGED mainVars
    BY <1>7 DEF OtherStep, BaroSample, BaroStart, BaroReset, AlarmJump, AlarmReset,
         OtherStart, OtherReset, OtherStop, OtherStopped, OtherWish, OtherArm, OtherDisarm
  <2>2. state' = state \/ state' \in {"IDLE", "ARMED", "LOGGING", "JUMPED"}
    BY <1>7 DEF OtherStep, BaroSample, BaroStart, BaroReset, AlarmJump, AlarmReset,
         OtherStart, OtherReset, OtherStop, OtherStopped, OtherWish, OtherArm, OtherDisarm
  <2> QED
    BY <2>1, <2>2
<1>8. CASE UNCHANGED vars
  BY <1>8 DEF vars
<1> QED
  BY <1>1, <1>2, <1>3, <1>4, <1>5, <1>6, <1>7, <1>8 DEF Next, MainStep

LEMMA StepTypeCounts == TypeOK /\ [Next]_vars => TypeCounts'
<1> SUFFICES ASSUME TypeCounts, TypeFlags, [Next]_vars PROVE TypeCounts'
  BY DEF TypeOK
<1> USE DEF TypeCounts
<1> DEFINE Zero == takeoff' = 0 /\ freefall' = 0 /\ lowAccel' = 0 /\ low' = 0
<1>1. ASSUME Zero \/ UNCHANGED counters, run' = run \/ run' = NoTicks PROVE TypeCounts'
  BY <1>1, TickAssumption DEF counters, NoTicks
<1>2. CASE HandleArmed
  <2>1. takeoff' \in 0..(Width - 1)
    BY <1>2, NextCount, TickAssumption DEF HandleArmed
  <2>2. run' = [run EXCEPT !.climb = Extend(@, climb = "climb")]
    BY <1>2 DEF HandleArmed
  <2>3. (climb = "climb") \in BOOLEAN
    OBVIOUS
  <2>4. Extend(run.climb, climb = "climb") \in 0..Cap
    BY <2>3, ExtendBound
  <2> QED
    BY <1>2, <2>1, <2>2, <2>4 DEF HandleArmed
<1>3. ASSUME NEW lowg \in BOOLEAN, Seen(lowg)
      PROVE  run' \in [climb : 0..Cap, fall : 0..Cap, lowg : 0..Cap, low : 0..Cap]
  <2>1. /\ Extend(run.fall, climb = "fall") \in 0..Cap
        /\ Extend(run.lowg, lowg) \in 0..Cap
        /\ Extend(run.low, climb = "level") \in 0..Cap
    BY ExtendBound
  <2> QED
    BY <1>3, <2>1 DEF Seen
<1>4. CASE HandleFall
  BY <1>3, <1>4, NextCount DEF HandleFall
<1>5. CASE HandleLowG
  <2>1. run' \in [climb : 0..Cap, fall : 0..Cap, lowg : 0..Cap, low : 0..Cap]
    BY <1>3, <1>5 DEF HandleLowG
  <2>2. freefall' \in 0..(Width - 1)
    BY <1>5, NextCount, TickAssumption DEF HandleLowG, NoFall
  <2> QED
    BY <1>5, <2>1, <2>2, NextCount DEF HandleLowG
<1>6. CASE HandleActivity
  BY <1>3, <1>6, NextCount, TickAssumption DEF HandleActivity, NoFall
<1>7. CASE HandleJumped
  <2>1. Extend(run.low, climb = "level") \in 0..Cap
    BY ExtendBound
  <2> QED
    BY <1>7, <2>1 DEF HandleJumped
<1>8. CASE TickBegin \/ TickRead \/ HandleIdle \/ StartTakeoff \/ JumpState \/ JumpReset
           \/ StopState \/ ArmAgain \/ ArmReset
  BY <1>1, <1>8 DEF TickBegin, TickRead, HandleIdle, StartTakeoff, JumpState, JumpReset,
     StopState, ArmAgain, ArmReset, ResetCounters, ChangeByMain
<1>9. CASE OtherStep
  BY <1>1, <1>9 DEF OtherStep, BaroSample, BaroStart, BaroReset, AlarmJump, AlarmReset, OtherStart,
     OtherReset, OtherStop, OtherStopped, OtherWish, OtherArm, OtherDisarm, ResetCounters,
     ChangeByOther
<1>10. CASE UNCHANGED vars
  BY <1>10 DEF vars, counters
<1> QED
  BY <1>2, <1>4, <1>5, <1>6, <1>7, <1>8, <1>9, <1>10 DEF Next, MainStep

LEMMA StepType == TypeOK /\ [Next]_vars => TypeOK'
  BY StepTypeFlags, StepTypeCounts, StepTypeOthers, StepTypeMain DEF TypeOK

\* The executive's variables keep their types: the counters the width of a
\* uint8_t, and a pending decision the state it was made in.
THEOREM TypeCorrect == Spec => []TypeOK
  BY InitType, StepType, PTL DEF Spec

-----------------------------------------------------------------------------
(* Confirmed *)

IInv == TypeOK /\ InStep /\ Counted /\ Confirmed

LEMMA InitIInv == Init => IInv
<1> SUFFICES ASSUME Init PROVE IInv
  OBVIOUS
<1>1. InStep /\ Confirmed
  BY DEF Init, InStep, Confirmed
<1>2. Counted
  BY TickAssumption DEF Init, Counted, Backed, NoTicks
<1> QED
  BY InitType, <1>1, <1>2 DEF IInv

\* What paced and clean still being true tells of the step.
LEMMA OtherPaced ==
  ASSUME TypeOK, ChangeByOther, paced'
  PROVE  paced /\ pc \in {"idle", "look"} /\ (state = "IDLE" => rested)
  BY Zenon DEF ChangeByOther

LEMMA HandlingClean ==
  ASSUME NEW s, Handling(s), paced', clean'
  PROVE  paced /\ clean /\ alarm = "idle" /\ alarm' = "idle" /\ state' = state
<1>1. paced' = paced /\ alarm' = alarm /\ state' = state
  BY DEF Handling
<1>2. clean' = (clean /\ paced /\ alarm = "idle")
  BY DEF Handling
<1> QED
  BY <1>1, <1>2, Zenon

LEMMA BackedNext ==
  ASSUME paced, NEW c \in Nat, NEW d \in Nat, d <= c + 1, NEW n \in 0..Cap, Backed(c, n)
  PROVE  Backed(d, Extend(n, TRUE))
<1>1. Extend(n, TRUE) = Cap \/ Extend(n, TRUE) = n + 1
  BY ExtendBound
<1>2. Extend(n, TRUE) \in 0..Cap /\ Cap \in Nat
  BY ExtendBound, TickAssumption
<1>3. CASE Extend(n, TRUE) = Cap
  BY <1>3 DEF Backed
<1>4. CASE n = Cap
  <2>1. Extend(n, TRUE) = Cap
    BY <1>4, TickAssumption DEF Extend
  <2> QED
    BY <2>1 DEF Backed
<1>5. CASE c <= n /\ Extend(n, TRUE) = n + 1
  <2>1. n \in Nat
    BY <1>2
  <2>2. d <= n + 1
    BY <1>5, <2>1
  <2> QED
    BY <1>5, <2>2 DEF Backed
<1> QED
  BY <1>1, <1>3, <1>4, <1>5 DEF Backed

\* A backed count that has reached a debounce time proves it.
LEMMA BackedReach ==
  ASSUME NEW c \in Nat, NEW n \in 0..Cap, NEW t \in 1..Cap, Backed(c, n), c >= t
  PROVE  n >= t
  BY TickAssumption DEF Backed

LEMMA BackedZero ==
  ASSUME NEW n \in 0..Cap
  PROVE  Backed(0, n)
  BY TickAssumption DEF Backed

-----------------------------------------------------------------------------
(* One lemma per kind of step. *)

LEMMA ChangeStep ==
  ASSUME IInv, ChangeByOther, UNCHANGED <<counters, mainVars>>, TypeOK',
         \/ state \in Ready /\ state' = "LOGGING" /\ alarm' = alarm /\ clean' = clean
         \/ state \in Active /\ state' = "IDLE" /\ alarm' = alarm /\ clean' = clean
         \/ state = "ARMED" /\ state' = "IDLE" /\ alarm' = alarm /\ clean' = clean
         \/ state' = "JUMPED" /\ alarm' = "reset"
  PROVE  InStep' /\ Counted' /\ Confirmed'
<1>1. CASE ~paced'
  BY <1>1 DEF InStep, Counted, Confirmed
<1>2. CASE paced'
  <2>1. paced /\ pc \in {"idle", "look"} /\ (state = "IDLE" => rested)
    BY <1>2, OtherPaced DEF IInv
  <2>2. pc' \in {"idle", "look"}
    BY <2>1 DEF mainVars
  <2>3. InStep' /\ Confirmed'
    BY <2>2 DEF InStep, Confirmed
  <2>4. Counted'
    <3>1. CASE alarm' = "reset"
      BY <3>1 DEF Counted
    <3>2. CASE alarm' = alarm /\ clean' = clean /\ state' = "IDLE"
      <4>1. rested' = FALSE
        BY DEF ChangeByOther
      <4> QED
        BY <3>2, <4>1 DEF Counted
    <3>3. CASE alarm' = alarm /\ clean' = clean /\ state \in Ready /\ state' = "LOGGING"
      <4>1. clean /\ alarm = "idle" => freefall = 0 /\ lowAccel = 0 /\ low = 0
        BY <2>1, <3>3 DEF IInv, Counted, Ready
      <4>2. run' = NoTicks
        BY DEF ChangeByOther
      <4>3. run'.fall = 0 /\ run'.lowg = 0 /\ run'.low = 0
        BY <4>2 DEF NoTicks
      <4>4. clean /\ alarm = "idle" => Backed(freefall', run'.fall) /\ Backed(lowAccel', run'.lowg)
                                  /\ Backed(low', run'.low)
        BY <4>1, <4>3, BackedZero, TickAssumption DEF counters
      <4> QED
        BY <3>3, <4>4 DEF Counted
    <3> QED
      BY <3>1, <3>2, <3>3
  <2> QED
    BY <2>3, <2>4
<1> QED
  BY <1>1, <1>2

\* A handled tick leaves main deciding in the state it has read, or idle.
LEMMA HandleInStep ==
  ASSUME IInv, NEW s, Handling(s),
         Done \/ (pc' \in {"start", "jump", "stop"} /\ seen' = seen)
  PROVE  InStep'
  BY DEF IInv, InStep, Handling, Done

LEMMA HandleArmedStep ==
  ASSUME IInv, HandleArmed, TypeOK' PROVE InStep' /\ Counted' /\ Confirmed'
<1>1. InStep'
  BY HandleInStep DEF HandleArmed, Decide
<1>2. ASSUME paced', clean'
      PROVE  /\ state' = "ARMED" /\ Backed(takeoff', run'.climb)
             /\ freefall' = 0 /\ lowAccel' = 0 /\ low' = 0
  <2>1. paced /\ clean /\ alarm = "idle" /\ state' = state
    BY <1>2, HandlingClean DEF HandleArmed
  <2>2. state = "ARMED" /\ pc = "handle"
    BY <2>1 DEF IInv, InStep, HandleArmed, Handling
  <2>3. Backed(takeoff, run.climb) /\ freefall = 0 /\ lowAccel = 0 /\ low = 0
    BY <2>1, <2>2 DEF IInv, Counted
  <2>4. run'.climb = Extend(run.climb, climb = "climb")
    BY DEF HandleArmed, IInv, TypeOK, TypeCounts
  <2>5. run.climb \in 0..Cap /\ takeoff \in 0..(Width - 1)
    BY DEF IInv, TypeOK, TypeCounts
  <2>6. CASE climb = "climb"
    <3>1. takeoff' \in Nat /\ takeoff' <= takeoff + 1
      BY <2>5, <2>6, NextCount, TickAssumption DEF HandleArmed
    <3>2. run'.climb = Extend(run.climb, TRUE)
      BY <2>4, <2>6 DEF Extend
    <3>3. Backed(takeoff', run'.climb)
      <4>1. takeoff \in Nat
        BY <2>5, TickAssumption
      <4> QED
        BY <2>1, <2>3, <2>5, <3>1, <3>2, <4>1, BackedNext
    <3> QED
      BY <2>1, <2>2, <2>3, <3>3 DEF HandleArmed
  <2>7. CASE climb # "climb"
    <3>1. takeoff' = 0
      BY <2>7 DEF HandleArmed
    <3>2. run'.climb \in 0..Cap
      BY DEF TypeOK, TypeCounts
    <3> QED
      BY <2>1, <2>2, <2>3, <3>1, <3>2, BackedZero DEF HandleArmed
  <2> QED
    BY <2>6, <2>7
<1>3. Counted'
  BY <1>2 DEF Counted
<1>4. ASSUME paced', clean', pc' = "start" PROVE run'.climb >= TakeoffTicks
  <2>1. takeoff' >= TakeoffTicks
    BY <1>4 DEF HandleArmed, Decide, Done
  <2>2. takeoff' \in 0..(Width - 1) /\ run'.climb \in 0..Cap
    BY DEF TypeOK, TypeCounts
  <2> QED
    BY <1>2, <1>4, <2>1, <2>2, TickAssumption DEF Backed
<1>5. pc' \in {"start", "idle"}
  BY DEF HandleArmed, Decide, Done
<1> QED
  BY <1>1, <1>3, <1>4, <1>5 DEF Confirmed

\* In LOGGING, what is carried from one tick to the next.
LEMMA LoggingTick ==
  ASSUME IInv, Handling("LOGGING"), paced', clean', NEW lowg \in BOOLEAN, Seen(lowg)
  PROVE  /\ paced /\ state' = "LOGGING" /\ alarm' = "idle"
         /\ Backed(freefall, run.fall) /\ Backed(lowAccel, run.lowg) /\ Backed(low, run.low)
         /\ run.fall \in 0..Cap /\ run.lowg \in 0..Cap /\ run.low \in 0..Cap
         /\ run'.fall = Extend(run.fall, climb = "fall")
         /\ run'.lowg = Extend(run.lowg, lowg)
         /\ run'.low = Extend(run.low, climb = "level")
<1>1. paced /\ clean /\ alarm = "idle" /\ alarm' = "idle" /\ state' = state
  BY HandlingClean
<1>2. state = "LOGGING" /\ pc = "handle"
  BY <1>1 DEF IInv, InStep, Handling
<1>3. Backed(freefall, run.fall) /\ Backed(lowAccel, run.lowg) /\ Backed(low, run.low)
  BY <1>1, <1>2 DEF IInv, Counted
<1>4. run.fall \in 0..Cap /\ run.lowg \in 0..Cap /\ run.low \in 0..Cap
  BY DEF IInv, TypeOK, TypeCounts
<1>5. /\ run'.fall = Extend(run.fall, climb = "fall")
      /\ run'.lowg = Extend(run.lowg, lowg)
      /\ run'.low = Extend(run.low, climb = "level")
  BY DEF Seen, IInv, TypeOK, TypeCounts
<1> QED
  BY <1>1, <1>2, <1>3, <1>4, <1>5

\* A count that went on, or started anew, with the history that did the same.
LEMMA BackedTick ==
  ASSUME paced, NEW c \in 0..(Width - 1), NEW n \in 0..Cap, NEW holds \in BOOLEAN, Backed(c, n)
  PROVE  Backed(IF holds THEN (c + 1) % Width ELSE 0, Extend(n, holds))
<1>1. CASE holds
  <2>1. (c + 1) % Width \in Nat /\ (c + 1) % Width <= c + 1 /\ c \in Nat
    BY NextCount, TickAssumption
  <2>2. Backed((c + 1) % Width, Extend(n, TRUE))
    BY <2>1, BackedNext
  <2> QED
    BY <1>1, <2>2 DEF Extend
<1>2. CASE ~holds
  BY <1>2, BackedZero, TickAssumption DEF Extend
<1> QED
  BY <1>1, <1>2

LEMMA HandleFreefallStep ==
  ASSUME IInv, HandleFall \/ HandleLowG, TypeOK' PROVE InStep' /\ Counted' /\ Confirmed'
<1>1. PICK lowg \in BOOLEAN :
        Handling("LOGGING") /\ Seen(lowg) /\ pc' = "jump" /\ seen' = seen
  BY DEF HandleFall, HandleLowG, Decide
<1>2. InStep'
  BY <1>1, HandleInStep
<1>3. Counted'
  <2>1. ASSUME paced' PROVE state' = "LOGGING"
    BY <1>1, <1>2, <2>1 DEF InStep, Handling
  <2> QED
    BY <1>1, <2>1 DEF Counted
<1>4. ASSUME paced', clean' PROVE run'.fall >= FreefallTicks \/ run'.lowg >= AccelTicks
  <2>0. freefall \in 0..(Width - 1) /\ lowAccel \in 0..(Width - 1)
    BY DEF IInv, TypeOK, TypeCounts
  <2>1. CASE HandleFall
    <3>1. freefall' = (freefall + 1) % Width /\ freefall' >= FreefallTicks /\ climb = "fall"
      BY <2>1 DEF HandleFall
    <3>2. Backed((freefall + 1) % Width, Extend(run.fall, TRUE))
      BY <1>1, <1>4, <2>0, LoggingTick, BackedTick
    <3>3. run'.fall = Extend(run.fall, TRUE)
      BY <1>1, <1>4, <3>1, LoggingTick DEF Extend
    <3>4. freefall' \in Nat /\ run'.fall \in 0..Cap
      BY TickAssumption DEF TypeOK, TypeCounts
    <3>5. FreefallTicks \in 1..Cap
      BY TickAssumption
    <3> QED
      BY <3>1, <3>2, <3>3, <3>4, <3>5, BackedReach
  <2>2. CASE HandleLowG
    <3>1. /\ lowAccel' = (lowAccel + 1) % Width /\ lowAccel' >= AccelTicks
          /\ Handling("LOGGING") /\ Seen(TRUE)
      BY <2>2 DEF HandleLowG
    <3>2. Backed((lowAccel + 1) % Width, Extend(run.lowg, TRUE))
      BY <1>4, <2>0, <3>1, LoggingTick, BackedTick
    <3>3. run'.lowg = Extend(run.lowg, TRUE)
      BY <1>4, <3>1, LoggingTick
    <3>4. lowAccel' \in Nat /\ run'.lowg \in 0..Cap
      BY TickAssumption DEF TypeOK, TypeCounts
    <3>5. AccelTicks \in 1..Cap
      BY TickAssumption
    <3> QED
      BY <3>1, <3>2, <3>3, <3>4, <3>5, BackedReach
  <2> QED
    BY <2>1, <2>2
<1> QED
  BY <1>1, <1>2, <1>3, <1>4 DEF Confirmed

\* The low-activity counter is as wide as it needs to be.
LEMMA BackedLow ==
  ASSUME TypeOK, paced, Backed(low, run.low),
         low' = IF climb = "level" THEN low + 1 ELSE 0
  PROVE  Backed(low', Extend(run.low, climb = "level"))
<1>1. low \in Nat /\ run.low \in 0..Cap
  BY DEF TypeOK, TypeCounts
<1>2. CASE climb = "level"
  <2>1. low + 1 \in Nat /\ low + 1 <= low + 1
    BY <1>1
  <2>2. Backed(low + 1, Extend(run.low, TRUE))
    BY <1>1, <2>1, BackedNext
  <2> QED
    BY <1>2, <2>2 DEF Extend
<1>3. CASE climb # "level"
  BY <1>1, <1>3, BackedZero, TickAssumption DEF Extend
<1> QED
  BY <1>2, <1>3

LEMMA HandleActivityStep ==
  ASSUME IInv, HandleActivity, TypeOK' PROVE InStep' /\ Counted' /\ Confirmed'
<1>1. PICK lowg \in BOOLEAN :
        /\ Handling("LOGGING") /\ Seen(lowg)
        /\ freefall' = IF climb = "fall" THEN (freefall + 1) % Width ELSE 0
        /\ lowAccel' = IF lowg THEN (lowAccel + 1) % Width ELSE 0
        /\ low' = IF climb = "level" THEN low + 1 ELSE 0
        /\ Decide(low' >= AbortTicks, "stop")
  BY DEF HandleActivity, NoFall
<1>2. InStep'
  BY <1>1, HandleInStep DEF Decide
<1>3. ASSUME paced', clean'
      PROVE  /\ state' = "LOGGING"
             /\ Backed(freefall', run'.fall) /\ Backed(lowAccel', run'.lowg)
             /\ Backed(low', run'.low)
  <2>1. freefall \in 0..(Width - 1) /\ lowAccel \in 0..(Width - 1)
    BY DEF IInv, TypeOK, TypeCounts
  <2>2. Backed(freefall', run'.fall)
    BY <1>1, <1>3, <2>1, LoggingTick, BackedTick
  <2>3. Backed(lowAccel', run'.lowg)
    BY <1>1, <1>3, <2>1, LoggingTick, BackedTick
  <2>4. Backed(low', run'.low)
    BY <1>1, <1>3, LoggingTick, BackedLow DEF IInv
  <2>5. state' = "LOGGING"
    BY <1>1, <1>3, LoggingTick
  <2> QED
    BY <2>2, <2>3, <2>4, <2>5
<1>4. Counted'
  BY <1>3 DEF Counted
<1>5. ASSUME paced', clean', pc' = "stop" PROVE run'.low >= AbortTicks /\ seen' = "LOGGING"
  <2>1. low' >= AbortTicks /\ seen' = "LOGGING"
    BY <1>1, <1>5 DEF Decide, Done, Handling
  <2>2. low' \in Nat /\ run'.low \in 0..Cap
    BY DEF TypeOK, TypeCounts
  <2> QED
    BY <1>3, <1>5, <2>1, <2>2, TickAssumption DEF Backed
<1>6. pc' \in {"stop", "idle"}
  BY <1>1 DEF Decide, Done
<1> QED
  BY <1>2, <1>4, <1>5, <1>6 DEF Confirmed

LEMMA HandleJumpedStep ==
  ASSUME IInv, HandleJumped, TypeOK' PROVE InStep' /\ Counted' /\ Confirmed'
<1>1. /\ Handling("JUMPED")
      /\ low' = IF climb = "level" THEN low + 1 ELSE 0
      /\ Decide(low' >= LandTicks, "stop")
  BY DEF HandleJumped
<1>2. InStep'
  BY <1>1, HandleInStep DEF Decide
<1>3. ASSUME paced', clean' PROVE state' = "JUMPED" /\ Backed(low', run'.low)
  <2>1. paced /\ clean /\ alarm = "idle" /\ state' = state
    BY <1>1, <1>3, HandlingClean
  <2>2. state = "JUMPED" /\ pc = "handle"
    BY <2>1, <1>1 DEF IInv, InStep, Handling
  <2>3. Backed(low, run.low)
    BY <2>1, <2>2 DEF IInv, Counted
  <2>4. run'.low = Extend(run.low, climb = "level")
    BY DEF HandleJumped, IInv, TypeOK, TypeCounts
  <2> QED
    BY <1>1, <2>1, <2>2, <2>3, <2>4, BackedLow DEF IInv
<1>4. Counted'
  BY <1>3 DEF Counted
<1>5. ASSUME paced', clean', pc' = "stop" PROVE run'.low >= LandTicks /\ seen' = "JUMPED"
  <2>1. low' >= LandTicks /\ seen' = "JUMPED"
    BY <1>1, <1>5 DEF Decide, Done, Handling
  <2>2. low' \in Nat /\ run'.low \in 0..Cap /\ LandTicks \in 1..Cap
    BY TickAssumption DEF TypeOK, TypeCounts
  <2> QED
    BY <1>3, <1>5, <2>1, <2>2, BackedReach
<1>6. pc' \in {"stop", "idle"}
  BY <1>1 DEF Decide, Done
<1> QED
  BY <1>2, <1>4, <1>5, <1>6 DEF Confirmed

LEMMA HandleIdleStep ==
  ASSUME IInv, HandleIdle, TypeOK' PROVE InStep' /\ Counted' /\ Confirmed'
<1>1. Handling("IDLE") /\ ResetCounters /\ Done
  BY DEF HandleIdle
<1>2. InStep' /\ Confirmed'
  BY <1>1 DEF Done, InStep, Confirmed
<1>3. run'.climb \in 0..Cap /\ run'.fall \in 0..Cap /\ run'.lowg \in 0..Cap /\ run'.low \in 0..Cap
  BY DEF TypeOK, TypeCounts
<1>4. Counted'
  BY <1>1, <1>3, BackedZero DEF Counted, ResetCounters
<1> QED
  BY <1>2, <1>4

\* Every reset of the counters, whatever else the step does.
LEMMA ResetStep ==
  ASSUME IInv, ResetCounters, TypeOK', UNCHANGED <<state, paced>>,
         Done \/ UNCHANGED mainVars, UNCHANGED <<run, clean>>
  PROVE  InStep' /\ Counted' /\ Confirmed'
<1>1. run'.climb \in 0..Cap /\ run'.fall \in 0..Cap /\ run'.lowg \in 0..Cap /\ run'.low \in 0..Cap
  BY DEF TypeOK, TypeCounts
<1>2. Counted'
  BY <1>1, BackedZero DEF Counted, ResetCounters
<1>3. CASE Done
  BY <1>2, <1>3 DEF Done, InStep, Confirmed
<1>4. CASE UNCHANGED mainVars
  BY <1>2, <1>4 DEF IInv, mainVars, InStep, Confirmed
<1> QED
  BY <1>3, <1>4

\* A step that touches neither the state, the counters nor main's decisions.
LEMMA QuietStep ==
  ASSUME IInv, UNCHANGED <<state, counters, mainVars, alarm, run, rested, paced, clean>>
  PROVE  InStep' /\ Counted' /\ Confirmed'
<1>1. InStep' /\ Confirmed'
  BY DEF IInv, mainVars, InStep, Confirmed
<1>2. Counted'
  BY DEF IInv, mainVars, counters, Counted
<1> QED
  BY <1>1, <1>2

LEMMA TickStep ==
  ASSUME IInv, TickBegin \/ TickRead PROVE InStep' /\ Counted' /\ Confirmed'
<1>1. InStep' /\ Confirmed'
  BY DEF IInv, InStep, Confirmed, TickBegin, TickRead
<1>2. /\ UNCHANGED <<state, counters, alarm, run, rested, paced, clean>>
      /\ pc \in {"idle", "look"} /\ pc' \in {"look", "handle"}
  BY DEF TickBegin, TickRead
<1>3. Counted'
  BY <1>2 DEF IInv, Counted, counters
<1> QED
  BY <1>1, <1>3

LEMMA StartTakeoffStep ==
  ASSUME IInv, StartTakeoff, TypeOK' PROVE InStep' /\ Counted' /\ Confirmed'
<1>1. /\ pc = "start" /\ Done /\ UNCHANGED <<alarm, clean, paced>>
      /\ \/ state \in Ready /\ state' = "LOGGING" /\ ResetCounters /\ run' = NoTicks
         \/ UNCHANGED <<state, counters, run, rested>>
  BY DEF StartTakeoff, ChangeByMain
<1>2. InStep' /\ Confirmed'
  BY <1>1 DEF Done, InStep, Confirmed
<1>3. CASE UNCHANGED <<state, counters, run, rested>>
  BY <1>1, <1>2, <1>3 DEF IInv, Done, counters, Counted
<1>4. CASE state' = "LOGGING" /\ ResetCounters /\ run' = NoTicks
  <2>1. Backed(0, 0) /\ run'.fall = 0 /\ run'.lowg = 0 /\ run'.low = 0
    BY <1>4 DEF Backed, NoTicks
  <2> QED
    BY <1>2, <1>4, <2>1 DEF Counted, ResetCounters
<1> QED
  BY <1>1, <1>3, <1>4

LEMMA JumpStep ==
  ASSUME IInv, JumpState PROVE InStep' /\ Counted' /\ Confirmed'
<1>1. pc = "jump" /\ seen = "LOGGING"
  BY DEF JumpState, IInv, TypeOK, TypeMain
<1>2. CASE state = "LOGGING"
  <2>1. state' = "JUMPED" /\ pc' = "jumpReset"
    BY <1>2 DEF JumpState
  <2> QED
    BY <2>1 DEF InStep, Counted, Confirmed
<1>3. CASE state # "LOGGING"
  <2>1. ~paced
    BY <1>1, <1>3 DEF IInv, InStep
  <2>2. paced' = paced
    BY <1>3 DEF JumpState
  <2> QED
    BY <2>1, <2>2 DEF InStep, Counted, Confirmed
<1> QED
  BY <1>2, <1>3

LEMMA StopStep ==
  ASSUME IInv, StopState PROVE InStep' /\ Counted' /\ Confirmed'
<1>1. pc = "stop" /\ seen \in Active /\ pc' = "arm"
  BY DEF StopState, IInv, TypeOK, TypeMain
<1>2. CASE state \in Active
  <2>1. state' = "IDLE" /\ rested' = FALSE
    BY <1>2 DEF StopState, ChangeByMain
  <2> QED
    BY <1>1, <2>1 DEF InStep, Counted, Confirmed
<1>3. CASE state \notin Active
  <2>1. ~paced
    BY <1>1, <1>3 DEF IInv, InStep
  <2>2. paced' = paced
    BY <1>3 DEF StopState
  <2> QED
    BY <2>1, <2>2 DEF InStep, Counted, Confirmed
<1> QED
  BY <1>2, <1>3

LEMMA ArmAgainStep ==
  ASSUME ArmAgain PROVE InStep' /\ Counted' /\ Confirmed'
  BY DEF ArmAgain, InStep, Counted, Confirmed

LEMMA OtherArmStep ==
  ASSUME IInv, OtherArm, TypeOK' PROVE InStep' /\ Counted' /\ Confirmed'
<1>1. state' = "ARMED" /\ run' = NoTicks /\ UNCHANGED <<counters, mainVars, alarm, clean>>
  BY DEF OtherArm
<1>0. paced' = (paced /\ pc \in {"idle", "look"} /\ state = "IDLE" /\ rested)
  BY DEF OtherArm
<1>2. paced' => paced /\ pc \in {"idle", "look"} /\ state = "IDLE" /\ rested
  BY <1>0, Zenon
<1>3. InStep' /\ Confirmed'
  BY <1>1, <1>2 DEF mainVars, InStep, Confirmed
<1>4. ASSUME paced', clean', alarm' = "idle"
      PROVE  takeoff' = 0 /\ freefall' = 0 /\ lowAccel' = 0 /\ low' = 0
  <2>1. takeoff = 0 /\ freefall = 0 /\ lowAccel = 0 /\ low = 0
    BY <1>1, <1>2, <1>4 DEF IInv, Counted
  <2> QED
    BY <1>1, <2>1 DEF counters
<1>5. run'.climb = 0
  BY <1>1 DEF NoTicks
<1>6. Backed(0, 0)
  BY DEF Backed
<1>7. Counted'
  BY <1>1, <1>4, <1>5, <1>6 DEF Counted
<1> QED
  BY <1>3, <1>7

LEMMA MainStepIInv ==
  ASSUME IInv, MainStep, TypeOK' PROVE InStep' /\ Counted' /\ Confirmed'
<1>1. CASE TickBegin \/ TickRead
  BY <1>1, TickStep
<1>2. CASE HandleArmed
  BY <1>2, HandleArmedStep
<1>3. CASE HandleFall \/ HandleLowG
  BY <1>3, HandleFreefallStep
<1>4. CASE HandleActivity
  BY <1>4, HandleActivityStep
<1>5. CASE HandleJumped
  BY <1>5, HandleJumpedStep
<1>6. CASE HandleIdle
  BY <1>6, HandleIdleStep
<1>7. CASE StartTakeoff
  BY <1>7, StartTakeoffStep
<1>8. CASE JumpState
  BY <1>8, JumpStep
<1>9. CASE StopState
  BY <1>9, StopStep
<1>10. CASE ArmAgain
  BY <1>10, ArmAgainStep
<1>11. CASE JumpReset \/ ArmReset
  BY <1>11, ResetStep DEF JumpReset, ArmReset
<1> QED
  BY <1>1, <1>2, <1>3, <1>4, <1>5, <1>6, <1>7, <1>8, <1>9, <1>10, <1>11 DEF MainStep

LEMMA OtherStepIInv ==
  ASSUME IInv, OtherStep, TypeOK' PROVE InStep' /\ Counted' /\ Confirmed'
<1>1. ASSUME NEW r \in Rates, NEW strong \in BOOLEAN, BaroSample(r, strong)
      PROVE  InStep' /\ Counted' /\ Confirmed'
  BY <1>1, QuietStep DEF BaroSample
<1>2. CASE BaroStart
  <2>1. CASE UNCHANGED <<state, run, rested, paced>>
    BY <1>2, <2>1, QuietStep DEF BaroStart
  <2>2. CASE state \in Ready /\ state' = "LOGGING" /\ ChangeByOther
    BY <1>2, <2>2, ChangeStep DEF BaroStart
  <2> QED
    BY <1>2, <2>1, <2>2 DEF BaroStart
<1>3. CASE AlarmJump
  BY <1>3, ChangeStep DEF AlarmJump
<1>4. CASE AlarmReset \/ BaroReset \/ OtherReset
  BY <1>4, ResetStep DEF AlarmReset, BaroReset, OtherReset
<1>5. ASSUME NEW usb \in BOOLEAN, OtherStart(usb)
      PROVE  InStep' /\ Counted' /\ Confirmed'
  BY <1>5, ChangeStep DEF OtherStart
<1>6. CASE OtherStop \/ OtherDisarm
  BY <1>6, ChangeStep DEF OtherStop, OtherDisarm
<1>7. CASE OtherStopped \/ OtherWish
  BY <1>7, QuietStep DEF OtherStopped, OtherWish
<1>8. CASE OtherArm
  BY <1>8, OtherArmStep
<1> QED
  BY <1>1, <1>2, <1>3, <1>4, <1>5, <1>6, <1>7, <1>8 DEF OtherStep

LEMMA StepIInv == IInv /\ [Next]_vars => IInv'
<1> SUFFICES ASSUME IInv, [Next]_vars PROVE IInv'
  OBVIOUS
<1>1. TypeOK'
  BY StepType DEF IInv
<1>2. CASE MainStep
  BY <1>1, <1>2, MainStepIInv DEF IInv
<1>3. CASE OtherStep
  BY <1>1, <1>3, OtherStepIInv DEF IInv
<1>4. CASE UNCHANGED vars
  BY <1>1, <1>4, QuietStep DEF vars, IInv
<1> QED
  BY <1>2, <1>3, <1>4 DEF Next

\* For every debounce time, a decision of the executive is backed by the full
\* time of readings made in this state, as long as other threads keep out of a
\* tick and the IDLE state lasts until one.
THEOREM DecisionsConfirmed == Spec => []Confirmed
<1>1. IInv => Confirmed
  BY DEF IInv
<1> QED
  BY InitIInv, StepIInv, <1>1, PTL DEF Spec
=============================================================================
