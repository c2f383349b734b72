----------------------------- MODULE SensorProofs -----------------------------
(***************************************************************************)
(* Theorems about the sensors' services, Baro, Ground, Imu and Aggregator: *)
(* the types; no measurement of the barometer is forgotten; the ring of    *)
(* ground altitudes and its sampling; the stamps of the motion sensor's    *)
(* samples and the filter two threads share; and the periodic output.      *)
(***************************************************************************)
EXTENDS Baro, Ground, Imu, Aggregator, FiniteSetTheorems, SequenceTheorems, TLAPS

(* The barometer *)

\* Once baro_start() is done, a pin that interrupts or a timer brings in every
\* later measurement.
Driven == baroBoot = "on" => timer \/ (irq /\ regInt)

\* The sampling thread is not there before baro_init().
Unborn == baroBoot = "off" => reader = "none"

BaroInv == Driven /\ Unborn /\ NoLostWake

LEMMA InitBaro == BaroInit => BaroInv
<1>1. BaroInit => Driven
  BY Zenon DEF BaroInit, Driven
<1>2. BaroInit => NoLostWake
  BY Zenon DEF BaroInit, NoLostWake
<1>3. BaroInit => Unborn
  BY DEF BaroInit, Unborn
<1>4. QED
  BY <1>1, <1>2, <1>3 DEF BaroInv

LEMMA StepUnborn == Unborn /\ [BaroNext]_baroVars => Unborn'
  BY DEF Unborn, BaroNext, StartBaro, StartMeasuring, Measure, Wake, TakeSem, CheckReady,
     ClearReady, ReadData, Tell, baroVars

\* Only the boot touches what drives the measurements.
LEMMA StepDriven == Driven /\ [BaroNext]_baroVars => Driven'
<1> SUFFICES ASSUME Driven, [BaroNext]_baroVars PROVE Driven'
  OBVIOUS
<1>1. CASE StartBaro
  BY <1>1 DEF StartBaro, Driven
<1>2. CASE StartMeasuring
  <2>1. CASE timer' = (timer \/ ~regInt \/ ~irq)
    <3>1. irq' = irq /\ regInt' = regInt
      BY <1>2 DEF StartMeasuring
    <3>2. timer' \/ (irq' /\ regInt')
      BY <2>1, <3>1, Zenon
    <3>3. QED
      BY <3>2 DEF Driven
  <2>2. CASE baroBoot' = "failed"
    BY <2>2 DEF Driven
  <2>3. QED
    BY <1>2, <2>1, <2>2 DEF StartMeasuring
<1>3. CASE UNCHANGED <<baroBoot, irq, regInt, timer>>
  BY <1>3 DEF Driven
<1>4. QED
  BY <1>1, <1>2, <1>3 DEF BaroNext, Measure, Wake, TakeSem, CheckReady, ClearReady,
     ReadData, Tell, baroVars

LEMMA StepNoLostWake == BaroInv /\ [BaroNext]_baroVars => NoLostWake'
<1> SUFFICES ASSUME Driven, Unborn, NoLostWake, [BaroNext]_baroVars PROVE NoLostWake'
  BY DEF BaroInv
\* The thread is created before the first measurement.
<1>1. CASE StartBaro
  <2>1. UNCHANGED <<timer, unread, intWork, data_ready, sem>> /\ reader' \in {"wait", reader}
    BY <1>1 DEF StartBaro
  <2>2. reader = "none"
    BY <1>1 DEF StartBaro, Unborn
  <2>3. QED
    BY <2>1, <2>2 DEF NoLostWake
<1>2. CASE StartMeasuring
  BY <1>2 DEF StartMeasuring, NoLostWake
\* The interrupt submits the work, or the timer is to come.
<1>3. CASE Measure
  BY <1>3 DEF Measure, Driven, NoLostWake
\* The flag is raised before the semaphore is given ...
<1>4. CASE Wake
  BY <1>4 DEF Wake, NoLostWake
\* ... and lowered before the sensor is read: a wake-up from then on finds it
\* lowered, and raises it again.
<1>5. CASE TakeSem \/ CheckReady \/ ClearReady
  BY <1>5 DEF TakeSem, CheckReady, ClearReady, NoLostWake
<1>6. CASE ReadData \/ Tell
  BY <1>6 DEF ReadData, Tell, NoLostWake
<1>7. CASE UNCHANGED baroVars
  BY <1>7 DEF baroVars, NoLostWake
<1>8. QED
  BY <1>1, <1>2, <1>3, <1>4, <1>5, <1>6, <1>7 DEF BaroNext

\* However the work queue, the timer and the thread interleave, with or without
\* an interrupt pin, a measurement that was not read is about to be, or what
\* brings it in is still to come.
THEOREM NoWakeIsLost == BaroSpec => []NoLostWake
<1>1. BaroInv /\ [BaroNext]_baroVars => BaroInv'
  BY StepDriven, StepUnborn, StepNoLostWake DEF BaroInv
<1>2. BaroInv => NoLostWake
  BY DEF BaroInv
<1>3. QED
  BY InitBaro, <1>1, <1>2, PTL DEF BaroSpec

\* Types, in any interleaving; the semaphore never counts past one.
THEOREM BaroTypes == BaroSpec => []BaroTypeOK
<1>1. BaroInit => BaroTypeOK
  <2>1. BaroInit => sem \in 0..1
    BY DEF BaroInit
  <2> QED
    BY <2>1, Zenon DEF BaroInit, BaroTypeOK
<1>2. BaroTypeOK /\ [BaroNext]_baroVars => BaroTypeOK'
  <2> SUFFICES ASSUME BaroTypeOK, [BaroNext]_baroVars PROVE BaroTypeOK'
    OBVIOUS
  <2>1. CASE StartMeasuring
    <3>1. timer' = (timer \/ ~regInt \/ ~irq) \/ timer' = timer
      BY <2>1 DEF StartMeasuring
    <3>2. timer' \in BOOLEAN
      BY <3>1, Zenon DEF BaroTypeOK
    <3> QED
      BY <2>1, <3>2 DEF StartMeasuring, BaroTypeOK
  <2>2. CASE Measure
    <3>1. intWork' = (intWork \/ (irq /\ regInt))
      BY <2>2 DEF Measure
    <3>2. intWork' \in BOOLEAN
      BY <3>1, Zenon DEF BaroTypeOK
    <3> QED
      BY <2>2, <3>2 DEF Measure, BaroTypeOK
  <2>3. CASE StartBaro
    BY <2>3, Zenon DEF StartBaro, BaroTypeOK
  <2>4. CASE Wake
    <3>1. sem' \in 0..1
      BY <2>4 DEF Wake
    <3> QED
      BY <2>4, <3>1, Zenon DEF Wake, BaroTypeOK
  <2>5. CASE TakeSem
    <3>1. sem' \in 0..1
      BY <2>5 DEF TakeSem
    <3> QED
      BY <2>5, <3>1, Zenon DEF TakeSem, BaroTypeOK
  <2>6. CASE CheckReady \/ ClearReady \/ ReadData \/ Tell \/ UNCHANGED baroVars
    BY <2>6, Zenon DEF CheckReady, ClearReady, ReadData, Tell, baroVars, BaroTypeOK
  <2> QED
    BY <2>1, <2>2, <2>3, <2>4, <2>5, <2>6 DEF BaroNext
<1> QED
  BY <1>1, <1>2, PTL DEF BaroSpec

-----------------------------------------------------------------------------
(* Ground altitude: types *)

LEMMA RunnerKinds == /\ Queue \notin BaroCallers /\ "none" \notin BaroCallers
                     /\ Runners_G = BaroCallers \cup {Queue}
  BY GroundAssumption DEF Runners_G

LEMMA PlaceMoves ==
  ASSUME GroundTypeOK, NEW r \in Runners_G, NEW from, NEW to \in Places, Place(r, from, to)
  PROVE  /\ at' \in [Runners_G -> Places] /\ at[r] = from /\ at'[r] = to
         /\ \A s \in Runners_G : s # r => at'[s] = at[s]
         /\ r # Queue => at[Queue] \in {"out", "handle", "record"} /\ at'[Queue] = at[Queue]
  BY RunnerKinds DEF GroundTypeOK, Place, Running

LEMMA FillType ==
  ASSUME NEW a \in Alts, FillRing(a)
  PROVE  /\ ring' \in [0..RingSize - 1 -> Alts] /\ recent' \in [1..3 -> Alts]
<1>1. <<a, a, a>> \in [1..3 -> Alts]
  OBVIOUS
<1> QED
  BY <1>1 DEF FillRing, RingSize

GroundFlags == {sampled, due, filled, crossed, idle} \subseteq BOOLEAN

LEMMA StepPlaces ==
  ASSUME GroundTypeOK, [GroundNext]_groundVars
  PROVE  at' \in [Runners_G -> Places]
<1> USE DEF Places
<1>1. ASSUME NEW r \in Runners_G,
             \/ BeginStart(r) \/ EndStart(r) \/ BeginStop(r) \/ EndStop(r)
             \/ Disarm(r) \/ BeginArm(r) \/ Filled(r) \/ EndArm(r)
             \/ Handle(r) \/ Record(r) \/ Wrap(r) \/ Reschedule(r) \/ RescheduleStart(r)
      PROVE  at' \in [Runners_G -> Places]
  <2>1. \E from, to \in Places : Place(r, from, to)
    BY <1>1 DEF BeginStart, EndStart, BeginStop, EndStop, Disarm, BeginArm, Filled, EndArm,
       Handle, Record, Wrap, Reschedule, RescheduleStart
  <2> QED
    BY <2>1, PlaceMoves
<1>2. CASE Fires
  <2>1. Place(Queue, "out", "handle") /\ Queue \in Runners_G
    BY <1>2 DEF Fires, Runners_G
  <2> QED
    BY <2>1, PlaceMoves
<1>3. CASE InitGround
  BY <1>3 DEF InitGround, GroundTypeOK
<1>4. CASE UNCHANGED at
  BY <1>4 DEF GroundTypeOK
<1> QED
  BY <1>1, <1>2, <1>3, <1>4 DEF GroundNext, LoggerUp, FirstSample, groundVars

LEMMA StepRingType ==
  ASSUME GroundTypeOK, [GroundNext]_groundVars
  PROVE  /\ ring' \in [0..RingSize - 1 -> Alts] /\ next' \in 0..RingSize
         /\ recent' \in [1..3 -> Alts]
<1>1. CASE (\E a \in Alts : FillRing(a)) /\ next' \in {next, 0}
  BY <1>1, FillType DEF GroundTypeOK, RingSize
<1>2. ASSUME NEW r \in Runners_G, NEW a \in Alts, next < RingSize,
             ring' = [ring EXCEPT ![next] = a], next' = next + 1,
             recent' = <<a, recent[1], recent[2]>>
      PROVE  /\ ring' \in [0..RingSize - 1 -> Alts] /\ next' \in 0..RingSize
             /\ recent' \in [1..3 -> Alts]
  BY <1>2 DEF GroundTypeOK, RingSize
<1>3. CASE UNCHANGED <<ring, recent>> /\ next' \in {next, 0, 1, RingSize}
  BY <1>3 DEF GroundTypeOK, RingSize
<1> QED
  BY <1>1, <1>2, <1>3
  DEF GroundNext, groundVars, InitGround, LoggerUp, FirstSample, Fires, BeginStart, EndStart,
      BeginStop, EndStop, Disarm, BeginArm, Filled, EndArm, Handle, Record, Wrap, Reschedule,
      RescheduleStart, FillIndex

LEMMA StepFlags ==
  ASSUME GroundTypeOK, [GroundNext]_groundVars
  PROVE  /\ {sampled, due, filled, crossed, idle}' \subseteq BOOLEAN
         /\ logger' \in {"off", "init", "up"} /\ mode' \in {"IDLE", "ARMED", "LOGGING"}
         /\ lock' \in BaroCallers \cup {"none"}
<1>0. /\ sampled \in BOOLEAN /\ due \in BOOLEAN /\ filled \in BOOLEAN /\ crossed \in BOOLEAN
      /\ idle \in BOOLEAN
  BY DEF GroundTypeOK
<1>1. sampled' \in BOOLEAN /\ filled' \in BOOLEAN
  BY <1>0 DEF GroundNext, groundVars, InitGround, LoggerUp, FirstSample, Fires, BeginStart,
     EndStart, BeginStop, EndStop, Disarm, BeginArm, Filled, EndArm, Handle, Record, Wrap,
     Reschedule, RescheduleStart, FillIndex
<1>2. \/ due' \in {due, TRUE, FALSE}
      \/ \E r \in Runners_G : due' = (due \/ r # Queue \/ logger # "up")
  BY DEF GroundNext, groundVars, InitGround, LoggerUp, FirstSample, Fires, BeginStart,
     EndStart, BeginStop, EndStop, Disarm, BeginArm, Filled, EndArm, Handle, Record, Wrap,
     Reschedule, RescheduleStart
<1>3. due' \in BOOLEAN
  BY <1>0, <1>2, Zenon
<1>4. \/ UNCHANGED crossed
      \/ \E r \in Runners_G : crossed' = Writing(r)
      \/ \E r \in Runners_G : crossed' = (crossed \/ Writing(r))
  BY DEF GroundNext, groundVars, InitGround, LoggerUp, FirstSample, Fires, BeginStart,
     EndStart, BeginStop, EndStop, Disarm, BeginArm, Filled, EndArm, Handle, Record, Wrap,
     Reschedule, RescheduleStart
<1>5. crossed' \in BOOLEAN
  BY <1>0, <1>4, Zenon DEF Writing
<1>6. \/ idle' \in {idle, TRUE, FALSE}
      \/ \E r \in Runners_G : idle' = (idle /\ r = Queue)
  BY DEF GroundNext, groundVars, InitGround, LoggerUp, FirstSample, Fires, BeginStart,
     EndStart, BeginStop, EndStop, Disarm, BeginArm, Filled, EndArm, Handle, Record, Wrap,
     Reschedule, RescheduleStart
<1>7. idle' \in BOOLEAN
  BY <1>0, <1>6, Zenon
<1>8. logger' \in {"off", "init", "up"} /\ mode' \in {"IDLE", "ARMED", "LOGGING"}
  BY DEF GroundTypeOK, GroundNext, groundVars, InitGround, LoggerUp, FirstSample, Fires,
     BeginStart, EndStart, BeginStop, EndStop, Disarm, BeginArm, Filled, EndArm, Handle,
     Record, Wrap, Reschedule, RescheduleStart
<1>9. lock' \in BaroCallers \cup {"none"}
  BY RunnerKinds
  DEF GroundTypeOK, GroundNext, groundVars, InitGround, LoggerUp, FirstSample, Fires,
     BeginStart, EndStart, BeginStop, EndStop, Disarm, BeginArm, Filled, EndArm, Handle,
     Record, Wrap, Reschedule, RescheduleStart, Locks, Unlocks_G
<1> QED
  BY <1>1, <1>3, <1>5, <1>7, <1>8, <1>9

LEMMA GroundInitType == GroundInit => GroundTypeOK
<1> SUFFICES ASSUME GroundInit PROVE GroundTypeOK
  OBVIOUS
<1>1. /\ ring \in [0..RingSize - 1 -> Alts] /\ next \in 0..RingSize
      /\ recent \in [1..3 -> Alts]
  BY DEF GroundInit, RingSize
<1> QED
  BY <1>1 DEF GroundInit, GroundTypeOK, Places

LEMMA GroundStepType == GroundTypeOK /\ [GroundNext]_groundVars => GroundTypeOK'
  BY StepPlaces, StepRingType, StepFlags DEF GroundTypeOK

\* Types, for any callers and altitudes: in particular the index of the ring, which
\* two threads may both increment, never leaves 0..RingSize, and what it points at
\* is an altitude.
THEOREM GroundTypes == GroundSpec => []GroundTypeOK
  BY GroundInitType, GroundStepType, PTL DEF GroundSpec

-----------------------------------------------------------------------------
(* Ground altitude: the ring *)

\* The altitude recorded k places before the index; the ring ends where it begins.
Back(k) == IF next >= k THEN ring[next - k] ELSE ring[next + RingSize - k]

\* Places between what a thread writes into the ring and what it does to the index.
Writers == {"fill", "arm", "wrap"}

\* Unless two threads have recorded at once, one at most is writing; while it fills
\* the ring, and the index is wherever it was, all altitudes are the same; and the
\* index is past the end only until the thread has taken it back.
RingInv ==
  ~crossed =>
    /\ \A r, s \in Runners_G : at[r] \in Writers /\ at[s] \in Writers => r = s
    /\ (\E r \in Runners_G : at[r] \in {"fill", "arm"}) =>
         \A k \in 1..3, i \in 0..RingSize - 1 : ring[i] = recent[k]
    /\ filled =>
         /\ \A k \in 1..3 : recent[k] = Back(k)
         /\ next = RingSize => \E r \in Runners_G : at[r] \in Writers

\* A ring that has just been filled, whatever its index.
LEMMA FillEven ==
  ASSUME NEW a, FillRing(a), next' \in 0..RingSize
  PROVE  /\ \A k \in 1..3, i \in 0..RingSize - 1 : ring'[i] = recent'[k]
         /\ \A k \in 1..3 : recent'[k] = Back(k)'
<1>1. \A k \in 1..3, i \in 0..RingSize - 1 : ring'[i] = recent'[k]
  BY DEF FillRing, RingSize
<1> QED
  BY <1>1 DEF Back, RingSize

LEMMA StepRing ==
  ASSUME GroundTypeOK, RingInv, [GroundNext]_groundVars
  PROVE  RingInv'
<1> USE DEF Writers
\* The loop of logger_arm(), when nobody else writes.
<1>1. ASSUME NEW r \in Runners_G, BeginArm(r), NEW a \in Alts, FillRing(a),
             Place(r, "out", "arm"), ~crossed', crossed' = Writing(r)
      PROVE  RingInv'
  <2>1. at'[r] = "arm" /\ at[r] = "out" /\ \A s \in Runners_G : s # r => at'[s] = at[s]
    BY <1>1, PlaceMoves DEF Places
  <2>2. \A s \in Runners_G : at'[s] \in Writers => s = r
    BY <1>1, <2>1 DEF Writing
  <2>3. next' \in 0..RingSize
    BY <1>1 DEF BeginArm, GroundTypeOK
  <2>4. /\ \A k \in 1..3, i \in 0..RingSize - 1 : ring'[i] = recent'[k]
        /\ \A k \in 1..3 : recent'[k] = Back(k)'
    BY <1>1, <2>3, FillEven
  <2> QED
    BY <2>1, <2>2, <2>4 DEF RingInv
\* ... and the index after it
<1>2. ASSUME NEW r \in Runners_G, Filled(r), ~crossed' PROVE RingInv'
  <2>1. /\ at[r] \in {"fill", "arm"} /\ at'[r] \in {"handle", "resched"}
        /\ \A s \in Runners_G : s # r => at'[s] = at[s]
    BY <1>2, PlaceMoves DEF Filled, Places
  <2>2. ~crossed /\ UNCHANGED <<ring, recent>> /\ next' = 0
    BY <1>2 DEF Filled, FillIndex
  <2>3. /\ \A s \in Runners_G : at'[s] \notin Writers
        /\ \A k \in 1..3, i \in 0..RingSize - 1 : ring[i] = recent[k]
    BY <2>1, <2>2 DEF RingInv
  <2>4. \A k \in 1..3 : recent'[k] = Back(k)'
    BY <2>2, <2>3 DEF Back, RingSize
  <2> QED
    BY <2>2, <2>3, <2>4 DEF RingInv, RingSize
<1>3. ASSUME NEW r \in Runners_G, Record(r), ~crossed' PROVE RingInv'
  <2>1. ~crossed /\ at[r] = "record" /\ \A s \in Runners_G : at[s] \notin Writers
    BY <1>3 DEF Record, Writing
  <2>2. PICK a \in Alts :
          \/ ~filled /\ FillRing(a) /\ Place(r, "record", "fill") /\ UNCHANGED <<next, filled>>
          \/ /\ filled /\ next < RingSize
             /\ ring' = [ring EXCEPT ![next] = a] /\ next' = next + 1
             /\ recent' = <<a, recent[1], recent[2]>>
             /\ Place(r, "record", "wrap") /\ UNCHANGED filled
          \/ filled /\ next = RingSize
    BY <1>3 DEF Record
  <2>3. filled => next # RingSize /\ \A k \in 1..3 : recent[k] = Back(k)
    BY <2>1 DEF RingInv
  <2>4. /\ at'[r] \in {"fill", "wrap"} /\ (at'[r] = "fill" => FillRing(a) /\ next' = next)
        /\ \A s \in Runners_G : s # r => at'[s] = at[s]
    BY <2>2, <2>3, PlaceMoves DEF Places
  <2>5. \A s \in Runners_G : at'[s] \in Writers => s = r
    BY <2>1, <2>4
  <2>6. at'[r] = "fill" => \A k \in 1..3, i \in 0..RingSize - 1 : ring'[i] = recent'[k]
    BY <2>4, FillEven DEF GroundTypeOK
  <2>7. ASSUME filled' PROVE \A k \in 1..3 : recent'[k] = Back(k)'
    <3>1. /\ filled /\ next < RingSize
          /\ ring' = [ring EXCEPT ![next] = a] /\ next' = next + 1
          /\ recent' = <<a, recent[1], recent[2]>>
      BY <2>2, <2>3, <2>7
    <3>2. next \in 0..3 /\ ring \in [0..3 -> Alts]
      BY <3>1 DEF GroundTypeOK, RingSize
    <3>3. /\ Back(1)' = a /\ Back(2)' = Back(1) /\ Back(3)' = Back(2)
      BY <3>1, <3>2 DEF Back, RingSize
    <3>4. recent'[1] = Back(1)' /\ recent'[2] = Back(2)' /\ recent'[3] = Back(3)'
      BY <2>3, <3>1, <3>3
    <3> QED
      BY <3>4
  <2> QED
    BY <2>4, <2>5, <2>6, <2>7 DEF RingInv
<1>4. ASSUME NEW r \in Runners_G, Wrap(r), ~crossed' PROVE RingInv'
  <2>1. /\ at[r] = "wrap" /\ at'[r] = "resched"
        /\ \A s \in Runners_G : s # r => at'[s] = at[s]
    BY <1>4, PlaceMoves DEF Wrap, Places
  <2>2. /\ next' = (IF next >= RingSize THEN 0 ELSE next)
        /\ ~crossed /\ UNCHANGED <<ring, recent, filled>>
    BY <1>4 DEF Wrap
  <2>3. \A s \in Runners_G : at'[s] \notin Writers
    BY <2>1, <2>2 DEF RingInv
  <2>4. next \in 0..RingSize
    BY DEF GroundTypeOK
  <2>5. filled' => (\A k \in 1..3 : recent'[k] = Back(k)') /\ next' # RingSize
    BY <2>2, <2>4 DEF RingInv, Back, RingSize
  <2> QED
    BY <2>3, <2>5 DEF RingInv
<1>5. CASE /\ UNCHANGED <<ring, next, recent, filled, crossed>>
           /\ \A r \in Runners_G : at[r] \in Writers \/ at'[r] \in Writers => at'[r] = at[r]
  BY <1>5 DEF RingInv, Back
<1>6. ASSUME NEW r \in Runners_G,
             \/ BeginStart(r) \/ EndStart(r) \/ BeginStop(r) \/ EndStop(r) \/ Disarm(r)
             \/ (BeginArm(r) /\ Place(r, "out", "handle") /\ UNCHANGED <<ring, recent, crossed>>)
             \/ EndArm(r) \/ Handle(r) \/ Reschedule(r) \/ RescheduleStart(r)
      PROVE  RingInv'
  <2>1. UNCHANGED <<ring, next, recent, filled, crossed>>
    BY <1>6 DEF BeginStart, EndStart, BeginStop, EndStop, Disarm, BeginArm, EndArm, Handle,
       Reschedule, RescheduleStart
  <2>2. \E from, to \in Places : {from, to} \cap Writers = {} /\ Place(r, from, to)
    BY <1>6 DEF BeginStart, EndStart, BeginStop, EndStop, Disarm, EndArm, Handle, Reschedule,
       RescheduleStart, Places
  <2> QED
    BY <1>5, <2>1, <2>2, PlaceMoves
<1>7. CASE Fires
  BY <1>5, <1>7, PlaceMoves DEF Fires, Runners_G, Places
<1>8. CASE InitGround
  <2>1. CASE UNCHANGED <<ring, next, filled, recent, at, idle>>
    BY <1>5, <1>8, <2>1 DEF InitGround
  <2>2. CASE /\ sampled /\ FillIndex /\ \E a \in Alts : FillRing(a)
             /\ at' = [at EXCEPT ![Queue] = "handle"] /\ idle' = FALSE
    <3>1. PICK a \in Alts : FillRing(a)
      BY <2>2
    <3>2. next' = 0 /\ next' \in 0..RingSize /\ next' # RingSize /\ crossed' = crossed
      BY <1>8, <2>2 DEF FillIndex, InitGround, RingSize
    <3>3. /\ \A k \in 1..3, i \in 0..RingSize - 1 : ring'[i] = recent'[k]
          /\ \A k \in 1..3 : recent'[k] = Back(k)'
      BY <3>1, <3>2, FillEven
    <3>4. \A r \in Runners_G : at'[r] \in Writers => at[r] \in Writers
      BY <2>2 DEF GroundTypeOK
    <3> QED
      BY <3>2, <3>3, <3>4 DEF RingInv
  <2> QED
    BY <1>8, <2>1, <2>2 DEF InitGround
<1>9. CASE LoggerUp \/ FirstSample \/ UNCHANGED groundVars
  BY <1>5, <1>9 DEF LoggerUp, FirstSample, groundVars
<1>10. CASE crossed'
  BY <1>10 DEF RingInv
<1> QED
  <2>1. ASSUME NEW r \in Runners_G, BeginArm(r), ~crossed' PROVE RingInv'
    BY <1>1, <1>6, <2>1 DEF BeginArm
  <2> QED
    BY <1>2, <1>3, <1>4, <1>6, <1>7, <1>8, <1>9, <1>10, <2>1 DEF GroundNext

\* Over the wrap of the ring and after it is filled, the altitude of the surface
\* that a log is headed with is the third newest, whatever altitudes and callers
\* there are, as long as no two threads record or fill at once.
THEOREM RingKeepsThird == GroundSpec => []ThirdNewest
<1>1. GroundInit => RingInv
  BY DEF GroundInit, RingInv, Writers
<1>2. GroundTypeOK /\ RingInv /\ [GroundNext]_groundVars => (GroundTypeOK /\ RingInv)'
  BY StepRing, GroundStepType
<1>3. RingInv => ThirdNewest
  BY DEF RingInv, ThirdNewest, Psfc, Back
<1> QED
  BY <1>1, <1>2, <1>3, GroundInitType, PTL DEF GroundSpec

-----------------------------------------------------------------------------
(* Ground altitude: the sampling *)

\* What a caller or the work queue may be at.
QueuePlaces == {"out", "handle", "record", "fill", "wrap", "resched", "again"}
CallerPlaces == QueuePlaces \cup {"start", "stop", "arm", "armed"}

\* The lock covers a start and the end of logger_arm(); before logger_init() is
\* done nobody calls.
Locked ==
  /\ at[Queue] \in QueuePlaces
  /\ \A r \in BaroCallers :
       /\ at[r] \in CallerPlaces
       /\ at[r] \in {"start", "armed"} => lock = r
       /\ at[r] = "armed" => due
       /\ logger # "up" => at[r] = "out"
  /\ logger # "up" => mode = "IDLE"

\* A caller of whom more is to come: it schedules the work, or ends the wait.
Busy(r) == at[r] \in CallerPlaces \ {"out", "armed"}

\* While the logger waits the work is scheduled, or under way, or a caller is yet
\* to schedule it; once armed, a stop that has been overtaken does not matter.
\* The handler that leaves without scheduling has found the logger busy.
Driving ==
  /\ logger # "up" /\ ~idle => due \/ at[Queue] # "out"
  /\ logger = "up" /\ mode = "IDLE" /\ ~idle =>
       due \/ at[Queue] # "out" \/ \E r \in BaroCallers : Busy(r)
  /\ logger = "up" /\ mode = "ARMED" /\ ~idle =>
       due \/ at[Queue] # "out" \/ \E r \in BaroCallers : at[r] = "start"
  /\ at[Queue] = "again" => due \/ logger # "up" \/ ~Waiting

LEMMA StepLocked ==
  ASSUME GroundTypeOK, Locked, [GroundNext]_groundVars
  PROVE  Locked'
<1> USE RunnerKinds DEF Locked, CallerPlaces, QueuePlaces
<1>1. ASSUME NEW r \in BaroCallers,
             BeginStart(r) \/ BeginStop(r) \/ Disarm(r) \/ BeginArm(r)
      PROVE  Locked'
  <2>1. /\ logger = "up" /\ lock = "none" /\ UNCHANGED logger
        /\ at'[r] \in {"start", "stop", "arm", "handle"}
        /\ \A s \in Runners_G : s # r => at'[s] = at[s]
        /\ at'[r] = "start" => lock' = r
    BY <1>1, PlaceMoves DEF BeginStart, BeginStop, Disarm, BeginArm, Locks, Places
  <2> QED
    BY <2>1
<1>2. ASSUME NEW r \in BaroCallers, EndStart(r) \/ EndStop(r) \/ EndArm(r) PROVE Locked'
  <2>1. /\ at[r] \in {"start", "stop", "armed"} /\ at'[r] \in {"out", "handle"}
        /\ \A s \in Runners_G : s # r => at'[s] = at[s]
        /\ UNCHANGED <<logger, due>>
        /\ lock' = lock \/ lock' = IF lock = r THEN "none" ELSE lock
    BY <1>2, PlaceMoves DEF EndStart, EndStop, EndArm, Unlocks_G, Places
  <2>2. logger = "up"
    BY <2>1
  <2> QED
    BY <2>1, <2>2
<1>3. ASSUME NEW r \in Runners_G,
             Filled(r) \/ Handle(r) \/ Record(r) \/ Wrap(r) \/ Reschedule(r)
      PROVE  Locked'
  <2>1. /\ at[r] \in {"arm", "handle", "record", "fill", "wrap", "resched"}
        /\ at'[r] \in {"handle", "record", "fill", "wrap", "resched", "again"}
        /\ \A s \in Runners_G : s # r => at'[s] = at[s]
        /\ UNCHANGED <<logger, lock, mode>> /\ (due => due')
    BY <1>3, PlaceMoves DEF Filled, Handle, Record, Wrap, Reschedule, Places
  <2> QED
    BY <2>1
<1>4. ASSUME NEW r \in Runners_G, RescheduleStart(r) PROVE Locked'
  <2>1. /\ at[r] = "again" /\ at'[r] = (IF lock = r THEN "armed" ELSE "out")
        /\ \A s \in Runners_G : s # r => at'[s] = at[s]
        /\ UNCHANGED <<logger, lock, mode>>
        /\ due' = (due \/ r # Queue \/ logger # "up")
    BY <1>4, PlaceMoves DEF RescheduleStart, Places
  <2>2. lock # Queue
    BY DEF GroundTypeOK, Queue
  <2>3. (due => due') /\ (r # Queue => due')
    BY <2>1, Zenon
  <2> QED
    BY <2>1, <2>2, <2>3
<1>5. CASE Fires
  <2>1. /\ at'[Queue] = "handle" /\ \A s \in Runners_G : s # Queue => at'[s] = at[s]
    BY <1>5, PlaceMoves DEF Fires, Places
  <2> QED
    BY <1>5, <2>1 DEF Fires
<1>6. CASE InitGround
  BY <1>6 DEF InitGround, GroundTypeOK
<1>7. CASE LoggerUp \/ FirstSample \/ UNCHANGED groundVars
  BY <1>7 DEF LoggerUp, FirstSample, groundVars
<1>8. ~BeginStart(Queue) /\ ~BeginStop(Queue) /\ ~Disarm(Queue) /\ ~BeginArm(Queue)
      /\ ~EndStart(Queue) /\ ~EndStop(Queue) /\ ~EndArm(Queue)
  BY DEF BeginStart, BeginStop, Disarm, BeginArm, EndStart, EndStop, EndArm, Place
<1> QED
  BY <1>1, <1>2, <1>3, <1>4, <1>5, <1>6, <1>7, <1>8 DEF GroundNext

LEMMA StepDriving ==
  ASSUME GroundTypeOK, Locked, Driving, [GroundNext]_groundVars
  PROVE  Driving'
<1> USE RunnerKinds DEF Driving, Busy, CallerPlaces, QueuePlaces, Waiting
\* A caller begins or goes on, and more is to come of it.
<1>1. ASSUME NEW r \in BaroCallers,
             BeginStart(r) \/ BeginStop(r) \/ Disarm(r) \/ BeginArm(r)
      PROVE  Driving'
  <2>1. /\ logger' = "up" /\ lock = "none" /\ UNCHANGED idle /\ at[r] = "out"
        /\ at'[r] \in {"start", "stop", "arm", "handle"}
        /\ \A s \in Runners_G : s # r => at'[s] = at[s]
        /\ at[Queue] \in {"out", "handle", "record"} /\ at'[Queue] = at[Queue]
        /\ at'[r] # "start" => UNCHANGED due
        /\ mode' = mode \/ (mode' = "IDLE" /\ at'[r] # "start")
    BY <1>1, PlaceMoves DEF BeginStart, BeginStop, Disarm, BeginArm, Locks, Places
  <2> QED
    BY <2>1
\* A start succeeds or fails; an arming has scheduled the work; a stop finds the
\* state as it left it, or another caller's.
<1>2. ASSUME NEW r \in BaroCallers, EndStart(r) \/ EndStop(r) \/ EndArm(r) PROVE Driving'
  <2>1. /\ at[r] \in {"start", "stop", "armed"} /\ at'[r] \in {"out", "handle"}
        /\ \A s \in Runners_G : s # r => at'[s] = at[s]
        /\ at[Queue] \in {"out", "handle", "record"} /\ at'[Queue] = at[Queue]
        /\ UNCHANGED <<logger, due>>
    BY <1>2, PlaceMoves DEF EndStart, EndStop, EndArm, Places
  <2>2. logger = "up"
    BY <2>1 DEF Locked
  <2>3. CASE EndStart(r)
    BY <2>1, <2>2, <2>3 DEF EndStart
  <2>4. CASE EndArm(r)
    BY <2>1, <2>2, <2>4 DEF EndArm, Place, Locked
  <2>5. CASE EndStop(r)
    <3>1. UNCHANGED <<mode, idle>> /\ at[r] = "stop" /\ (at'[r] = "out" => mode # "IDLE")
      BY <2>1, <2>5, PlaceMoves DEF EndStop, Places
    <3> QED
      BY <2>1, <2>2, <3>1
  <2> QED
    BY <1>2, <2>3, <2>4, <2>5
<1>3. ASSUME NEW r \in Runners_G,
             Filled(r) \/ Handle(r) \/ Record(r) \/ Wrap(r) \/ Reschedule(r)
      PROVE  Driving'
  <2>1. /\ at[r] \in {"arm", "handle", "record", "fill", "wrap", "resched"}
        /\ at'[r] \in {"handle", "record", "fill", "wrap", "resched", "again"}
        /\ \A s \in Runners_G : s # r => at'[s] = at[s]
        /\ UNCHANGED <<logger, mode, idle>> /\ (due => due')
        /\ at'[r] = "again" => due' \/ ~Waiting
    BY <1>3, PlaceMoves DEF Filled, Handle, Record, Wrap, Reschedule, Places
  <2> QED
    BY <2>1
<1>4. ASSUME NEW r \in Runners_G, RescheduleStart(r) PROVE Driving'
  <2>1. /\ at[r] = "again" /\ at'[r] \in {"armed", "out"}
        /\ \A s \in Runners_G : s # r => at'[s] = at[s]
        /\ UNCHANGED <<logger, mode>> /\ idle' = (idle /\ r = Queue)
        /\ due' = (due \/ r # Queue \/ logger # "up")
    BY <1>4, PlaceMoves DEF RescheduleStart, Places
  <2>2. (due => due') /\ (r # Queue => due') /\ (logger # "up" => due')
    BY <2>1, Zenon
  <2>3. r = Queue /\ ~idle' => ~idle
    BY <2>1, Zenon
  <2>4. CASE due'
    BY <2>4
  <2>5. CASE ~due'
    BY <2>1, <2>2, <2>3, <2>5
  <2> QED
    BY <2>4, <2>5
<1>5. CASE Fires
  BY <1>5, PlaceMoves DEF Fires, Places
<1>6. CASE InitGround
  BY <1>6 DEF InitGround, GroundTypeOK
<1>7. CASE LoggerUp
  BY <1>7 DEF LoggerUp, Locked
<1>8. CASE FirstSample \/ UNCHANGED groundVars
  BY <1>8 DEF FirstSample, groundVars
<1>9. ~BeginStart(Queue) /\ ~BeginStop(Queue) /\ ~Disarm(Queue) /\ ~BeginArm(Queue)
      /\ ~EndStart(Queue) /\ ~EndStop(Queue) /\ ~EndArm(Queue)
  BY DEF BeginStart, BeginStop, Disarm, BeginArm, EndStart, EndStop, EndArm, Place, Locked
<1> QED
  BY <1>1, <1>2, <1>3, <1>4, <1>5, <1>6, <1>7, <1>8, <1>9 DEF GroundNext

\* For any callers and altitudes, and however starts, stops, arming and the work
\* queue overlap: on the ground the sampling that has been started goes on.
THEOREM SamplingContinues == GroundSpec => []SamplingGoesOn
<1>1. GroundInit => Locked /\ Driving
  BY RunnerKinds DEF GroundInit, Locked, Driving, Busy, CallerPlaces, QueuePlaces
<1>2. /\ GroundTypeOK /\ Locked /\ Driving /\ [GroundNext]_groundVars
        => (GroundTypeOK /\ Locked /\ Driving)'
  BY StepLocked, StepDriving, GroundStepType
<1>3. GroundTypeOK /\ Driving => SamplingGoesOn
  BY DEF Driving, Busy, CallerPlaces, QueuePlaces, SamplingGoesOn, Waiting, GroundTypeOK
<1> QED
  BY <1>1, <1>2, <1>3, GroundInitType, PTL DEF GroundSpec

-----------------------------------------------------------------------------
(* The motion sensor: the acceleration filter *)

FilterType == filter \in [enabled : BOOLEAN, initialized : BOOLEAN]

\* What the average is made of depends on initialized alone while it is enabled.
FilterInv == FilterType /\ FilterFresh

LEMMA InitFilter == ImuInit => FilterInv
  BY DEF ImuInit, FilterInv, FilterType, FilterFresh

LEMMA StepFilter == FilterInv /\ [ImuNext]_imuVars => FilterInv'
<1> SUFFICES ASSUME FilterType, FilterFresh, [ImuNext]_imuVars PROVE FilterInv'
  BY DEF FilterInv
<1> USE DEF FilterInv, FilterType, FilterFresh
\* The average is begun with the first sample after the start, or goes on; one
\* that a stop has overtaken is left behind disabled.
<1>1. CASE UpdateFilter
  BY <1>1 DEF UpdateFilter
<1>2. CASE EnableFilter
  BY <1>2 DEF EnableFilter
<1>3. CASE DisableFilter
  BY <1>3 DEF DisableFilter
<1>4. CASE UNCHANGED <<filter, mixed>>
  BY <1>4
<1>5. QED
  BY <1>1, <1>2, <1>3, <1>4
     DEF ImuNext, imuVars, SampleTaken, OrientationStart, FifoStart, CountPackets,
         ReadPackets, ReadFails, TestEnabled, ProcessSample

\* For any period, polling and number of packets, and wherever the logger's
\* thread switches the filter while the orientation thread is between its
\* unlocked test and its update, an acceleration the executive is given averages
\* samples alone, from the start of the session on.
THEOREM FilterStaysFresh == ImuSpec => []FilterFresh
<1>1. FilterInv => FilterFresh
  BY DEF FilterInv
<1>2. QED
  BY InitFilter, StepFilter, <1>1, PTL DEF ImuSpec

-----------------------------------------------------------------------------
(* The motion sensor: the invariants of a poll *)

\* The sensor puts a packet into the FIFO at every multiple of the period, once it
\* streams: the last one then, the others each a period before the next.
Latest == imuNow - (imuNow % Period)
Spaced == \A i \in 1..Len(fifo) : fifo[i] = Latest - (Len(fifo) - i) * Period

\* What has been counted in time is all there is; what has been read is stamped
\* within its period.
StampInv ==
  /\ Streaming \/ fifo = <<>>
  /\ Spaced
  /\ exact /\ tracker = "read" /\ imuNow = countedAt => want = Len(fifo)
  /\ StampsTrue

\* The samples that are tried against the filter are those in hand.
HandInv ==
  /\ Len(samples) <= MaxRead
  /\ tracker \in {"filter", "mix"} => tested < Len(samples)
  /\ tracker = "process" => samples # <<>>

-----------------------------------------------------------------------------
(* Remainders of the clock *)

LEMMA Division ==
  ASSUME NEW n \in Int, NEW p \in Int, p > 0
  PROVE  n = (n \div p) * p + (n % p) /\ n % p \in 0..(p - 1) /\ n \div p \in Int
<1>1. n = (n \div p) * p + (n % p)
  BY Z3
<1>2. n % p \in 0..(p - 1) /\ n \div p \in Int
  OBVIOUS
<1> QED
  BY <1>1, <1>2

\* Two multiples that are close are the same.
LEMMA Multiples ==
  ASSUME NEW p \in Nat \ {0}, NEW q \in Int, NEW s \in Int, NEW a \in 0..(p - 1), NEW b \in 0..(p - 1),
         q * p + a = s * p + b
  PROVE  a = b
<1>1. (s - q) * p = a - b
  OBVIOUS
<1>2. s - q >= 1 => (s - q) * p >= p
  OBVIOUS
<1>3. q - s >= 1 => (q - s) * p >= p
  OBVIOUS
<1>4. (q - s) * p = b - a
  OBVIOUS
<1>5. s = q
  BY <1>1, <1>2, <1>3, <1>4
<1> QED
  BY <1>1, <1>5

\* Counting past a multiple.
LEMMA TickPhase ==
  ASSUME NEW n \in Nat, NEW p \in Nat \ {0}
  PROVE  /\ n % p \in 0..(p - 1)
         /\ (n + 1) % p = IF n % p = p - 1 THEN 0 ELSE (n % p) + 1
<1> DEFINE m == n + 1
           q == n \div p
           s == m \div p
<1>0. m \in Int
  OBVIOUS
<1> HIDE DEF m
<1>1. n = q * p + (n % p) /\ n % p \in 0..(p - 1) /\ q \in Int
  BY Division
<1>2. m = s * p + (m % p) /\ m % p \in 0..(p - 1) /\ s \in Int
  BY <1>0, Division
<1> HIDE DEF q, s
<1>3. ASSUME n % p = p - 1 PROVE m % p = 0
  <2>1. (q + 1) * p + 0 = s * p + (m % p)
    BY <1>1, <1>2, <1>3 DEF m
  <2> QED
    BY <1>1, <1>2, <1>3, <2>1, Multiples
<1>4. ASSUME n % p # p - 1 PROVE m % p = (n % p) + 1
  <2>1. q * p + ((n % p) + 1) = s * p + (m % p) /\ (n % p) + 1 \in 0..(p - 1)
    BY <1>1, <1>2, <1>4 DEF m
  <2> QED
    BY <1>1, <1>2, <1>4, <2>1, Multiples
<1> QED
  BY <1>1, <1>3, <1>4 DEF m

-----------------------------------------------------------------------------
(* The motion sensor: types *)

LEMMA SamplesLen == ASSUME ImuTypeOK PROVE Len(samples) \in Nat /\ Len(fifo) \in Nat
  BY DEF ImuTypeOK

LEMMA SampleType ==
  ASSUME ImuTypeOK, SampleTaken PROVE ImuTypeOK'
<1>1. imuNow' \in 0..MaxTime /\ imuNow' > imuNow
  BY ImuAssumption DEF SampleTaken, ImuTypeOK
<1>2. fifo' \in Seq(0..MaxTime) /\ want <= Len(fifo')
  <2>1. CASE fifo' = fifo
    BY <2>1 DEF ImuTypeOK
  <2>2. CASE fifo' = Append(fifo, imuNow')
    <3>1. fifo' \in Seq(0..MaxTime) /\ Len(fifo') = Len(fifo) + 1
      BY <1>1, <2>2, AppendProperties DEF ImuTypeOK
    <3> QED
      BY <3>1 DEF ImuTypeOK
  <2> QED
    BY <2>1, <2>2 DEF SampleTaken
<1> QED
  BY <1>1, <1>2 DEF SampleTaken, ImuTypeOK

LEMMA CountType ==
  ASSUME ImuTypeOK, CountPackets PROVE ImuTypeOK'
<1>1. Len(fifo) \in Nat /\ MaxRead \in Nat /\ imuNow \in Nat /\ PollPeriod \in Nat
  BY ImuAssumption DEF ImuTypeOK
<1>2. want' \in 0..MaxRead /\ want' <= Len(fifo)
  BY <1>1 DEF CountPackets
<1>3. wake' \in Nat
  BY <1>1 DEF CountPackets, Sleep, ImuTypeOK
<1> QED
  BY <1>1, <1>2, <1>3 DEF CountPackets, ImuTypeOK

LEMMA StampInt ==
  ASSUME ImuTypeOK, NEW v \in Int PROVE Stamp(v) \in Int
<1>1. imuNow \in Int /\ want \in Int /\ Period \in Int
  BY ImuAssumption DEF ImuTypeOK
<1> QED
  BY <1>1 DEF Stamp

\* What a poll brings in: no more than was counted, from the FIFO.
LEMMA ReadSamples ==
  ASSUME ImuTypeOK, ReadPackets
  PROVE  /\ samples' \in Seq((0..MaxTime) \X Int) /\ Len(samples') <= want
         /\ Len(samples') = want =>
              \A i \in 1..want : samples'[i] = <<fifo[i], Stamp(i - 1)>>
<1>0. PICK valid \in SUBSET (1..want) : \E kept \in [1..Cardinality(valid) -> valid] :
        /\ \A i \in DOMAIN kept : Cardinality({u \in valid : u <= kept[i]}) = i
        /\ samples' = [i \in DOMAIN kept |-> <<fifo[kept[i]], Stamp(i - 1)>>]
  BY DEF ReadPackets
<1>1. PICK kept \in [1..Cardinality(valid) -> valid] :
        /\ \A i \in DOMAIN kept : Cardinality({u \in valid : u <= kept[i]}) = i
        /\ samples' = [i \in DOMAIN kept |-> <<fifo[kept[i]], Stamp(i - 1)>>]
  BY <1>0
<1>2. /\ want \in Nat /\ fifo \in Seq(0..MaxTime) /\ want <= Len(fifo)
  BY ImuAssumption DEF ImuTypeOK
<1>3. /\ IsFiniteSet(1..want) /\ Cardinality(1..want) = want
  BY <1>2, FS_Interval
<1>4. /\ IsFiniteSet(valid) /\ Cardinality(valid) \in Nat /\ Cardinality(valid) <= want
      /\ Cardinality(valid) = want => valid = 1..want
  <2>1. /\ IsFiniteSet(valid) /\ Cardinality(valid) <= Cardinality(1..want)
        /\ Cardinality(1..want) = Cardinality(valid) => 1..want = valid
    BY <1>3, FS_Subset
  <2>2. Cardinality(valid) \in Nat
    BY <2>1, FS_CardinalityType
  <2> QED
    BY <1>3, <2>1, <2>2
<1> DEFINE n == Cardinality(valid)
<1>5. ASSUME NEW i \in 1..n PROVE <<fifo[kept[i]], Stamp(i - 1)>> \in (0..MaxTime) \X Int
  <2>1. kept[i] \in 1..want
    OBVIOUS
  <2>3. fifo[kept[i]] \in 0..MaxTime
    <3>1. \A k \in 1..want : k \in 1..Len(fifo)
      BY <1>2
    <3>2. \A k \in 1..Len(fifo) : fifo[k] \in 0..MaxTime
      BY <1>2, ElementOfSeq
    <3> QED
      BY <2>1, <3>1, <3>2
  <2>2. Stamp(i - 1) \in Int
    BY <1>4, StampInt
  <2> QED
    BY <2>2, <2>3
<1>6. samples' = [i \in 1..n |-> <<fifo[kept[i]], Stamp(i - 1)>>]
  BY <1>1
<1>7. samples' \in Seq((0..MaxTime) \X Int) /\ Len(samples') = n
  <2>1. samples' \in [1..n -> (0..MaxTime) \X Int]
    BY <1>5, <1>6
  <2> HIDE DEF n
  <2> QED
    BY <1>4, <2>1 DEF n
<1>8. ASSUME n = want, NEW i \in 1..want PROVE kept[i] = i
  <2>1. valid = 1..want /\ kept[i] \in 1..want
    BY <1>1, <1>4, <1>8
  <2>2. {u \in valid : u <= kept[i]} = 1..kept[i]
    BY <1>2, <2>1
  <2>3. Cardinality(1..kept[i]) = kept[i]
    <3> DEFINE k == kept[i]
    <3>1. k \in Int /\ ~(1 > k)
      BY <1>2, <2>1
    <3> HIDE DEF k
    <3>2. Cardinality(1..k) = k - 1 + 1
      BY <3>1, FS_Interval
    <3> QED
      BY <3>1, <3>2 DEF k
  <2> QED
    BY <1>1, <1>8, <2>2, <2>3
<1>9. ASSUME n = want, NEW i \in 1..want PROVE samples'[i] = <<fifo[i], Stamp(i - 1)>>
  BY <1>6, <1>8, <1>9
<1> QED
  BY <1>4, <1>7, <1>9

\* What is left in the FIFO.
LEMMA ReadRest ==
  ASSUME ImuTypeOK, ReadPackets
  PROVE  /\ fifo' \in Seq(0..MaxTime) /\ Len(fifo') = Len(fifo) - want
         /\ \A i \in 1..Len(fifo') : fifo'[i] = fifo[i + want]
<1>1. /\ want \in Nat /\ fifo \in Seq(0..MaxTime) /\ want <= Len(fifo) /\ Len(fifo) \in Nat
      /\ fifo' = SubSeq(fifo, want + 1, Len(fifo))
  BY DEF ImuTypeOK, ReadPackets
<1> DEFINE m == want + 1
<1>2. m \in Int /\ Len(fifo) \in Int /\ \A i \in m..Len(fifo) : fifo[i] \in 0..MaxTime
  <2>1. \A i \in m..Len(fifo) : i \in 1..Len(fifo)
    BY <1>1
  <2>2. \A i \in 1..Len(fifo) : fifo[i] \in 0..MaxTime
    BY <1>1, ElementOfSeq
  <2> QED
    BY <1>1, <2>1, <2>2
<1> HIDE DEF m
<1>3. /\ fifo' \in Seq(0..MaxTime)
      /\ Len(fifo') = IF m <= Len(fifo) THEN Len(fifo) - m + 1 ELSE 0
      /\ \A i \in 1..(Len(fifo) - m + 1) : fifo'[i] = fifo[m + i - 1]
  BY <1>1, <1>2, SubSeqProperties DEF m
<1>4. \A i \in Int : m + i - 1 = i + want
  BY <1>1 DEF m
<1> QED
  BY <1>1, <1>3, <1>4 DEF m

\* One step of the thread on the samples in hand.
LEMMA HeadSample ==
  ASSUME ImuTypeOK, samples # <<>>
  PROVE  /\ Head(samples)[2] \in Int /\ Tail(samples) \in Seq((0..MaxTime) \X Int)
         /\ Len(Tail(samples)) = Len(samples) - 1
         /\ \A i \in 1..Len(Tail(samples)) : Tail(samples)[i] = samples[i + 1]
<1>1. samples \in Seq((0..MaxTime) \X Int)
  BY DEF ImuTypeOK
<1>2. Head(samples) \in (0..MaxTime) \X Int
  BY <1>1, HeadTailProperties
<1>3. Head(samples)[2] \in Int
  BY <1>2
<1> QED
  BY <1>1, <1>3, HeadTailProperties

LEMMA SleepType ==
  ASSUME ImuTypeOK, Sleep PROVE wake' \in Nat
<1>1. imuNow \in Nat /\ PollPeriod \in Nat /\ wake \in Nat
  BY ImuAssumption DEF ImuTypeOK
<1> QED
  BY <1>1 DEF Sleep

LEMMA ImuStepType ==
  ASSUME ImuTypeOK, HandInv, [ImuNext]_imuVars
  PROVE  ImuTypeOK' /\ HandInv'
<1> USE DEF HandInv
<1>0. Len(samples) \in Nat /\ MaxRead \in Nat /\ tested \in Nat
  BY ImuAssumption DEF ImuTypeOK
<1>1. CASE SampleTaken
  BY <1>1, SampleType DEF SampleTaken
<1>2. CASE CountPackets
  BY <1>2, CountType DEF CountPackets
<1>3. CASE ReadPackets
  <2>1. samples' \in Seq((0..MaxTime) \X Int) /\ Len(samples') <= want /\ Len(samples') \in Nat
    BY <1>3, ReadSamples
  <2>2. fifo' \in Seq(0..MaxTime) /\ Len(fifo') \in Nat
    BY <1>3, ReadRest
  <2>3. wake' \in Nat
    BY <1>3, SleepType DEF ReadPackets
  <2>4. samples' # <<>> => 0 < Len(samples')
    BY <2>1, EmptySeq
  <2>5. /\ want' = 0 /\ tested' = 0 /\ tracker' = (IF samples' = <<>> THEN "count" ELSE "filter")
        /\ exact' = (exact /\ imuNow = countedAt /\ Len(samples') = want)
        /\ UNCHANGED <<imuNow, countedAt, last_sample_us, filter, mixed>>
    BY <1>3 DEF ReadPackets
  <2>6. exact' \in BOOLEAN
    BY <2>5, Zenon DEF ImuTypeOK
  <2>7. Len(samples') <= MaxRead
    BY <1>0, <2>1 DEF ImuTypeOK
  <2> QED
    BY <1>0, <2>1, <2>2, <2>3, <2>4, <2>5, <2>6, <2>7 DEF ImuTypeOK
<1>4. CASE ReadFails
  <2>1. wake' \in Nat
    BY <1>4, SleepType DEF ReadFails
  <2> QED
    BY <1>0, <1>4, <2>1 DEF ReadFails, ImuTypeOK
<1>5. CASE TestEnabled
  BY <1>0, <1>5, EmptySeq DEF TestEnabled, Filtered, ImuTypeOK
<1>6. CASE UpdateFilter
  <2>1. tested' = tested + 1 /\ tested' \in 0..MaxRead /\ tested < Len(samples)
    BY <1>0, <1>6 DEF UpdateFilter
  <2>2. filter' \in [enabled : BOOLEAN, initialized : BOOLEAN] /\ mixed' \in SUBSET {"zero", "sample"}
    BY <1>6 DEF UpdateFilter, ImuTypeOK
  <2>3. tracker' = (IF tested' = Len(samples) THEN "process" ELSE "filter")
    BY <1>6 DEF UpdateFilter, Filtered
  <2>4. samples # <<>>
    BY <1>0, <2>1, EmptySeq
  <2>5. UNCHANGED <<imuNow, fifo, wake, want, countedAt, samples, last_sample_us, exact>>
    BY <1>6 DEF UpdateFilter
  <2> QED
    BY <1>0, <2>1, <2>2, <2>3, <2>4, <2>5 DEF ImuTypeOK
<1>7. CASE ProcessSample
  <2>1. samples # <<>>
    BY <1>7 DEF ProcessSample
  <2>2. wake' \in Nat
    BY <1>7, SleepType DEF ProcessSample
  <2>3. /\ last_sample_us' \in Int /\ samples' \in Seq((0..MaxTime) \X Int)
        /\ Len(samples') = Len(samples) - 1
    BY <1>7, <2>1, HeadSample DEF ProcessSample
  <2>4. /\ tracker' = (IF Len(samples) = 1 THEN "count" ELSE "process")
        /\ UNCHANGED <<imuNow, fifo, want, countedAt, tested, filter, mixed, exact>>
    BY <1>7 DEF ProcessSample
  <2>5. Len(samples) # 1 => samples' # <<>>
    BY <1>0, <2>1, <2>3, EmptySeq
  <2>6. Len(samples') <= MaxRead /\ Len(samples') \in Nat
    BY <1>0, <2>1, <2>3, EmptySeq
  <2>7. ImuTypeOK'
    BY <2>2, <2>3, <2>4 DEF ImuTypeOK
  <2> QED
    BY <2>4, <2>5, <2>6, <2>7
<1>8. CASE OrientationStart \/ FifoStart \/ UNCHANGED imuVars
  BY <1>8 DEF OrientationStart, FifoStart, imuVars, ImuTypeOK
<1>9. CASE EnableFilter \/ DisableFilter
  <2>1. filter' \in [enabled : BOOLEAN, initialized : BOOLEAN] /\ mixed' \in SUBSET {"zero", "sample"}
    <3>1. CASE EnableFilter
      BY <3>1 DEF EnableFilter
    <3>2. CASE DisableFilter
      BY <3>2 DEF DisableFilter, ImuTypeOK
    <3> QED
      BY <1>9, <3>1, <3>2
  <2>2. UNCHANGED <<imuNow, fifo, tracker, wake, want, countedAt, samples, tested, last_sample_us, exact>>
    BY <1>9 DEF EnableFilter, DisableFilter
  <2> QED
    BY <2>1, <2>2 DEF ImuTypeOK
<1> QED
  BY <1>1, <1>2, <1>3, <1>4, <1>5, <1>6, <1>7, <1>8, <1>9 DEF ImuNext

LEMMA ImuInitType == ImuInit => ImuTypeOK /\ HandInv
<1> SUFFICES ASSUME ImuInit PROVE ImuTypeOK /\ HandInv
  OBVIOUS
<1>1. MaxTime \in Nat /\ MaxRead \in Nat
  BY ImuAssumption
<1>2. fifo \in Seq(0..MaxTime) /\ samples \in Seq((0..MaxTime) \X Int)
      /\ Len(fifo) = 0 /\ Len(samples) = 0
  BY EmptySeq DEF ImuInit
<1> QED
  BY <1>1, <1>2 DEF ImuInit, ImuTypeOK, HandInv

-----------------------------------------------------------------------------
(* The motion sensor: stamps *)

\* What a tick does to the time of the last packet.
LEMMA Ticks ==
  ASSUME ImuTypeOK, SampleTaken
  PROVE  /\ Latest \in Int /\ Latest <= imuNow /\ imuNow < Latest + Period
         /\ Latest' = IF imuNow' % Period = 0 THEN Latest + Period ELSE Latest
         /\ imuNow' % Period = 0 => Latest' = imuNow'
<1>1. imuNow \in Nat /\ Period \in Nat \ {0} /\ imuNow' = imuNow + 1
  BY ImuAssumption DEF ImuTypeOK, SampleTaken
<1>2. /\ imuNow % Period \in 0..(Period - 1)
      /\ imuNow' % Period = IF imuNow % Period = Period - 1 THEN 0 ELSE (imuNow % Period) + 1
  BY <1>1, TickPhase
<1> QED
  BY <1>1, <1>2 DEF Latest

LEMMA LatestNear ==
  ASSUME ImuTypeOK
  PROVE  Latest \in Int /\ Latest <= imuNow /\ imuNow < Latest + Period
<1>1. imuNow \in Nat /\ Period \in Nat \ {0}
  BY ImuAssumption DEF ImuTypeOK
<1>2. imuNow % Period \in 0..(Period - 1)
  BY <1>1, TickPhase
<1> QED
  BY <1>1, <1>2 DEF Latest

LEMMA SampleSpaced ==
  ASSUME ImuTypeOK, Spaced, Streaming \/ fifo = <<>>, SampleTaken
  PROVE  Spaced' /\ (Streaming' \/ fifo' = <<>>)
<1>1. /\ Latest' = IF imuNow' % Period = 0 THEN Latest + Period ELSE Latest
      /\ imuNow' % Period = 0 => Latest' = imuNow'
      /\ Latest \in Int /\ Period \in Int /\ Len(fifo) \in Nat
  BY Ticks, ImuAssumption DEF ImuTypeOK
<1>2. Streaming' = Streaming
  BY DEF SampleTaken, Streaming
<1>3. CASE ~Streaming
  <2>1. fifo' = <<>>
    BY <1>3 DEF SampleTaken
  <2> QED
    BY <2>1 DEF Spaced
<1>4. CASE Streaming /\ imuNow' % Period # 0
  <2>1. fifo' = fifo /\ Latest' = Latest
    BY <1>1, <1>4 DEF SampleTaken
  <2> QED
    BY <1>2, <1>4, <2>1 DEF Spaced
<1>5. CASE Streaming /\ imuNow' % Period = 0
  <2>1. fifo' = Append(fifo, imuNow') /\ imuNow' \in 0..MaxTime /\ fifo \in Seq(0..MaxTime)
    BY <1>5, ImuAssumption DEF SampleTaken, ImuTypeOK
  <2>2. /\ Len(fifo') = Len(fifo) + 1 /\ fifo'[Len(fifo) + 1] = imuNow'
        /\ \A i \in 1..Len(fifo) : fifo'[i] = fifo[i]
    BY <2>1, AppendProperties
  <2>3. ASSUME NEW i \in 1..Len(fifo')
        PROVE  fifo'[i] = Latest' - (Len(fifo') - i) * Period
    <3>1. CASE i = Len(fifo')
      BY <1>1, <1>5, <2>2, <3>1
    <3>2. CASE i # Len(fifo')
      <4>1. i \in 1..Len(fifo)
        BY <1>1, <2>2, <3>2
      <4>2. fifo'[i] = Latest - (Len(fifo) - i) * Period
        BY <2>2, <4>1 DEF Spaced
      <4>3. (Len(fifo) + 1 - i) * Period = (Len(fifo) - i) * Period + Period
        BY <1>1, <4>1
      <4>4. (Len(fifo) - i) * Period \in Int
        BY <1>1, <4>1
      <4> QED
        BY <1>1, <1>5, <2>2, <4>2, <4>3, <4>4
    <3> QED
      BY <3>1, <3>2
  <2> QED
    BY <1>2, <1>5, <2>3 DEF Spaced
<1> QED
  BY <1>3, <1>4, <1>5

LEMMA ReadStamps ==
  ASSUME ImuTypeOK, StampInv, ReadPackets
  PROVE  StampInv'
<1>1. /\ UNCHANGED <<imuNow, countedAt>> /\ tracker' \in {"count", "filter"}
      /\ Streaming /\ exact' = (exact /\ imuNow = countedAt /\ Len(samples') = want)
  BY DEF ReadPackets, Streaming
<1>2. Latest' = Latest
  BY <1>1 DEF Latest
<1>3. /\ Len(fifo') = Len(fifo) - want
      /\ \A i \in 1..Len(fifo') : fifo'[i] = fifo[i + want]
  BY ReadRest
<1>4. want \in Nat /\ Len(fifo) \in Nat /\ want <= Len(fifo) /\ Period \in Nat
  BY ImuAssumption DEF ImuTypeOK
<1>5. Spaced'
  <2> SUFFICES ASSUME NEW i \in 1..Len(fifo')
               PROVE  fifo'[i] = Latest - (Len(fifo') - i) * Period
    BY <1>2 DEF Spaced
  <2>1. i + want \in 1..Len(fifo) /\ Len(fifo) - (i + want) = Len(fifo') - i
    BY <1>3, <1>4
  <2> QED
    BY <1>3, <2>1 DEF StampInv, Spaced
<1>6. Streaming'
  BY <1>1 DEF Streaming
<1>7. StampsTrue'
  <2> SUFFICES ASSUME exact', NEW i \in DOMAIN samples'
               PROVE  samples'[i][1] <= samples'[i][2] /\ samples'[i][2] < samples'[i][1] + Period
    BY DEF StampsTrue
  <2>1. exact /\ imuNow = countedAt /\ Len(samples') = want
    BY <1>1
  <2>2. want = Len(fifo)
    BY <2>1 DEF StampInv, ReadPackets
  <2>3. i \in 1..want /\ samples'[i] = <<fifo[i], Stamp(i - 1)>>
    BY <2>1, ReadSamples
  <2>4. fifo[i] = Latest - (want - i) * Period
    BY <2>2, <2>3 DEF StampInv, Spaced
  <2>5. Stamp(i - 1) = imuNow - (want - i) * Period
    <3>1. want - 1 - (i - 1) = want - i
      BY <1>4, <2>3
    <3> QED
      BY <3>1 DEF Stamp
  <2>6. (want - i) * Period \in Int /\ imuNow \in Int
    BY <1>4, <2>3 DEF ImuTypeOK
  <2>7. Latest \in Int /\ Latest <= imuNow /\ imuNow < Latest + Period
    BY LatestNear
  <2>8. fifo[i] <= Stamp(i - 1) /\ Stamp(i - 1) < fifo[i] + Period
    BY <1>4, <2>4, <2>5, <2>6, <2>7
  <2> QED
    BY <2>3, <2>8
<1> QED
  BY <1>1, <1>5, <1>6, <1>7 DEF StampInv

LEMMA StepStamps ==
  ASSUME ImuTypeOK, HandInv, StampInv, [ImuNext]_imuVars
  PROVE  StampInv'
<1>1. CASE SampleTaken
  <2>1. imuNow' # countedAt' /\ UNCHANGED <<tracker, samples, exact>>
    BY <1>1 DEF SampleTaken, ImuTypeOK
  <2> QED
    BY <1>1, <2>1, SampleSpaced DEF StampInv, StampsTrue
<1>2. CASE CountPackets
  <2>1. Len(fifo) \in Nat /\ MaxRead \in Nat
    BY ImuAssumption DEF ImuTypeOK
  <2>2. /\ UNCHANGED <<imuNow, fifo>> /\ tracker' \in {"count", "read"}
        /\ exact' => want' = Len(fifo)
    <3>1. /\ want' = (IF Len(fifo) > MaxRead THEN MaxRead ELSE Len(fifo))
          /\ exact' = (Len(fifo) <= MaxRead)
      BY <1>2 DEF CountPackets
    <3>2. exact' => Len(fifo) <= MaxRead
      BY <3>1, Zenon
    <3>3. exact' => want' = Len(fifo)
      BY <2>1, <3>1, <3>2
    <3> QED
      BY <1>2, <3>3 DEF CountPackets
  <2>3. Spaced' /\ Streaming'
    BY <2>2 DEF StampInv, Spaced, Latest, Streaming
  <2> QED
    BY <2>2, <2>3 DEF StampInv, StampsTrue
<1>3. CASE ReadPackets
  BY <1>3, ReadStamps
<1>4. CASE ProcessSample
  <2>1. /\ samples # <<>> /\ samples' = Tail(samples) /\ tracker = "process"
        /\ tracker' \in {"count", "process"} /\ UNCHANGED <<imuNow, fifo, exact>>
    BY <1>4 DEF ProcessSample, HandInv
  <2>2. Spaced' /\ Streaming'
    BY <2>1 DEF StampInv, Spaced, Latest, Streaming
  <2>3. StampsTrue'
    <3> SUFFICES ASSUME exact, NEW i \in DOMAIN samples'
                 PROVE  samples'[i][1] <= samples'[i][2] /\ samples'[i][2] < samples'[i][1] + Period
      BY <2>1 DEF StampsTrue
    <3>1. /\ samples' \in Seq((0..MaxTime) \X Int) /\ Len(samples') = Len(samples) - 1
          /\ \A j \in 1..Len(samples') : samples'[j] = samples[j + 1]
      BY <2>1, HeadSample
    <3>2. i \in 1..Len(samples') /\ Len(samples) \in Nat
      BY <3>1, SamplesLen
    <3>3. i + 1 \in 1..Len(samples) /\ samples'[i] = samples[i + 1]
      BY <3>1, <3>2
    <3>4. i + 1 \in DOMAIN samples
      BY <3>3 DEF ImuTypeOK
    <3> QED
      BY <2>1, <3>3, <3>4 DEF StampInv, StampsTrue
  <2> QED
    BY <2>1, <2>2, <2>3 DEF StampInv
<1>5. CASE \/ OrientationStart \/ FifoStart \/ ReadFails \/ TestEnabled \/ UpdateFilter
           \/ EnableFilter \/ DisableFilter \/ UNCHANGED imuVars
  <2>1. UNCHANGED <<imuNow, fifo, exact, samples>>
    BY <1>5 DEF OrientationStart, FifoStart, ReadFails, TestEnabled, UpdateFilter, EnableFilter,
       DisableFilter, imuVars
  <2>2. Spaced'
    BY <2>1 DEF StampInv, Spaced, Latest
  <2>3. \/ UNCHANGED <<tracker, want, countedAt>>
        \/ tracker' \in {"start", "dead"} /\ ~Streaming
        \/ tracker' = "count"
        \/ tracker \in {"filter", "mix"} /\ tracker' \in {"filter", "mix", "process"}
    BY <1>5 DEF OrientationStart, FifoStart, ReadFails, TestEnabled, UpdateFilter, EnableFilter,
       DisableFilter, imuVars, Filtered, Streaming
  <2> QED
    BY <2>1, <2>2, <2>3 DEF StampInv, StampsTrue, Streaming
<1> QED
  BY <1>1, <1>2, <1>3, <1>4, <1>5 DEF ImuNext

LEMMA InitStamps == ImuInit => StampInv
<1> SUFFICES ASSUME ImuInit PROVE StampInv
  OBVIOUS
<1>1. Len(fifo) = 0
  BY EmptySeq DEF ImuInit
<1> QED
  BY <1>1 DEF ImuInit, StampInv, Spaced, StampsTrue

\* For any sample period, poll period and number of packets: as long as the thread is
\* in time, a sample is stamped no earlier than it was taken and less than a period
\* later, wherever the ticks of the clock fall among its polls.
THEOREM StampsAreTrue == ImuSpec => []StampsTrue
<1>1. ImuInit => ImuTypeOK /\ HandInv /\ StampInv
  BY ImuInitType, InitStamps
<1>2. /\ ImuTypeOK /\ HandInv /\ StampInv /\ [ImuNext]_imuVars
        => (ImuTypeOK /\ HandInv /\ StampInv)'
  BY ImuStepType, StepStamps
<1>3. StampInv => StampsTrue
  BY DEF StampInv
<1> QED
  BY <1>1, <1>2, <1>3, PTL DEF ImuSpec

\* Types, for any periods and number of packets: in particular a poll never reads more
\* packets than fifo_buf holds or the FIFO has.
THEOREM ImuTypes == ImuSpec => []ImuTypeOK
<1>1. ImuTypeOK /\ HandInv /\ [ImuNext]_imuVars => (ImuTypeOK /\ HandInv)'
  BY ImuStepType
<1> QED
  BY ImuInitType, <1>1, PTL DEF ImuSpec

-----------------------------------------------------------------------------
(* The periodic output *)

Starting == starter \in [Starters -> Phases]

\* While calls do not overlap: only one is under way, and where it is says how
\* far the flag and the two work items have followed.
Single == \A c, d \in Starters : starter[c] # "out" /\ starter[d] # "out" => c = d
Started == \A c \in Starters : starter[c] = "schedule" => running
Stopped == \A c \in Starters : starter[c] \in {"cancel", "join"} => ~running
Cancelled == \A c \in Starters : starter[c] = "join" => ~envDue /\ ~imuDue
Follows == (\A c \in Starters : starter[c] = "out") =>
             /\ running => envDue /\ (imuDue \/ output # "none")
             /\ ~running => ~envDue /\ ~imuDue

Orderly == Single /\ Started /\ Stopped /\ Cancelled /\ Follows

OutputInv == Starting /\ (mingled \/ Orderly)

LEMMA InitOutput == AggInit => OutputInv
<1> SUFFICES ASSUME AggInit PROVE OutputInv
  OBVIOUS
<1>1. starter = [c \in Starters |-> "out"] /\ Starting
  BY DEF AggInit, Starting, Phases
<1>2. Single /\ Started /\ Stopped /\ Cancelled
  BY <1>1 DEF Single, Started, Stopped, Cancelled
<1>3. Follows
  BY Zenon DEF AggInit, Follows
<1>4. QED
  BY <1>1, <1>2, <1>3 DEF OutputInv, Orderly

LEMMA StepStarting == Starting /\ [AggNext]_aggVars => Starting'
  BY DEF Starting, Phases, AggNext, ImuOutput, ImuLine, EnvOutput, WorkerEnds, AggregatorStart,
     Schedule, AggregatorStop, CancelWork, JoinWorker, aggVars

\* A handler reschedules itself, or is at work, exactly while the flag is set.
LEMMA HandlerOrderly ==
  ASSUME Orderly, ImuOutput \/ ImuLine \/ EnvOutput
  PROVE  Orderly'
<1>1. UNCHANGED <<running, starter>>
  BY DEF ImuOutput, ImuLine, EnvOutput
<1>2. (Single /\ Started /\ Stopped)'
  BY <1>1 DEF Orderly, Single, Started, Stopped
<1>3. ~running /\ ~envDue /\ ~imuDue => ~envDue' /\ ~imuDue'
  BY Zenon DEF ImuOutput, ImuLine, EnvOutput, ImuReschedule
<1>4. running /\ envDue /\ (imuDue \/ output # "none") => envDue' /\ (imuDue' \/ output' # "none")
  <2>1. CASE ImuOutput
    BY <2>1 DEF ImuOutput, ImuReschedule
  <2>2. CASE ImuLine
    BY <2>2 DEF ImuLine, ImuReschedule
  <2>3. CASE EnvOutput
    BY <2>3, Zenon DEF EnvOutput
  <2>4. QED
    BY <2>1, <2>2, <2>3
<1>5. Cancelled'
  <2>1. \A c \in Starters : starter[c] = "join" => ~running /\ ~envDue /\ ~imuDue
    BY DEF Orderly, Stopped, Cancelled
  <2>2. QED
    BY <1>1, <1>3, <2>1 DEF Cancelled
<1>6. Follows'
  BY <1>1, <1>3, <1>4, Zenon DEF Orderly, Follows
<1>7. QED
  BY <1>2, <1>5, <1>6 DEF Orderly

\* A call that begins alone is the only one; a start needs nothing of what came
\* before it.
LEMMA BeginOrderly ==
  ASSUME Starting, mingled \/ Orderly, NEW c \in Starters, AggregatorStart(c) \/ AggregatorStop(c)
  PROVE  mingled' \/ Orderly'
<1> SUFFICES ASSUME ~mingled' PROVE Orderly'
  OBVIOUS
<1>1. Alone(c)
  BY DEF AggregatorStart, AggregatorStop
<1>2. PICK place \in {"schedule", "cancel"} :
        /\ starter' = [starter EXCEPT ![c] = place]
        /\ place = "schedule" => running'
        /\ place = "cancel" => ~running'
  BY DEF AggregatorStart, AggregatorStop
<1>3. starter'[c] = place /\ \A d \in Starters \ {c} : starter'[d] = "out"
  BY <1>1, <1>2 DEF Starting, Alone
<1>4. QED
  BY <1>2, <1>3 DEF Orderly, Single, Started, Stopped, Cancelled, Follows

\* The call under way goes on or returns.
LEMMA CallOrderly ==
  ASSUME Starting, Orderly, NEW c \in Starters, Schedule(c) \/ CancelWork(c) \/ JoinWorker(c)
  PROVE  Orderly'
<1>1. UNCHANGED running
  BY DEF Schedule, CancelWork, JoinWorker
<1>2. \A d \in Starters \ {c} : starter[d] = "out"
  BY DEF Orderly, Single, Schedule, CancelWork, JoinWorker
<1>3. CASE Schedule(c)
  <2>1. /\ \A d \in Starters : starter'[d] = "out"
        /\ imuDue' /\ envDue' /\ running'
    BY <1>1, <1>2, <1>3 DEF Schedule, Starting, Orderly, Started
  <2>2. QED
    BY <2>1 DEF Orderly, Single, Started, Stopped, Cancelled, Follows
<1>4. CASE CancelWork(c)
  <2>1. /\ starter'[c] = "join" /\ \A d \in Starters \ {c} : starter'[d] = "out"
        /\ ~imuDue' /\ ~envDue' /\ ~running'
    BY <1>1, <1>2, <1>4 DEF CancelWork, Starting, Orderly, Stopped
  <2>2. QED
    BY <2>1 DEF Orderly, Single, Started, Stopped, Cancelled, Follows
<1>5. CASE JoinWorker(c)
  <2>1. /\ \A d \in Starters : starter'[d] = "out"
        /\ ~running' /\ UNCHANGED <<imuDue, envDue>> /\ ~imuDue /\ ~envDue
    BY <1>1, <1>2, <1>5 DEF JoinWorker, Starting, Orderly, Stopped, Cancelled
  <2>2. QED
    BY <2>1 DEF Orderly, Single, Started, Stopped, Cancelled, Follows
<1>6. QED
  BY <1>3, <1>4, <1>5

LEMMA StepOutput == OutputInv /\ [AggNext]_aggVars => OutputInv'
<1> SUFFICES ASSUME Starting, mingled \/ Orderly, [AggNext]_aggVars PROVE mingled' \/ Orderly'
  BY StepStarting DEF OutputInv
<1>1. CASE ImuOutput \/ ImuLine \/ EnvOutput
  <2>1. UNCHANGED mingled
    BY <1>1 DEF ImuOutput, ImuLine, EnvOutput
  <2>2. QED
    BY <1>1, <2>1, HandlerOrderly
<1>2. CASE \E c \in Starters : AggregatorStart(c) \/ AggregatorStop(c)
  BY <1>2, BeginOrderly
<1>3. CASE \E c \in Starters : Schedule(c) \/ CancelWork(c) \/ JoinWorker(c)
  <2>1. UNCHANGED mingled
    BY <1>3 DEF Schedule, CancelWork, JoinWorker
  <2>2. QED
    BY <1>3, <2>1, CallOrderly
<1>4. CASE UNCHANGED <<running, imuDue, envDue, output, starter, mingled>>
  BY <1>4 DEF Orderly, Single, Started, Stopped, Cancelled, Follows
<1>5. QED
  BY <1>1, <1>2, <1>3, <1>4 DEF AggNext, WorkerEnds, aggVars

\* For any threads: between calls that have not overlapped, both periodic
\* outputs are scheduled or at work exactly while the aggregator runs, though a
\* stop cancels them without waiting for the handler.
THEOREM OutputsFollow == AggSpec => []OutputFollowsRunning
<1>1. OutputInv => OutputFollowsRunning
  BY Zenon DEF OutputInv, Orderly, Follows, OutputFollowsRunning, Calm
<1>2. QED
  BY InitOutput, StepOutput, <1>1, PTL DEF AggSpec

\* Types, for any threads that start and stop the aggregator.
THEOREM AggTypes == AggSpec => []AggTypeOK
<1>1. AggInit => AggTypeOK
  BY DEF AggInit, AggTypeOK, Phases
<1>2. AggTypeOK /\ [AggNext]_aggVars => AggTypeOK'
  <2> SUFFICES ASSUME AggTypeOK, [AggNext]_aggVars PROVE AggTypeOK'
    OBVIOUS
  <2>1. CASE ImuOutput
    <3>1. \E ready \in BOOLEAN : imuDue' = FALSE \/ imuDue' = running
      BY <2>1 DEF ImuOutput, ImuReschedule
    <3> QED
      BY <2>1, <3>1 DEF ImuOutput, AggTypeOK
  <2>2. CASE \E c \in Starters : AggregatorStart(c) \/ AggregatorStop(c)
    <3>1. PICK c \in Starters : mingled' = ~Alone(c) \/ mingled' = (mingled \/ ~Alone(c))
      BY <2>2 DEF AggregatorStart, AggregatorStop
    <3>2. mingled' \in BOOLEAN
      BY <3>1, Zenon DEF AggTypeOK
    <3> QED
      BY <2>2, <3>2 DEF AggregatorStart, AggregatorStop, AggTypeOK, Phases
  <2>3. CASE \/ ImuLine \/ EnvOutput \/ WorkerEnds \/ UNCHANGED aggVars
             \/ \E c \in Starters : Schedule(c) \/ CancelWork(c) \/ JoinWorker(c)
    BY <2>3 DEF ImuLine, EnvOutput, WorkerEnds, aggVars, Schedule, CancelWork, JoinWorker,
       ImuReschedule, AggTypeOK, Phases
  <2> QED
    BY <2>1, <2>2, <2>3 DEF AggNext
<1> QED
  BY <1>1, <1>2, PTL DEF AggSpec
=============================================================================
