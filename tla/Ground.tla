-------------------------------- MODULE Ground --------------------------------
(***************************************************************************)
(* The ring of ground altitudes (services/baro_bmp390.c) which the logger  *)
(* (services/logger.c) fills every five minutes while it waits on the      *)
(* ground, and reads three samples back when a session begins.             *)
(*                                                                         *)
(* The logger's calls run in the threads of BaroCallers; the work queue    *)
(* may preempt a caller between any two steps, and, being cooperative,     *)
(* gives way only while it waits for the mutex of the newest sample.       *)
(* baro_record_ground_altitude() and baro_init_ground_altitude() take no   *)
(* lock, so each is two steps: what it writes into the ring, and the index.*)
(***************************************************************************)
EXTENDS Naturals

CONSTANTS
  BaroCallers,  \* threads that start, stop, arm and disarm the logger
  Alts          \* altitudes

Queue == "work"   \* the system work queue in ground_altitude_work_handler()
RingSize == 4     \* GROUND_ALTITUDE_SAMPLES

ASSUME GroundAssumption == BaroCallers \cap {Queue, "none"} = {}

VARIABLES
  logger,   \* logger_init(): "off", under way ("init") or done ("up")
  sampled,  \* baro_get_current_sample() has a sample to give
  mode,     \* logger_state.state, JUMPED like LOGGING
  lock,     \* holder of logger_state.lock, or "none"
  at,       \* caller, or Queue: where it is
  due,      \* ground_altitude_work is scheduled
  ring, next, filled,  \* ground_altitude_tracker: altitude_ft, next_index, initialized
  recent,   \* history: the altitudes recorded, newest first
  crossed,  \* history: since it was filled, two threads recorded at once
  idle      \* history: sampling has not been started since the boot or a failed start

groundVars == <<logger, sampled, mode, lock, at, due, ring, next, filled, recent, crossed, idle>>

Runners_G == BaroCallers \cup {Queue}
Places == {"out", "start", "stop", "arm", "handle", "record", "fill", "wrap", "resched", "again", "armed"}

GroundTypeOK ==
  /\ logger \in {"off", "init", "up"}
  /\ {sampled, due, filled, crossed, idle} \subseteq BOOLEAN
  /\ mode \in {"IDLE", "ARMED", "LOGGING"} /\ lock \in BaroCallers \cup {"none"}
  /\ at \in [Runners_G -> Places]
  /\ ring \in [0..RingSize - 1 -> Alts] /\ next \in 0..RingSize
  /\ recent \in [1..3 -> Alts]

GroundInit ==
  /\ logger = "off" /\ sampled = FALSE /\ mode = "IDLE" /\ lock = "none"
  /\ at = [r \in Runners_G |-> "out"] /\ due = FALSE
  /\ \E a \in Alts : ring = [i \in 0..RingSize - 1 |-> a] /\ recent = <<a, a, a>>
  /\ next = 0 /\ filled = FALSE /\ crossed = FALSE /\ idle = TRUE

-----------------------------------------------------------------------------
(* The boot and the barometer *)

\* baro_init_ground_altitude(): the loop over the ring, and the rest.  A record
\* that falls into the loop counts as one after it.
FillRing(a) == ring' = [i \in 0..RingSize - 1 |-> a] /\ recent' = <<a, a, a>>
FillIndex == next' = 0 /\ filled' = TRUE

\* logger_init(): without a sample yet, sampling is not started.
InitGround ==
  /\ logger = "off" /\ logger' = "init"
  /\ \/ /\ sampled /\ FillIndex /\ \E a \in Alts : FillRing(a)
        /\ at' = [at EXCEPT ![Queue] = "handle"] /\ idle' = FALSE
     \/ UNCHANGED <<ring, next, filled, recent, at, idle>>
  /\ UNCHANGED <<sampled, mode, lock, due, crossed>>

LoggerUp ==
  /\ logger = "init" /\ at[Queue] = "out" /\ logger' = "up"
  /\ UNCHANGED <<sampled, mode, lock, at, due, ring, next, filled, recent, crossed, idle>>

\* baro_thread() has read a first sample.
FirstSample ==
  /\ ~sampled /\ sampled' = TRUE
  /\ UNCHANGED <<logger, mode, lock, at, due, ring, next, filled, recent, crossed, idle>>

-----------------------------------------------------------------------------
(* The logger's calls *)

Running(r) == r = Queue \/ at[Queue] \in {"out", "handle", "record"}
Place(r, from, to) == Running(r) /\ at[r] = from /\ at' = [at EXCEPT ![r] = to]
Locks(r) == lock = "none" /\ lock' = r
Unlocks_G(r) == lock' = IF lock = r THEN "none" ELSE lock
Waiting == mode \in {"IDLE", "ARMED"}

\* logger_start(): stop_ground_altitude_sampling(), and what it writes and
\* starts, which may fail and leave the state as it is.
BeginStart(r) ==
  /\ logger = "up" /\ r # Queue /\ Waiting /\ Locks(r) /\ Place(r, "out", "start")
  /\ due' = FALSE /\ UNCHANGED <<mode, ring, next, filled, recent, crossed, idle, logger, sampled>>

EndStart(r) ==
  /\ Place(r, "start", "out") /\ Unlocks_G(r)
  /\ \/ mode' = "LOGGING" /\ UNCHANGED idle
     \/ idle' = TRUE /\ UNCHANGED mode
  /\ UNCHANGED <<due, ring, next, filled, recent, crossed, logger, sampled>>

\* logger_stop(): the state, and after the lock is given back and the session is
\* closed, the sampling, if the logger is IDLE still;
BeginStop(r) ==
  /\ logger = "up" /\ r # Queue /\ mode = "LOGGING" /\ lock = "none" /\ Place(r, "out", "stop")
  /\ mode' = "IDLE"
  /\ UNCHANGED <<lock, due, ring, next, filled, recent, crossed, idle, logger, sampled>>

EndStop(r) ==
  /\ \/ mode = "IDLE" /\ Place(r, "stop", "handle")
     \/ mode # "IDLE" /\ Place(r, "stop", "out")
  /\ UNCHANGED <<mode, lock, due, ring, next, filled, recent, crossed, idle, logger, sampled>>

\* logger_disarm(): the sampling in any case.
Disarm(r) ==
  /\ logger = "up" /\ r # Queue /\ mode = "ARMED" /\ lock = "none" /\ Place(r, "out", "handle")
  /\ mode' = "IDLE"
  /\ UNCHANGED <<lock, due, ring, next, filled, recent, crossed, idle, logger, sampled>>

\* Another thread is writing the ring or the index.
Writing(r) == \E s \in Runners_G \ {r} : at[s] \in {"fill", "arm", "wrap"}

\* logger_arm(), from any state; all of it under the lock.
BeginArm(r) ==
  /\ logger = "up" /\ r # Queue /\ Locks(r)
  /\ \/ /\ sampled /\ Place(r, "out", "arm") /\ \E a \in Alts : FillRing(a)
        /\ crossed' = Writing(r)
     \/ Place(r, "out", "handle") /\ UNCHANGED <<ring, recent, crossed>>
  /\ UNCHANGED <<mode, due, next, filled, idle, logger, sampled>>

Filled(r) ==
  /\ Place(r, "arm", "handle") \/ Place(r, "fill", "resched")
  /\ FillIndex
  /\ UNCHANGED <<mode, lock, due, ring, recent, crossed, idle, logger, sampled>>

EndArm(r) ==
  /\ Place(r, "armed", "out") /\ mode' = "ARMED" /\ Unlocks_G(r)
  /\ UNCHANGED <<due, ring, next, filled, recent, crossed, idle, logger, sampled>>

-----------------------------------------------------------------------------
(* Ground altitude *)

\* The five minutes are over, which are longer than what is left of logger_arm().
Fires ==
  /\ due /\ due' = FALSE /\ logger = "up" /\ Place(Queue, "out", "handle")
  /\ \A r \in BaroCallers : at[r] # "armed"
  /\ UNCHANGED <<mode, lock, ring, next, filled, recent, crossed, idle, logger, sampled>>

\* ground_altitude_work_handler(), on the work queue or as a call of
\* start_ground_altitude_sampling(); baro_get_current_sample() needs a sample.
Handle(r) ==
  /\ at[r] = "handle"
  /\ \/ Waiting /\ sampled /\ Place(r, "handle", "record")
     \/ Waiting /\ ~sampled /\ Place(r, "handle", "resched")
     \/ ~Waiting /\ Place(r, "handle", "again")
  /\ UNCHANGED <<mode, lock, due, ring, next, filled, recent, crossed, idle, logger, sampled>>

\* baro_record_ground_altitude() as far as next_index++.  A second thread that
\* finds the index past the end writes over the index that follows the ring.
Record(r) ==
  /\ at[r] = "record"
  /\ crossed' = (crossed \/ Writing(r))
  /\ \E a \in Alts :
       \/ /\ ~filled /\ FillRing(a) /\ Place(r, "record", "fill") /\ UNCHANGED <<next, filled>>
       \/ /\ filled /\ next < RingSize
          /\ ring' = [ring EXCEPT ![next] = a] /\ next' = next + 1
          /\ recent' = <<a, recent[1], recent[2]>>
          /\ Place(r, "record", "wrap") /\ UNCHANGED filled
       \/ /\ filled /\ next = RingSize /\ next' \in {1, RingSize}
          /\ Place(r, "record", "wrap") /\ UNCHANGED <<ring, filled, recent>>
  /\ UNCHANGED <<mode, lock, due, idle, logger, sampled>>

\* Mutant: the index may stay at the end of the ring.
WrapPast(r) ==
  /\ Place(r, "wrap", "resched") /\ next' = IF next > RingSize THEN 0 ELSE next
  /\ UNCHANGED <<mode, lock, due, ring, filled, recent, crossed, idle, logger, sampled>>

\* ... and the rest of it
Wrap(r) ==
  /\ Place(r, "wrap", "resched") /\ next' = IF next >= RingSize THEN 0 ELSE next
  /\ UNCHANGED <<mode, lock, due, ring, filled, recent, crossed, idle, logger, sampled>>

\* The end of the handler.
Reschedule(r) ==
  /\ Place(r, "resched", "again") /\ due' = TRUE
  /\ UNCHANGED <<mode, lock, ring, next, filled, recent, crossed, idle, logger, sampled>>

\* Mutant: it is left to the handler to schedule itself.
RescheduleOnce(r) ==
  /\ at[r] = "again" /\ Place(r, "again", IF lock = r THEN "armed" ELSE "out")
  /\ idle' = (idle /\ r = Queue)
  /\ UNCHANGED <<mode, lock, due, ring, next, filled, recent, crossed, logger, sampled>>

\* start_ground_altitude_sampling() schedules once more.
RescheduleStart(r) ==
  /\ at[r] = "again"
  /\ Place(r, "again", IF lock = r THEN "armed" ELSE "out")
  /\ due' = (due \/ r # Queue \/ logger # "up")
  /\ idle' = (idle /\ r = Queue)
  /\ UNCHANGED <<mode, lock, ring, next, filled, recent, crossed, logger, sampled>>

GroundNext ==
  \/ InitGround \/ LoggerUp \/ FirstSample \/ Fires
  \/ \E r \in Runners_G :
       \/ BeginStart(r) \/ EndStart(r) \/ BeginStop(r) \/ EndStop(r)
       \/ Disarm(r) \/ BeginArm(r) \/ Filled(r) \/ EndArm(r)
       \/ Handle(r) \/ Record(r) \/ Wrap(r) \/ Reschedule(r) \/ RescheduleStart(r)

GroundSpec == GroundInit /\ [][GroundNext]_groundVars

-----------------------------------------------------------------------------
(* Properties *)

\* baro_get_ground_altitude_psfc()
Psfc == IF next >= 3 THEN ring[next - 3] ELSE ring[next + RingSize - 3]

\* The index arithmetic of the ring (baro_bmp390.c:904), over the wrap and after
\* it is filled: the surface altitude of a log is the third newest that was
\* recorded, unless two threads recorded at once.
ThirdNewest == filled /\ ~crossed => Psfc = recent[3]

\* On the ground the altitude goes on being sampled (logger.c:150, 169): once it
\* has been started, with no call of the logger under way and no start that
\* failed, the work is scheduled or running whenever the logger waits.
SamplingGoesOn ==
  logger = "up" /\ Waiting /\ ~idle /\ (\A r \in BaroCallers : at[r] = "out")
    => due \/ at[Queue] # "out"
===============================================================================
