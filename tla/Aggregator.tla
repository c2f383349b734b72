------------------------------ MODULE Aggregator ------------------------------
(***************************************************************************)
(* The periodic output of a session's log (services/aggregator.c): two     *)
(* work items of the system work queue that reschedule themselves, and the *)
(* threads that start and stop the aggregator.                             *)
(*                                                                         *)
(* The work queue is cooperative: its handlers give way only where they    *)
(* wait for the attitude filter's mutex or the magnetometer.  All other    *)
(* threads may be preempted anywhere.  The lines themselves, and the       *)
(* sentences the receiver's thread passes on, are left out.                *)
(***************************************************************************)
EXTENDS Naturals

CONSTANT Starters   \* threads that start and stop the aggregator

VARIABLES
  running,      \* the flag running
  registered,   \* output_callback is set; nothing ever clears it
  imuDue, envDue,  \* imu_output_work, env_output_work are scheduled
  output,       \* where the work queue's handler waits; "none": no handler runs
  starter,      \* caller -> where it is in aggregator_start() or aggregator_stop()
  worker,       \* the aggregator thread lives
  mingled       \* history: calls of two threads have overlapped since the last start

aggVars == <<running, registered, imuDue, envDue, output, starter, worker, mingled>>

Phases == {"out", "schedule", "cancel", "join"}

AggTypeOK ==
  /\ running \in BOOLEAN /\ registered \in BOOLEAN /\ imuDue \in BOOLEAN /\ envDue \in BOOLEAN
  /\ output \in {"none", "imu", "quaternion", "mag"} /\ worker \in BOOLEAN
  /\ starter \in [Starters -> Phases] /\ mingled \in BOOLEAN

AggInit ==
  /\ running = FALSE /\ registered = FALSE /\ imuDue = FALSE /\ envDue = FALSE
  /\ output = "none" /\ worker = FALSE /\ mingled = FALSE
  /\ starter = [c \in Starters |-> "out"]

-----------------------------------------------------------------------------
(* The work queue *)

ImuReschedule == imuDue' = running

\* Mutant: no reschedule when the attitude filter is not ready.
ImuOutputOnce ==
  /\ output = "none" /\ imuDue
  /\ \E ready \in BOOLEAN :
       IF running /\ registered /\ ready
       THEN output' = "imu" /\ imuDue' = FALSE
       ELSE imuDue' = (running /\ ready) /\ UNCHANGED output
  /\ UNCHANGED <<running, registered, envDue, starter, worker, mingled>>

\* imu_output_handler() up to its first wait
ImuOutput ==
  /\ output = "none" /\ imuDue
  /\ \E ready \in BOOLEAN :
       IF running /\ registered /\ ready
       THEN output' = "imu" /\ imuDue' = FALSE
       ELSE ImuReschedule /\ UNCHANGED output
  /\ UNCHANGED <<running, registered, envDue, starter, worker, mingled>>

\* $PIMU, $PIM2 and, with the magnetometer in use, $PMAG
ImuLine ==
  /\ output \in {"imu", "quaternion", "mag"}
  /\ \/ output = "imu" /\ output' = "quaternion" /\ UNCHANGED imuDue
     \/ output = "quaternion" /\ output' = "mag" /\ UNCHANGED imuDue
     \/ output \in {"quaternion", "mag"} /\ output' = "none" /\ ImuReschedule
  /\ UNCHANGED <<running, registered, envDue, starter, worker, mingled>>

\* env_output_handler() waits for nothing.
EnvOutput ==
  /\ output = "none" /\ envDue /\ envDue' = running
  /\ UNCHANGED <<running, registered, imuDue, output, starter, worker, mingled>>

-----------------------------------------------------------------------------
(* Start and stop *)

Alone(c) == \A d \in Starters \ {c} : starter[d] = "out"

\* logger_start(): configure, register the callback, write the header, and
\* aggregator_start() until it has set running.
AggregatorStart(c) ==
  /\ starter[c] = "out" /\ ~running
  /\ registered' = TRUE /\ running' = TRUE
  /\ starter' = [starter EXCEPT ![c] = "schedule"]
  /\ mingled' = ~Alone(c)
  /\ UNCHANGED <<imuDue, envDue, output, worker>>

\* The rest of it: both items, then the thread.
Schedule(c) ==
  /\ starter[c] = "schedule" /\ starter' = [starter EXCEPT ![c] = "out"]
  /\ imuDue' = TRUE /\ envDue' = TRUE /\ worker' = TRUE
  /\ UNCHANGED <<running, registered, output, mingled>>

AggregatorStop(c) ==
  /\ starter[c] = "out" /\ running /\ running' = FALSE
  /\ starter' = [starter EXCEPT ![c] = "cancel"]
  /\ mingled' = (mingled \/ ~Alone(c))
  /\ UNCHANGED <<registered, imuDue, envDue, output, worker>>

\* k_work_cancel_delayable() does not wait for a handler that is at work.
CancelWork(c) ==
  /\ starter[c] = "cancel" /\ starter' = [starter EXCEPT ![c] = "join"]
  /\ imuDue' = FALSE /\ envDue' = FALSE
  /\ UNCHANGED <<running, registered, output, worker, mingled>>

\* aggregator_thread_fn() looks at running every 100 ms.
WorkerEnds ==
  /\ worker /\ ~running /\ worker' = FALSE
  /\ UNCHANGED <<running, registered, imuDue, envDue, output, starter, mingled>>

JoinWorker(c) ==
  /\ starter[c] = "join" /\ ~worker /\ starter' = [starter EXCEPT ![c] = "out"]
  /\ UNCHANGED <<running, registered, imuDue, envDue, output, worker, mingled>>

AggNext ==
  \/ ImuOutput \/ ImuLine \/ EnvOutput \/ WorkerEnds
  \/ \E c \in Starters :
       \/ AggregatorStart(c) \/ Schedule(c)
       \/ AggregatorStop(c) \/ CancelWork(c) \/ JoinWorker(c)

AggSpec == AggInit /\ [][AggNext]_aggVars

-----------------------------------------------------------------------------
(* Properties *)

Calm == ~mingled /\ \A c \in Starters : starter[c] = "out"

(* Between calls that have not overlapped, each output is scheduled, or its handler at *)
(* work, exactly while the aggregator runs: an item that once fails to reschedule      *)
(* itself (attitude filter not ready, no barometer sample yet) would silence its       *)
(* sentences for the rest of the session, and one that outlives a stop, which cancels  *)
(* without waiting, would write into the next.                                         *)
OutputFollowsRunning ==
  Calm => /\ running => envDue /\ (imuDue \/ output # "none")
          /\ ~running => ~envDue /\ ~imuDue
=============================================================================
