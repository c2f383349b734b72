--------------------------------- MODULE Imu ---------------------------------
(***************************************************************************)
(* The motion sensor's FIFO (services/imu_icm42688.c), the thread that     *)
(* polls it and feeds the attitude filter (services/orientation.c), and    *)
(* the acceleration filter the logger switches on and off while that       *)
(* thread is at work.                                                      *)
(*                                                                         *)
(* A packet is the time it was sampled at; its values are left out.  Time  *)
(* may pass between any two steps of the thread, whose priority is low.    *)
(***************************************************************************)
EXTENDS Integers, Sequences, FiniteSets

CONSTANTS
  Period,   \* clock ticks between two samples, 5 ms in the firmware
  PollPeriod, \* FIFO_POLL_PERIOD_MS, in ticks
  MaxRead,  \* packets one poll reads at most: MAX_SAMPLES_PER_POLL, and fifo_buf's 16
  MaxTime   \* bound of the clock

ASSUME ImuAssumption ==
  /\ {Period, PollPeriod, MaxRead} \subseteq Nat \ {0}
  /\ MaxTime \in Nat

VARIABLES
  imuNow,         \* time_now_us()
  fifo,           \* the sensor's FIFO, oldest packet first
  tracker,        \* where the orientation thread is; "dead": it has returned
  wake,           \* when its k_sleep() ends
  want,           \* imu_fifo_read(): packets_to_read
  countedAt,      \* history: when the packets were counted
  samples,        \* sample_buf: <<time sampled, timestamp_us>>, the first tested ones past the filter
  tested,
  last_sample_us, \* orientation state; 0 before the first sample
  filter,         \* accel_filter_state: enabled, initialized
  mixed,          \* history: what filtered_magnitude_g is made of
  exact           \* history: the samples in hand were read in time, all and whole

imuVars == <<imuNow, fifo, tracker, wake, want, countedAt, samples, tested, last_sample_us,
             filter, mixed, exact>>

ImuTypeOK ==
  /\ imuNow \in 0..MaxTime /\ fifo \in Seq(0..MaxTime) /\ wake \in Nat
  /\ tracker \in {"off", "start", "dead", "count", "read", "filter", "mix", "process"}
  /\ want \in 0..MaxRead /\ want <= Len(fifo) /\ countedAt \in 0..imuNow
  /\ samples \in Seq((0..MaxTime) \X Int) /\ tested \in 0..MaxRead
  /\ last_sample_us \in Int /\ exact \in BOOLEAN
  /\ filter \in [enabled : BOOLEAN, initialized : BOOLEAN] /\ mixed \in SUBSET {"zero", "sample"}

ImuInit ==
  /\ imuNow = 0 /\ fifo = <<>> /\ tracker = "off" /\ wake = 0 /\ want = 0
  /\ countedAt = 0 /\ samples = <<>> /\ tested = 0 /\ last_sample_us = 0 /\ exact = TRUE
  /\ filter = [enabled |-> FALSE, initialized |-> FALSE] /\ mixed = {}

Streaming == tracker \notin {"off", "start", "dead"}   \* fifo_running

-----------------------------------------------------------------------------
(* The sensor and the thread *)

\* The FIFO holds 2048 bytes in stream mode; the clock's bound keeps it from filling.
SampleTaken ==
  /\ imuNow < MaxTime /\ imuNow' = imuNow + 1
  /\ fifo' = IF Streaming /\ imuNow' % Period = 0 THEN Append(fifo, imuNow') ELSE fifo
  /\ UNCHANGED <<tracker, wake, want, countedAt, samples, tested, last_sample_us, filter, mixed, exact>>

\* orientation_start() after imu_init(): running is set before the thread is created.
OrientationStart ==
  /\ tracker = "off" /\ tracker' = "start"
  /\ UNCHANGED <<imuNow, fifo, wake, want, countedAt, samples, tested, last_sample_us, filter, mixed, exact>>

\* imu_fifo_start(): a register that cannot be written ends the thread; nothing starts
\* it again, for running stays set and orientation_start() refuses.
FifoStart ==
  /\ tracker = "start"
  /\ tracker' \in {"count", "dead"}
  /\ UNCHANGED <<imuNow, fifo, wake, want, countedAt, samples, tested, last_sample_us, filter, mixed, exact>>

Sleep == IF tracker' = "count" THEN wake' = imuNow + PollPeriod ELSE UNCHANGED wake

\* Mutant: all packets are read, whatever fifo_buf holds.
CountAll ==
  /\ tracker = "count" /\ imuNow >= wake
  /\ want' = Len(fifo)
  /\ tracker' = IF want' = 0 THEN "count" ELSE "read"
  /\ countedAt' = imuNow /\ exact' = TRUE
  /\ Sleep
  /\ UNCHANGED <<imuNow, fifo, samples, tested, last_sample_us, filter, mixed>>

\* The first half of imu_fifo_read(); with no packet the thread sleeps again, as it does
\* after an error.
CountPackets ==
  /\ tracker = "count" /\ imuNow >= wake
  /\ want' = IF Len(fifo) > MaxRead THEN MaxRead ELSE Len(fifo)
  /\ tracker' = IF want' = 0 THEN "count" ELSE "read"
  /\ countedAt' = imuNow /\ exact' = (Len(fifo) <= MaxRead)
  /\ Sleep
  /\ UNCHANGED <<imuNow, fifo, samples, tested, last_sample_us, filter, mixed>>

\* The valid packets are counted by valid_count, from which their stamps follow.
StampFromCount(v) == imuNow - (want - v) * Period
Stamp(v) == imuNow - (want - 1 - v) * Period

\* The second half: the packets with a valid header, in their order, then the stamps.
ReadPackets ==
  /\ tracker = "read"
  /\ \E valid \in SUBSET (1..want) : \E kept \in [1..Cardinality(valid) -> valid] :
       /\ \A i \in DOMAIN kept : Cardinality({u \in valid : u <= kept[i]}) = i
       /\ samples' = [i \in DOMAIN kept |-> <<fifo[kept[i]], Stamp(i - 1)>>]
  /\ tracker' = IF samples' = <<>> THEN "count" ELSE "filter"
  /\ exact' = (exact /\ imuNow = countedAt /\ Len(samples') = want)
  /\ fifo' = SubSeq(fifo, want + 1, Len(fifo))
  /\ want' = 0 /\ tested' = 0 /\ Sleep
  /\ UNCHANGED <<imuNow, countedAt, last_sample_us, filter, mixed>>

ReadFails ==
  /\ tracker = "read" /\ tracker' = "count" /\ want' = 0 /\ Sleep
  /\ UNCHANGED <<imuNow, fifo, countedAt, samples, tested, last_sample_us, filter, mixed, exact>>

Filtered == IF tested' = Len(samples) THEN "process" ELSE "filter"

\* For each sample, accel_filter_state.enabled is read without the lock ...
TestEnabled ==
  /\ tracker = "filter"
  /\ IF filter.enabled
     THEN tracker' = "mix" /\ UNCHANGED tested
     ELSE tested' = tested + 1 /\ tracker' = Filtered
  /\ UNCHANGED <<imuNow, fifo, wake, want, countedAt, samples, last_sample_us, filter, mixed, exact>>

\* ... and the average updated under it, whatever has become of enabled.
UpdateFilter ==
  /\ tracker = "mix"
  /\ mixed' = IF filter.initialized THEN mixed \cup {"sample"} ELSE {"sample"}
  /\ filter' = [filter EXCEPT !.initialized = TRUE]
  /\ tested' = tested + 1 /\ tracker' = Filtered
  /\ UNCHANGED <<imuNow, fifo, wake, want, countedAt, samples, last_sample_us, exact>>

\* process_sample(): a stamp before the last one makes delta_us wrap, and the step of
\* the attitude filter is then clamped to 0.1 s.
ProcessSample ==
  /\ tracker = "process"
  /\ last_sample_us' = Head(samples)[2] /\ samples' = Tail(samples)
  /\ tracker' = IF Len(samples) = 1 THEN "count" ELSE "process"
  /\ Sleep
  /\ UNCHANGED <<imuNow, fifo, want, countedAt, tested, filter, mixed, exact>>

-----------------------------------------------------------------------------
(* The logger: a session starts and ends *)

\* Mutant: only logger_stop() resets the filter.
EnableKeeping ==
  /\ filter' = [filter EXCEPT !.enabled = TRUE] /\ mixed' = {"zero"}
  /\ UNCHANGED <<imuNow, fifo, tracker, wake, want, countedAt, samples, tested, last_sample_us, exact>>

\* imu_enable_accel_filter(), which also sets filtered_magnitude_g to zero
EnableFilter ==
  /\ filter' = [enabled |-> TRUE, initialized |-> FALSE] /\ mixed' = {"zero"}
  /\ UNCHANGED <<imuNow, fifo, tracker, wake, want, countedAt, samples, tested, last_sample_us, exact>>

DisableFilter ==
  /\ filter' = [enabled |-> FALSE, initialized |-> FALSE]
  /\ UNCHANGED <<imuNow, fifo, tracker, wake, want, countedAt, samples, tested, last_sample_us, mixed, exact>>

ImuNext ==
  \/ SampleTaken \/ OrientationStart \/ FifoStart
  \/ CountPackets \/ ReadPackets \/ ReadFails
  \/ TestEnabled \/ UpdateFilter \/ ProcessSample
  \/ EnableFilter \/ DisableFilter

ImuSpec == ImuInit /\ [][ImuNext]_imuVars

-----------------------------------------------------------------------------
(* Properties *)

(* An acceleration that imu_get_filtered_acceleration() gives the executive for its    *)
(* landing decision is an average of samples alone, begun anew since the session's     *)
(* start: neither the zero that the start stores nor the average of the session before *)
(* is part of it, although the thread tests enabled outside the lock and may mark a    *)
(* filter that has just been disabled as initialized.                                  *)
FilterFresh == (filter.enabled /\ filter.initialized) => mixed = {"sample"}

(* When the thread is in time (every packet in the FIFO fits one poll, none is invalid *)
(* and no time passes between counting and reading), each sample is stamped no         *)
(* earlier than it was taken, and less than a sample period later.                     *)
StampsTrue ==
  (exact /\ tracker \in {"filter", "mix", "process"}) =>
     \A i \in DOMAIN samples :
        samples[i][1] <= samples[i][2] /\ samples[i][2] < samples[i][1] + Period
=============================================================================
