------------------------------ MODULE TestAlarm ------------------------------
(***************************************************************************)
(* The test alarm (services/timebase.c, mcumgr_custom.c): a BLE command    *)
(* schedules a session at MM:SS and a jump some seconds after its start.   *)
(* Each pulse per second (PPS) of the GNSS receiver submits a work item    *)
(* that looks at the alarm, on a work queue of its own (priority 5).  The  *)
(* mcumgr thread writes the alarm's fields without a lock, and preempts    *)
(* the handler at any point.                                               *)
(*                                                                         *)
(* Time is relative and in seconds: the target is kept as the seconds left *)
(* until it, the time correlation (set once per boot) as the second of the *)
(* hour it holds and the seconds since.  Both are clipped.                 *)
(***************************************************************************)
EXTENDS Integers

CONSTANTS
  Hour,     \* seconds in an hour
  MaxDelay, \* the longest jump delay a command may carry; 0: no jump
  MaxSets   \* bound: alarm commands that are accepted

ASSUME AlarmAssumption ==
  Hour \in Nat \ {0} /\ MaxDelay \in Nat /\ MaxSets \in Nat

VARIABLES
  corr,      \* time_corr: the second of the hour it holds, or -1: not valid
  age,       \* seconds since the correlation was set, at most Hour
  alarm,     \* test_alarm: state, delay, count (jump_countdown)
  left,      \* test_alarm.target_start_utc_ms, as seconds from now, -1 or more
  queued,    \* test_alarm_work is queued
  pc,        \* where test_alarm_work_handler() is
  sets,      \* alarms set so far
  since,     \* history: pulses since the handler's last run on a target
  calm       \* history: no alarm was set while the handler ran, since a
             \* target was reached

alarmVars == <<corr, age, alarm, left, queued, pc, sets, since, calm>>

Steps == {"idle", "begin", "start", "arm", "log", "began", "count", "wait", "jump"}

AlarmTypeOK ==
  /\ corr \in -1..(Hour - 1) /\ age \in 0..Hour
  /\ alarm \in [state : {"IDLE", "START", "JUMP"}, delay : 0..MaxDelay,
                count : 0..MaxDelay]
  /\ left \in -1..Hour
  /\ queued \in BOOLEAN /\ pc \in Steps
  /\ sets \in 0..MaxSets /\ since \in 0..MaxDelay /\ calm \in BOOLEAN

AlarmInit ==
  /\ corr = -1 /\ age = 0
  /\ alarm = [state |-> "IDLE", delay |-> 0, count |-> 0]
  /\ left = -1
  /\ queued = FALSE /\ pc = "idle"
  /\ sets = 0 /\ since = 0 /\ calm = TRUE

-----------------------------------------------------------------------------
(* The clock, the receiver and the pulse interrupt *)

\* The first fix with a date sets the correlation; gnss_time_set_flag then
\* stops every later one.
TimeFix ==
  /\ corr = -1
  /\ corr' \in 0..(Hour - 1) /\ age' = 0
  /\ UNCHANGED <<alarm, left, queued, pc, sets, since, calm>>

SecondPasses ==
  /\ age' = IF corr # -1 /\ age < Hour THEN age + 1 ELSE age
  /\ left' = IF left > -1 THEN left - 1 ELSE left
  /\ UNCHANGED <<corr, alarm, sets, calm>>

\* A second with its pulse: an item that is queued already stays so.
Pulse ==
  /\ SecondPasses
  /\ queued' = TRUE
  /\ since' = IF since < MaxDelay THEN since + 1 ELSE since
  /\ UNCHANGED pc

\* A second without: no fix, or the interrupt could not be set up.
NoPulse == SecondPasses /\ UNCHANGED <<queued, pc, since>>

-----------------------------------------------------------------------------
(* tempo_mgmt_test_logging(), the mcumgr thread *)

\* Seconds from the correlation's time to the next time at second mmss.
Ahead(mmss) == IF mmss > corr THEN mmss - corr ELSE mmss - corr + Hour

SetAlarm ==
  /\ sets < MaxSets /\ corr # -1
  /\ \E mmss \in 0..(Hour - 1), delay \in 0..MaxDelay :
       /\ alarm' = [state |-> "START", delay |-> delay, count |-> 0]
       /\ left' = IF Ahead(mmss) > age THEN Ahead(mmss) - age ELSE -1
  /\ sets' = sets + 1
  /\ calm' = (calm /\ pc = "idle")
  /\ UNCHANGED <<corr, age, queued, pc, since>>

-----------------------------------------------------------------------------
(* test_alarm_work_handler(), the alarm's work queue *)

Handler(from, to) ==
  /\ pc = from /\ pc' = to
  /\ UNCHANGED <<corr, age, left, sets>>

Quiet == UNCHANGED <<queued, since, calm>>
SetState(s) == alarm' = [alarm EXCEPT !.state = s]

\* The work queue takes the item and reads the state; the handler returns at
\* once when that is IDLE.
TakeItem ==
  /\ queued /\ queued' = FALSE
  /\ \/ alarm.state = "IDLE"  /\ Handler("idle", "idle")
     \/ alarm.state = "START" /\ Handler("idle", "begin")
     \/ alarm.state = "JUMP"  /\ Handler("idle", "wait")
  /\ since' = IF alarm.state = "START" THEN 0 ELSE since
  /\ UNCHANGED <<alarm, calm>>

\* The time computed from the correlation is up to a second behind the pulse.
CompareTarget ==
  \E lag \in {0, 1} :
    /\ Handler("begin", IF left + lag <= 0 THEN "start" ELSE "idle")
    /\ calm' = (left + lag <= 0 \/ calm)
    /\ UNCHANGED <<alarm, queued, since>>

\* logger_get_state(): an idle logger is armed first.
AskState ==
  /\ Handler("start", "arm") \/ Handler("start", "log")
  /\ Quiet /\ UNCHANGED alarm

ArmLogger ==
  \/ Handler("arm", "log") /\ Quiet /\ UNCHANGED alarm
  \/ Handler("arm", "idle") /\ Quiet /\ SetState("IDLE")

\* Mutant: a start that fails is left to the next pulse.
StartLoggerAgain ==
  \/ Handler("log", "began") /\ Quiet /\ UNCHANGED alarm
  \/ Handler("log", "idle") /\ Quiet /\ UNCHANGED alarm

StartLogger ==
  \/ Handler("log", "began") /\ Quiet /\ UNCHANGED alarm
  \/ Handler("log", "idle") /\ Quiet /\ SetState("IDLE")

ReadDelay ==
  \/ alarm.delay > 0 /\ Handler("began", "count") /\ Quiet /\ UNCHANGED alarm
  \/ alarm.delay = 0 /\ Handler("began", "idle") /\ Quiet /\ SetState("IDLE")

\* Mutant: the countdown is not started.
StartCountdownNever == Handler("count", "idle") /\ Quiet /\ SetState("JUMP")

StartCountdown ==
  /\ Handler("count", "idle") /\ Quiet
  /\ alarm' = [alarm EXCEPT !.count = alarm.delay, !.state = "JUMP"]

\* Mutant: no test for zero.
DecrementPast ==
  /\ Handler("wait", IF alarm.count = 1 THEN "jump" ELSE "idle") /\ Quiet
  /\ alarm' = [alarm EXCEPT !.count = alarm.count - 1]

Decrement ==
  LET remaining == IF alarm.count > 0 THEN alarm.count - 1 ELSE 0 IN
  /\ Handler("wait", IF remaining = 0 THEN "jump" ELSE "idle") /\ Quiet
  /\ alarm' = [alarm EXCEPT !.count = remaining]

\* logger_jumped() is called; a failure is only logged.
Jump == Handler("jump", "idle") /\ Quiet /\ SetState("IDLE")

HandlerStep ==
  \/ TakeItem \/ CompareTarget \/ AskState \/ ArmLogger \/ StartLogger
  \/ ReadDelay \/ StartCountdown \/ Decrement \/ Jump

AlarmNext == TimeFix \/ Pulse \/ NoPulse \/ SetAlarm \/ HandlerStep

\* The work queue runs what is queued; the receiver, which keeps its fix, goes
\* on sending pulses.
AlarmFairness == WF_alarmVars(HandlerStep) /\ WF_alarmVars(Pulse)

AlarmSpec == AlarmInit /\ [][AlarmNext]_alarmVars /\ AlarmFairness

-----------------------------------------------------------------------------
(* Properties *)

\* The jump is marked no earlier than the delay asked for: at least that many
\* pulses after the one on which the session was started, however long the
\* start took and whatever pulses were merged meanwhile.  An alarm that is set
\* while the handler runs may be mixed with the old one.
JumpNotEarly == pc = "jump" /\ calm => since >= alarm.delay

\* Every alarm ends: by its jump, by a start that fails or has no delay.  (An
\* alarm without end keeps a later session from its own jump.)
AlarmEnds == alarm.state # "IDLE" ~> alarm.state = "IDLE"
=============================================================================
