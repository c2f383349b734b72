------------------------------ MODULE Executive ------------------------------
(***************************************************************************)
(* Flight detection (services/logger.c): logger_executive(), called by the *)
(* main thread every 250 ms, counts the ticks that confirm a take-off, a   *)
(* freefall, an aborted flight or a landing, and starts, marks or stops    *)
(* the session.  The counters belong to no session: they are cleared by    *)
(* IDLE ticks, by logger_start(), by logger_jumped() and after a landing,  *)
(* not by the other ways to change the state.  Meanwhile the buttons, BLE  *)
(* commands, the barometer and the test alarm change the state too.        *)
(*                                                                         *)
(* What a start or a stop does besides changing the state is in Logger.    *)
(* A tick's handler is one step: main has the highest priority of the      *)
(* threads that touch the counters and does not block inside it.           *)
(***************************************************************************)
EXTENDS Integers

CONSTANTS
  TakeoffTicks,   \* 3 * EXEC_TICKS_PER_SECOND
  FreefallTicks,  \* 2 * EXEC_TICKS_PER_SECOND
  AccelTicks,     \* EXEC_FREEFALL_ACCEL_CONFIRM
  LandTicks,      \* EXEC_JUMPED_TIMEOUT_S * EXEC_TICKS_PER_SECOND
  AbortTicks,     \* EXEC_LOGGING_ABORT_TIMEOUT_S * EXEC_TICKS_PER_SECOND
  LegacySamples,  \* TAKEOFF_DETECT_DURATION_S * env_rate_hz
  Width,          \* 256: the small counters are uint8_t
  Cap             \* bound: the history counts at most this many ticks

ASSUME TickAssumption ==
  /\ {TakeoffTicks, FreefallTicks, AccelTicks} \subseteq 1..(Width - 1)
  /\ {TakeoffTicks, FreefallTicks, AccelTicks, LandTicks, AbortTicks} \subseteq 1..Cap
  /\ LegacySamples \in Nat /\ Width \in Nat /\ Cap \in Nat

VARIABLES
  state,        \* logger_state.state
  usbMode,      \* logger_state.usb_mode
  climb,        \* executive_state.climb_rate_est_mps, as a class of Rates
  takeoff,      \* executive_state.takeoff_confirm_count
  freefall,     \* executive_state.freefall_confirm_count
  lowAccel,     \* executive_state.low_accel_confirm_count
  low,          \* executive_state.low_activity_counter
  pc,           \* main: where it is in logger_executive()
  seen,         \* main: its local current_state
  climbSamples, \* logger_baro_handler(): static climb_samples
  baro,         \* barometer thread: in logger_baro_handler(), past its decision or
                \* in logger_start() after the unlock
  alarm,        \* test alarm thread: inside logger_jumped() after the unlock
  opening,      \* another thread is in logger_start() after the unlock
  armWish,      \* another thread has read IDLE and is about to arm
  closing,      \* another thread is tearing a session down
  run,          \* history: latest consecutive ticks of each kind in this state
  rested,       \* history: a tick has found the logger IDLE since it became so
  paced,        \* history: see Paced below
  clean         \* history: paced, and no tick was handled while alarm = "reset"

counters == <<takeoff, freefall, lowAccel, low>>
mainVars == <<pc, seen>>
baroVars == <<climb, climbSamples, baro>>
vars == <<state, usbMode, counters, mainVars, baroVars, alarm, opening, armWish, closing,
          run, rested, paced, clean>>

Active == {"LOGGING", "JUMPED"}
Ready  == {"IDLE", "ARMED"}

\* Climb rates: above 1.016 m/s, within 1.016 of level, slow and fast descent.
Rates == {"climb", "level", "sink", "fall"}

NoTicks == [climb |-> 0, fall |-> 0, lowg |-> 0, low |-> 0]

\* A count of the history goes on while the kind of tick does, as long as paced.
Extend(n, holds) == IF ~holds \/ ~paced THEN 0 ELSE IF n < Cap THEN n + 1 ELSE n

(***************************************************************************)
(* Paced: no other thread changes the state while main is between reading  *)
(* it and acting on it, nor leaves IDLE before a tick has seen it, nor     *)
(* arms a session away.                                                    *)
(***************************************************************************)
ChangeByOther ==
  /\ paced' = (paced /\ pc \in {"idle", "look"} /\ (state = "IDLE" => rested))
  /\ run' = NoTicks
  /\ rested' = FALSE

ChangeByMain == run' = NoTicks /\ rested' = FALSE /\ UNCHANGED paced

-----------------------------------------------------------------------------
(* logger_executive(), the main thread *)

Done == pc' = "idle" /\ seen' = "IDLE"

\* USB logging is skipped: usb_mode is read without the lock.
TickBegin ==
  /\ pc = "idle"
  /\ ~usbMode
  /\ pc' = "look"
  /\ UNCHANGED <<state, usbMode, counters, seen, baroVars, alarm, opening, armWish,
                 closing, run, rested, paced, clean>>

\* The state is read under the lock.
TickRead ==
  /\ pc = "look"
  /\ pc' = "handle"
  /\ seen' = state
  /\ UNCHANGED <<state, usbMode, counters, baroVars, alarm, opening, armWish, closing,
                 run, rested, paced, clean>>

Handling(s) ==
  /\ pc = "handle" /\ seen = s
  /\ clean' = (clean /\ paced /\ alarm = "idle")
  /\ UNCHANGED <<state, usbMode, baroVars, alarm, opening, armWish, closing, paced>>

\* A decision, or none.
Decide(yes, step) == IF yes THEN pc' = step /\ UNCHANGED seen ELSE Done

\* Mutant: the count stops at the limit, and only reaching it decides.
ArmedOnce ==
  /\ Handling("ARMED")
  /\ takeoff' = IF climb # "climb" THEN 0
                ELSE IF takeoff < TakeoffTicks THEN takeoff + 1 ELSE takeoff
  /\ Decide(takeoff < TakeoffTicks /\ takeoff' = TakeoffTicks, "start")
  /\ run' = [run EXCEPT !.climb = Extend(@, climb = "climb")]
  /\ UNCHANGED <<freefall, lowAccel, low, rested>>

HandleArmed ==
  /\ Handling("ARMED")
  /\ takeoff' = IF climb = "climb" THEN (takeoff + 1) % Width ELSE 0
  /\ Decide(climb = "climb" /\ takeoff' >= TakeoffTicks, "start")
  /\ run' = [run EXCEPT !.climb = Extend(@, climb = "climb")]
  /\ UNCHANGED <<freefall, lowAccel, low, rested>>

\* The history of a LOGGING tick.
Seen(lowg) ==
  run' = [run EXCEPT !.fall = Extend(@, climb = "fall"),
                     !.lowg = Extend(@, lowg),
                     !.low  = Extend(@, climb = "level")]

\* Freefall by the barometer; the handler returns early.
HandleFall ==
  \E lowg \in BOOLEAN :
    /\ Handling("LOGGING")
    /\ climb = "fall"
    /\ freefall' = (freefall + 1) % Width
    /\ freefall' >= FreefallTicks
    /\ Decide(TRUE, "jump")
    /\ Seen(lowg)
    /\ UNCHANGED <<takeoff, lowAccel, low, rested>>

\* No freefall by the barometer: its count goes on or starts anew.
NoFall ==
  /\ freefall' = IF climb = "fall" THEN (freefall + 1) % Width ELSE 0
  /\ freefall' < FreefallTicks

\* Freefall by the accelerometer; the handler returns early.
HandleLowG ==
  /\ Handling("LOGGING")
  /\ NoFall
  /\ lowAccel' = (lowAccel + 1) % Width
  /\ lowAccel' >= AccelTicks
  /\ Decide(TRUE, "jump")
  /\ Seen(TRUE)
  /\ UNCHANGED <<takeoff, low, rested>>

\* Mutant: a low-g reading counts as activity.
ActivityByAccel ==
  \E lowg \in BOOLEAN :
    /\ Handling("LOGGING")
    /\ NoFall
    /\ lowAccel' = IF lowg THEN (lowAccel + 1) % Width ELSE 0
    /\ lowAccel' < AccelTicks
    /\ low' = IF climb = "level" /\ ~lowg THEN low + 1 ELSE 0
    /\ Decide(low' >= AbortTicks, "stop")
    /\ Seen(lowg)
    /\ UNCHANGED <<takeoff, rested>>

\* Neither: the flight is aborted after a long time at one level.
HandleActivity ==
  \E lowg \in BOOLEAN :
    /\ Handling("LOGGING")
    /\ NoFall
    /\ lowAccel' = IF lowg THEN (lowAccel + 1) % Width ELSE 0
    /\ lowAccel' < AccelTicks
    /\ low' = IF climb = "level" THEN low + 1 ELSE 0
    /\ Decide(low' >= AbortTicks, "stop")
    /\ Seen(lowg)
    /\ UNCHANGED <<takeoff, rested>>

HandleJumped ==
  /\ Handling("JUMPED")
  /\ low' = IF climb = "level" THEN low + 1 ELSE 0
  /\ Decide(low' >= LandTicks, "stop")
  /\ run' = [run EXCEPT !.low = Extend(@, climb = "level")]
  /\ UNCHANGED <<takeoff, freefall, lowAccel, rested>>

\* executive_reset_counters().
ResetCounters == takeoff' = 0 /\ freefall' = 0 /\ lowAccel' = 0 /\ low' = 0

\* Mutant: an IDLE tick does nothing.
IdleKeeps ==
  /\ Handling("IDLE")
  /\ UNCHANGED <<counters, run>>
  /\ Done
  /\ rested' = (paced /\ (rested \/ state = "IDLE"))

HandleIdle ==
  /\ Handling("IDLE")
  /\ ResetCounters
  /\ Done
  /\ rested' = (paced /\ (rested \/ state = "IDLE"))
  /\ UNCHANGED run

\* logger_start() of the executive: it tests the state, and may fail; after the
\* unlock it clears the counters, which only other resets could touch meanwhile.
StartTakeoff ==
  /\ pc = "start"
  /\ \/ state \in Ready /\ state' = "LOGGING" /\ ResetCounters /\ ChangeByMain
     \/ UNCHANGED <<state, counters, run, rested, paced>>
  /\ Done
  /\ UNCHANGED <<usbMode, baroVars, alarm, opening, armWish, closing, clean>>

\* logger_jumped(), the part under the lock.
JumpState ==
  /\ pc = "jump"
  /\ IF state = "LOGGING"
     THEN state' = "JUMPED" /\ pc' = "jumpReset" /\ ChangeByMain /\ UNCHANGED seen
     ELSE Done /\ UNCHANGED <<state, run, rested, paced>>
  /\ UNCHANGED <<usbMode, counters, baroVars, alarm, opening, armWish, closing, clean>>

JumpReset ==
  /\ pc = "jumpReset"
  /\ ResetCounters
  /\ Done
  /\ UNCHANGED <<state, usbMode, baroVars, alarm, opening, armWish, closing, run,
                 rested, paced, clean>>

\* Abort or landing: logger_stop(), with its teardown,
StopState ==
  /\ pc = "stop"
  /\ IF state \in Active THEN state' = "IDLE" /\ usbMode' = FALSE /\ ChangeByMain
                         ELSE UNCHANGED <<state, usbMode, run, rested, paced>>
  /\ pc' = "arm"
  /\ UNCHANGED <<counters, seen, baroVars, alarm, opening, armWish, closing, clean>>

\* then, 100 ms later, logger_arm() whatever the state,
ArmAgain ==
  /\ pc = "arm"
  /\ state' = "ARMED"
  /\ ChangeByMain
  /\ pc' = "reset"
  /\ UNCHANGED <<usbMode, counters, seen, baroVars, alarm, opening, armWish, closing, clean>>

\* and the counters are cleared.
ArmReset ==
  /\ pc = "reset"
  /\ ResetCounters
  /\ Done
  /\ UNCHANGED <<state, usbMode, baroVars, alarm, opening, armWish, closing, run,
                 rested, paced, clean>>

-----------------------------------------------------------------------------
(* logger_baro_handler(), the barometer thread *)

\* The filter has a new climb rate r; then the legacy take-off detection, which
\* reads the state without the lock and counts in ARMED only: strong is a climb
\* of more than 2 m/s, high enough above the ground.
BaroSample(r, strong) ==
  /\ baro = "idle"
  /\ strong => r = "climb"
  /\ climb' = r
  /\ IF state # "ARMED"
     THEN UNCHANGED <<climbSamples, baro>>
     ELSE /\ climbSamples' = IF strong
                             THEN IF climbSamples <= LegacySamples
                                  THEN climbSamples + 1 ELSE climbSamples
                             ELSE 0
          /\ baro' = IF climbSamples' > LegacySamples THEN "start" ELSE "idle"
  /\ UNCHANGED <<state, usbMode, counters, mainVars, alarm, opening, armWish, closing,
                 run, rested, paced, clean>>

BaroStart ==
  /\ baro = "start"
  /\ \/ state \in Ready /\ state' = "LOGGING" /\ baro' = "reset" /\ ChangeByOther
     \/ baro' = "idle" /\ UNCHANGED <<state, run, rested, paced>>
  /\ UNCHANGED <<usbMode, counters, mainVars, climb, climbSamples, alarm, opening, armWish,
                 closing, clean>>

BaroReset ==
  /\ baro = "reset"
  /\ baro' = "idle"
  /\ ResetCounters
  /\ UNCHANGED <<state, usbMode, mainVars, climb, climbSamples, alarm, opening, armWish,
                 closing, run, rested, paced, clean>>

-----------------------------------------------------------------------------
(* The test alarm's thread, in logger_jumped() *)

AlarmJump ==
  /\ alarm = "idle"
  /\ state = "LOGGING"
  /\ state' = "JUMPED"
  /\ alarm' = "reset"
  /\ ChangeByOther
  /\ UNCHANGED <<usbMode, counters, mainVars, baroVars, opening, armWish, closing, clean>>

\* executive_reset_counters(), after the lock has been given back.
AlarmReset ==
  /\ alarm = "reset"
  /\ alarm' = "idle"
  /\ ResetCounters
  /\ UNCHANGED <<state, usbMode, mainVars, baroVars, opening, armWish, closing, run,
                 rested, paced, clean>>

-----------------------------------------------------------------------------
(* Buttons, BLE commands, test alarm, USB disconnect: what they do to the state *)

\* logger_start() or, which clears no counters, logger_start_usb().  Bound: one of
\* these threads at a time is in logger_start() after the unlock, and one in
\* logger_stop().
OtherStart(usb) ==
  /\ state \in Ready
  /\ state' = "LOGGING"
  /\ usbMode' = (usbMode \/ usb)
  /\ IF usb THEN UNCHANGED opening ELSE ~opening /\ opening' = TRUE
  /\ ChangeByOther
  /\ UNCHANGED <<counters, mainVars, baroVars, alarm, armWish, closing, clean>>

OtherReset ==
  /\ opening
  /\ opening' = FALSE
  /\ ResetCounters
  /\ UNCHANGED <<state, usbMode, mainVars, baroVars, alarm, armWish, closing, run,
                 rested, paced, clean>>

\* logger_stop(), the part under the lock,
OtherStop ==
  /\ ~closing
  /\ state \in Active
  /\ state' = "IDLE"
  /\ closing' = TRUE
  /\ ChangeByOther
  /\ UNCHANGED <<usbMode, counters, mainVars, baroVars, alarm, opening, armWish, clean>>

\* and its teardown, at the end of which usb_mode is cleared.
OtherStopped ==
  /\ closing
  /\ closing' = FALSE
  /\ usbMode' = FALSE
  /\ UNCHANGED <<state, counters, mainVars, baroVars, alarm, opening, armWish, run, rested,
                 paced, clean>>

\* A BLE command or the alarm has found the logger IDLE and arms it.
OtherWish ==
  /\ state = "IDLE" /\ ~armWish
  /\ armWish' = TRUE
  /\ UNCHANGED <<state, usbMode, counters, mainVars, baroVars, alarm, opening, closing, run,
                 rested, paced, clean>>

OtherArm ==
  /\ armWish
  /\ armWish' = FALSE
  /\ state' = "ARMED"
  /\ run' = NoTicks /\ rested' = FALSE
  /\ paced' = (paced /\ pc \in {"idle", "look"} /\ state = "IDLE" /\ rested)
  /\ UNCHANGED <<usbMode, counters, mainVars, baroVars, alarm, opening, closing, clean>>

OtherDisarm ==
  /\ state = "ARMED"
  /\ state' = "IDLE"
  /\ ChangeByOther
  /\ UNCHANGED <<usbMode, counters, mainVars, baroVars, alarm, opening, armWish, closing, clean>>

-----------------------------------------------------------------------------
Init ==
  /\ state = "ARMED" /\ usbMode = FALSE /\ climb = "level"
  /\ takeoff = 0 /\ freefall = 0 /\ lowAccel = 0 /\ low = 0
  /\ pc = "idle" /\ seen = "IDLE"
  /\ climbSamples = 0 /\ baro = "idle" /\ alarm = "idle"
  /\ opening = FALSE /\ armWish = FALSE /\ closing = FALSE
  /\ run = NoTicks /\ rested = FALSE /\ paced = TRUE /\ clean = TRUE

MainStep ==
  \/ TickBegin \/ TickRead
  \/ HandleArmed \/ HandleFall \/ HandleLowG \/ HandleActivity \/ HandleJumped
  \/ HandleIdle
  \/ StartTakeoff \/ JumpState \/ JumpReset \/ StopState \/ ArmAgain \/ ArmReset

OtherStep ==
  \/ \E r \in Rates, strong \in BOOLEAN : BaroSample(r, strong)
  \/ BaroStart \/ BaroReset \/ AlarmJump \/ AlarmReset \/ OtherReset
  \/ \E usb \in BOOLEAN : OtherStart(usb)
  \/ OtherStop \/ OtherStopped \/ OtherWish \/ OtherArm \/ OtherDisarm

Next == MainStep \/ OtherStep

\* The main loop never ends and nothing of a higher priority runs for ever.
Spec == Init /\ [][Next]_vars /\ WF_vars(MainStep)

-----------------------------------------------------------------------------
(* Properties *)

Pcs == {"idle", "look", "handle", "start", "jump", "jumpReset", "stop", "arm", "reset"}

TypeFlags ==
  /\ usbMode \in BOOLEAN /\ opening \in BOOLEAN /\ armWish \in BOOLEAN /\ closing \in BOOLEAN
  /\ rested \in BOOLEAN /\ paced \in BOOLEAN /\ clean \in BOOLEAN

TypeCounts ==
  /\ takeoff \in 0..(Width - 1) /\ freefall \in 0..(Width - 1)
  /\ lowAccel \in 0..(Width - 1) /\ low \in Nat
  /\ run \in [climb : 0..Cap, fall : 0..Cap, lowg : 0..Cap, low : 0..Cap]

TypeOthers ==
  /\ climb \in Rates /\ climbSamples \in 0..(LegacySamples + 1)
  /\ baro \in {"idle", "start", "reset"} /\ alarm \in {"idle", "reset"}

TypeMain ==
  /\ state \in Active \cup Ready /\ seen \in Active \cup Ready /\ pc \in Pcs
  /\ pc = "start" => seen = "ARMED"
  /\ pc \in {"jump", "jumpReset"} => seen = "LOGGING"
  /\ pc \in {"stop", "arm", "reset"} => seen \in Active

\* Types; a decision is tied to the state it was made in.
TypeOK == TypeFlags /\ TypeCounts /\ TypeOthers /\ TypeMain

\* A decision of the executive is backed by the full debounce time of readings
\* made in this state: no count is inherited from another session or phase.
Confirmed ==
  paced /\ clean =>
    /\ pc = "start" => run.climb >= TakeoffTicks
    /\ pc = "jump" => run.fall >= FreefallTicks \/ run.lowg >= AccelTicks
    /\ pc = "stop" => run.low >= IF seen = "JUMPED" THEN LandTicks ELSE AbortTicks

\* What makes it so.  Main acts in the state it has read,
InStep ==
  paced =>
    /\ pc \in {"handle", "start", "jump", "stop"} => state = seen
    /\ pc = "jumpReset" => state = "JUMPED"
    /\ pc = "arm" => state = "IDLE"
    /\ pc = "reset" => state = "ARMED"

\* and a counter that may be used in a state has no more than that state's ticks.
Backed(count, n) == count <= n \/ n = Cap

Counted ==
  paced /\ clean /\ alarm = "idle" =>
    /\ state = "ARMED" /\ pc # "reset" =>
         Backed(takeoff, run.climb) /\ freefall = 0 /\ lowAccel = 0 /\ low = 0
    /\ state = "LOGGING" /\ pc # "jump" =>
         /\ Backed(freefall, run.fall) /\ Backed(lowAccel, run.lowg)
         /\ Backed(low, run.low)
    /\ state = "JUMPED" /\ pc # "jumpReset" => Backed(low, run.low)
    /\ state = "IDLE" /\ rested =>
         takeoff = 0 /\ freefall = 0 /\ lowAccel = 0 /\ low = 0

\* On the ground for good, outside USB mode, a session does not last: whichever
\* state it is in, it is stopped and the logger left ready for another.
LandsEventually ==
  <>[](climb = "level" /\ ~usbMode) => []<>(state \in Ready)

\* Climbing for good while ARMED, the executive tries to start again and again,
\* also when starts fail for longer than its counter can count.
TakeoffTried ==
  <>[](climb = "climb" /\ state = "ARMED" /\ ~usbMode) => []<>(pc = "start")

\* Comment in logger_jumped(): the counters are reset "immediately on JUMPED
\* transition", "otherwise the executive may trigger landing detection using the
\* stale counter from LOGGING state".
LandingMeasured ==
  paced /\ pc = "stop" /\ seen = "JUMPED" => run.low >= LandTicks
=============================================================================
