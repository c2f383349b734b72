------------------------------- MODULE Session -------------------------------
(***************************************************************************)
(* What the session control promises (include/services/logger.h): logging  *)
(* sessions are numbered in the order they begin, at most one is in        *)
(* progress, it is marked as jumped at most once, and once it is over it   *)
(* stays so.  How services/logger.c does it, with which threads and locks, *)
(* is module Logger, which implements this one.                            *)
(***************************************************************************)
EXTENDS Naturals

VARIABLES
  begun,    \* sessions begun so far; the number of the last one
  current,  \* the session in progress, 0: none
  jumped,   \* the session in progress has been marked as jumped
  armed,    \* none is in progress and the logger is armed
  over      \* sessions that have been ended

sessionVars == <<begun, current, jumped, armed, over>>

SessionInit ==
  begun = 0 /\ current = 0 /\ jumped = FALSE /\ armed = TRUE /\ over = {}

\* logger_start(), logger_start_usb()
Begin ==
  /\ current = 0
  /\ begun' = begun + 1 /\ current' = begun + 1
  /\ armed' = FALSE
  /\ UNCHANGED <<jumped, over>>

\* logger_jumped()
MarkJump ==
  /\ current # 0 /\ ~jumped
  /\ jumped' = TRUE
  /\ UNCHANGED <<begun, current, armed, over>>

\* logger_stop()
End ==
  /\ current # 0
  /\ over' = over \cup {current}
  /\ current' = 0 /\ jumped' = FALSE /\ armed' = FALSE
  /\ UNCHANGED begun

\* logger_arm(), which asks for no state: a session in progress is given up.
Arm ==
  /\ current' = 0 /\ jumped' = FALSE /\ armed' = TRUE
  /\ UNCHANGED <<begun, over>>

\* logger_disarm()
Disarm ==
  /\ armed /\ armed' = FALSE
  /\ UNCHANGED <<begun, current, jumped, over>>

SessionNext == Begin \/ MarkJump \/ End \/ Arm \/ Disarm

SessionSpec == SessionInit /\ [][SessionNext]_sessionVars

\* enum logger_state_t, as logger_get_state() answers it.
LoggerState ==
  IF current # 0 THEN IF jumped THEN "JUMPED" ELSE "LOGGING"
  ELSE IF armed THEN "ARMED" ELSE "IDLE"
=============================================================================
