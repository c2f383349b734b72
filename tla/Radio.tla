-------------------------------- MODULE Radio --------------------------------
(***************************************************************************)
(* The BLE radio (ble_mcumgr.c): stopped when a session begins, restarted  *)
(* when it ends, by whichever thread starts or stops the session; and the  *)
(* callbacks of the Bluetooth stack, which runs beside them.  No lock      *)
(* covers ble_radio_active or current_conn.  The stack (Zephyr) is         *)
(* external: a link is made while the device advertises, which ends the    *)
(* advertising, each of its ends is reported by a callback later, and any  *)
(* of the three calls made of it may fail, which the code only logs.       *)
(***************************************************************************)
EXTENDS Naturals

CONSTANT RadioCallers   \* threads that stop and restart the radio

Work == "work"   \* the system work queue in advertising_work_handler()

ASSUME RadioAssumption == Work \notin RadioCallers

VARIABLES
  active,    \* ble_radio_active
  adv,       \* stack: advertising
  link,      \* stack: "none", "up", "closing" or "down" (not yet reported)
  told,      \* connected() has been called for the link
  conn,      \* current_conn is not NULL
  advWork,   \* advertising_work is pending
  deferred,  \* ble_stop_work is scheduled
  call,      \* caller, or "work": where it is in the function it is in
  failed,    \* history: the functions of the stack whose last call has failed
  raced      \* history: see RadioFollows

radioVars == <<active, adv, link, told, conn, advWork, deferred, call, failed, raced>>

Runners == RadioCallers \cup {Work}

RadioTypeOK ==
  /\ active \in BOOLEAN /\ adv \in BOOLEAN
  /\ link \in {"none", "up", "closing", "down"} /\ told \in BOOLEAN
  /\ conn \in BOOLEAN /\ advWork \in BOOLEAN /\ deferred \in BOOLEAN
  /\ call \in [Runners -> {"idle", "stop", "advStop", "close", "restart", "advStart"}]
  /\ failed \subseteq {"adv_start", "adv_stop", "disconnect"} /\ raced \in BOOLEAN

\* ble_mcumgr_init() has started advertising, or tried to.
RadioInit ==
  /\ active = TRUE /\ adv \in BOOLEAN /\ link = "none" /\ told = FALSE
  /\ conn = FALSE /\ advWork = FALSE /\ deferred = FALSE
  /\ call = [r \in Runners |-> "idle"] /\ raced = FALSE
  /\ failed = IF adv THEN {} ELSE {"adv_start"}

Step(r, from, to) == call[r] = from /\ call' = [call EXCEPT ![r] = to]

-----------------------------------------------------------------------------
(* ble_mcumgr_stop() and ble_mcumgr_restart() *)

\* raced: two calls overlap, or a link is being made or closed, or advertising
\* being started, when the radio is stopped.
Overlap(r) == \E s \in Runners \ {r} : call[s] # "idle"

Call(r) ==
  /\ \E f \in {"stop", "restart"} : Step(r, "idle", f)
  /\ raced' = (raced \/ Overlap(r))
  /\ UNCHANGED <<active, adv, link, told, conn, advWork, deferred, failed>>

StopTest(r) ==
  /\ Step(r, "stop", IF active THEN "advStop" ELSE "idle")
  /\ active' = FALSE
  /\ UNCHANGED <<adv, link, told, conn, advWork, deferred, failed, raced>>

\* A call of the stack succeeds, or fails and leaves what it should have changed.
Succeeds(f) == failed' = failed \ {f}

Fails(f) == failed' = failed \cup {f}

AdvStop(r) ==
  /\ Step(r, "advStop", "close")
  /\ \/ adv' = FALSE /\ Succeeds("adv_stop")
     \/ adv /\ adv' = TRUE /\ Fails("adv_stop")
  /\ raced' = (raced \/ call[Work] # "idle")
  /\ UNCHANGED <<active, link, told, conn, advWork, deferred>>

\* Mutant: the connection is left to the peer.
LeaveConn(r) ==
  /\ Step(r, "close", "idle")
  /\ Succeeds("disconnect")
  /\ raced' = (raced \/ (link # "none" /\ ~told))
  /\ UNCHANGED <<active, adv, link, told, conn, advWork, deferred>>

CloseConn(r) ==
  /\ Step(r, "close", "idle")
  /\ \/ Succeeds("disconnect") /\ link' = IF conn /\ link = "up" THEN "closing" ELSE link
     \/ conn /\ link = "up" /\ Fails("disconnect") /\ UNCHANGED link
  /\ raced' = (raced \/ (link # "none" /\ ~told))
  /\ UNCHANGED <<active, adv, told, conn, advWork, deferred>>

RestartTest(r) ==
  /\ Step(r, "restart", IF active THEN "idle" ELSE "advStart")
  /\ active' = TRUE
  /\ UNCHANGED <<adv, link, told, conn, advWork, deferred, failed, raced>>

\* bt_le_adv_start() waits for the controller inside; started twice, it
\* answers -EALREADY.
AdvStart(r) ==
  /\ Step(r, "advStart", "idle")
  /\ \/ adv' = TRUE /\ Succeeds("adv_start")
     \/ ~adv /\ adv' = FALSE /\ Fails("adv_start")
  /\ UNCHANGED <<active, link, told, conn, advWork, deferred, raced>>

\* ble_mcumgr_stop_deferred() and, 500 ms later, ble_stop_work_handler().
StopDeferred ==
  /\ deferred' = TRUE
  /\ UNCHANGED <<active, adv, link, told, conn, advWork, call, failed, raced>>

StopWork(r) ==
  /\ deferred /\ deferred' = FALSE
  /\ Step(r, "idle", "stop")
  /\ raced' = (raced \/ Overlap(r))
  /\ UNCHANGED <<active, adv, link, told, conn, advWork, failed>>

\* advertising_work_handler() gives up when the radio has been stopped.
AdvWork ==
  /\ advWork /\ advWork' = FALSE
  /\ Step(Work, "idle", IF active THEN "advStart" ELSE "idle")
  /\ raced' = (raced \/ (active /\ Overlap(Work)))
  /\ UNCHANGED <<active, adv, link, told, conn, deferred, failed>>

-----------------------------------------------------------------------------
(* The stack and its callbacks *)

LinkMade ==
  /\ adv /\ link = "none"
  /\ link' = "up" /\ adv' = FALSE
  /\ UNCHANGED <<active, told, conn, advWork, deferred, call, failed, raced>>

Connected ==
  /\ link # "none" /\ ~told
  /\ told' = TRUE /\ conn' = TRUE
  /\ UNCHANGED <<active, adv, link, advWork, deferred, call, failed, raced>>

LinkLost ==
  /\ link \in {"up", "closing"} /\ told
  /\ link' = "down"
  /\ UNCHANGED <<active, adv, told, conn, advWork, deferred, call, failed, raced>>

\* disconnected(), and recycled_cb() right after it.
Disconnected ==
  /\ link = "down" /\ told
  /\ link' = "none" /\ told' = FALSE
  /\ conn' = FALSE
  /\ advWork' = TRUE
  /\ UNCHANGED <<active, adv, deferred, call, failed, raced>>

-----------------------------------------------------------------------------
Progress ==
  \/ \E r \in Runners : StopTest(r) \/ AdvStop(r) \/ CloseConn(r)
                        \/ RestartTest(r) \/ AdvStart(r)
  \/ AdvWork \/ Connected \/ Disconnected
  \/ link = "closing" /\ LinkLost

RadioNext ==
  \/ Progress
  \/ \E r \in RadioCallers : Call(r) \/ StopWork(r)
  \/ StopDeferred \/ LinkMade \/ LinkLost

RadioSpec == RadioInit /\ [][RadioNext]_radioVars

-----------------------------------------------------------------------------
(* Properties *)

RadioSettled ==
  /\ \A r \in Runners : call[r] = "idle"
  /\ ~advWork /\ link \in {"none", "up"} /\ (link = "up" => told)

\* "Disable BLE radio during active logging": stopped and settled, the device
\* neither advertises nor keeps a link; restarted and settled, a phone can find
\* it or is connected.  Except when a link was just being made, or advertising
\* restarted, as the stop came (ble_mcumgr.c:282); and except for what a failed
\* call of the stack leaves, until the next call of the same function.  After a
\* failed start ble_radio_active says that the radio is on, so that only a stop
\* and another restart bring the next (ble_mcumgr.c:319-333).
RadioFollows ==
  RadioSettled /\ ~raced =>
    IF active
    THEN adv \/ link = "up" \/ "adv_start" \in failed
    ELSE \/ "adv_stop" \in failed
         \/ ~adv /\ (link = "none" \/ "disconnect" \in failed)
=============================================================================
