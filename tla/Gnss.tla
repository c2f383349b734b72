--------------------------------- MODULE Gnss ---------------------------------
(***************************************************************************)
(* Commands to the GNSS receiver (services/gnss_m10q.c): gnss_set_rate()   *)
(* sends two UBX-CFG-MSG commands through ubx_send_with_retry(), each of   *)
(* which waits for the end of its transmission and for an acknowledgement, *)
(* then UBX-CFG-RATE without waiting for one.  Several threads call it     *)
(* (logger_start, logger_jumped, a landing), and all share uart_tx_state   *)
(* and ubx_ack_state, which no lock protects.                              *)
(*                                                                         *)
(* k_sem_reset() makes every thread waiting for the semaphore give up with *)
(* an error; k_sem_give() hands the token to a waiting thread if there is  *)
(* one.  The driver has one transmission under way at a time.              *)
(***************************************************************************)
EXTENDS Integers, Sequences

CONSTANTS
  Callers,    \* threads that call gnss_set_rate()
  Hz,         \* the rates they ask for; at 1 Hz GSA and RMC are on, else off
  Retries,    \* max_retries of ubx_send_with_retry()
  MaxCalls,   \* bound: calls of gnss_set_rate() in a behaviour
  MaxFaults,  \* bound: commands aborted, lost or refused in a behaviour
  MaxAnswers  \* bound: acknowledgements under way at once

Nobody == "nobody"

ASSUME CommandAssumption ==
  /\ Nobody \notin Callers
  /\ 1 \in Hz /\ Hz \subseteq Nat
  /\ Retries \in Nat

VARIABLES
  pc,         \* caller: where it is in gnss_set_rate() and what it calls
  hz,         \* caller: rate_hz
  msg,        \* caller: the message it configures, "gsa" or "rmc"
  attempt,    \* caller: attempt
  tx,         \* the command the UART driver transmits, or Silence
  txDone,     \* uart_tx_state.done
  txResult,   \* uart_tx_state.result
  ack,        \* ubx_ack_state.sem
  nak,        \* ubx_ack_state.nak_received
  waiting,    \* ubx_ack_state.waiting_class and waiting_id
  rx,         \* GNSS thread: in ubx_handle_message(), about to give the token
  answers,    \* receiver: acknowledgements on their way to the GNSS thread
  config,     \* receiver: the rate each of its settings has been set for
  calls,      \* history: calls begun
  applied,    \* history: the command a caller sent last has been applied
  wanted,     \* history: rate of the call begun last
  alone,      \* history: no two calls have overlapped
  prompt,     \* history: alone, and no wait gave up while its answer was to come
  faults      \* history: commands aborted, lost or refused

callerVars   == <<hz, msg, attempt>>
doneVars     == <<txDone, txResult>>
ackVars      == <<ack, nak, waiting>>
receiverVars == <<answers, config, applied>>
callVars     == <<calls, wanted, alone>>
vars == <<pc, callerVars, tx, doneVars, ackVars, rx, receiverVars,
          callVars, prompt, faults>>

Settings == {"gsa", "rmc", "rate"}

\* A command: the setting, the rate it is set for, and who sent it.
Commands == [what : Settings, hz : Hz, by : Callers]
Silence  == [what |-> "none", hz |-> 0, by |-> Nobody]

\* The message id an acknowledgement repeats.
IdOf(what) == IF what = "rate" THEN "rate" ELSE "msg"

Goto(t, step) == pc' = [pc EXCEPT ![t] = step]

\* k_sem_reset() by t, which goes on at `step`: waiting threads give up.
ResetSem(t, step, wait) ==
  pc' = [u \in Callers |-> IF u = t THEN step
                           ELSE IF pc[u] = wait THEN "failed" ELSE pc[u]]

\* k_sem_give(): a thread at `wait` goes on at `step`, or the token is kept.
GiveSem(sem, wait, step) ==
  LET waiters == {t \in Callers : pc[t] = wait}
  IN  IF waiters = {} THEN sem' = TRUE /\ UNCHANGED pc
                      ELSE /\ \E t \in waiters : Goto(t, step)
                           /\ UNCHANGED sem

-----------------------------------------------------------------------------
(* gnss_set_rate() *)

SetRate(t, h) ==
  /\ pc[t] = "idle"
  /\ calls < MaxCalls
  /\ calls' = calls + 1
  /\ wanted' = h
  /\ alone' = (alone /\ \A u \in Callers : pc[u] = "idle")
  /\ prompt' = (prompt /\ alone')
  /\ hz' = [hz EXCEPT ![t] = h]
  /\ msg' = [msg EXCEPT ![t] = "gsa"]
  /\ attempt' = [attempt EXCEPT ![t] = 0]
  /\ Goto(t, "resetAck")
  /\ UNCHANGED <<tx, doneVars, ackVars, rx, receiverVars, faults>>

\* What follows a message, configured or not: the other message, or the rate.
NextMessage(t) ==
  IF msg[t] = "gsa"
  THEN /\ msg' = [msg EXCEPT ![t] = "rmc"]
       /\ attempt' = [attempt EXCEPT ![t] = 0]
       /\ Goto(t, "resetAck")
       /\ UNCHANGED hz
  ELSE Goto(t, "rate") /\ UNCHANGED callerVars

\* Mutant: gnss_set_rate() returns at the first message that fails.
FailedForGood(t) ==
  /\ pc[t] = "failed"
  /\ IF attempt[t] < Retries
     THEN /\ attempt' = [attempt EXCEPT ![t] = @ + 1]
          /\ Goto(t, "pause")
     ELSE Goto(t, "idle") /\ UNCHANGED attempt
  /\ UNCHANGED <<hz, msg, tx, doneVars, ackVars, rx, receiverVars, callVars,
                 prompt, faults>>

\* ubx_send_with_retry(), after an attempt that failed.
Failed(t) ==
  /\ pc[t] = "failed"
  /\ IF attempt[t] < Retries
     THEN /\ attempt' = [attempt EXCEPT ![t] = @ + 1]
          /\ Goto(t, "pause")
          /\ UNCHANGED <<hz, msg>>
     ELSE NextMessage(t)
  /\ UNCHANGED <<tx, doneVars, ackVars, rx, receiverVars, callVars, prompt,
                 faults>>

\* It sleeps 50 ms, longer than a command takes to transmit.
Resume(t) ==
  /\ pc[t] = "pause"
  /\ tx.by # t
  /\ Goto(t, "resetAck")
  /\ UNCHANGED <<callerVars, tx, doneVars, ackVars, rx, receiverVars,
                 callVars, prompt, faults>>

\* uart_tx(): refused while another transmission is under way.
Transmit(t, what, started, refused) ==
  IF tx = Silence
  THEN /\ tx' = [what |-> what, hz |-> hz[t], by |-> t]
       /\ applied' = [applied EXCEPT ![t] = FALSE]
       /\ Goto(t, started)
  ELSE Goto(t, refused) /\ UNCHANGED <<tx, applied>>

\* UBX-CFG-RATE, handed to the driver directly; refused, the call returns.
SendRate(t) ==
  /\ pc[t] = "rate"
  /\ Transmit(t, "rate", "settle", "idle")
  /\ UNCHANGED <<callerVars, doneVars, ackVars, rx, answers, config, callVars, prompt,
                 faults>>

\* 100 ms later the call returns.
Settle(t) ==
  /\ pc[t] = "settle"
  /\ tx.by # t
  /\ Goto(t, "idle")
  /\ UNCHANGED <<callerVars, tx, doneVars, ackVars, rx, receiverVars,
                 callVars, prompt, faults>>

-----------------------------------------------------------------------------
(* ubx_send_with_ack() and uart_tx_wait() *)

ResetAck(t) ==
  /\ pc[t] = "resetAck"
  /\ ack' = FALSE
  /\ ResetSem(t, "arm", "ackWait")
  /\ UNCHANGED <<callerVars, tx, doneVars, nak, waiting, rx, receiverVars,
                 callVars, prompt, faults>>

Arm(t) ==
  /\ pc[t] = "arm"
  /\ nak' = FALSE
  /\ waiting' = "msg"
  /\ Goto(t, "resetDone")
  /\ UNCHANGED <<callerVars, tx, doneVars, ack, rx, receiverVars, callVars,
                 prompt, faults>>

\* Mutant: the token of an earlier transmission is kept.
KeepDone(t) ==
  /\ pc[t] = "resetDone"
  /\ txResult' = "busy"
  /\ Goto(t, "send")
  /\ UNCHANGED <<callerVars, tx, txDone, ackVars, rx, receiverVars, callVars,
                 prompt, faults>>

ResetDone(t) ==
  /\ pc[t] = "resetDone"
  /\ txDone' = FALSE
  /\ txResult' = "busy"
  /\ ResetSem(t, "send", "txWait")
  /\ UNCHANGED <<callerVars, tx, ackVars, rx, receiverVars, callVars, prompt,
                 faults>>

Send(t) ==
  /\ pc[t] = "send"
  /\ Transmit(t, msg[t], "takeDone", "failed")
  /\ UNCHANGED <<callerVars, doneVars, ackVars, rx, answers, config, callVars, prompt,
                 faults>>

TakeDone(t) ==
  /\ pc[t] = "takeDone"
  /\ txDone' = FALSE
  /\ Goto(t, IF txDone THEN "txEnd" ELSE "txWait")
  /\ UNCHANGED <<callerVars, tx, txResult, ackVars, rx, receiverVars, callVars,
                 prompt, faults>>

\* 500 ms, longer than a command takes to transmit.
TxTimeout(t) ==
  /\ pc[t] = "txWait"
  /\ tx.by # t
  /\ Goto(t, "failed")
  /\ UNCHANGED <<callerVars, tx, doneVars, ackVars, rx, receiverVars,
                 callVars, prompt, faults>>

TxEnd(t) ==
  /\ pc[t] = "txEnd"
  /\ Goto(t, IF txResult = "ok" THEN "takeAck" ELSE "failed")
  /\ UNCHANGED <<callerVars, tx, doneVars, ackVars, rx, receiverVars,
                 callVars, prompt, faults>>

TakeAck(t) ==
  /\ pc[t] = "takeAck"
  /\ ack' = FALSE
  /\ Goto(t, IF ack THEN "ackEnd" ELSE "ackWait")
  /\ UNCHANGED <<callerVars, tx, doneVars, nak, waiting, rx, receiverVars,
                 callVars, prompt, faults>>

\* An answer to a UBX-CFG-MSG command may still come.
Outstanding ==
  \/ rx = "give"
  \/ tx # Silence /\ tx.what # "rate"
  \/ \E i \in 1..Len(answers) : answers[i].id = "msg"

\* UBX_ACK_TIMEOUT_MS.
AckTimeout(t) ==
  /\ pc[t] = "ackWait"
  /\ Goto(t, "failed")
  /\ prompt' = (prompt /\ ~Outstanding)
  /\ UNCHANGED <<callerVars, tx, doneVars, ackVars, rx, receiverVars,
                 callVars, faults>>

AckEnd(t) ==
  /\ pc[t] = "ackEnd"
  /\ IF nak THEN Goto(t, "failed") /\ UNCHANGED callerVars ELSE NextMessage(t)
  /\ UNCHANGED <<tx, doneVars, ackVars, rx, receiverVars, callVars, prompt,
                 faults>>

-----------------------------------------------------------------------------
(* The UART interrupt, the receiver and the GNSS thread *)

Fault == faults < MaxFaults /\ faults' = faults + 1

\* An acknowledgement sets out; of those under way at most MaxAnswers arrive.
Answer(ok) ==
  answers' = IF Len(answers) < MaxAnswers
             THEN Append(answers, [id |-> IdOf(tx.what), ok |-> ok]) ELSE answers

\* The receiver has a command: it applies it, refuses it, or finds it damaged.
Receive ==
  \/ /\ config' = [config EXCEPT ![tx.what] = tx.hz]
     /\ applied' = [applied EXCEPT ![tx.by] = TRUE]
     /\ Answer(TRUE)
     /\ UNCHANGED faults
  \/ Fault /\ Answer(FALSE) /\ UNCHANGED <<config, applied>>
  \/ Fault /\ UNCHANGED receiverVars

\* UART_TX_DONE, or UART_TX_ABORTED.
TxDone ==
  /\ tx # Silence
  /\ tx' = Silence
  /\ \/ txResult' = "ok" /\ Receive
     \/ txResult' = "io" /\ Fault /\ UNCHANGED receiverVars
  /\ GiveSem(txDone, "txWait", "txEnd")
  /\ UNCHANGED <<callerVars, ackVars, rx, callVars, prompt>>

\* Mutant: the id is not compared.
MatchAny ==
  /\ rx = "idle"
  /\ answers # <<>>
  /\ answers' = Tail(answers)
  /\ nak' = (nak \/ ~Head(answers).ok)
  /\ rx' = "give"
  /\ UNCHANGED <<pc, callerVars, tx, doneVars, ack, waiting, config, applied,
                 callVars, prompt, faults>>

\* ubx_handle_message(): an acknowledgement for what is being waited for is
\* noted and the token given; another, or a damaged one, is passed over.
HandleMessage ==
  /\ rx = "idle"
  /\ answers # <<>>
  /\ answers' = Tail(answers)
  /\ \/ /\ Head(answers).id = waiting
        /\ nak' = (nak \/ ~Head(answers).ok)
        /\ rx' = "give"
     \/ UNCHANGED <<nak, rx>>
  /\ UNCHANGED <<pc, callerVars, tx, doneVars, ack, waiting, config, applied,
                 callVars, prompt, faults>>

GiveAck ==
  /\ rx = "give"
  /\ rx' = "idle"
  /\ GiveSem(ack, "ackWait", "ackEnd")
  /\ UNCHANGED <<callerVars, tx, doneVars, nak, waiting, receiverVars,
                 callVars, prompt, faults>>

-----------------------------------------------------------------------------
\* After the gnss_set_rate(1) of the boot, the last command of which nobody has
\* waited for: its token is still there.
Init ==
  /\ pc = [t \in Callers |-> "idle"]
  /\ hz = [t \in Callers |-> 1]
  /\ msg = [t \in Callers |-> "gsa"]
  /\ attempt = [t \in Callers |-> 0]
  /\ applied = [t \in Callers |-> FALSE]
  /\ tx = Silence /\ txDone = TRUE /\ txResult = "ok"
  /\ ack = FALSE /\ nak = FALSE /\ waiting = "msg" /\ rx = "idle"
  /\ answers = <<>>
  /\ config = [what \in Settings |-> 1]
  /\ calls = 0 /\ wanted = 1
  /\ alone = TRUE /\ prompt = TRUE /\ faults = 0

CallStep(t) ==
  \/ Failed(t) \/ Resume(t) \/ SendRate(t) \/ Settle(t)
  \/ ResetAck(t) \/ Arm(t) \/ ResetDone(t) \/ Send(t)
  \/ TakeDone(t) \/ TxTimeout(t) \/ TxEnd(t)
  \/ TakeAck(t) \/ AckTimeout(t) \/ AckEnd(t)

Next ==
  \/ \E t \in Callers : CallStep(t) \/ \E h \in Hz : SetRate(t, h)
  \/ TxDone \/ HandleMessage \/ GiveAck

Spec == Init /\ [][Next]_vars

-----------------------------------------------------------------------------
(* Properties *)

Steps == {"idle", "failed", "pause", "rate", "settle", "resetAck", "arm", "resetDone",
          "send", "takeDone", "txWait", "txEnd", "takeAck", "ackWait", "ackEnd"}

TypeCaller ==
  /\ pc \in [Callers -> Steps]
  /\ hz \in [Callers -> Hz]
  /\ msg \in [Callers -> {"gsa", "rmc"}]
  /\ attempt \in [Callers -> 0..Retries]

TypeUart ==
  /\ tx \in Commands \cup {Silence} /\ applied \in [Callers -> BOOLEAN]
  /\ txDone \in BOOLEAN /\ txResult \in {"ok", "busy", "io"}

TypeAck ==
  /\ ack \in BOOLEAN /\ nak \in BOOLEAN /\ waiting \in {"msg", "rate"}
  /\ rx \in {"idle", "give"}

TypeReceiver ==
  /\ answers \in Seq([id : {"msg", "rate"}, ok : BOOLEAN])
  /\ config \in [Settings -> Hz]

TypeHistory ==
  /\ calls \in Nat /\ wanted \in Hz /\ faults \in Nat
  /\ alone \in BOOLEAN /\ prompt \in BOOLEAN

\* Types, and the number of attempts.
TypeOK == TypeCaller /\ TypeUart /\ TypeAck /\ TypeReceiver /\ TypeHistory

\* The driver reads a command from a local array of ubx_send_with_ack() or of
\* gnss_set_rate() until the transmission is over.  While calls do not overlap,
\* the function that owns the array has not returned by then: no token left by
\* an earlier transmission ends the wait too soon.
BufferLive ==
  alone => \A t \in Callers : tx.by = t =>
    IF tx.what = "rate" THEN pc[t] = "settle" ELSE pc[t] \in {"takeDone", "txWait"}

\* An acknowledgement carries the class and id of its command only, and both
\* messages and every attempt have the same.  While calls do not overlap and no
\* answer comes after its wait, a command that is reported as acknowledged has
\* been applied, whatever answers of UBX-CFG-RATE are under way.
AckedApplied ==
  alone /\ prompt =>
    \A t \in Callers : pc[t] = "ackEnd" /\ ~nak => applied[t]

\* Timeouts, late answers and repeated commands do not spoil the configuration:
\* calls that do not overlap leave the receiver as the last of them wanted it,
\* unless a command itself was lost.
Configured ==
  alone /\ faults = 0 /\ tx = Silence /\ (\A t \in Callers : pc[t] = "idle")
    => \A what \in Settings : config[what] = wanted
=============================================================================
