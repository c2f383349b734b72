------------------------------ MODULE GnssProofs ------------------------------
(***************************************************************************)
(* Theorems about Gnss, for every set of callers and rates, any number of  *)
(* retries and every order of interrupts, answers and timeouts: the types; *)
(* and, while calls do not overlap, that the array a command is            *)
(* transmitted from outlives its transmission, that an acknowledgement     *)
(* says the truth, and that a call leaves the receiver as it was asked.    *)
(***************************************************************************)
EXTENDS Gnss, SequenceTheorems, TLAPS

(* Types, one part of TypeOK at a time *)

LEMMA ZeroAttempt == 0 \in 0..Retries
  BY CommandAssumption

LEMMA InitType == Init => TypeOK
<1> SUFFICES ASSUME Init PROVE TypeOK
  OBVIOUS
<1>1. TypeCaller
  BY ZeroAttempt, CommandAssumption DEF Init, TypeCaller, Steps
<1>2. TypeUart
  BY DEF Init, TypeUart
<1>3. TypeAck
  BY DEF Init, TypeAck
<1>4. TypeReceiver
  BY CommandAssumption DEF Init, TypeReceiver
<1>5. TypeHistory
  BY CommandAssumption DEF Init, TypeHistory
<1> QED
  BY <1>1, <1>2, <1>3, <1>4, <1>5 DEF TypeOK

\* What the operators on pc leave behind.
LEMMA GotoSteps ==
  ASSUME TypeCaller, NEW t, NEW step \in Steps, Goto(t, step)
  PROVE  pc' \in [Callers -> Steps]
  BY DEF TypeCaller, Goto

LEMMA ResetSteps ==
  ASSUME TypeCaller, NEW t, NEW step \in Steps, NEW wait, ResetSem(t, step, wait)
  PROVE  pc' \in [Callers -> Steps]
  BY DEF TypeCaller, ResetSem, Steps

LEMMA NextMessageType ==
  ASSUME TypeCaller, NEW t \in Callers, NextMessage(t)
  PROVE  TypeCaller'
<1>1. Goto(t, "resetAck") \/ Goto(t, "rate")
  BY DEF NextMessage
<1>2. pc' \in [Callers -> Steps]
  BY <1>1, GotoSteps DEF Steps
<1> QED
  BY <1>2, ZeroAttempt DEF NextMessage, TypeCaller, callerVars

LEMMA StepTypeCaller == TypeOK /\ [Next]_vars => TypeCaller'
<1> SUFFICES ASSUME TypeOK, [Next]_vars PROVE TypeCaller'
  OBVIOUS
<1>0. TypeCaller
  BY DEF TypeOK
<1>1. ASSUME NEW t \in Callers, NEW h \in Hz, SetRate(t, h) PROVE TypeCaller'
  <2>1. pc' \in [Callers -> Steps]
    BY <1>0, <1>1, GotoSteps DEF SetRate, Steps
  <2>2. hz' \in [Callers -> Hz] /\ msg' \in [Callers -> {"gsa", "rmc"}]
    BY <1>0, <1>1 DEF SetRate, TypeCaller
  <2>3. attempt' \in [Callers -> 0..Retries]
    BY <1>0, <1>1, ZeroAttempt DEF SetRate, TypeCaller
  <2> QED
    BY <2>1, <2>2, <2>3 DEF TypeCaller
<1>2. ASSUME NEW t \in Callers, Failed(t) PROVE TypeCaller'
  <2>1. CASE attempt[t] < Retries
    <3>1. pc' \in [Callers -> Steps]
      BY <1>0, <1>2, <2>1, GotoSteps DEF Failed, Steps
    <3>2. attempt[t] + 1 \in 0..Retries
      BY <1>0, <2>1, CommandAssumption DEF TypeCaller
    <3> QED
      BY <1>0, <1>2, <2>1, <3>1, <3>2 DEF Failed, TypeCaller
  <2>2. CASE ~(attempt[t] < Retries)
    BY <1>0, <1>2, <2>2, NextMessageType DEF Failed
  <2> QED
    BY <2>1, <2>2
<1>3. ASSUME NEW t \in Callers, AckEnd(t) PROVE TypeCaller'
  <2>1. CASE nak
    <3>1. pc' \in [Callers -> Steps]
      BY <1>0, <1>3, <2>1, GotoSteps DEF AckEnd, Steps
    <3> QED
      BY <1>0, <1>3, <2>1, <3>1 DEF AckEnd, TypeCaller, callerVars
  <2>2. CASE ~nak
    BY <1>0, <1>3, <2>2, NextMessageType DEF AckEnd
  <2> QED
    BY <2>1, <2>2
<1>4. ASSUME NEW t \in Callers,
             Resume(t) \/ SendRate(t) \/ Settle(t) \/ Arm(t) \/ Send(t) \/ TakeDone(t)
               \/ TxTimeout(t) \/ TxEnd(t) \/ TakeAck(t) \/ AckTimeout(t)
      PROVE  TypeCaller'
  <2>1. UNCHANGED callerVars
    BY <1>4 DEF Resume, SendRate, Settle, Arm, Send, TakeDone, TxTimeout, TxEnd, TakeAck,
         AckTimeout
  <2>2. PICK step \in Steps : Goto(t, step)
    BY <1>4 DEF Resume, SendRate, Settle, Arm, Send, TakeDone, TxTimeout, TxEnd, TakeAck,
         AckTimeout, Transmit, Steps
  <2> QED
    BY <1>0, <2>1, <2>2, GotoSteps DEF TypeCaller, callerVars
<1>5. ASSUME NEW t \in Callers, ResetAck(t) \/ ResetDone(t) PROVE TypeCaller'
  <2>1. pc' \in [Callers -> Steps]
    BY <1>0, <1>5, ResetSteps DEF ResetAck, ResetDone, Steps
  <2> QED
    BY <1>0, <1>5, <2>1 DEF ResetAck, ResetDone, TypeCaller, callerVars
<1>6. ASSUME TxDone \/ GiveAck PROVE TypeCaller'
  <2>1. UNCHANGED pc \/ \E t \in Callers, step \in Steps : Goto(t, step)
    BY <1>6 DEF TxDone, GiveAck, GiveSem, Steps
  <2>2. pc' \in [Callers -> Steps]
    BY <1>0, <2>1, GotoSteps DEF TypeCaller
  <2> QED
    BY <1>0, <1>6, <2>2 DEF TxDone, GiveAck, TypeCaller, callerVars
<1>7. ASSUME HandleMessage PROVE TypeCaller'
  BY <1>0, <1>7 DEF HandleMessage, TypeCaller, callerVars
<1>8. ASSUME UNCHANGED vars PROVE TypeCaller'
  BY <1>0, <1>8 DEF vars, TypeCaller, callerVars
<1> QED
  BY <1>1, <1>2, <1>3, <1>4, <1>5, <1>6, <1>7, <1>8 DEF Next, CallStep

LEMMA TransmitType ==
  ASSUME TypeOK, NEW t \in Callers, NEW what \in Settings, NEW step, NEW other,
         Transmit(t, what, step, other)
  PROVE  /\ tx' \in Commands \cup {Silence}
         /\ applied' \in [Callers -> BOOLEAN]
<1>1. [what |-> what, hz |-> hz[t], by |-> t] \in Commands
  BY DEF Commands, TypeOK, TypeCaller
<1>2. /\ tx \in Commands \cup {Silence}
      /\ applied \in [Callers -> BOOLEAN]
  BY DEF TypeOK, TypeUart
<1>3. CASE tx = Silence
  <2>1. /\ tx' = [what |-> what, hz |-> hz[t], by |-> t]
        /\ applied' = [applied EXCEPT ![t] = FALSE]
    BY <1>3 DEF Transmit
  <2> QED
    BY <1>1, <1>2, <2>1
<1>4. CASE tx # Silence
  BY <1>2, <1>4 DEF Transmit
<1> QED
  BY <1>3, <1>4

LEMMA StepTypeUart == TypeOK /\ [Next]_vars => TypeUart'
<1> SUFFICES ASSUME TypeOK, [Next]_vars PROVE TypeUart'
  OBVIOUS
<1>0. TypeUart
  BY DEF TypeOK
<1>1. ASSUME NEW t \in Callers, SendRate(t) \/ Send(t) PROVE TypeUart'
  <2>1. msg[t] \in Settings /\ "rate" \in Settings
    BY DEF TypeOK, TypeCaller, Settings
  <2>2. tx' \in Commands \cup {Silence} /\ applied' \in [Callers -> BOOLEAN]
    BY <1>1, <2>1, TransmitType DEF SendRate, Send
  <2> QED
    BY <1>0, <1>1, <2>2 DEF SendRate, Send, TypeUart, doneVars
<1>2. ASSUME NEW t \in Callers, ResetDone(t) \/ TakeDone(t) PROVE TypeUart'
  BY <1>0, <1>2 DEF ResetDone, TakeDone, TypeUart, receiverVars
<1>3. ASSUME TxDone PROVE TypeUart'
  <2>1. applied' \in [Callers -> BOOLEAN]
    BY <1>0, <1>3 DEF TxDone, Receive, receiverVars, TypeUart
  <2>2. txDone' \in BOOLEAN
    BY <1>0, <1>3 DEF TxDone, GiveSem, TypeUart
  <2> QED
    BY <1>3, <2>1, <2>2 DEF TxDone, TypeUart
<1>4. ASSUME UNCHANGED <<tx, doneVars, applied>> PROVE TypeUart'
  BY <1>0, <1>4 DEF doneVars, TypeUart
<1> QED
  BY <1>1, <1>2, <1>3, <1>4
  DEF Next, CallStep, SetRate, Failed, Resume, Settle, ResetAck, Arm, TxTimeout, TxEnd,
      TakeAck, AckTimeout, AckEnd, HandleMessage, GiveAck, vars, receiverVars

LEMMA StepTypeAck == TypeOK /\ [Next]_vars => TypeAck'
<1> SUFFICES ASSUME TypeOK, [Next]_vars PROVE TypeAck'
  OBVIOUS
<1>0. TypeAck
  BY DEF TypeOK
<1>1. ASSUME NEW t \in Callers, ResetAck(t) \/ Arm(t) \/ TakeAck(t) PROVE TypeAck'
  BY <1>0, <1>1 DEF ResetAck, Arm, TakeAck, TypeAck
<1>2. ASSUME HandleMessage PROVE TypeAck'
  <2>1. nak' = (nak \/ ~Head(answers).ok) \/ nak' = nak
    BY <1>2 DEF HandleMessage
  <2>2. nak' \in BOOLEAN
    BY <1>0, <2>1, Zenon DEF TypeAck
  <2> QED
    BY <1>0, <1>2, <2>2 DEF HandleMessage, TypeAck
<1>3. ASSUME GiveAck PROVE TypeAck'
  BY <1>0, <1>3 DEF GiveAck, GiveSem, TypeAck
<1>4. ASSUME UNCHANGED <<ackVars, rx>> PROVE TypeAck'
  BY <1>0, <1>4 DEF ackVars, TypeAck
<1> QED
  BY <1>1, <1>2, <1>3, <1>4
  DEF Next, CallStep, SetRate, Failed, Resume, SendRate, Settle, ResetDone, Send, TakeDone,
      TxTimeout, TxEnd, AckTimeout, AckEnd, TxDone, vars

LEMMA StepTypeReceiver == TypeOK /\ [Next]_vars => TypeReceiver'
<1> SUFFICES ASSUME TypeOK, [Next]_vars PROVE TypeReceiver'
  OBVIOUS
<1>0. TypeReceiver
  BY DEF TypeOK
<1>1. ASSUME TxDone PROVE TypeReceiver'
  <2>1. tx \in Commands
    BY <1>1 DEF TxDone, TypeOK, TypeUart
  <2>2. ASSUME NEW ok \in BOOLEAN, Answer(ok)
        PROVE  answers' \in Seq([id : {"msg", "rate"}, ok : BOOLEAN])
    <3>1. [id |-> IdOf(tx.what), ok |-> ok] \in [id : {"msg", "rate"}, ok : BOOLEAN]
      BY <2>2 DEF IdOf
    <3> QED
      BY <1>0, <2>2, <3>1, AppendProperties DEF Answer, TypeReceiver
  <2>3. answers' \in Seq([id : {"msg", "rate"}, ok : BOOLEAN])
    BY <1>0, <1>1, <2>2 DEF TxDone, Receive, receiverVars, TypeReceiver
  <2>4. config' \in [Settings -> Hz]
    BY <1>0, <1>1, <2>1 DEF TxDone, Receive, receiverVars, TypeReceiver, Commands
  <2> QED
    BY <2>3, <2>4 DEF TypeReceiver
<1>2. ASSUME HandleMessage PROVE TypeReceiver'
  BY <1>0, <1>2, HeadTailProperties DEF HandleMessage, TypeReceiver
<1>3. ASSUME UNCHANGED <<answers, config>> PROVE TypeReceiver'
  BY <1>0, <1>3 DEF TypeReceiver
<1> QED
  BY <1>1, <1>2, <1>3
  DEF Next, CallStep, SetRate, Failed, Resume, SendRate, Settle, ResetAck, Arm, ResetDone,
      Send, TakeDone, TxTimeout, TxEnd, TakeAck, AckTimeout, AckEnd, GiveAck, vars,
      receiverVars

LEMMA StepTypeHistory == TypeOK /\ [Next]_vars => TypeHistory'
<1> SUFFICES ASSUME TypeOK, [Next]_vars PROVE TypeHistory'
  OBVIOUS
<1>0. TypeHistory
  BY DEF TypeOK
<1>1. ASSUME NEW t \in Callers, NEW h \in Hz, SetRate(t, h) PROVE TypeHistory'
  <2>1. /\ alone' = (alone /\ \A u \in Callers : pc[u] = "idle")
        /\ prompt' = (prompt /\ alone')
    BY <1>1 DEF SetRate
  <2>2. alone' \in BOOLEAN /\ prompt' \in BOOLEAN
    BY <1>0, <2>1, Zenon DEF TypeHistory
  <2>3. calls' \in Nat /\ wanted' \in Hz /\ faults' \in Nat
    BY <1>0, <1>1 DEF SetRate, TypeHistory
  <2> QED
    BY <2>2, <2>3 DEF TypeHistory
<1>2. ASSUME NEW t \in Callers, AckTimeout(t) PROVE TypeHistory'
  <2>1. prompt' = (prompt /\ ~Outstanding)
    BY <1>2 DEF AckTimeout
  <2>2. prompt' \in BOOLEAN
    BY <1>0, <2>1, Zenon DEF TypeHistory
  <2> QED
    BY <1>0, <1>2, <2>2 DEF AckTimeout, callVars, TypeHistory
<1>3. ASSUME TxDone PROVE TypeHistory'
  <2>1. UNCHANGED <<callVars, prompt>>
    BY <1>3 DEF TxDone
  <2>2. faults' = faults \/ faults' = faults + 1
    BY <1>3 DEF TxDone, Receive, Fault
  <2> QED
    BY <1>0, <2>1, <2>2 DEF callVars, TypeHistory
<1>4. ASSUME UNCHANGED <<callVars, prompt, faults>> PROVE TypeHistory'
  BY <1>0, <1>4 DEF callVars, TypeHistory
<1> QED
  BY <1>1, <1>2, <1>3, <1>4
  DEF Next, CallStep, Failed, Resume, SendRate, Settle, ResetAck, Arm, ResetDone,
      Send, TakeDone, TxTimeout, TxEnd, TakeAck, AckEnd, HandleMessage, GiveAck, vars

LEMMA StepType == TypeOK /\ [Next]_vars => TypeOK'
  BY StepTypeCaller, StepTypeUart, StepTypeAck, StepTypeReceiver, StepTypeHistory
  DEF TypeOK

\* Types, for any callers, rates and number of retries: in particular no command
\* is attempted more than Retries + 1 times (ubx_send_with_retry()).
THEOREM TypeCorrect == Spec => []TypeOK
<1>1. Init => TypeOK
  BY InitType
<1>2. TypeOK /\ [Next]_vars => TypeOK'
  BY StepType
<1> QED
  BY <1>1, <1>2, PTL DEF Spec

-----------------------------------------------------------------------------
(* The transmit buffer *)

\* While calls do not overlap one thread at most is in a call,
Sole ==
  alone => \A t, u \in Callers : pc[t] # "idle" /\ pc[u] # "idle" => t = u

\* and the token of uart_tx_state.done is for the transmission it waits for: there
\* is none when the transmission starts, and it appears when that ends.
Stage(t) ==
  /\ tx.by = t => IF tx.what = "rate" THEN pc[t] = "settle"
                                      ELSE pc[t] \in {"takeDone", "txWait"}
  /\ pc[t] = "send" => ~txDone
  /\ pc[t] = "takeDone" => (tx.by = t <=> ~txDone)
  /\ pc[t] = "txWait" => tx.by = t

Staged == alone => \A t \in Callers : Stage(t)

BufferInv == TypeOK /\ Sole /\ Staged

LEMMA InitBuffer == Init => BufferInv
<1> SUFFICES ASSUME Init PROVE BufferInv
  OBVIOUS
<1>1. TypeOK
  BY InitType
<1>2. Sole /\ Staged
  BY CommandAssumption DEF Init, Sole, Staged, Stage, Silence
<1> QED
  BY <1>1, <1>2 DEF BufferInv

\* The thread in a call is alone, and the driver works for it or for nobody.
LEMMA Only ==
  ASSUME BufferInv, alone, NEW t \in Callers, pc[t] # "idle"
  PROVE  /\ \A u \in Callers : u # t => pc[u] = "idle"
         /\ tx = Silence \/ (tx \in Commands /\ tx.by = t)
<1>1. \A u \in Callers : u # t => pc[u] = "idle"
  BY DEF BufferInv, Sole
<1>2. ASSUME tx # Silence PROVE tx \in Commands /\ tx.by = t
  <2>1. tx \in Commands /\ tx.by \in Callers
    BY <1>2 DEF BufferInv, TypeOK, TypeUart, Commands
  <2>2. pc[tx.by] # "idle"
    BY <2>1 DEF BufferInv, Staged, Stage
  <2> QED
    BY <1>1, <2>1, <2>2
<1> QED
  BY <1>1, <1>2

\* k_sem_reset() then disturbs nobody else.
LEMMA ResetAlone ==
  ASSUME BufferInv, alone, NEW t \in Callers, pc[t] # "idle", NEW step, NEW wait,
         wait # "idle", ResetSem(t, step, wait)
  PROVE  Goto(t, step)
<1>1. \A u \in Callers : u # t => pc[u] = "idle"
  BY Only
<1>2. pc' = [u \in Callers |-> IF u = t THEN step ELSE pc[u]]
  BY <1>1 DEF ResetSem
<1> QED
  BY <1>2 DEF Goto, BufferInv, TypeOK, TypeCaller

\* A step of a call moves the caller only.
LEMMA CallMoves ==
  ASSUME BufferInv, alone, NEW t \in Callers, CallStep(t)
  PROVE  /\ pc[t] # "idle" /\ alone' = alone
         /\ \E step \in Steps : Goto(t, step)
<1>1. pc[t] # "idle" /\ alone' = alone
  BY DEF CallStep, Failed, Resume, SendRate, Settle, ResetAck, Arm, ResetDone, Send,
      TakeDone, TxTimeout, TxEnd, TakeAck, AckTimeout, AckEnd, callVars
<1>2. CASE ResetAck(t) \/ ResetDone(t)
  BY <1>1, <1>2, ResetAlone DEF ResetAck, ResetDone, Steps
<1>3. CASE Failed(t) \/ AckEnd(t)
  BY <1>1, <1>3 DEF Failed, AckEnd, NextMessage, Steps
<1>4. CASE Resume(t) \/ SendRate(t) \/ Settle(t) \/ Arm(t) \/ Send(t) \/ TakeDone(t)
             \/ TxTimeout(t) \/ TxEnd(t) \/ TakeAck(t) \/ AckTimeout(t)
  BY <1>1, <1>4 DEF Resume, SendRate, Settle, Arm, Send, TakeDone, TxTimeout, TxEnd, TakeAck,
      AckTimeout, Transmit, Steps
<1> QED
  BY <1>1, <1>2, <1>3, <1>4 DEF CallStep

LEMMA GotoAt ==
  ASSUME TypeOK, NEW t \in Callers, NEW step, Goto(t, step)
  PROVE  pc'[t] = step /\ \A u \in Callers : u # t => pc'[u] = pc[u]
  BY DEF TypeOK, TypeCaller, Goto

LEMMA StepSole == BufferInv /\ [Next]_vars => Sole'
<1> SUFFICES ASSUME BufferInv, [Next]_vars, alone' PROVE Sole'
  BY DEF Sole
<1>0. TypeOK
  BY DEF BufferInv
<1>1. ASSUME NEW t \in Callers, CallStep(t) PROVE Sole'
  <2>1. alone
    BY <1>1 DEF CallStep, Failed, Resume, SendRate, Settle, ResetAck, Arm, ResetDone, Send,
      TakeDone, TxTimeout, TxEnd, TakeAck, AckTimeout, AckEnd, callVars
  <2>2. \A u \in Callers : u # t => pc'[u] = "idle"
    BY <1>0, <1>1, <2>1, CallMoves, Only, GotoAt
  <2> QED
    BY <2>2 DEF Sole
<1>2. ASSUME NEW t \in Callers, NEW h \in Hz, SetRate(t, h) PROVE Sole'
  <2>1. \A u \in Callers : pc[u] = "idle"
    BY <1>2 DEF SetRate
  <2>2. \A u \in Callers : u # t => pc'[u] = "idle"
    BY <1>0, <1>2, <2>1, GotoAt DEF SetRate
  <2> QED
    BY <2>2 DEF Sole
<1>3. ASSUME TxDone \/ GiveAck PROVE Sole'
  <2>1. alone
    BY <1>3 DEF TxDone, GiveAck, callVars
  <2>2. UNCHANGED pc \/ \E t \in Callers, step \in Steps : pc[t] # "idle" /\ Goto(t, step)
    BY <1>3 DEF TxDone, GiveAck, GiveSem, Steps
  <2>3. CASE UNCHANGED pc
    BY <2>1, <2>3 DEF BufferInv, Sole
  <2>4. ASSUME NEW t \in Callers, NEW step \in Steps, pc[t] # "idle", Goto(t, step)
        PROVE  Sole'
    <3>1. \A u \in Callers : u # t => pc'[u] = "idle"
      BY <1>0, <2>1, <2>4, Only, GotoAt
    <3> QED
      BY <3>1 DEF Sole
  <2> QED
    BY <2>2, <2>3, <2>4
<1>4. ASSUME HandleMessage \/ UNCHANGED vars PROVE Sole'
  BY <1>4 DEF HandleMessage, vars, callVars, BufferInv, Sole
<1> QED
  BY <1>1, <1>2, <1>3, <1>4 DEF Next

\* It is enough to look at the thread that moves, if the driver stays with it.
LEMMA StagedBy ==
  ASSUME BufferInv, alone, NEW t \in Callers, pc[t] # "idle", NEW step, Goto(t, step),
         tx' = tx \/ tx'.by = t \/ tx' = Silence, Stage(t)'
  PROVE  Staged'
<1>1. TypeOK
  BY DEF BufferInv
<1>2. tx'.by = t \/ tx'.by = Nobody
  BY Only DEF Silence
<1>3. ASSUME NEW u \in Callers, u # t PROVE Stage(u)'
  <2>1. pc'[u] = "idle"
    BY <1>1, <1>3, Only, GotoAt
  <2>2. tx'.by # u
    BY <1>2, <1>3, CommandAssumption
  <2> QED
    BY <2>1, <2>2 DEF Stage
<1> QED
  BY <1>3 DEF Staged

\* Outside the steps that wait for a transmission there is none.
LEMMA Silent ==
  ASSUME BufferInv, alone, NEW t \in Callers, pc[t] # "idle",
         pc[t] \notin {"takeDone", "txWait", "settle"} \/ tx.by # t
  PROVE  tx = Silence /\ tx.by # t
<1>1. Stage(t)
  BY DEF BufferInv, Staged
<1>2. tx.by # t
  BY <1>1 DEF Stage
<1> QED
  BY <1>2, Only

LEMMA CallStaged ==
  ASSUME BufferInv, alone, NEW t \in Callers, CallStep(t)
  PROVE  Staged'
<1>1. pc[t] # "idle" /\ TypeOK /\ Stage(t)
  BY CallMoves DEF BufferInv, Staged
<1>2. PICK step \in Steps : Goto(t, step)
  BY CallMoves
<1>3. pc'[t] = step
  BY <1>1, <1>2, GotoAt
<1>4. msg[t] # "rate" /\ txDone \in BOOLEAN
  BY <1>1 DEF TypeOK, TypeCaller, TypeUart
<1>5. CASE ResetDone(t)
  <2>1. tx = Silence /\ tx.by # t
    BY <1>1, <1>5, Silent DEF ResetDone
  <2>2. step = "send"
    BY <1>1, <1>3, <1>5 DEF ResetDone, ResetSem, TypeOK, TypeCaller
  <2>3. Stage(t)'
    BY <1>3, <1>5, <2>1, <2>2 DEF ResetDone, Stage
  <2> QED
    BY <1>1, <1>2, <1>5, <2>3, StagedBy DEF ResetDone
<1>6. CASE Send(t)
  <2>1. tx = Silence /\ tx.by # t
    BY <1>1, <1>6, Silent DEF Send
  <2>2. /\ tx' = [what |-> msg[t], hz |-> hz[t], by |-> t]
        /\ Goto(t, "takeDone")
    BY <1>6, <2>1 DEF Send, Transmit
  <2>3. pc'[t] = "takeDone" /\ txDone' = txDone
    BY <1>1, <1>6, <2>2, GotoAt DEF Send, doneVars
  <2>4. Stage(t)'
    BY <1>1, <1>4, <1>6, <2>2, <2>3 DEF Send, Stage
  <2> QED
    BY <1>1, <1>2, <2>2, <2>4, StagedBy
<1>7. CASE SendRate(t)
  <2>1. tx = Silence /\ tx.by # t
    BY <1>1, <1>7, Silent DEF SendRate
  <2>2. /\ tx' = [what |-> "rate", hz |-> hz[t], by |-> t]
        /\ Goto(t, "settle")
    BY <1>7, <2>1 DEF SendRate, Transmit
  <2>3. pc'[t] = "settle"
    BY <1>1, <2>2, GotoAt
  <2>4. Stage(t)'
    BY <2>2, <2>3 DEF Stage
  <2> QED
    BY <1>1, <1>2, <2>2, <2>4, StagedBy
<1>8. CASE TakeDone(t)
  <2>1. pc'[t] = (IF txDone THEN "txEnd" ELSE "txWait") /\ tx' = tx
    BY <1>1, <1>8, GotoAt DEF TakeDone
  <2>2. tx.by = t <=> ~txDone
    BY <1>1, <1>8 DEF TakeDone, Stage
  <2>3. tx.by = t => tx.what # "rate"
    BY <1>1, <1>8 DEF TakeDone, Stage
  <2>4. Stage(t)'
    BY <1>4, <2>1, <2>2, <2>3 DEF Stage
  <2> QED
    BY <1>1, <1>2, <2>1, <2>4, StagedBy
<1>9. CASE \/ Failed(t) \/ Resume(t) \/ Settle(t) \/ ResetAck(t) \/ Arm(t) \/ TxTimeout(t)
          \/ TxEnd(t) \/ TakeAck(t) \/ AckTimeout(t) \/ AckEnd(t)
  <2>1. /\ pc[t] \notin {"takeDone", "txWait", "settle"} \/ tx.by # t
        /\ UNCHANGED tx
    BY <1>9 DEF Failed, Resume, Settle, ResetAck, Arm, TxTimeout, TxEnd, TakeAck, AckTimeout,
        AckEnd
  <2>2. tx.by # t
    BY <1>1, <2>1, Silent
  <2>3. pc'[t] \notin {"send", "takeDone", "txWait"}
    BY <1>1, <1>9, GotoAt
    DEF Failed, Resume, Settle, ResetAck, Arm, TxTimeout, TxEnd, TakeAck, AckTimeout, AckEnd,
        NextMessage, ResetSem, TypeOK, TypeCaller
  <2>4. Stage(t)'
    BY <2>1, <2>2, <2>3 DEF Stage
  <2> QED
    BY <1>1, <1>2, <2>1, <2>4, StagedBy
<1> QED
  BY <1>5, <1>6, <1>7, <1>8, <1>9 DEF CallStep

\* The end of a transmission finds its caller waiting, or about to.
LEMMA DoneMoves ==
  ASSUME BufferInv, alone, TxDone
  PROVE  \E t \in Callers :
           /\ tx.by = t /\ tx \in Commands /\ pc[t] \in {"settle", "takeDone", "txWait"}
           /\ pc[t] = "settle" <=> tx.what = "rate"
           /\ IF pc[t] = "txWait" THEN Goto(t, "txEnd") /\ UNCHANGED txDone
                                  ELSE UNCHANGED pc /\ txDone' = TRUE
<1>1. tx \in Commands /\ tx.by \in Callers
  BY DEF TxDone, BufferInv, TypeOK, TypeUart, Commands
<1>2. PICK t \in Callers : tx.by = t
  BY <1>1
<1>3. /\ pc[t] \in {"settle", "takeDone", "txWait"}
      /\ pc[t] = "settle" <=> tx.what = "rate"
  BY <1>2 DEF BufferInv, Staged, Stage
<1>4. \A u \in Callers : u # t => pc[u] = "idle"
  BY <1>3, Only
<1>5. CASE pc[t] = "txWait"
  <2>1. {u \in Callers : pc[u] = "txWait"} = {t}
    BY <1>4, <1>5
  <2> QED
    BY <1>1, <1>2, <1>3, <1>5, <2>1 DEF TxDone, GiveSem
<1>6. CASE pc[t] # "txWait"
  <2>1. {u \in Callers : pc[u] = "txWait"} = {}
    BY <1>4, <1>6
  <2> QED
    BY <1>1, <1>2, <1>3, <1>6, <2>1 DEF TxDone, GiveSem
<1> QED
  BY <1>5, <1>6

LEMMA DoneStaged ==
  ASSUME BufferInv, alone, TxDone PROVE Staged'
<1>1. PICK t \in Callers :
         /\ tx.by = t /\ tx \in Commands /\ pc[t] \in {"settle", "takeDone", "txWait"}
         /\ pc[t] = "settle" <=> tx.what = "rate"
         /\ IF pc[t] = "txWait" THEN Goto(t, "txEnd") /\ UNCHANGED txDone
                                ELSE UNCHANGED pc /\ txDone' = TRUE
  BY DoneMoves
<1>2. tx' = Silence /\ TypeOK
  BY DEF TxDone, BufferInv
<1>3. \A u \in Callers : tx'.by # u
  BY <1>2, CommandAssumption DEF Silence
<1>4. \A u \in Callers : u # t => pc[u] = "idle"
  BY <1>1, Only
<1>5. \A u \in Callers : u # t => pc'[u] = "idle"
  BY <1>1, <1>2, <1>4, GotoAt
<1>6. pc'[t] \in {"settle", "takeDone", "txEnd"} /\ (pc'[t] = "takeDone" => txDone')
  BY <1>1, <1>2, GotoAt
<1> QED
  BY <1>3, <1>5, <1>6 DEF Staged, Stage

LEMMA GiveMoves ==
  ASSUME BufferInv, GiveAck
  PROVE  \/ UNCHANGED pc /\ ack' = TRUE /\ \A u \in Callers : pc[u] # "ackWait"
         \/ \E t \in Callers : pc[t] = "ackWait" /\ Goto(t, "ackEnd") /\ UNCHANGED ack
  BY DEF GiveAck, GiveSem

LEMMA StepStaged == BufferInv /\ [Next]_vars => Staged'
<1> SUFFICES ASSUME BufferInv, [Next]_vars, alone' PROVE Staged'
  BY DEF Staged
<1>0. TypeOK
  BY DEF BufferInv
<1>1. ASSUME NEW t \in Callers, CallStep(t) PROVE Staged'
  <2>1. alone
    BY <1>1 DEF CallStep, Failed, Resume, SendRate, Settle, ResetAck, Arm, ResetDone, Send,
      TakeDone, TxTimeout, TxEnd, TakeAck, AckTimeout, AckEnd, callVars
  <2> QED
    BY <1>1, <2>1, CallStaged
<1>2. ASSUME NEW t \in Callers, NEW h \in Hz, SetRate(t, h) PROVE Staged'
  <2>1. alone /\ \A u \in Callers : pc[u] = "idle"
    BY <1>2 DEF SetRate
  <2>2. \A u \in Callers : tx.by # u
    BY <2>1 DEF BufferInv, Staged, Stage
  <2>3. \A u \in Callers : pc'[u] \in {"idle", "resetAck"}
    BY <1>0, <1>2, <2>1, GotoAt DEF SetRate
  <2>4. UNCHANGED tx
    BY <1>2 DEF SetRate
  <2> QED
    BY <2>2, <2>3, <2>4 DEF Staged, Stage
<1>3. CASE TxDone
  BY <1>3, DoneStaged DEF TxDone, callVars
<1>4. CASE GiveAck
  <2>1. alone /\ UNCHANGED <<tx, txDone>>
    BY <1>4 DEF GiveAck, callVars, doneVars
  <2>2. CASE UNCHANGED pc
    BY <2>1, <2>2 DEF BufferInv, Staged, Stage
  <2>3. ASSUME NEW t \in Callers, pc[t] = "ackWait", Goto(t, "ackEnd") PROVE Staged'
    <3>1. tx.by # t
      BY <2>1, <2>3, Silent
    <3>2. pc'[t] = "ackEnd"
      BY <1>0, <2>3, GotoAt
    <3>3. Stage(t)'
      BY <2>1, <3>1, <3>2 DEF Stage
    <3> QED
      BY <2>1, <2>3, <3>3, StagedBy
  <2> QED
    BY <1>4, <2>2, <2>3, GiveMoves
<1>5. CASE HandleMessage \/ UNCHANGED vars
  <2>1. alone /\ UNCHANGED <<pc, tx, txDone>>
    BY <1>5 DEF HandleMessage, vars, callVars, doneVars
  <2> QED
    BY <2>1 DEF BufferInv, Staged, Stage
<1> QED
  BY <1>1, <1>2, <1>3, <1>4, <1>5 DEF Next

LEMMA StepBuffer == BufferInv /\ [Next]_vars => BufferInv'
  BY StepType, StepSole, StepStaged DEF BufferInv

LEMMA BufferInvLive == BufferInv => BufferLive
  BY DEF BufferInv, Staged, Stage, BufferLive

\* While calls do not overlap, the local array that ubx_send_with_ack() or
\* gnss_set_rate() hands to the driver is still there while the driver reads it.
THEOREM BufferOutlives == Spec => []BufferLive
<1>1. Init => BufferInv
  BY InitBuffer
<1>2. BufferInv /\ [Next]_vars => BufferInv'
  BY StepBuffer
<1>3. BufferInv => BufferLive
  BY BufferInvLive
<1> QED
  BY <1>1, <1>2, <1>3, PTL DEF Spec

-----------------------------------------------------------------------------
(* What an acknowledgement says *)

\* Of the acknowledgements under way none, or at most one, is of a UBX-CFG-MSG
\* command, the kind that is waited for.
NoMsg  == \A i \in 1..Len(answers) : answers[i].id # "msg"
OneMsg == \A i, j \in 1..Len(answers) : answers[i].id = "msg" /\ answers[j].id = "msg" => i = j

NoneComing == rx = "idle" /\ NoMsg /\ (tx = Silence \/ tx.what = "rate")

\* The steps of ubx_send_with_ack() between the start of the transmission and
\* the end of the wait for its acknowledgement.
Expecting == {"takeDone", "txWait", "txEnd", "takeAck", "ackWait"}

\* The command is on its way, or an answer to it, or the token of that answer:
\* at most one of these, and what says yes is true.
OneAnswer(t) ==
  /\ tx.by = t => rx = "idle" /\ NoMsg /\ ~ack
  /\ rx = "give" => NoMsg /\ ~ack
  /\ ack => NoMsg
  /\ OneMsg
  /\ \A i \in 1..Len(answers) : answers[i].id = "msg" /\ answers[i].ok => applied[t]
  /\ (rx = "give" \/ ack) /\ ~nak => applied[t]

AckStage(t) ==
  /\ pc[t] \notin Expecting => NoneComing
  /\ pc[t] \in {"arm", "resetDone", "send", "ackWait"} => ~ack
  /\ pc[t] \in Expecting => OneAnswer(t)
  /\ pc[t] = "ackEnd" /\ ~nak => applied[t]
  /\ (pc[t] = "txEnd" \/ (pc[t] = "takeDone" /\ txDone)) /\ txResult # "ok" => NoneComing

AckInv ==
  /\ waiting = "msg"
  /\ alone /\ prompt =>
       /\ \A t \in Callers : pc[t] # "idle" => AckStage(t)
       /\ (\A t \in Callers : pc[t] = "idle") => NoneComing

AnswerType == [id : {"msg", "rate"}, ok : BOOLEAN]

\* Taking the first acknowledgement shifts the others.
LEMMA TailMsgs ==
  ASSUME NEW s \in Seq(AnswerType), s # <<>>
  PROVE  /\ Len(s) \in Nat /\ 1 \in 1..Len(s) /\ s[1] = Head(s)
         /\ \A i \in 1..Len(Tail(s)) : i # 0 /\ i + 1 \in 1..Len(s) /\ Tail(s)[i] = s[i + 1]
<1>1. /\ Len(Tail(s)) = Len(s) - 1
      /\ \A i \in 1..Len(Tail(s)) : Tail(s)[i] = s[i + 1]
  BY HeadTailProperties
<1>2. Len(s) \in Nat /\ Len(s) # 0 /\ Head(s) = s[1]
  BY EmptySeq, LenProperties
<1>3. \A n \in Nat : n # 0 => 1 \in 1..n /\ \A i \in 1..(n - 1) : i # 0 /\ i + 1 \in 1..n
  OBVIOUS
<1> QED
  BY <1>1, <1>2, <1>3

\* What HandleMessage does to the acknowledgements that are under way.
LEMMA Handled ==
  ASSUME BufferInv, HandleMessage
  PROVE  /\ Head(answers) \in AnswerType
         /\ NoMsg => NoMsg' /\ Head(answers).id # "msg"
         /\ OneMsg => OneMsg'
         /\ OneMsg /\ Head(answers).id = "msg" => NoMsg'
         /\ \A t \in Callers :
              (\A i \in 1..Len(answers) : answers[i].id = "msg" /\ answers[i].ok => applied[t])
                => /\ \A i \in 1..Len(answers') : answers'[i].id = "msg" /\ answers'[i].ok => applied[t]
                   /\ Head(answers).id = "msg" /\ Head(answers).ok => applied[t]
<1>1. answers \in Seq(AnswerType) /\ answers # <<>> /\ answers' = Tail(answers)
  BY DEF HandleMessage, BufferInv, TypeOK, TypeReceiver, AnswerType
<1>2. /\ Len(answers) \in Nat /\ 1 \in 1..Len(answers) /\ answers[1] = Head(answers)
      /\ \A i \in 1..Len(answers') :
            i # 0 /\ i + 1 \in 1..Len(answers) /\ answers'[i] = answers[i + 1]
  BY <1>1, TailMsgs
<1>3. Head(answers) \in AnswerType
  BY <1>1, HeadTailProperties
<1>4. NoMsg => NoMsg' /\ Head(answers).id # "msg"
  BY <1>2 DEF NoMsg
<1>5. OneMsg => OneMsg'
  <2> SUFFICES ASSUME OneMsg, NEW i \in 1..Len(answers'), NEW j \in 1..Len(answers'),
                      answers'[i].id = "msg", answers'[j].id = "msg"
               PROVE  i = j
    BY DEF OneMsg
  <2>1. i + 1 = j + 1
    BY <1>2 DEF OneMsg
  <2> QED
    BY <2>1
<1>6. OneMsg /\ Head(answers).id = "msg" => NoMsg'
  <2> SUFFICES ASSUME OneMsg, Head(answers).id = "msg", NEW i \in 1..Len(answers'),
                      answers'[i].id = "msg"
               PROVE  FALSE
    BY DEF NoMsg
  <2>1. i + 1 = 1
    BY <1>2 DEF OneMsg
  <2> QED
    BY <1>2, <2>1
<1> QED
  BY <1>2, <1>3, <1>4, <1>5, <1>6

\* An acknowledgement sets out when none of a UBX-CFG-MSG command is under way.
LEMMA Answered ==
  ASSUME BufferInv, tx \in Commands, NEW ok \in BOOLEAN, Answer(ok), NoMsg
  PROVE  /\ OneMsg'
         /\ tx.what = "rate" => NoMsg'
         /\ \A i \in 1..Len(answers') : answers'[i].id = "msg" /\ answers'[i].ok => ok
<1>1. answers \in Seq(AnswerType) /\ Len(answers) \in Nat
  BY DEF BufferInv, TypeOK, TypeReceiver, AnswerType
<1> DEFINE new == [id |-> IdOf(tx.what), ok |-> ok]
<1>2. new \in AnswerType /\ new.ok = ok /\ (tx.what = "rate" => new.id = "rate")
  BY DEF IdOf, AnswerType
<1>3. CASE answers' = answers
  BY <1>3 DEF NoMsg, OneMsg
<1>4. CASE answers' = Append(answers, new)
  <2> HIDE DEF new
  <2>1. /\ Len(answers') = Len(answers) + 1
        /\ \A i \in 1..Len(answers) : answers'[i] = answers[i]
        /\ answers'[Len(answers) + 1] = new
    BY <1>1, <1>2, <1>4, AppendProperties
  <2>2. \A i \in 1..Len(answers') : i \in 1..Len(answers) \/ i = Len(answers) + 1
    BY <1>1, <2>1
  <2>3. \A i \in 1..Len(answers') :
          answers'[i].id = "msg" => i = Len(answers) + 1 /\ answers'[i] = new
    BY <2>1, <2>2 DEF NoMsg
  <2> QED
    BY <1>2, <2>3 DEF NoMsg, OneMsg
<1> QED
  BY <1>3, <1>4 DEF Answer

\* It is enough to look at the thread that moves.
LEMMA AckBy ==
  ASSUME BufferInv, alone, NEW t \in Callers, pc[t] # "idle", NEW step, Goto(t, step),
         waiting' = "msg", AckStage(t)'
  PROVE  AckInv'
<1>1. /\ pc'[t] = step
      /\ \A u \in Callers : u # t => pc'[u] = "idle"
  BY Only, GotoAt DEF BufferInv
<1>2. (\A u \in Callers : pc'[u] = "idle") => NoneComing'
  BY DEF AckStage, Expecting
<1> QED
  BY <1>1, <1>2 DEF AckInv

\* The steps before the command is handed over, and after the wait.
LEMMA AckOutside ==
  ASSUME BufferInv, AckInv, alone, prompt, NEW t \in Callers,
         \/ Failed(t) \/ Resume(t) \/ Settle(t) \/ ResetAck(t) \/ Arm(t) \/ ResetDone(t)
         \/ AckEnd(t)
  PROVE  AckStage(t)'
<1>1. pc[t] # "idle" /\ TypeOK /\ AckStage(t)
  BY DEF Failed, Resume, Settle, ResetAck, Arm, ResetDone, AckEnd, BufferInv, AckInv
<1>2. NoneComing
  BY <1>1 DEF Failed, Resume, Settle, ResetAck, Arm, ResetDone, AckEnd, AckStage, Expecting
<1>3. NoneComing'
  BY <1>2 DEF Failed, Resume, Settle, ResetAck, Arm, ResetDone, AckEnd, NoneComing, NoMsg,
     receiverVars
<1>4. CASE ResetAck(t) \/ ResetDone(t)
  <2>1. /\ ResetAck(t) => pc'[t] = "arm"
        /\ ResetDone(t) => pc'[t] = "send"
    BY <1>1 DEF ResetAck, ResetDone, ResetSem, TypeOK, TypeCaller
  <2>2. ~ack'
    BY <1>1, <1>4 DEF ResetAck, ResetDone, ackVars, AckStage
  <2> QED
    BY <1>3, <1>4, <2>1, <2>2 DEF AckStage, Expecting
<1>5. CASE Arm(t)
  <2>1. pc'[t] = "resetDone" /\ ~ack'
    BY <1>1, <1>5, GotoAt DEF Arm, AckStage
  <2> QED
    BY <1>3, <2>1 DEF AckStage, Expecting
<1>6. CASE Failed(t) \/ Resume(t) \/ Settle(t) \/ AckEnd(t)
  <2>1. pc'[t] \in {"idle", "pause", "resetAck", "rate", "failed"}
    BY <1>1, <1>6, GotoAt DEF Failed, Resume, Settle, AckEnd, NextMessage
  <2> QED
    BY <1>3, <2>1 DEF AckStage, Expecting
<1> QED
  BY <1>4, <1>5, <1>6

\* The steps that hand a command over.
LEMMA AckSent ==
  ASSUME BufferInv, AckInv, alone, prompt, NEW t \in Callers, Send(t) \/ SendRate(t)
  PROVE  AckStage(t)'
<1>1. pc[t] # "idle" /\ TypeOK /\ AckStage(t)
  BY DEF Send, SendRate, BufferInv, AckInv
<1>2. NoneComing /\ tx = Silence
  BY <1>1, Silent DEF Send, SendRate, AckStage, Expecting
<1>3. rx' = "idle" /\ NoMsg'
  BY <1>2 DEF NoneComing, NoMsg, Send, SendRate
<1>4. CASE Send(t)
  <2>1. /\ pc'[t] = "takeDone" /\ ~ack' /\ txDone' = txDone
    BY <1>1, <1>2, <1>4, GotoAt DEF Send, Transmit, AckStage, ackVars, doneVars
  <2>2. ~txDone'
    BY <1>4, <2>1 DEF Send, BufferInv, Staged, Stage
  <2>3. OneAnswer(t)'
    BY <1>3, <2>1 DEF OneAnswer, NoMsg, OneMsg
  <2> QED
    BY <2>1, <2>2, <2>3 DEF AckStage, Expecting
<1>5. CASE SendRate(t)
  <2>1. pc'[t] = "settle" /\ tx'.what = "rate"
    BY <1>1, <1>2, <1>5, GotoAt DEF SendRate, Transmit
  <2> QED
    BY <1>3, <2>1 DEF AckStage, Expecting, NoneComing
<1> QED
  BY <1>4, <1>5

\* The steps that wait, for the transmission and for the acknowledgement.
LEMMA AckWaits ==
  ASSUME BufferInv, AckInv, alone, prompt, prompt', NEW t \in Callers,
         \/ TakeDone(t) \/ TxTimeout(t) \/ TxEnd(t) \/ TakeAck(t) \/ AckTimeout(t)
  PROVE  AckStage(t)'
<1>1. pc[t] # "idle" /\ TypeOK /\ AckStage(t) /\ OneAnswer(t)
  BY DEF TakeDone, TxTimeout, TxEnd, TakeAck, AckTimeout, BufferInv, AckInv, AckStage,
     Expecting
<1>2. CASE TakeDone(t)
  <2>1. pc'[t] = IF txDone THEN "txEnd" ELSE "txWait"
    BY <1>1, <1>2, GotoAt DEF TakeDone
  <2>2. OneAnswer(t)'
    BY <1>1, <1>2 DEF TakeDone, OneAnswer, NoMsg, OneMsg, ackVars, receiverVars
  <2>3. txDone /\ txResult' # "ok" => NoneComing'
    BY <1>1, <1>2 DEF TakeDone, AckStage, NoneComing, NoMsg, receiverVars
  <2> QED
    BY <2>1, <2>2, <2>3 DEF AckStage, Expecting
<1>3. CASE TxTimeout(t)
  BY <1>3 DEF TxTimeout, BufferInv, Staged, Stage
<1>4. CASE TxEnd(t)
  <2>1. pc'[t] = IF txResult = "ok" THEN "takeAck" ELSE "failed"
    BY <1>1, <1>4, GotoAt DEF TxEnd
  <2>2. OneAnswer(t)'
    BY <1>1, <1>4 DEF TxEnd, OneAnswer, NoMsg, OneMsg, ackVars, receiverVars
  <2>3. txResult # "ok" => NoneComing'
    BY <1>1, <1>4 DEF TxEnd, AckStage, NoneComing, NoMsg, receiverVars
  <2> QED
    BY <2>1, <2>2, <2>3 DEF AckStage, Expecting
<1>5. CASE TakeAck(t)
  <2>1. pc'[t] = (IF ack THEN "ackEnd" ELSE "ackWait") /\ ~ack'
    BY <1>1, <1>5, GotoAt DEF TakeAck
  <2>2. CASE ack
    <3>1. NoneComing /\ (~nak => applied[t])
      BY <1>1, <1>5, <2>2, Silent DEF TakeAck, OneAnswer, NoneComing, TypeOK, TypeAck
    <3>2. NoneComing' /\ (~nak' => applied'[t])
      BY <1>5, <3>1 DEF TakeAck, NoneComing, NoMsg, receiverVars
    <3> QED
      BY <2>1, <2>2, <3>2 DEF AckStage, Expecting
  <2>3. CASE ~ack
    <3>1. OneAnswer(t)'
      BY <1>1, <1>5, <2>3 DEF TakeAck, OneAnswer, NoMsg, OneMsg, receiverVars
    <3> QED
      BY <2>1, <2>3, <3>1 DEF AckStage, Expecting
  <2> QED
    BY <2>2, <2>3
<1>6. CASE AckTimeout(t)
  <2>1. pc'[t] = "failed" /\ ~Outstanding
    BY <1>1, <1>6, GotoAt DEF AckTimeout
  <2>2. NoneComing
    BY <1>1, <2>1 DEF Outstanding, NoneComing, NoMsg, TypeOK, TypeAck
  <2>3. NoneComing'
    BY <1>6, <2>2 DEF AckTimeout, NoneComing, NoMsg, receiverVars
  <2> QED
    BY <2>1, <2>3 DEF AckStage, Expecting
<1> QED
  BY <1>2, <1>3, <1>4, <1>5, <1>6

LEMMA DoneAck ==
  ASSUME BufferInv, AckInv, alone, prompt, TxDone
  PROVE  AckInv'
<1>1. PICK t \in Callers :
         /\ tx.by = t /\ tx \in Commands /\ pc[t] \in {"settle", "takeDone", "txWait"}
         /\ pc[t] = "settle" <=> tx.what = "rate"
         /\ IF pc[t] = "txWait" THEN Goto(t, "txEnd") /\ UNCHANGED txDone
                                ELSE UNCHANGED pc /\ txDone' = TRUE
  BY DoneMoves
<1>2. tx' = Silence /\ TypeOK /\ AckStage(t) /\ tx'.by # t
  BY <1>1, CommandAssumption DEF TxDone, BufferInv, AckInv, Silence
<1>3. UNCHANGED <<rx, ack, nak, waiting>>
  BY DEF TxDone, ackVars
<1>4. rx = "idle" /\ NoMsg /\ (tx.what # "rate" => ~ack)
  BY <1>1, <1>2 DEF AckStage, NoneComing, OneAnswer, Expecting
<1>5. /\ OneMsg'
      /\ tx.what = "rate" => NoMsg'
      /\ \A i \in 1..Len(answers') : answers'[i].id = "msg" /\ answers'[i].ok => applied'[t]
      /\ txResult' # "ok" => NoMsg'
  <2>1. CASE UNCHANGED receiverVars
    BY <1>4, <2>1 DEF receiverVars, NoMsg, OneMsg
  <2>2. CASE /\ txResult' = "ok" /\ Answer(TRUE)
             /\ applied' = [applied EXCEPT ![tx.by] = TRUE]
    <3>1. applied'[t]
      BY <1>1, <1>2, <2>2 DEF TypeOK, TypeUart
    <3> QED
      BY <1>1, <1>4, <2>2, <3>1, Answered
  <2>3. CASE txResult' = "ok" /\ Answer(FALSE)
    BY <1>1, <1>4, <2>3, Answered
  <2> QED
    BY <2>1, <2>2, <2>3 DEF TxDone, Receive
<1>6. CASE pc[t] = "settle"
  <2>1. NoneComing' /\ pc'[t] = "settle"
    BY <1>1, <1>2, <1>3, <1>4, <1>5, <1>6 DEF NoneComing
  <2>2. AckStage(t)'
    BY <2>1 DEF AckStage, Expecting
  <2>3. UNCHANGED pc
    BY <1>1, <1>6
  <2> QED
    BY <1>1, <1>2, <1>3, <2>1, <2>2, <2>3, Only DEF AckInv
<1>7. CASE pc[t] # "settle"
  <2>1. OneAnswer(t)'
    BY <1>1, <1>2, <1>3, <1>4, <1>5, <1>7 DEF OneAnswer
  <2>2. pc'[t] \in {"takeDone", "txEnd"}
    BY <1>1, <1>2, <1>7, GotoAt
  <2>3. txResult' # "ok" => NoneComing'
    BY <1>2, <1>3, <1>4, <1>5 DEF NoneComing
  <2>4. AckStage(t)'
    BY <2>1, <2>2, <2>3 DEF AckStage, Expecting
  <2>5. \A u \in Callers : u # t => pc'[u] = "idle"
    BY <1>1, <1>2, Only, GotoAt
  <2> QED
    BY <1>3, <2>2, <2>4, <2>5 DEF AckInv
<1> QED
  BY <1>6, <1>7

\* The GNSS thread finds an answer that is waited for, or passes it over.
LEMMA HandleAck ==
  ASSUME BufferInv, AckInv, alone, prompt, HandleMessage
  PROVE  AckInv'
<1>1. UNCHANGED <<pc, tx, txDone, txResult, ack, waiting, applied>> /\ rx = "idle"
  BY DEF HandleMessage, doneVars
<1>2. NoneComing => NoneComing' /\ UNCHANGED nak
  BY Handled DEF HandleMessage, NoneComing, AckInv
<1>3. ASSUME NEW t \in Callers, AckStage(t) PROVE AckStage(t)'
  <2>1. OneAnswer(t) => OneAnswer(t)'
    <3> SUFFICES ASSUME OneAnswer(t) PROVE OneAnswer(t)'
      OBVIOUS
    <3>1. OneMsg /\ OneMsg' /\ (NoMsg => NoMsg')
      BY Handled DEF OneAnswer
    <3>2. /\ \A i \in 1..Len(answers') : answers'[i].id = "msg" /\ answers'[i].ok => applied'[t]
          /\ Head(answers).id = "msg" /\ Head(answers).ok => applied'[t]
      BY <1>1, Handled DEF OneAnswer
    <3>3. CASE UNCHANGED <<nak, rx>>
      BY <1>1, <3>1, <3>2, <3>3 DEF OneAnswer
    <3>4. CASE /\ Head(answers).id = waiting
               /\ nak' = (nak \/ ~Head(answers).ok)
               /\ rx' = "give"
      <4>1. Head(answers).id = "msg" /\ (~nak' => Head(answers).ok)
        BY <3>4 DEF AckInv
      <4>2. ~NoMsg /\ NoMsg'
        BY <3>1, <4>1, Handled
      <4>3. ~nak' => applied'[t]
        BY <3>2, <4>1
      <4> QED
        BY <1>1, <3>1, <3>2, <4>2, <4>3 DEF OneAnswer
    <3> QED
      BY <3>3, <3>4 DEF HandleMessage
  <2>2. pc[t] = "ackEnd" => UNCHANGED nak
    BY <1>2, <1>3 DEF AckStage, Expecting
  <2> QED
    BY <1>1, <1>2, <1>3, <2>1, <2>2 DEF AckStage
<1> QED
  BY <1>1, <1>2, <1>3 DEF AckInv

\* It gives the token, to a thread that waits or for the one that will.
LEMMA GiveAnswer ==
  ASSUME BufferInv, AckInv, alone, prompt, GiveAck
  PROVE  AckInv'
<1>1. /\ rx = "give" /\ rx' = "idle"
      /\ UNCHANGED <<tx, txDone, txResult, nak, waiting, answers, applied>>
  BY DEF GiveAck, doneVars, receiverVars
<1>2. NoMsg => NoMsg'
  BY <1>1 DEF NoMsg
<1>3. \E t \in Callers : pc[t] # "idle"
  BY <1>1 DEF AckInv, NoneComing
<1>4. PICK t \in Callers : pc[t] # "idle"
  BY <1>3
<1>5. TypeOK /\ AckStage(t) /\ \A u \in Callers : u # t => pc[u] = "idle"
  BY <1>4, Only DEF BufferInv, AckInv
<1>6. pc[t] \in Expecting /\ OneAnswer(t)
  BY <1>1, <1>5 DEF AckStage, NoneComing
<1>7. NoMsg /\ NoMsg' /\ tx.by # t /\ ~ack /\ (~nak => applied[t])
  BY <1>1, <1>2, <1>6 DEF OneAnswer
<1>8. CASE UNCHANGED pc /\ ack' = TRUE /\ \A u \in Callers : pc[u] # "ackWait"
  <2>1. OneAnswer(t)'
    BY <1>1, <1>7, <1>8 DEF OneAnswer, NoMsg, OneMsg
  <2>2. pc[t] # "ackWait" /\ (txResult = "ok" \/ ~(pc[t] = "txEnd" \/ (pc[t] = "takeDone" /\ txDone)))
    BY <1>1, <1>5, <1>8 DEF AckStage, NoneComing
  <2>3. AckStage(t)'
    BY <1>1, <1>6, <1>8, <2>1, <2>2 DEF AckStage, Expecting
  <2> QED
    BY <1>1, <1>4, <1>5, <1>8, <2>3 DEF AckInv
<1>9. ASSUME NEW u \in Callers, pc[u] = "ackWait", Goto(u, "ackEnd") PROVE AckInv'
  <2>1. u = t /\ tx = Silence
    BY <1>4, <1>5, <1>9, Silent
  <2>2. pc'[t] = "ackEnd"
    BY <1>5, <1>9, <2>1, GotoAt
  <2>3. NoneComing' /\ (~nak' => applied'[t])
    BY <1>1, <1>7, <2>1 DEF NoneComing
  <2>4. AckStage(t)'
    BY <2>2, <2>3 DEF AckStage, Expecting
  <2> QED
    BY <1>1, <1>4, <1>9, <2>1, <2>4, AckBy DEF AckInv
<1> QED
  BY <1>8, <1>9, GiveMoves

LEMMA StepAck == BufferInv /\ AckInv /\ [Next]_vars => AckInv'
<1> SUFFICES ASSUME BufferInv, AckInv, [Next]_vars PROVE AckInv'
  OBVIOUS
<1>1. waiting' = "msg"
  BY DEF AckInv, Next, CallStep, SetRate, Failed, Resume, SendRate, Settle, ResetAck, Arm,
     ResetDone, Send, TakeDone, TxTimeout, TxEnd, TakeAck, AckTimeout, AckEnd, TxDone,
     HandleMessage, GiveAck, vars, ackVars
<1>2. SUFFICES ASSUME alone', prompt' PROVE AckInv'
  BY <1>1 DEF AckInv
<1>3. alone /\ prompt
  BY <1>2 DEF Next, CallStep, SetRate, Failed, Resume, SendRate, Settle, ResetAck, Arm,
     ResetDone, Send, TakeDone, TxTimeout, TxEnd, TakeAck, AckTimeout, AckEnd, TxDone,
     HandleMessage, GiveAck, vars, callVars
<1>4. ASSUME NEW t \in Callers, CallStep(t) PROVE AckInv'
  <2>1. AckStage(t)'
    BY <1>2, <1>3, <1>4, AckOutside, AckSent, AckWaits DEF CallStep
  <2>2. pc[t] # "idle" /\ \E step \in Steps : Goto(t, step)
    BY <1>3, <1>4, CallMoves
  <2> QED
    BY <1>1, <1>3, <2>1, <2>2, AckBy
<1>5. ASSUME NEW t \in Callers, NEW h \in Hz, SetRate(t, h) PROVE AckInv'
  <2>1. \A u \in Callers : pc[u] = "idle"
    BY <1>2, <1>5 DEF SetRate
  <2>2. NoneComing'
    BY <1>3, <1>5, <2>1 DEF AckInv, SetRate, NoneComing, NoMsg, receiverVars
  <2>3. pc'[t] = "resetAck" /\ \A u \in Callers : u # t => pc'[u] = "idle"
    BY <1>5, <2>1, GotoAt DEF SetRate, BufferInv
  <2> QED
    BY <1>1, <2>2, <2>3 DEF AckInv, AckStage, Expecting
<1>6. CASE TxDone
  BY <1>3, <1>6, DoneAck
<1>7. CASE HandleMessage
  BY <1>3, <1>7, HandleAck
<1>8. CASE GiveAck
  BY <1>3, <1>8, GiveAnswer
<1>9. CASE UNCHANGED vars
  BY <1>9 DEF vars, doneVars, ackVars, receiverVars, callVars, AckInv, AckStage, OneAnswer,
     NoneComing, NoMsg, OneMsg
<1> QED
  BY <1>4, <1>5, <1>6, <1>7, <1>8, <1>9 DEF Next

LEMMA InitAck == Init => AckInv
  BY DEF Init, AckInv, NoneComing, NoMsg

\* While calls do not overlap and no answer comes after its wait, a UBX-CFG-MSG
\* command that ubx_send_with_ack() reports as acknowledged has been applied:
\* although the acknowledgement names neither the message nor the attempt.
THEOREM AckTruthful == Spec => []AckedApplied
<1>1. Init => BufferInv /\ AckInv
  BY InitBuffer, InitAck
<1>2. BufferInv /\ AckInv /\ [Next]_vars => (BufferInv /\ AckInv)'
  BY StepBuffer, StepAck
<1>3. AckInv => AckedApplied
  BY DEF AckInv, AckStage, AckedApplied
<1> QED
  BY <1>1, <1>2, <1>3, PTL DEF Spec

-----------------------------------------------------------------------------
(* What the calls leave behind in the receiver *)

\* The command under way is what its caller is at; a command that has been
\* transmitted without a fault is in the receiver.
ConfigStage(t) ==
  /\ hz[t] = wanted
  /\ tx.by = t => tx.hz = hz[t] /\ tx.what = IF pc[t] = "settle" THEN "rate" ELSE msg[t]
  /\ pc[t] \in {"txEnd", "takeAck", "ackWait", "ackEnd", "failed", "pause"}
       \/ (pc[t] = "takeDone" /\ txDone) => config[msg[t]] = hz[t]
  /\ msg[t] = "rmc" => config["gsa"] = hz[t]
  /\ pc[t] \in {"rate", "settle"} => config["gsa"] = hz[t] /\ config["rmc"] = hz[t]
  /\ pc[t] = "settle" /\ tx.by # t => config["rate"] = hz[t]

ConfigInv ==
  alone /\ faults = 0 =>
    /\ \A t \in Callers : pc[t] # "idle" => ConfigStage(t)
    /\ (\A t \in Callers : pc[t] = "idle") => \A what \in Settings : config[what] = wanted

LEMMA ConfigBy ==
  ASSUME BufferInv, alone, NEW t \in Callers, pc[t] # "idle", NEW step, Goto(t, step),
         step # "idle" => ConfigStage(t)',
         step = "idle" => \A what \in Settings : config'[what] = wanted'
  PROVE  ConfigInv'
<1>1. /\ pc'[t] = step
      /\ \A u \in Callers : u # t => pc'[u] = "idle"
  BY Only, GotoAt DEF BufferInv
<1> QED
  BY <1>1 DEF ConfigInv

\* Once a message has been dealt with it is as the caller wants it.
LEMMA NextConfig ==
  ASSUME BufferInv, alone, NEW t \in Callers, ConfigStage(t), NextMessage(t),
         pc[t] \in {"failed", "ackEnd"}, UNCHANGED <<tx, config, wanted>>
  PROVE  ConfigStage(t)'
<1>1. TypeOK /\ tx.by # t /\ config[msg[t]] = hz[t]
  BY Silent DEF BufferInv, ConfigStage
<1>2. CASE msg[t] = "gsa"
  <2>1. pc'[t] = "resetAck" /\ msg'[t] = "rmc" /\ hz'[t] = hz[t]
    BY <1>1, <1>2, GotoAt DEF NextMessage, TypeOK, TypeCaller
  <2> QED
    BY <1>1, <1>2, <2>1 DEF ConfigStage
<1>3. CASE msg[t] = "rmc"
  <2>1. pc'[t] = "rate" /\ msg'[t] = "rmc" /\ hz'[t] = hz[t]
    BY <1>1, <1>3, GotoAt DEF NextMessage, callerVars
  <2> QED
    BY <1>1, <1>3, <2>1 DEF ConfigStage
<1> QED
  BY <1>1, <1>2, <1>3 DEF TypeOK, TypeCaller

LEMMA CallConfig ==
  ASSUME BufferInv, alone, faults = 0, ConfigInv, NEW t \in Callers, CallStep(t)
  PROVE  ConfigInv'
<1>1. pc[t] # "idle" /\ TypeOK /\ ConfigStage(t)
  BY CallMoves DEF BufferInv, ConfigInv
<1>2. PICK step \in Steps : Goto(t, step)
  BY CallMoves
<1>3. pc'[t] = step
  BY <1>1, <1>2, GotoAt
<1>4. SUFFICES /\ step # "idle" => ConfigStage(t)'
               /\ step = "idle" => \A what \in Settings : config'[what] = wanted'
  BY <1>1, <1>2, ConfigBy
<1>5. UNCHANGED <<config, wanted>>
  BY DEF CallStep, Failed, Resume, SendRate, Settle, ResetAck, Arm, ResetDone, Send,
     TakeDone, TxTimeout, TxEnd, TakeAck, AckTimeout, AckEnd, receiverVars, callVars
<1>6. CASE Failed(t)
  <2>1. CASE attempt[t] < Retries
    <3>1. step = "pause" /\ UNCHANGED <<hz, msg, tx>>
      BY <1>1, <1>3, <1>6, <2>1, GotoAt DEF Failed
    <3>2. tx.by # t /\ pc[t] = "failed"
      BY <1>1, <1>6, Silent DEF Failed
    <3> QED
      BY <1>1, <1>3, <1>5, <3>1, <3>2 DEF ConfigStage
  <2>2. CASE ~(attempt[t] < Retries)
    <3>1. NextMessage(t) /\ pc[t] = "failed" /\ UNCHANGED tx
      BY <1>6, <2>2 DEF Failed
    <3>2. ConfigStage(t)'
      BY <1>1, <1>5, <3>1, NextConfig
    <3>3. step # "idle"
      BY <1>1, <1>3, <3>1, GotoAt DEF NextMessage
    <3> QED
      BY <3>2, <3>3
  <2> QED
    BY <2>1, <2>2
<1>7. CASE AckEnd(t)
  <2>1. CASE nak
    <3>1. step = "failed" /\ pc[t] = "ackEnd" /\ UNCHANGED <<hz, msg, tx>>
      BY <1>1, <1>3, <1>7, <2>1, GotoAt DEF AckEnd, callerVars
    <3>2. tx.by # t
      BY <1>1, <3>1, Silent
    <3> QED
      BY <1>1, <1>3, <1>5, <3>1, <3>2 DEF ConfigStage
  <2>2. CASE ~nak
    <3>1. NextMessage(t) /\ pc[t] = "ackEnd" /\ UNCHANGED tx
      BY <1>7, <2>2 DEF AckEnd
    <3>2. ConfigStage(t)'
      BY <1>1, <1>5, <3>1, NextConfig
    <3>3. step # "idle"
      BY <1>1, <1>3, <3>1, GotoAt DEF NextMessage
    <3> QED
      BY <3>2, <3>3
  <2> QED
    BY <2>1, <2>2
<1>8. CASE Send(t) \/ SendRate(t)
  <2>1. tx = Silence
    BY <1>1, <1>8, Silent DEF Send, SendRate
  <2>2. /\ tx' = [what |-> IF step = "settle" THEN "rate" ELSE msg[t], hz |-> hz[t], by |-> t]
        /\ step = (IF Send(t) THEN "takeDone" ELSE "settle")
        /\ UNCHANGED <<hz, msg, txDone>>
    BY <1>1, <1>3, <1>8, <2>1, GotoAt DEF Send, SendRate, Transmit, callerVars, doneVars
  <2>3. step = "takeDone" => ~txDone
    BY <1>1, <1>8, <2>2 DEF Send, BufferInv, Staged, Stage
  <2>4. step = "settle" => pc[t] = "rate"
    BY <1>8, <2>2 DEF SendRate
  <2> QED
    BY <1>1, <1>3, <1>5, <2>2, <2>3, <2>4 DEF ConfigStage
<1>9. CASE TakeDone(t)
  <2>1. /\ pc[t] = "takeDone" /\ step = (IF txDone THEN "txEnd" ELSE "txWait") /\ ~txDone'
        /\ UNCHANGED <<hz, msg, tx>>
    BY <1>1, <1>3, <1>9, GotoAt DEF TakeDone, callerVars
  <2> QED
    BY <1>1, <1>3, <1>5, <2>1 DEF ConfigStage
<1>10. CASE TxTimeout(t)
  BY <1>10 DEF TxTimeout, BufferInv, Staged, Stage
<1>11. CASE Settle(t)
  <2>1. step = "idle"
    BY <1>1, <1>3, <1>11, GotoAt DEF Settle
  <2>2. \A what \in Settings : config[what] = hz[t]
    BY <1>1, <1>11 DEF Settle, ConfigStage, Settings
  <2>3. hz[t] = wanted
    BY <1>1 DEF ConfigStage
  <2> QED
    BY <1>5, <2>1, <2>2, <2>3
<1>12. CASE TxEnd(t) \/ TakeAck(t) \/ AckTimeout(t)
  <2>1. /\ pc[t] \in {"txEnd", "takeAck", "ackWait"}
        /\ step \in {"takeAck", "failed", "ackEnd", "ackWait"}
        /\ UNCHANGED <<hz, msg, tx>>
    BY <1>1, <1>3, <1>12, GotoAt DEF TxEnd, TakeAck, AckTimeout, callerVars
  <2>2. tx.by # t
    BY <1>1, <2>1, Silent
  <2> QED
    BY <1>1, <1>3, <1>5, <2>1, <2>2 DEF ConfigStage
<1>13. CASE Resume(t) \/ ResetAck(t) \/ Arm(t) \/ ResetDone(t)
  <2>1. /\ pc[t] \in {"pause", "resetAck", "arm", "resetDone"}
        /\ step \in {"resetAck", "arm", "resetDone", "send"}
        /\ UNCHANGED <<hz, msg, tx>>
    BY <1>1, <1>3, <1>13, GotoAt, ResetAlone
    DEF Resume, ResetAck, Arm, ResetDone, ResetSem, callerVars, TypeOK, TypeCaller
  <2>2. tx.by # t
    BY <1>1, <2>1, Silent
  <2> QED
    BY <1>1, <1>3, <1>5, <2>1, <2>2 DEF ConfigStage
<1> QED
  BY <1>6, <1>7, <1>8, <1>9, <1>10, <1>11, <1>12, <1>13 DEF CallStep

\* A transmission that ends without a fault brings the command to the receiver.
LEMMA DoneConfig ==
  ASSUME BufferInv, alone, faults = 0, faults' = 0, ConfigInv, TxDone
  PROVE  ConfigInv'
<1>1. PICK t \in Callers :
         /\ tx.by = t /\ tx \in Commands /\ pc[t] \in {"settle", "takeDone", "txWait"}
         /\ pc[t] = "settle" <=> tx.what = "rate"
         /\ IF pc[t] = "txWait" THEN Goto(t, "txEnd") /\ UNCHANGED txDone
                                ELSE UNCHANGED pc /\ txDone' = TRUE
  BY DoneMoves
<1>2. TypeOK /\ ConfigStage(t) /\ tx' = Silence /\ tx'.by # t
  BY <1>1, CommandAssumption DEF BufferInv, ConfigInv, TxDone, Silence
<1>3. ~Fault
  BY DEF Fault
<1>4. config' = [config EXCEPT ![tx.what] = tx.hz] /\ UNCHANGED <<hz, msg, wanted>>
  BY <1>3 DEF TxDone, Receive, callerVars, callVars
<1>5. config'[tx.what] = hz[t]
      /\ \A what \in Settings : config[what] = hz[t] => config'[what] = hz[t]
  BY <1>1, <1>2, <1>4 DEF ConfigStage, TypeOK, TypeReceiver, Commands
<1>6. /\ pc'[t] \in {"settle", "takeDone", "txEnd"}
      /\ pc'[t] = "settle" <=> pc[t] = "settle"
      /\ \A u \in Callers : u # t => pc'[u] = "idle"
  BY <1>1, <1>2, Only, GotoAt
<1>7. msg[t] \in {"gsa", "rmc"}
  BY <1>2 DEF TypeOK, TypeCaller
<1>8. ConfigStage(t)'
  BY <1>1, <1>2, <1>4, <1>5, <1>6, <1>7 DEF ConfigStage, Settings
<1> QED
  BY <1>6, <1>8 DEF ConfigInv

LEMMA StepConfig == BufferInv /\ ConfigInv /\ [Next]_vars => ConfigInv'
<1> SUFFICES ASSUME BufferInv, ConfigInv, [Next]_vars, alone', faults' = 0 PROVE ConfigInv'
  BY DEF ConfigInv
<1>1. alone /\ faults = 0
  <2>1. alone
    BY DEF Next, CallStep, SetRate, Failed, Resume, SendRate, Settle, ResetAck, Arm, ResetDone,
       Send, TakeDone, TxTimeout, TxEnd, TakeAck, AckTimeout, AckEnd, TxDone, HandleMessage,
       GiveAck, vars, callVars
  <2>2. faults' = faults \/ faults' = faults + 1
    BY DEF Next, CallStep, SetRate, Failed, Resume, SendRate, Settle, ResetAck, Arm, ResetDone,
       Send, TakeDone, TxTimeout, TxEnd, TakeAck, AckTimeout, AckEnd, TxDone, HandleMessage,
       GiveAck, vars, Receive, Fault
  <2> QED
    BY <2>1, <2>2 DEF BufferInv, TypeOK, TypeHistory
<1>2. ASSUME NEW t \in Callers, CallStep(t) PROVE ConfigInv'
  BY <1>1, <1>2, CallConfig
<1>3. ASSUME NEW t \in Callers, NEW h \in Hz, SetRate(t, h) PROVE ConfigInv'
  <2>1. \A u \in Callers : pc[u] = "idle"
    BY <1>3 DEF SetRate
  <2>2. pc'[t] = "resetAck" /\ \A u \in Callers : u # t => pc'[u] = "idle"
    BY <1>3, <2>1, GotoAt DEF SetRate, BufferInv
  <2>3. hz'[t] = h /\ wanted' = h /\ msg'[t] = "gsa"
    BY <1>3 DEF SetRate, BufferInv, TypeOK, TypeCaller
  <2>4. tx'.by # t
    BY <1>1, <1>3, <2>1 DEF SetRate, BufferInv, Staged, Stage
  <2> QED
    BY <2>2, <2>3, <2>4 DEF ConfigInv, ConfigStage
<1>4. CASE TxDone
  BY <1>1, <1>4, DoneConfig
<1>5. CASE GiveAck
  <2>1. UNCHANGED <<hz, msg, tx, txDone, config, wanted>>
    BY <1>5 DEF GiveAck, callerVars, doneVars, receiverVars, callVars
  <2>2. CASE UNCHANGED pc
    BY <1>1, <2>1, <2>2 DEF ConfigInv, ConfigStage
  <2>3. ASSUME NEW t \in Callers, pc[t] = "ackWait", Goto(t, "ackEnd") PROVE ConfigInv'
    <3>1. tx.by # t /\ ConfigStage(t)
      BY <1>1, <2>3, Silent DEF ConfigInv
    <3>2. pc'[t] = "ackEnd"
      BY <2>3, GotoAt DEF BufferInv
    <3>3. ConfigStage(t)'
      BY <2>1, <2>3, <3>1, <3>2 DEF ConfigStage
    <3> QED
      BY <1>1, <2>3, <3>3, ConfigBy
  <2> QED
    BY <1>5, <2>2, <2>3, GiveMoves
<1>6. CASE HandleMessage \/ UNCHANGED vars
  <2>1. UNCHANGED <<pc, hz, msg, tx, txDone, config, wanted>>
    BY <1>6 DEF HandleMessage, vars, callerVars, doneVars, receiverVars, callVars
  <2> QED
    BY <1>1, <2>1 DEF ConfigInv, ConfigStage
<1> QED
  BY <1>2, <1>3, <1>4, <1>5, <1>6 DEF Next

LEMMA InitConfig == Init => ConfigInv
  BY DEF Init, ConfigInv

\* Calls of gnss_set_rate() that do not overlap leave the receiver as the last of
\* them wanted it, however its waits end, as long as no command itself is lost,
\* refused or damaged.
THEOREM CallsConfigure == Spec => []Configured
<1>1. Init => BufferInv /\ ConfigInv
  BY InitBuffer, InitConfig
<1>2. BufferInv /\ ConfigInv /\ [Next]_vars => (BufferInv /\ ConfigInv)'
  BY StepBuffer, StepConfig
<1>3. ConfigInv => Configured
  BY DEF ConfigInv, Configured
<1> QED
  BY <1>1, <1>2, <1>3, PTL DEF Spec

=============================================================================
