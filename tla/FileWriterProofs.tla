-------------------------- MODULE FileWriterProofs --------------------------
(***************************************************************************)
(* Theorems about FileWriter, for every ring and chunk size, every set of  *)
(* producers and every number of files: the types and the ring bound; that *)
(* the log is faithful, and ends where a line ends, while the two callers  *)
(* of do_flush() do not overlap and no write fails; and that the           *)
(* statistics are exact at rest.                                           *)
(***************************************************************************)
EXTENDS FileWriter, FiniteSetTheorems, TLAPS

\* Bytes a consumer has taken from the ring and storage has not copied yet.
Pending(c) == IF pc[c] \in {"write", "writing"} THEN flen[c] - done[c] ELSE 0

\* Where the locals of do_flush() stand at each of its steps, and that the
\* controller is inside do_flush() exactly while it is at "flush".
FlushInv ==
  /\ ctl = "flush" <=> pc[Closer] # "idle"
  /\ \A c \in Consumers :
       /\ done[c] <= flen[c]
       /\ pc[c] = "write" => done[c] = 0
       /\ pc[c] \in {"idle", "get"} => flen[c] = 0 /\ done[c] = 0

\* The bytes of the file, the bytes in flight and the bytes in the ring follow
\* one another from base on, and the bytes in flight wait in write_buffer.
FileOrder == \A i \in 1..Len(file) : file[i] = base + i

BufferOrder(c) ==
  pc[c] \in {"write", "writing"} =>
    \A i \in (done[c] + 1)..flen[c] : wbuf[i] = base + Len(file) - done[c] + i

InOrder ==
  /\ FileOrder
  /\ rd = base + Len(file) + Pending(Writer) + Pending(Closer)
  /\ \A c \in Consumers : BufferOrder(c)

Opening == ctl \in {"stats", "ring"}

\* While the writer thread has not overlapped the controller since the file was
\* opened, nothing reaches the file before its ring is reset, and after that the
\* bytes stay in order as long as no write fails.
LogInv ==
  solo => /\ SoloNow
          /\ Opening => file = <<>>
          /\ NoErrors /\ ~Opening => InOrder

IInv == TypeOK /\ FlushInv /\ LogInv

-----------------------------------------------------------------------------
(* Types, one part of TypeOK at a time *)

LEMMA StatsUpdate ==
  ASSUME NEW s \in StatsType, NEW n \in Nat
  PROVE  /\ [s EXCEPT !.lines = @ + n] \in StatsType
         /\ [s EXCEPT !.bytes = @ + n] \in StatsType
         /\ [s EXCEPT !.errors = @ + n] \in StatsType
         /\ [s EXCEPT !.dropped = @ + n] \in StatsType
         /\ [s EXCEPT !.overflows = @ + n] \in StatsType
  BY DEF StatsType

LEMMA InitType == Init => TypeOK
<1> SUFFICES ASSUME Init PROVE TypeOK
  OBVIOUS
<1> USE SizeAssumption DEF Init
<1>1. TypeStorage
  <2>1. file \in Seq(Nat)
    <3>1. file = <<>>
      OBVIOUS
    <3>2. QED
      BY <3>1
  <2>2. QED
    BY <2>1 DEF TypeStorage
<1>2. TypeRing
  BY DEF TypeRing
<1>3. stats \in StatsType
  BY DEF ZeroStats, StatsType
<1>4. TypeConsumer
  BY DEF TypeConsumer, Consumers
<1>5. TypeControl /\ TypeProducer /\ TypeHistory
  BY DEF TypeControl, TypeProducer, TypeHistory
<1>6. QED
  BY <1>1, <1>2, <1>3, <1>4, <1>5 DEF TypeOK

LEMMA StepTypeRing == TypeOK /\ [Next]_vars => TypeRing'
<1> SUFFICES ASSUME TypeOK, [Next]_vars PROVE TypeRing'
  OBVIOUS
<1> USE SizeAssumption DEF TypeOK, TypeRing, RingUsed
<1>1. ASSUME NEW p \in Producers, PutLine(p) PROVE TypeRing'
  <2>1. plen[p] \in Nat
    BY DEF TypeProducer
  <2>2. QED
    BY <1>1, <2>1 DEF PutLine, RingSpace
<1>2. ASSUME NEW p \in Producers, DropLine(p) PROVE TypeRing'
  BY <1>2 DEF DropLine
<1>3. ASSUME NEW c \in Consumers, FlushGet(c) PROVE TypeRing'
  BY <1>3 DEF FlushGet
<1>4. CASE ResetRing
  BY <1>4 DEF ResetRing
<1>5. ASSUME UNCHANGED ringVars PROVE TypeRing'
  BY <1>5 DEF ringVars
<1>6. QED
  BY <1>1, <1>2, <1>3, <1>4, <1>5
     DEF vars, ringVars, Next, ProducerStep, FlushStep, ControlStep, WriteBegin, CountDrop,
         CountLine, FlushNothing, WriteStart, WriteByte, WriteDone, WriteFails, FlushEnd,
         WriterWake, CloseCall, OpenCall, MarkClosed, StorageClose, StorageOpen,
         StorageOpenFails, ResetStats

LEMMA StepTypeStats == TypeOK /\ [Next]_vars => stats' \in StatsType
<1> SUFFICES ASSUME TypeOK, [Next]_vars PROVE stats' \in StatsType
  OBVIOUS
<1>0. stats \in StatsType
  BY DEF TypeOK
<1>1. ASSUME NEW p \in Producers, CountDrop(p) PROVE stats' \in StatsType
  <2>1. [stats EXCEPT !.dropped = @ + 1] \in StatsType
    BY <1>0, StatsUpdate
  <2>2. \A s \in StatsType : [s EXCEPT !.overflows = @ + 1] \in StatsType
    BY StatsUpdate
  <2>3. CASE pnew[p]
    <3>1. stats' = [[stats EXCEPT !.dropped = @ + 1] EXCEPT !.overflows = @ + 1]
      BY <1>1, <2>3 DEF CountDrop
    <3>2. QED
      BY <2>1, <2>2, <3>1
  <2>4. CASE ~pnew[p]
    <3>1. stats' = [stats EXCEPT !.dropped = @ + 1]
      BY <1>0, <1>1, <2>4 DEF CountDrop, StatsType
    <3>2. QED
      BY <2>1, <3>1
  <2>5. QED
    BY <2>3, <2>4
<1>2. ASSUME NEW p \in Producers, CountLine(p) PROVE stats' \in StatsType
  BY <1>0, <1>2, StatsUpdate DEF CountLine
<1>3. ASSUME NEW c \in Consumers, FlushEnd(c) PROVE stats' \in StatsType
  <2>1. flen[c] \in Nat
    BY SizeAssumption DEF TypeOK, TypeConsumer
  <2>2. [stats EXCEPT !.bytes = @ + flen[c]] \in StatsType
    BY <1>0, <2>1, StatsUpdate
  <2>3. [stats EXCEPT !.errors = @ + 1] \in StatsType
    BY <1>0, StatsUpdate
  <2>4. QED
    BY <1>3, <2>2, <2>3 DEF FlushEnd
<1>4. CASE ResetStats
  BY <1>4 DEF ResetStats, ZeroStats, StatsType
<1>5. QED
  BY <1>0, <1>1, <1>2, <1>3, <1>4
     DEF vars, Next, ProducerStep, FlushStep, ControlStep, WriteBegin, DropLine, PutLine,
         FlushNothing, FlushGet, WriteStart, WriteByte, WriteDone, WriteFails, WriterWake,
         CloseCall, OpenCall, MarkClosed, StorageClose, StorageOpen, StorageOpenFails,
         ResetRing

LEMMA StepTypeStorage == TypeOK /\ [Next]_vars => TypeStorage'
<1> SUFFICES ASSUME TypeOK, [Next]_vars PROVE TypeStorage'
  OBVIOUS
<1> USE DEF TypeOK, TypeStorage, storageVars
<1>1. ASSUME NEW c \in Consumers, WriteByte(c) PROVE TypeStorage'
  <2>1. done[c] + 1 \in 1..BufferSize
    BY <1>1, SizeAssumption DEF WriteByte, TypeConsumer
  <2>2. wbuf[done[c] + 1] \in Nat
    BY <2>1 DEF TypeConsumer
  <2>3. QED
    BY <1>1, <2>2 DEF WriteByte
<1>2. CASE StorageOpen
  BY <1>2 DEF StorageOpen
<1>3. CASE StorageOpenFails \/ StorageClose \/ MarkClosed
  BY <1>3 DEF StorageOpenFails, StorageClose, MarkClosed
<1>4. ASSUME UNCHANGED <<fileOpen, storageVars>> PROVE TypeStorage'
  BY <1>4
<1>5. QED
  BY <1>1, <1>2, <1>3, <1>4
     DEF vars, Next, ProducerStep, FlushStep, ControlStep, WriteBegin, DropLine, PutLine,
         CountDrop, CountLine, FlushNothing, FlushGet, WriteStart, WriteDone, WriteFails,
         FlushEnd, WriterWake, CloseCall, OpenCall, ResetStats, ResetRing

LEMMA StepTypeConsumer == TypeOK /\ [Next]_vars => TypeConsumer'
<1> SUFFICES ASSUME TypeOK, [Next]_vars PROVE TypeConsumer'
  OBVIOUS
<1> USE SizeAssumption DEF TypeOK, TypeConsumer, consumerVars, Consumers
<1>1. ASSUME NEW c \in Consumers, FlushGet(c) PROVE TypeConsumer'
  BY <1>1 DEF FlushGet, RingUsed, TypeRing
<1>2. ASSUME NEW c \in Consumers, FlushNothing(c) \/ FlushEnd(c) PROVE TypeConsumer'
  BY <1>2 DEF FlushNothing, FlushEnd, Return
<1>3. ASSUME NEW c \in Consumers, WriteStart(c) PROVE TypeConsumer'
  BY <1>3 DEF WriteStart
<1>4. ASSUME NEW c \in Consumers, WriteByte(c) PROVE TypeConsumer'
  BY <1>4 DEF WriteByte
<1>5. ASSUME NEW c \in Consumers, WriteDone(c) \/ WriteFails(c) PROVE TypeConsumer'
  BY <1>5 DEF WriteDone, WriteFails
<1>6. CASE WriterWake
  BY <1>6 DEF WriterWake
<1>7. CASE CloseCall \/ OpenCall
  BY <1>7 DEF CloseCall, OpenCall, StartClose
<1>8. ASSUME UNCHANGED consumerVars PROVE TypeConsumer'
  BY <1>8
<1>9. QED
  BY <1>1, <1>2, <1>3, <1>4, <1>5, <1>6, <1>7, <1>8
     DEF vars, Next, ProducerStep, FlushStep, ControlStep, WriteBegin, DropLine, PutLine,
         CountDrop, CountLine, MarkClosed, StorageClose, StorageOpen, StorageOpenFails,
         ResetStats, ResetRing

LEMMA StepTypeControl == TypeOK /\ [Next]_vars => TypeControl'
<1> SUFFICES ASSUME TypeOK, [Next]_vars PROVE TypeControl'
  OBVIOUS
<1> USE DEF TypeOK, TypeControl, ctlVars
<1>1. ASSUME NEW c \in Consumers, FlushNothing(c) \/ FlushEnd(c) PROVE TypeControl'
  BY <1>1 DEF FlushNothing, FlushEnd, Return
<1>2. CASE ControlStep
  <2>1. CASE CloseCall \/ OpenCall
    BY <2>1 DEF CloseCall, OpenCall, StartClose
  <2>2. CASE MarkClosed \/ StorageClose
    BY <2>2 DEF MarkClosed, StorageClose
  <2>3. CASE StorageOpen \/ StorageOpenFails \/ ResetStats \/ ResetRing
    BY <2>3 DEF StorageOpen, StorageOpenFails, ResetStats, ResetRing
  <2>4. QED
    BY <1>2, <2>1, <2>2, <2>3 DEF ControlStep
<1>3. ASSUME UNCHANGED ctlVars PROVE TypeControl'
  BY <1>3
<1>4. QED
  BY <1>1, <1>2, <1>3
     DEF vars, Next, ProducerStep, FlushStep, WriteBegin, DropLine, PutLine, CountDrop,
         CountLine, FlushGet, WriteStart, WriteByte, WriteDone, WriteFails, WriterWake

LEMMA StepTypeProducer == TypeOK /\ [Next]_vars => TypeProducer'
<1> SUFFICES ASSUME TypeOK, [Next]_vars PROVE TypeProducer'
  OBVIOUS
<1> USE SizeAssumption DEF TypeOK, TypeProducer, producerVars
<1>1. ASSUME NEW p \in Producers, ProducerStep(p) PROVE TypeProducer'
  <2>1. CASE \E n \in LineLens : WriteBegin(p, n)
    BY <2>1 DEF WriteBegin
  <2>2. CASE DropLine(p)
    BY <2>2 DEF DropLine
  <2>3. CASE PutLine(p) \/ CountLine(p)
    BY <2>3 DEF PutLine, CountLine
  <2>4. CASE CountDrop(p)
    BY <2>4 DEF CountDrop
  <2>5. QED
    BY <1>1, <2>1, <2>2, <2>3, <2>4 DEF ProducerStep
<1>2. ASSUME UNCHANGED producerVars PROVE TypeProducer'
  BY <1>2
<1>3. QED
  BY <1>1, <1>2
     DEF vars, Next, FlushStep, ControlStep, FlushNothing, FlushGet, WriteStart, WriteByte,
         WriteDone, WriteFails, FlushEnd, WriterWake, CloseCall, OpenCall, MarkClosed,
         StorageClose, StorageOpen, StorageOpenFails, ResetStats, ResetRing

LEMMA StepTypeHistory == TypeOK /\ [Next]_vars => TypeHistory'
<1> SUFFICES ASSUME TypeOK, [Next]_vars PROVE TypeHistory'
  OBVIOUS
<1>1. solo' \in BOOLEAN /\ quiet' \in BOOLEAN
  <2>1. Observe \/ ObserveOpen \/ UNCHANGED vars
    BY DEF Next, ProducerStep, FlushStep, ControlStep, WriteBegin, DropLine, PutLine,
         CountDrop, CountLine, FlushNothing, FlushGet, WriteStart, WriteByte, WriteDone,
         WriteFails, FlushEnd, WriterWake, CloseCall, OpenCall, MarkClosed, StorageClose,
         StorageOpen, StorageOpenFails, ResetStats, ResetRing
  <2>2. QED
    BY <2>1 DEF Observe, ObserveOpen, vars, TypeOK, TypeHistory, SoloNow, QuietNow
<1>2. base' \in Nat /\ due' \in Nat /\ ends' \subseteq Nat
  <2> USE DEF TypeOK, TypeHistory, histVars
  <2>1. ASSUME NEW p \in Producers, PutLine(p)
        PROVE  base' = base /\ due' = due /\ ends' \subseteq Nat
    <3>1. plen[p] \in Nat /\ wr \in Nat
      BY DEF TypeProducer, TypeRing
    <3>2. wr' \in Nat /\ ends' = ends \cup {wr'}
      BY <2>1, <3>1 DEF PutLine
    <3>3. QED
      BY <2>1, <3>2 DEF PutLine
  <2>2. CASE CloseCall \/ OpenCall
    BY <2>2 DEF CloseCall, OpenCall, StartClose, TypeRing
  <2>3. CASE ResetRing
    BY <2>3 DEF ResetRing, TypeRing
  <2>4. ASSUME UNCHANGED histVars PROVE base' = base /\ due' = due /\ ends' = ends
    BY <2>4
  <2>5. QED
    BY <2>1, <2>2, <2>3, <2>4
       DEF vars, Next, ProducerStep, FlushStep, ControlStep, WriteBegin, DropLine,
           CountDrop, CountLine, FlushNothing, FlushGet, WriteStart, WriteByte, WriteDone,
           WriteFails, FlushEnd, WriterWake, MarkClosed, StorageClose, StorageOpen,
           StorageOpenFails, ResetStats
<1>3. QED
  BY <1>1, <1>2 DEF TypeHistory

LEMMA StepType == TypeOK /\ [Next]_vars => TypeOK'
  BY StepTypeStorage, StepTypeRing, StepTypeStats, StepTypeConsumer, StepTypeControl,
     StepTypeProducer, StepTypeHistory DEF TypeOK

\* file_writer_write() and do_flush() keep every variable in its type and never
\* fill the ring beyond RING_BUFFER_SIZE, whatever the interleaving.
THEOREM TypeCorrect == Spec => []TypeOK
  BY InitType, StepType, PTL DEF Spec

-----------------------------------------------------------------------------
(* The locals of do_flush() *)

LEMMA InitFlushInv == Init => FlushInv
  BY DEF Init, FlushInv, Consumers, Writer, Closer

LEMMA StepFlushInv == TypeOK /\ FlushInv /\ [Next]_vars => FlushInv'
<1> SUFFICES ASSUME TypeOK, FlushInv, [Next]_vars PROVE FlushInv'
  OBVIOUS
<1> USE DEF TypeOK, TypeConsumer, FlushInv, Consumers, Writer, Closer
<1>1. ASSUME NEW c \in Consumers, FlushGet(c) PROVE FlushInv'
  BY <1>1, SizeAssumption DEF FlushGet, TypeRing, RingUsed, ctlVars
<1>2. ASSUME NEW c \in Consumers, FlushNothing(c) \/ FlushEnd(c) PROVE FlushInv'
  BY <1>2 DEF FlushNothing, FlushEnd, Return
<1>3. ASSUME NEW c \in Consumers, WriteStart(c) PROVE FlushInv'
  BY <1>3 DEF WriteStart, ctlVars
<1>4. ASSUME NEW c \in Consumers, WriteByte(c) PROVE FlushInv'
  BY <1>4, SizeAssumption DEF WriteByte, ctlVars
<1>5. ASSUME NEW c \in Consumers, WriteDone(c) \/ WriteFails(c) PROVE FlushInv'
  BY <1>5 DEF WriteDone, WriteFails, ctlVars
<1>6. CASE WriterWake
  BY <1>6 DEF WriterWake, ctlVars
<1>7. CASE CloseCall \/ OpenCall
  BY <1>7 DEF CloseCall, OpenCall, StartClose
<1>8. CASE MarkClosed \/ StorageClose \/ StorageOpen \/ StorageOpenFails
  BY <1>8 DEF MarkClosed, StorageClose, StorageOpen, StorageOpenFails, consumerVars,
              TypeControl
<1>9. CASE ResetStats \/ ResetRing
  BY <1>9 DEF ResetStats, ResetRing, consumerVars
<1>10. ASSUME UNCHANGED <<consumerVars, ctlVars>> PROVE FlushInv'
  BY <1>10 DEF consumerVars, ctlVars
<1>11. QED
  BY <1>1, <1>2, <1>3, <1>4, <1>5, <1>6, <1>7, <1>8, <1>9, <1>10
     DEF vars, consumerVars, ctlVars, Next, ProducerStep, FlushStep, ControlStep,
         WriteBegin, DropLine, PutLine, CountDrop, CountLine

-----------------------------------------------------------------------------
(* The order of the log *)

LEMMA InitLogInv == Init => LogInv
  BY DEF Init, LogInv, InOrder, FileOrder, BufferOrder, Opening, SoloNow, NoErrors, Pending,
         Consumers, Writer, Closer

\* A step that touches none of the variables of InOrder and makes no error good.
LEMMA FrameLogInv ==
  ASSUME TypeOK, LogInv, Observe, NoErrors' => NoErrors,
         UNCHANGED <<ctl, file, base, rd, wbuf, pc, flen, done>>
  PROVE  LogInv'
  BY DEF LogInv, InOrder, FileOrder, BufferOrder, Opening, SoloNow, Observe, Pending, TypeOK,
         TypeHistory

\* With the two callers apart, a consumer inside do_flush() is alone in it and
\* no file is being opened.
LEMMA Alone ==
  ASSUME FlushInv, SoloNow, NEW c \in Consumers, pc[c] # "idle"
  PROVE  ~Opening /\ \A d \in Consumers : d # c => pc[d] = "idle"
  BY DEF SoloNow, FlushInv, Opening, Consumers, Writer, Closer

\* The order is then a matter of that consumer's chunk.
OrderOf(c) ==
  FileOrder /\ rd = base + Len(file) + Pending(c) /\ BufferOrder(c)

LEMMA OrderAlone ==
  ASSUME TypeOK, NEW c \in Consumers, \A d \in Consumers : d # c => pc[d] = "idle",
         InOrder
  PROVE  OrderOf(c)
<1>1. Pending(Writer) \in Int /\ Pending(Closer) \in Int
  BY SizeAssumption DEF Pending, TypeOK, TypeConsumer, Consumers
<1>2. Pending(c) = Pending(Writer) + Pending(Closer)
  BY <1>1 DEF Pending, Consumers, Writer, Closer
<1>3. QED
  BY <1>1, <1>2 DEF InOrder, OrderOf, TypeOK, TypeHistory, TypeStorage

\* And with the other consumer idle, the order of its chunk is all there is.
LEMMA AloneOrder ==
  ASSUME TypeOK', NEW c \in Consumers, \A d \in Consumers : d # c => pc'[d] = "idle",
         OrderOf(c)'
  PROVE  InOrder'
<1>1. Pending(Writer)' \in Int /\ Pending(Closer)' \in Int
  BY SizeAssumption DEF Pending, TypeOK, TypeConsumer, Consumers
<1>2. Pending(c)' = Pending(Writer)' + Pending(Closer)'
  BY <1>1 DEF Pending, Consumers, Writer, Closer
<1>3. base' \in Int /\ Len(file') \in Int
  BY DEF TypeOK, TypeHistory, TypeStorage
<1>4. rd' = base' + Len(file') + Pending(Writer)' + Pending(Closer)'
  BY <1>1, <1>2, <1>3 DEF OrderOf
<1>5. \A d \in Consumers : BufferOrder(d)'
  BY DEF BufferOrder, OrderOf
<1>6. QED
  BY <1>4, <1>5 DEF InOrder, OrderOf

\* A step that moves a caller of do_flush() at most from idle to its first test
\* and touches no byte keeps the order.
LEMMA IdleLogInv ==
  ASSUME TypeOK, LogInv, Observe, UNCHANGED <<file, base, rd, wbuf, flen, done, stats>>,
         Opening' <=> Opening,
         \A c \in Consumers : pc'[c] = pc[c] \/ (pc[c] = "idle" /\ pc'[c] \in {"idle", "get"})
  PROVE  LogInv'
<1>1. solo' => solo /\ SoloNow'
  BY DEF Observe
<1>2. NoErrors' => NoErrors
  BY DEF NoErrors
<1>3. \A c \in Consumers : Pending(c)' = Pending(c) /\ (BufferOrder(c) => BufferOrder(c)')
  BY DEF Pending, BufferOrder
<1>4. InOrder => InOrder'
  BY <1>3 DEF InOrder, FileOrder, Consumers
<1>5. QED
  BY <1>1, <1>2, <1>4 DEF LogInv

LEMMA Shift == \A b, l, d, i \in Int : b + l - d + i = b + (l + 1) - (d + 1) + i
  OBVIOUS

\* A step of do_flush() that meets no error keeps its own chunk in order.
LEMMA FlushOrder ==
  ASSUME TypeOK, TypeOK', FlushInv, NEW c \in Consumers, FlushStep(c), OrderOf(c), NoErrors'
  PROVE  OrderOf(c)'
<1>t. /\ done[c] \in Nat /\ flen[c] \in Nat /\ flen[c] <= BufferSize /\ done[c] <= flen[c]
      /\ pc[c] = "get" => done[c] = 0
      /\ pc[c] = "write" => done[c] = 0
  BY SizeAssumption DEF TypeOK, TypeConsumer, FlushInv
<1>s. rd \in Nat /\ base \in Nat /\ file \in Seq(Nat) /\ Len(file) \in Nat /\ BufferSize \in Nat
  BY SizeAssumption DEF TypeOK, TypeStorage, TypeRing, TypeHistory
<1>f. /\ pc \in [Consumers -> {"idle", "get", "write", "writing", "stat", "failed"}]
      /\ flen \in [Consumers -> 0..BufferSize] /\ done \in [Consumers -> 0..BufferSize]
  BY DEF TypeOK, TypeConsumer
<1> USE DEF OrderOf, FileOrder, BufferOrder, Pending
<1>1. CASE FlushGet(c)
  <2> DEFINE n == IF RingUsed < BufferSize THEN RingUsed ELSE BufferSize
  <2>1. UNCHANGED <<file, base>> /\ pc'[c] = "write" /\ done'[c] = 0
    BY <1>1, <1>t, <1>f DEF FlushGet, storageVars, histVars
  <2>2. n \in Nat /\ n <= BufferSize
    BY <1>s DEF RingUsed, TypeOK, TypeRing
  <2>3. /\ rd' = rd + n /\ flen'[c] = n
        /\ wbuf' = [i \in 1..BufferSize |-> IF i <= n THEN rd + i ELSE wbuf[i]]
    BY <1>1, <1>f DEF FlushGet
  <2> HIDE DEF n
  <2>4. rd = base + Len(file)
    BY <1>1, <1>s DEF FlushGet
  <2>5. \A i \in 1..n : wbuf'[i] = rd + i
    BY <1>s, <2>2, <2>3
  <2>6. QED
    BY <1>s, <2>1, <2>2, <2>3, <2>4, <2>5
<1>2. CASE FlushNothing(c)
  BY <1>2, <1>t, <1>s, <1>f DEF FlushNothing, Return, storageVars, ringVars, histVars
<1>3. CASE WriteStart(c)
  BY <1>3, <1>t, <1>s, <1>f DEF WriteStart, storageVars, ringVars, histVars, NoErrors
<1>4. CASE WriteByte(c)
  <2>1. /\ file' = Append(file, wbuf[done[c] + 1]) /\ done'[c] = done[c] + 1
        /\ done[c] < flen[c] /\ pc[c] = "writing" /\ UNCHANGED <<base, rd, pc, flen, wbuf>>
    BY <1>4, <1>f DEF WriteByte, ringVars, histVars
  <2>u. UNCHANGED <<base, rd, pc, flen, wbuf>> /\ done'[c] = done[c] + 1 /\ pc[c] = "writing"
    BY <2>1
  <2>2. \A i \in (done[c] + 1)..flen[c] : wbuf[i] = base + Len(file) - done[c] + i
    BY <2>1
  <2>3. wbuf[done[c] + 1] = base + Len(file) + 1
    <3>1. done[c] + 1 \in (done[c] + 1)..flen[c]
      BY <1>t, <2>1
    <3>2. wbuf[done[c] + 1] = base + Len(file) - done[c] + (done[c] + 1)
      BY <2>2, <3>1
    <3>3. QED
      BY <1>t, <1>s, <3>2
  <2>4. /\ Len(file') = Len(file) + 1 /\ file'[Len(file) + 1] = base + Len(file) + 1
        /\ \A i \in 1..Len(file) : file'[i] = file[i]
    <3> DEFINE b == wbuf[done[c] + 1]
    <3>1. b \in Nat /\ b = base + Len(file) + 1
      BY <1>s, <2>3
    <3>2. file' = Append(file, b)
      BY <2>1
    <3> HIDE DEF b
    <3>3. QED
      BY <1>s, <3>1, <3>2
  <2> HIDE DEF BufferOrder, OrderOf
  <2>5. FileOrder'
    <3>1. \A i \in 1..Len(file) : file[i] = base + i
      BY DEF OrderOf
    <3>2. ASSUME NEW i \in 1..(Len(file) + 1) PROVE file'[i] = base + i
      <4>1. i \in 1..Len(file) \/ i = Len(file) + 1
        BY <1>s
      <4>2. CASE i \in 1..Len(file)
        BY <2>4, <3>1, <4>2
      <4>3. CASE i = Len(file) + 1
        <5>1. file'[i] = base + Len(file) + 1
          BY <2>4, <4>3
        <5>2. QED
          BY <1>s, <4>3, <5>1
      <4>4. QED
        BY <4>1, <4>2, <4>3
    <3>3. base' = base /\ Len(file') = Len(file) + 1
      BY <2>u, <2>4
    <3>4. ASSUME NEW i \in 1..Len(file') PROVE file'[i] = base' + i
      <4>1. i \in 1..(Len(file) + 1)
        BY <3>3
      <4>2. QED
        BY <3>2, <3>3, <4>1
    <3>5. QED
      BY <3>4 DEF FileOrder
  <2>6. rd' = base' + Len(file') + Pending(c)'
    <3>1. rd = base + Len(file) + (flen[c] - done[c])
      BY <2>1 DEF OrderOf
    <3>2. Pending(c)' = flen[c] - (done[c] + 1)
      BY <2>u
    <3>3. QED
      BY <1>t, <1>s, <2>u, <2>4, <3>1, <3>2
  <2>7. BufferOrder(c)'
    <3>1. \A i \in (done[c] + 2)..flen[c] : wbuf[i] = base + (Len(file) + 1) - (done[c] + 1) + i
      <4>1. \A i \in (done[c] + 2)..flen[c] : i \in (done[c] + 1)..flen[c] /\ i \in Int
        BY <1>t
      <4>2. \A i \in (done[c] + 2)..flen[c] : wbuf[i] = base + Len(file) - done[c] + i
        BY <2>2, <4>1
      <4>3. \A i \in Int : base + Len(file) - done[c] + i
                          = base + (Len(file) + 1) - (done[c] + 1) + i
        BY <1>t, <1>s, Shift
      <4>4. QED
        BY <4>1, <4>2, <4>3
    <3>2. done'[c] + 1 = done[c] + 2
      BY <1>t, <2>u
    <3>3. QED
      BY <1>t, <1>s, <2>u, <2>4, <3>1, <3>2 DEF BufferOrder
  <2>8. QED
    BY <2>5, <2>6, <2>7 DEF OrderOf
<1>5. CASE WriteDone(c)
  BY <1>5, <1>t, <1>s, <1>f DEF WriteDone, storageVars, ringVars, histVars
<1>6. CASE WriteFails(c)
  BY <1>6, <1>f DEF WriteFails, NoErrors
<1>7. CASE FlushEnd(c)
  BY <1>7, <1>t, <1>s, <1>f DEF FlushEnd, Return, storageVars, ringVars, histVars, NoErrors
<1>8. QED
  BY <1>1, <1>2, <1>3, <1>4, <1>5, <1>6, <1>7 DEF FlushStep

LEMMA StepLogInv == IInv /\ [Next]_vars => LogInv'
<1> SUFFICES ASSUME IInv, [Next]_vars PROVE LogInv'
  OBVIOUS
<1>t. TypeOK /\ FlushInv /\ LogInv /\ TypeOK' /\ FlushInv'
  BY StepType, StepFlushInv DEF IInv
<1>1. ASSUME NEW p \in Producers, ProducerStep(p) PROVE LogInv'
  <2>1. stats'.errors = stats.errors
    BY <1>1, <1>t DEF ProducerStep, WriteBegin, DropLine, PutLine, CountDrop, CountLine,
                      TypeOK, StatsType
  <2>2. /\ UNCHANGED <<ctl, file, base, rd, wbuf, pc, flen, done>>
        /\ Observe
    BY <1>1 DEF ProducerStep, WriteBegin, DropLine, PutLine, CountDrop, CountLine,
                storageVars, ringVars, consumerVars, ctlVars, histVars
  <2>3. QED
    BY <1>t, <2>1, <2>2, FrameLogInv DEF NoErrors
<1>2. ASSUME NEW c \in Consumers, FlushStep(c) PROVE LogInv'
  <2>1. /\ UNCHANGED base /\ Observe
        /\ \A d \in Consumers : d # c => pc'[d] = pc[d] /\ flen'[d] = flen[d] /\ done'[d] = done[d]
        /\ ctl' = ctl \/ ctl' = "mark"
        /\ pc[c] # "idle"
    BY <1>2, <1>t DEF FlushStep, FlushNothing, FlushGet, WriteStart, WriteByte, WriteDone,
      WriteFails, FlushEnd, Return, histVars, ctlVars, TypeOK, TypeConsumer
  <2>2. NoErrors' => NoErrors \/ pc[c] = "failed"
    BY <1>2, <1>t DEF FlushStep, FlushNothing, FlushGet, WriteStart, WriteByte, WriteDone,
      WriteFails, FlushEnd, Return, NoErrors, TypeOK, TypeConsumer, StatsType
  <2>3. pc[c] = "failed" => ~NoErrors'
    BY <1>2, <1>t DEF FlushStep, FlushNothing, FlushGet, WriteStart, WriteByte, WriteDone,
      WriteFails, FlushEnd, NoErrors, TypeOK, StatsType
  <2>4. SUFFICES ASSUME solo' PROVE LogInv'
    BY DEF LogInv
  <2>5. solo /\ SoloNow /\ SoloNow'
    BY <1>t, <2>1, <2>4 DEF Observe, LogInv
  <2>6. ~Opening /\ \A d \in Consumers : d # c => pc[d] = "idle"
    BY <1>t, <2>1, <2>5, Alone
  <2>7. ~Opening'
    BY <2>1, <2>6 DEF Opening
  <2>8. ASSUME NoErrors' PROVE InOrder'
    <3>1. InOrder
      BY <1>t, <2>2, <2>3, <2>5, <2>6, <2>8 DEF LogInv
    <3>2. OrderOf(c)
      BY <1>t, <2>6, <3>1, OrderAlone
    <3>3. OrderOf(c)'
      BY <1>2, <1>t, <2>8, <3>2, FlushOrder
    <3>4. \A d \in Consumers : d # c => pc'[d] = "idle"
      BY <2>1, <2>6
    <3>5. QED
      BY <1>t, <3>3, <3>4, AloneOrder
  <2>9. QED
    BY <2>5, <2>7, <2>8 DEF LogInv
<1>3. CASE WriterWake
  <2>1. /\ UNCHANGED <<ctl, file, base, rd, wbuf, flen, done, stats>> /\ Observe
        /\ pc[Writer] = "idle" /\ pc'[Writer] \in {"idle", "get"} /\ pc'[Closer] = pc[Closer]
    <3>1. pc \in [Consumers -> {"idle", "get", "write", "writing", "stat", "failed"}]
      BY <1>t DEF TypeOK, TypeConsumer
    <3>2. QED
      BY <1>3, <3>1 DEF WriterWake, storageVars, ringVars, ctlVars, histVars, Consumers, Writer,
        Closer
  <2>2. Opening' <=> Opening
    BY <2>1 DEF Opening
  <2>3. \A c \in Consumers : pc'[c] = pc[c] \/ (pc[c] = "idle" /\ pc'[c] \in {"idle", "get"})
    BY <2>1 DEF Consumers
  <2>4. QED
    BY <1>t, <2>1, <2>2, <2>3, IdleLogInv
<1>4. CASE CloseCall \/ OpenCall \/ MarkClosed \/ StorageClose \/ StorageOpenFails
  <2>1. /\ UNCHANGED <<file, base, rd, wbuf, flen, done, stats>> /\ Observe
        /\ Opening' <=> Opening
    <3>1. ctl \in {"idle", "flush", "mark", "close", "open", "stats", "ring"}
          /\ after \in {"idle", "open"}
      BY <1>t DEF TypeOK, TypeControl
    <3>2. CASE CloseCall \/ OpenCall
      BY <3>1, <3>2 DEF CloseCall, OpenCall, StartClose, storageVars, ringVars, histVars,
        Opening
    <3>3. CASE MarkClosed \/ StorageClose \/ StorageOpenFails
      BY <3>1, <3>3 DEF MarkClosed, StorageClose, StorageOpenFails, storageVars, ringVars,
        consumerVars, histVars, Opening
    <3>4. QED
      BY <1>4, <3>2, <3>3
  <2>2. /\ pc'[Writer] = pc[Writer]
        /\ pc'[Closer] = pc[Closer] \/ (pc[Closer] = "idle" /\ pc'[Closer] = "get")
    <3>1. /\ pc \in [Consumers -> {"idle", "get", "write", "writing", "stat", "failed"}]
          /\ ctl = "idle" => pc[Closer] = "idle"
      BY <1>t DEF TypeOK, TypeConsumer, FlushInv
    <3>2. CASE CloseCall \/ OpenCall
      BY <3>1, <3>2 DEF CloseCall, OpenCall, StartClose, Consumers, Writer, Closer
    <3>3. CASE MarkClosed \/ StorageClose \/ StorageOpenFails
      BY <3>3 DEF MarkClosed, StorageClose, StorageOpenFails, consumerVars
    <3>4. QED
      BY <1>4, <3>2, <3>3
  <2>3. \A c \in Consumers : pc'[c] = pc[c] \/ (pc[c] = "idle" /\ pc'[c] \in {"idle", "get"})
    BY <2>2 DEF Consumers
  <2>4. QED
    BY <1>t, <2>1, <2>3, IdleLogInv
<1>5. CASE StorageOpen
  BY <1>5 DEF StorageOpen, ObserveOpen, LogInv, Opening
<1>6. CASE ResetStats
  <2>1. Opening /\ Opening' /\ UNCHANGED file /\ Observe
    BY <1>6 DEF ResetStats, Opening, storageVars
  <2>2. QED
    BY <1>t, <2>1 DEF LogInv, Observe
<1>7. CASE ResetRing
  <2>1. /\ Opening /\ ~Opening' /\ file' = file /\ Observe /\ rd' = wr /\ base' = wr
        /\ pc' = pc /\ ctl = "ring"
    BY <1>7 DEF ResetRing, Opening, storageVars, consumerVars
  <2>2. SUFFICES ASSUME solo' PROVE LogInv'
    BY DEF LogInv
  <2>3. file = <<>> /\ SoloNow /\ SoloNow'
    BY <1>t, <2>1, <2>2 DEF LogInv, Observe
  <2>4. \A c \in Consumers : pc'[c] = "idle"
    BY <1>t, <2>1, <2>3 DEF SoloNow, FlushInv, Consumers
  <2>5. FileOrder'
    BY <2>1, <2>3 DEF FileOrder
  <2>6. rd' = base' + Len(file') + Pending(Writer)' + Pending(Closer)'
    BY <1>t, <2>1, <2>3, <2>4 DEF Pending, Consumers, TypeOK, TypeRing
  <2>7. \A c \in Consumers : BufferOrder(c)'
    BY <2>4 DEF BufferOrder
  <2>8. QED
    BY <2>1, <2>3, <2>5, <2>6, <2>7 DEF LogInv, InOrder
<1>8. CASE UNCHANGED vars
  BY <1>8, <1>t DEF vars, LogInv, SoloNow, Opening, NoErrors, InOrder, FileOrder, BufferOrder,
    Pending
<1>9. QED
  BY <1>1, <1>2, <1>3, <1>4, <1>5, <1>6, <1>7, <1>8 DEF Next, ControlStep

LEMMA InitIInv == Init => IInv
  BY InitType, InitFlushInv, InitLogInv DEF IInv

LEMMA StepIInv == IInv /\ [Next]_vars => IInv'
  BY StepType, StepFlushInv, StepLogInv DEF IInv

LEMMA IInvFaithful == IInv => LogFaithful
<1> SUFFICES ASSUME IInv, solo, NoErrors PROVE \A i \in 1..Len(file) : file[i] = base + i
  BY DEF LogFaithful
<1>1. CASE Opening
  BY <1>1 DEF IInv, LogInv
<1>2. CASE ~Opening
  BY <1>2 DEF IInv, LogInv, InOrder, FileOrder
<1>3. QED
  BY <1>1, <1>2

\* While the writer thread and the controller never meet in do_flush() and no
\* write fails, the log holds exactly the accepted bytes from the opening of
\* its file on, in order: no gap, no repetition, nothing of an earlier file.
THEOREM LogIsFaithful == Spec => []LogFaithful
  BY InitIInv, StepIInv, IInvFaithful, PTL DEF Spec

-----------------------------------------------------------------------------
(* Whole lines *)

\* The ring's last byte ends a line, for a line goes in whole or not at all.
WholeLines == wr = base \/ wr \in ends

LEMMA StepWhole == TypeOK /\ WholeLines /\ [Next]_vars => WholeLines'
<1> SUFFICES ASSUME TypeOK, WholeLines, [Next]_vars PROVE WholeLines'
  OBVIOUS
<1> USE DEF WholeLines
<1>1. ASSUME NEW p \in Producers, PutLine(p) PROVE WholeLines'
  BY <1>1 DEF PutLine
<1>2. CASE ResetRing
  BY <1>2 DEF ResetRing
<1>3. ASSUME UNCHANGED <<wr, base, ends>> PROVE WholeLines'
  BY <1>3
<1>4. QED
  BY <1>1, <1>2, <1>3
     DEF vars, ringVars, histVars, Next, ProducerStep, FlushStep, ControlStep, WriteBegin,
         DropLine, CountDrop, CountLine, FlushNothing, FlushGet, WriteStart, WriteByte,
         WriteDone, WriteFails, FlushEnd, WriterWake, CloseCall, OpenCall, StartClose,
         MarkClosed, StorageClose, StorageOpen, StorageOpenFails, ResetStats

LEMMA WholeAtEnd == IInv /\ WholeLines => LogEndsWithLine
<1> SUFFICES ASSUME IInv, WholeLines, solo, NoErrors, ctl = "idle", pc[Writer] = "idle",
                    RingUsed = 0
             PROVE  file = <<>> \/ base + Len(file) \in ends
  BY DEF LogEndsWithLine
<1> USE DEF IInv, TypeOK, TypeRing, TypeHistory, TypeStorage
<1>1. pc[Closer] = "idle"
  BY DEF FlushInv
<1>2. rd = base + Len(file)
  BY <1>1 DEF LogInv, Opening, InOrder, Pending
<1>3. wr = base + Len(file)
  BY <1>2 DEF RingUsed
<1>4. CASE wr = base
  BY <1>3, <1>4
<1>5. QED
  BY <1>3, <1>4 DEF WholeLines

\* While the writer thread and the controller never meet in do_flush() and no
\* write fails, a log whose ring has been drained ends where a line ends.
THEOREM WholeLinesLogged == Spec => []LogEndsWithLine
<1>1. Init => IInv /\ WholeLines
  BY InitIInv DEF Init, WholeLines
<1>2. IInv /\ WholeLines /\ [Next]_vars => (IInv /\ WholeLines)'
  BY StepIInv, StepWhole DEF IInv
<1>3. QED
  BY <1>1, <1>2, WholeAtEnd, PTL DEF Spec

-----------------------------------------------------------------------------
(* The statistics *)

Queued   == {p \in Producers : ppc[p] = "queued"}
Dropping == {p \in Producers : ppc[p] = "dropped"}

\* There are finitely many lines, each of at least a byte, so each put ends a
\* line where none ended before.
LinesInv ==
  /\ IsFiniteSet(Queued) /\ IsFiniteSet(Dropping) /\ IsFiniteSet(ends)
  /\ \A e \in ends : e <= wr
  /\ \A p \in Producers : ppc[p] = "enqueue" => plen[p] > 0

\* What has been counted and what a producer has left the spinlock with and has
\* yet to count make up the lines of the file; of the lines dropped, one at
\* least has begun an episode.
Counts ==
  /\ stats.lines + Cardinality(Queued) = Cardinality(ends)
  /\ pendingDrops <= stats.dropped + Cardinality(Dropping)
  /\ stats.overflows <= stats.dropped
  /\ stats.dropped > 0 \/ pendingDrops > 0 \/ Dropping # {} =>
       stats.overflows > 0 \/ \E p \in Dropping : pnew[p]

\* While no producer is in a call as a file is opened, the counters start from 0.
CountInv ==
  quiet => /\ QuietNow
           /\ ctl = "ring" => stats.lines = 0 /\ stats.overflows = 0 /\ stats.dropped = 0
           /\ ~Opening => Counts

\* Bytes a consumer has written and not counted yet.
Uncounted(c) ==
  IF pc[c] = "writing" THEN done[c] ELSE IF pc[c] = "stat" THEN flen[c] ELSE 0

BytesInv ==
  /\ \A c \in Consumers : pc[c] = "stat" => done[c] = flen[c]
  /\ solo /\ NoErrors /\ ctl # "stats" =>
       stats.bytes + Uncounted(Writer) + Uncounted(Closer) = Len(file)

LEMMA InitStats == Init => LinesInv /\ CountInv /\ BytesInv
<1> SUFFICES ASSUME Init PROVE LinesInv /\ CountInv /\ BytesInv
  OBVIOUS
<1> USE DEF Init
<1>1. Queued = {} /\ Dropping = {} /\ ends = {} /\ IsFiniteSet({}) /\ Cardinality({}) = 0
  BY FS_EmptySet DEF Queued, Dropping
<1>2. LinesInv
  BY <1>1 DEF LinesInv
<1>3. Counts
  BY <1>1 DEF Counts, ZeroStats
<1>4. BytesInv
  BY DEF BytesInv, Uncounted, ZeroStats, Consumers, Writer, Closer
<1>5. QED
  BY <1>2, <1>3, <1>4 DEF CountInv, QuietNow

\* A producer's step moves it between the sets of those with something to count.
LEMMA ProducerMoves ==
  ASSUME TypeOK, LinesInv, NEW p \in Producers, ProducerStep(p)
  PROVE  \/ /\ WriteBegin(p, plen'[p]) /\ plen'[p] > 0
            /\ UNCHANGED <<Queued, Dropping, ends, wr>>
         \/ /\ PutLine(p) /\ p \notin Queued /\ Queued' = Queued \cup {p}
            /\ UNCHANGED Dropping /\ wr' > wr /\ ends' = ends \cup {wr'} /\ wr' \notin ends
         \/ /\ CountLine(p) /\ p \in Queued /\ Queued' = Queued \ {p}
            /\ UNCHANGED <<Dropping, ends, wr>>
         \/ /\ DropLine(p) /\ p \notin Dropping /\ Dropping' = Dropping \cup {p}
            /\ UNCHANGED <<Queued, ends, wr>>
         \/ /\ CountDrop(p) /\ p \in Dropping /\ Dropping' = Dropping \ {p}
            /\ UNCHANGED <<Queued, ends, wr>>
<1> USE DEF TypeOK, TypeProducer, Queued, Dropping
<1>1. ASSUME NEW n \in LineLens, WriteBegin(p, n)
      PROVE  WriteBegin(p, plen'[p]) /\ plen'[p] > 0 /\ UNCHANGED <<Queued, Dropping, ends, wr>>
  <2>1. plen'[p] = n /\ n > 0
    BY <1>1, SizeAssumption DEF WriteBegin
  <2>2. UNCHANGED <<Queued, Dropping, ends, wr>>
    BY <1>1 DEF WriteBegin, histVars, ringVars
  <2>3. QED
    BY <1>1, <2>1, <2>2
<1>2. CASE PutLine(p)
  <2>1. plen[p] > 0 /\ wr' = wr + plen[p] /\ ends' = ends \cup {wr'}
    BY <1>2 DEF PutLine, LinesInv
  <2>2. wr' > wr /\ wr' \notin ends
    BY <2>1 DEF LinesInv, TypeRing, TypeHistory
  <2>3. p \notin Queued /\ Queued' = Queued \cup {p} /\ UNCHANGED Dropping
    BY <1>2 DEF PutLine
  <2>4. QED
    BY <1>2, <2>1, <2>2, <2>3
<1>3. CASE CountLine(p)
  BY <1>3 DEF CountLine, histVars, ringVars
<1>4. CASE DropLine(p)
  BY <1>4 DEF DropLine, histVars
<1>5. CASE CountDrop(p)
  BY <1>5 DEF CountDrop, histVars, ringVars
<1>6. QED
  BY <1>1, <1>2, <1>3, <1>4, <1>5 DEF ProducerStep

\* What the other threads do to what the producers count.
LEMMA OthersKeep ==
  ASSUME TypeOK, FlushInv, [Next]_vars, ~\E p \in Producers : ProducerStep(p)
  PROVE  /\ UNCHANGED <<ppc, plen, pnew, wr>>
         /\ \/ UNCHANGED <<ends, pendingDrops>> /\ ctl # "ring"
            \/ ends' = {} /\ pendingDrops' = 0 /\ ctl = "ring" /\ ctl' = "idle"
            \/ UNCHANGED <<ends, pendingDrops, ctl>>
         /\ \/ UNCHANGED <<stats.lines, stats.overflows, stats.dropped>>
            \/ ctl = "stats" /\ stats' = ZeroStats
         /\ \/ Observe /\ (Opening' <=> Opening) /\ (ctl' = "ring" <=> ctl = "ring")
            \/ ObserveOpen /\ ctl' = "stats"
            \/ Observe /\ ctl = "stats" /\ ctl' = "ring" /\ stats' = ZeroStats
            \/ Observe /\ ctl = "ring" /\ ctl' = "idle" /\ UNCHANGED stats
            \/ UNCHANGED vars
<1> USE DEF TypeOK, TypeControl, producerVars, ringVars, histVars, ctlVars
<1>1. ASSUME NEW c \in Consumers, FlushStep(c)
      PROVE  /\ UNCHANGED <<ppc, plen, pnew, wr, ends, pendingDrops>> /\ Observe
             /\ UNCHANGED <<stats.lines, stats.overflows, stats.dropped>>
             /\ ctl' = ctl \/ (ctl = "flush" /\ ctl' = "mark")
  <2>1. CASE FlushEnd(c)
    BY <1>1, <2>1 DEF FlushEnd, Return, FlushInv, StatsType, Consumers, Writer, Closer
  <2>2. CASE FlushNothing(c)
    BY <1>1, <2>2 DEF FlushNothing, Return, FlushInv, Consumers, Writer, Closer
  <2>3. CASE FlushGet(c) \/ WriteStart(c) \/ WriteByte(c) \/ WriteDone(c) \/ WriteFails(c)
    BY <2>3 DEF FlushGet, WriteStart, WriteByte, WriteDone, WriteFails
  <2>4. QED
    BY <1>1, <2>1, <2>2, <2>3 DEF FlushStep
<1>2. CASE WriterWake
  BY <1>2 DEF WriterWake, Opening
<1>3. CASE CloseCall \/ OpenCall
  BY <1>3 DEF CloseCall, OpenCall, StartClose, Opening
<1>4. CASE MarkClosed \/ StorageClose \/ StorageOpenFails
  BY <1>4 DEF MarkClosed, StorageClose, StorageOpenFails, Opening
<1>5. CASE StorageOpen
  BY <1>5 DEF StorageOpen
<1>6. CASE ResetStats
  BY <1>6 DEF ResetStats
<1>7. CASE ResetRing
  BY <1>7 DEF ResetRing
<1>8. CASE UNCHANGED vars
  BY <1>8 DEF vars
<1>9. QED
  BY <1>1, <1>2, <1>3, <1>4, <1>5, <1>6, <1>7, <1>8 DEF Next, ControlStep, Opening

LEMMA StepLines == TypeOK /\ FlushInv /\ LinesInv /\ [Next]_vars => LinesInv'
<1> SUFFICES ASSUME TypeOK, FlushInv, LinesInv, [Next]_vars PROVE LinesInv'
  OBVIOUS
<1>1. ASSUME NEW p \in Producers, ProducerStep(p) PROVE LinesInv'
  <2>1. IsFiniteSet(Queued') /\ IsFiniteSet(Dropping') /\ IsFiniteSet(ends')
    <3>1. /\ Queued' \in {Queued, Queued \cup {p}, Queued \ {p}}
          /\ Dropping' \in {Dropping, Dropping \cup {p}, Dropping \ {p}}
          /\ ends' \in {ends, ends \cup {wr'}}
      BY <1>1, ProducerMoves
    <3>2. /\ IsFiniteSet(Queued \cup {p}) /\ IsFiniteSet(Queued \ {p})
          /\ IsFiniteSet(Dropping \cup {p}) /\ IsFiniteSet(Dropping \ {p})
          /\ IsFiniteSet(ends \cup {wr'})
      BY FS_AddElement, FS_RemoveElement DEF LinesInv
    <3>3. QED
      BY <3>1, <3>2 DEF LinesInv
  <2>2. \A e \in ends' : e <= wr'
    <3>1. UNCHANGED <<ends, wr>> \/ (wr' > wr /\ ends' = ends \cup {wr'})
      BY <1>1, ProducerMoves
    <3>2. ends \subseteq Nat /\ wr \in Nat /\ wr' \in Nat
      BY StepType DEF TypeOK, TypeRing, TypeHistory
    <3>3. \A e \in ends : e \in Nat /\ e <= wr
      BY <3>2 DEF LinesInv
    <3>4. CASE UNCHANGED <<ends, wr>>
      BY <3>3, <3>4
    <3>5. CASE wr' > wr /\ ends' = ends \cup {wr'}
      <4>1. ASSUME NEW e \in ends' PROVE e \in ends \/ e = wr'
        BY <3>5
      <4>2. QED
        BY <3>2, <3>3, <3>5, <4>1
    <3>6. QED
      BY <3>1, <3>4, <3>5
  <2>3. \A q \in Producers : ppc'[q] = "enqueue" => plen'[q] > 0
    BY <1>1, ProducerMoves
       DEF LinesInv, TypeOK, TypeProducer, WriteBegin, PutLine, CountLine, DropLine, CountDrop
  <2>4. QED
    BY <2>1, <2>2, <2>3 DEF LinesInv
<1>2. CASE ~\E p \in Producers : ProducerStep(p)
  <2>1. UNCHANGED <<Queued, Dropping, plen, ppc, wr>> /\ (ends' = ends \/ ends' = {})
    BY <1>2, OthersKeep DEF Queued, Dropping
  <2>2. IsFiniteSet(ends')
    BY <2>1, FS_EmptySet DEF LinesInv
  <2>3. QED
    BY <2>1, <2>2 DEF LinesInv
<1>3. QED
  BY <1>1, <1>2

\* A producer's step counts what it takes out of those with something to count.
LEMMA ProducerCounts ==
  ASSUME TypeOK, LinesInv, Counts, NEW p \in Producers, ProducerStep(p)
  PROVE  Counts'
<1>1. /\ Cardinality(Queued) \in Nat /\ Cardinality(Dropping) \in Nat
      /\ Cardinality(ends) \in Nat
  BY FS_CardinalityType DEF LinesInv
<1>2. /\ stats \in StatsType /\ stats.lines \in Nat /\ stats.dropped \in Nat
      /\ stats.overflows \in Nat /\ pendingDrops \in Nat /\ pnew \in [Producers -> BOOLEAN]
  BY DEF TypeOK, StatsType, TypeRing, TypeProducer
<1>3. CASE WriteBegin(p, plen'[p]) /\ UNCHANGED <<Queued, Dropping, ends, wr>>
  BY <1>3 DEF WriteBegin, Counts, ringVars
<1>4. CASE PutLine(p) /\ p \notin Queued /\ Queued' = Queued \cup {p}
           /\ UNCHANGED Dropping /\ ends' = ends \cup {wr'} /\ wr' \notin ends
  <2>1. /\ Cardinality(Queued') = Cardinality(Queued) + 1
        /\ Cardinality(ends') = Cardinality(ends) + 1
    BY <1>4, FS_AddElement DEF LinesInv
  <2>2. UNCHANGED <<stats, pnew, Dropping>> /\ pendingDrops' = 0
    BY <1>4 DEF PutLine
  <2>3. QED
    BY <1>1, <1>2, <2>1, <2>2 DEF Counts
<1>5. CASE CountLine(p) /\ p \in Queued /\ Queued' = Queued \ {p}
           /\ UNCHANGED <<Dropping, ends, wr>>
  <2>1. Cardinality(Queued') = Cardinality(Queued) - 1
    BY <1>5, FS_RemoveElement DEF LinesInv
  <2>2. /\ stats'.lines = stats.lines + 1
        /\ UNCHANGED <<stats.overflows, stats.dropped, pnew, pendingDrops>>
    BY <1>2, <1>5 DEF CountLine, ringVars, StatsType
  <2>3. QED
    BY <1>1, <1>2, <1>5, <2>1, <2>2 DEF Counts
<1>6. CASE DropLine(p) /\ p \notin Dropping /\ Dropping' = Dropping \cup {p}
           /\ UNCHANGED <<Queued, ends, wr>>
  <2>1. Cardinality(Dropping') = Cardinality(Dropping) + 1
    BY <1>6, FS_AddElement DEF LinesInv
  <2>2. /\ UNCHANGED stats /\ pendingDrops' = pendingDrops + 1
        /\ pnew' = [pnew EXCEPT ![p] = (pendingDrops = 0)]
    BY <1>6 DEF DropLine
  <2>3. stats.overflows > 0 \/ \E q \in Dropping' : pnew'[q]
    <3>1. CASE pendingDrops = 0
      <4>1. pnew'[p] /\ p \in Dropping'
        BY <1>2, <1>6, <2>2, <3>1
      <4>2. QED
        BY <4>1
    <3>2. CASE stats.overflows > 0
      BY <3>2
    <3>3. CASE \E q \in Dropping : pnew[q]
      <4>1. PICK q \in Dropping : pnew[q]
        BY <3>3
      <4>2. q # p /\ q \in Producers /\ q \in Dropping'
        BY <1>6 DEF Dropping
      <4>3. pnew'[q]
        BY <1>2, <2>2, <4>1, <4>2
      <4>4. QED
        BY <4>2, <4>3
    <3>4. QED
      BY <1>2, <3>1, <3>2, <3>3 DEF Counts
  <2>4. QED
    BY <1>1, <1>2, <1>6, <2>1, <2>2, <2>3 DEF Counts
<1>7. CASE CountDrop(p) /\ p \in Dropping /\ Dropping' = Dropping \ {p}
           /\ UNCHANGED <<Queued, ends, wr>>
  <2>1. Cardinality(Dropping') = Cardinality(Dropping) - 1
    BY <1>7, FS_RemoveElement DEF LinesInv
  <2>2. /\ UNCHANGED <<stats.lines, pendingDrops>> /\ stats'.dropped = stats.dropped + 1
        /\ stats'.overflows = IF pnew[p] THEN stats.overflows + 1 ELSE stats.overflows
        /\ pnew' = [pnew EXCEPT ![p] = FALSE]
    BY <1>2, <1>7 DEF CountDrop, ringVars, StatsType
  <2>3. stats'.overflows > 0 \/ \E q \in Dropping' : pnew'[q]
    <3>1. CASE pnew[p] \/ stats.overflows > 0
      BY <1>2, <2>2, <3>1
    <3>2. CASE ~pnew[p] /\ \E q \in Dropping : pnew[q]
      <4>1. PICK q \in Dropping : pnew[q]
        BY <3>2
      <4>2. q # p /\ q \in Producers /\ q \in Dropping'
        BY <1>7, <3>2, <4>1 DEF Dropping
      <4>3. pnew'[q]
        BY <1>2, <2>2, <4>1, <4>2
      <4>4. QED
        BY <4>2, <4>3
    <3>3. Dropping # {}
      BY <1>7
    <3>4. QED
      BY <3>1, <3>2, <3>3 DEF Counts
  <2>4. QED
    BY <1>1, <1>2, <1>7, <2>1, <2>2, <2>3 DEF Counts
<1>8. QED
  BY <1>3, <1>4, <1>5, <1>6, <1>7, ProducerMoves, Zenon

LEMMA StepCount == TypeOK /\ FlushInv /\ LinesInv /\ CountInv /\ [Next]_vars => CountInv'
<1> SUFFICES ASSUME TypeOK, FlushInv, LinesInv, CountInv, [Next]_vars, quiet'
             PROVE  CountInv'
  BY DEF CountInv
<1>1. ASSUME NEW p \in Producers, ProducerStep(p) PROVE CountInv'
  <2>1. UNCHANGED ctl /\ Observe
    BY <1>1 DEF ProducerStep, WriteBegin, DropLine, PutLine, CountDrop, CountLine, ctlVars
  <2>2. quiet /\ QuietNow /\ QuietNow'
    BY <2>1 DEF Observe, CountInv
  <2>3. ppc[p] # "idle" \/ ppc'[p] # "idle"
    BY <1>1 DEF ProducerStep, WriteBegin, DropLine, PutLine, CountDrop, CountLine, TypeOK,
      TypeProducer
  <2>4. ~Opening /\ ~Opening'
    BY <2>1, <2>2, <2>3 DEF QuietNow, Opening
  <2>5. Counts'
    BY <1>1, <2>2, <2>4, ProducerCounts DEF CountInv
  <2>6. QED
    BY <2>2, <2>4, <2>5 DEF CountInv, Opening
<1>2. CASE ~\E p \in Producers : ProducerStep(p)
  <2>1. UNCHANGED <<Queued, Dropping>>
    BY <1>2, OthersKeep DEF Queued, Dropping
  <2>2. CASE Observe /\ (Opening' <=> Opening) /\ (ctl' = "ring" <=> ctl = "ring")
    <3>1. quiet /\ QuietNow'
      BY <2>2 DEF Observe
    <3>2. UNCHANGED <<stats.lines, stats.overflows, stats.dropped>> \/ Opening
      BY <1>2, OthersKeep DEF Opening
    <3>3. ctl = "ring" => UNCHANGED <<stats.lines, stats.overflows, stats.dropped>>
      BY <1>2, OthersKeep
    <3>4. ~Opening => UNCHANGED <<ends, pendingDrops, pnew>>
      BY <1>2, OthersKeep DEF Opening
    <3>5. ~Opening => Counts'
      BY <2>1, <3>1, <3>2, <3>4 DEF CountInv, Counts
    <3>6. QED
      BY <2>2, <3>1, <3>3, <3>5 DEF CountInv
  <2>3. CASE ObserveOpen /\ ctl' = "stats"
    BY <2>3 DEF ObserveOpen, CountInv, Opening
  <2>4. CASE Observe /\ ctl = "stats" /\ ctl' = "ring" /\ stats' = ZeroStats
    BY <2>4 DEF Observe, CountInv, Opening, ZeroStats
  <2>5. CASE Observe /\ ctl = "ring" /\ ctl' = "idle" /\ UNCHANGED stats
    <3>1. QuietNow /\ stats.lines = 0 /\ stats.overflows = 0 /\ stats.dropped = 0
      BY <2>5 DEF Observe, CountInv
    <3>2. ends' = {} /\ pendingDrops' = 0
      BY <1>2, <2>5, OthersKeep
    <3>3. Queued = {} /\ Dropping = {}
      BY <2>5, <3>1 DEF QuietNow, Queued, Dropping
    <3>4. Cardinality({}) = 0
      BY FS_EmptySet
    <3>5. Counts'
      BY <2>1, <2>5, <3>1, <3>2, <3>3, <3>4 DEF Counts
    <3>6. QED
      BY <2>5, <3>5 DEF CountInv, Observe, Opening
  <2>6. CASE UNCHANGED vars
    BY <2>1, <2>6 DEF vars, CountInv, QuietNow, Counts, Opening
  <2>7. QED
    BY <1>2, <2>2, <2>3, <2>4, <2>5, <2>6, OthersKeep
<1>3. QED
  BY <1>1, <1>2

\* A step that touches neither the file nor what is written and counted of it.
LEMMA FrameBytes ==
  ASSUME BytesInv, solo' => solo, NoErrors' => NoErrors,
         ctl' # "stats" => ctl # "stats",
         UNCHANGED <<file, stats.bytes, flen, done>>,
         \A c \in Consumers :
            pc'[c] = pc[c] \/ (pc[c] \in {"idle", "get"} /\ pc'[c] \in {"idle", "get"})
  PROVE  BytesInv'
<1>1. Uncounted(Writer)' = Uncounted(Writer) /\ Uncounted(Closer)' = Uncounted(Closer)
  BY DEF Uncounted, Consumers
<1>2. QED
  BY <1>1 DEF BytesInv

\* A step of do_flush() that meets no error.
LEMMA FlushBytes ==
  ASSUME TypeOK, FlushInv, BytesInv, NEW c \in Consumers, FlushStep(c)
  PROVE  /\ \A d \in Consumers : pc'[d] = "stat" => done'[d] = flen'[d]
         /\ NoErrors' /\ pc[c] # "failed" =>
              stats'.bytes - stats.bytes + Uncounted(c)' - Uncounted(c) = Len(file') - Len(file)
<1>t. /\ done[c] \in Nat /\ flen[c] \in Nat
      /\ pc \in [Consumers -> {"idle", "get", "write", "writing", "stat", "failed"}]
      /\ flen \in [Consumers -> 0..BufferSize] /\ done \in [Consumers -> 0..BufferSize]
      /\ stats \in StatsType /\ stats.bytes \in Nat /\ file \in Seq(Nat) /\ Len(file) \in Nat
  BY SizeAssumption DEF TypeOK, TypeConsumer, TypeStorage, StatsType
<1> USE DEF BytesInv, Uncounted
<1>1. CASE FlushNothing(c)
  BY <1>1, <1>t DEF FlushNothing, Return, storageVars
<1>2. CASE FlushGet(c)
  BY <1>2, <1>t DEF FlushGet, storageVars
<1>3. CASE WriteStart(c)
  BY <1>3, <1>t DEF WriteStart, storageVars
<1>4. CASE WriteByte(c)
  <2>1. done[c] + 1 \in 1..BufferSize
    BY <1>4, SizeAssumption DEF WriteByte, TypeOK, TypeConsumer
  <2>2. wbuf[done[c] + 1] \in Nat
    BY <2>1 DEF TypeOK, TypeConsumer
  <2>3. Len(file') = Len(file) + 1
    BY <1>4, <1>t, <2>2 DEF WriteByte
  <2>4. pc[c] = "writing" /\ done'[c] = done[c] + 1 /\ UNCHANGED <<pc, flen, stats>>
    BY <1>4, <1>t DEF WriteByte
  <2>5. \A d \in Consumers : d # c => done'[d] = done[d]
    BY <1>4, <1>t DEF WriteByte
  <2>6. QED
    BY <1>t, <2>3, <2>4, <2>5
<1>5. CASE WriteDone(c)
  BY <1>5, <1>t DEF WriteDone, storageVars
<1>6. CASE WriteFails(c)
  BY <1>6, <1>t DEF WriteFails, NoErrors
<1>7. CASE FlushEnd(c)
  BY <1>7, <1>t DEF FlushEnd, Return, storageVars, StatsType
<1>8. QED
  BY <1>1, <1>2, <1>3, <1>4, <1>5, <1>6, <1>7 DEF FlushStep

LEMMA StepBytes == IInv /\ BytesInv /\ [Next]_vars => BytesInv'
<1> SUFFICES ASSUME IInv, BytesInv, [Next]_vars PROVE BytesInv'
  OBVIOUS
<1>t. TypeOK /\ FlushInv /\ LogInv /\ TypeOK'
  BY StepType DEF IInv
<1>1. ASSUME NEW p \in Producers, ProducerStep(p) PROVE BytesInv'
  <2>1. UNCHANGED <<ctl, file, pc, flen, done, stats.bytes, stats.errors>> /\ Observe
    BY <1>1, <1>t DEF ProducerStep, WriteBegin, DropLine, PutLine, CountDrop, CountLine,
      storageVars, consumerVars, ctlVars, TypeOK, StatsType
  <2>2. QED
    BY <2>1, FrameBytes DEF NoErrors, Observe
<1>2. ASSUME NEW c \in Consumers, FlushStep(c) PROVE BytesInv'
  <2>1. /\ Observe /\ pc[c] # "idle"
        /\ \A d \in Consumers : d # c => pc'[d] = pc[d] /\ flen'[d] = flen[d] /\ done'[d] = done[d]
        /\ pc[c] = "failed" => ~NoErrors'
        /\ NoErrors' => NoErrors \/ pc[c] = "failed"
        /\ ctl' = ctl \/ ctl' = "mark"
    <3>1. /\ stats \in StatsType
          /\ pc \in [Consumers -> {"idle", "get", "write", "writing", "stat", "failed"}]
          /\ flen \in [Consumers -> 0..BufferSize] /\ done \in [Consumers -> 0..BufferSize]
      BY <1>t DEF TypeOK, TypeConsumer
    <3>2. CASE FlushEnd(c)
      BY <3>1, <3>2 DEF FlushEnd, Return, NoErrors, StatsType
    <3>3. CASE FlushNothing(c)
      BY <3>1, <3>3 DEF FlushNothing, Return, NoErrors
    <3>4. CASE FlushGet(c) \/ WriteStart(c) \/ WriteByte(c) \/ WriteDone(c) \/ WriteFails(c)
      BY <3>1, <3>4 DEF FlushGet, WriteStart, WriteByte, WriteDone, WriteFails, NoErrors, ctlVars
    <3>5. QED
      BY <1>2, <3>2, <3>3, <3>4 DEF FlushStep
  <2>2. /\ \A d \in Consumers : pc'[d] = "stat" => done'[d] = flen'[d]
        /\ NoErrors' /\ pc[c] # "failed" =>
             stats'.bytes - stats.bytes + Uncounted(c)' - Uncounted(c) = Len(file') - Len(file)
    BY <1>2, <1>t, FlushBytes
  <2>3. ASSUME solo', NoErrors'
        PROVE  stats'.bytes + Uncounted(Writer)' + Uncounted(Closer)' = Len(file')
    <3>1. solo /\ SoloNow /\ NoErrors /\ pc[c] # "failed"
      BY <1>t, <2>1, <2>3 DEF Observe, LogInv
    <3>2. ctl # "stats" /\ \A d \in Consumers : d # c => pc[d] = "idle"
      BY <1>t, <2>1, <3>1, Alone DEF Opening
    <3>3. stats.bytes + Uncounted(Writer) + Uncounted(Closer) = Len(file)
      BY <3>1, <3>2 DEF BytesInv
    <3>4. /\ \A d \in Consumers : d # c => Uncounted(d) = 0 /\ Uncounted(d)' = 0
          /\ \A d \in Consumers : Uncounted(d) \in Nat /\ Uncounted(d)' \in Nat
      BY <1>t, <2>1, <3>2, SizeAssumption DEF Uncounted, TypeOK, TypeConsumer
    <3>5. /\ stats.bytes \in Nat /\ stats'.bytes \in Nat
          /\ Len(file) \in Nat /\ Len(file') \in Nat
      BY <1>t DEF TypeOK, StatsType, TypeStorage
    <3>6. stats'.bytes - stats.bytes + Uncounted(c)' - Uncounted(c) = Len(file') - Len(file)
      BY <2>2, <2>3, <3>1
    <3>7. /\ Uncounted(Writer) + Uncounted(Closer) = Uncounted(c)
          /\ Uncounted(Writer)' + Uncounted(Closer)' = Uncounted(c)'
      BY <3>4 DEF Consumers, Writer, Closer
    <3>8. /\ Uncounted(Writer) \in Nat /\ Uncounted(Closer) \in Nat
          /\ Uncounted(Writer)' \in Nat /\ Uncounted(Closer)' \in Nat
      BY <3>4 DEF Consumers
    <3>9. \A b, b1, l, l1, u, u1 \in Nat : b + u = l /\ b1 - b + u1 - u = l1 - l => b1 + u1 = l1
      OBVIOUS
    <3>10. stats.bytes + Uncounted(c) = Len(file)
      BY <3>3, <3>5, <3>7, <3>8
    <3>11. stats'.bytes + Uncounted(c)' = Len(file')
      BY <3>4, <3>5, <3>6, <3>9, <3>10
    <3>12. QED
      BY <3>5, <3>7, <3>8, <3>11
  <2>4. QED
    BY <2>2, <2>3 DEF BytesInv
<1>3. CASE WriterWake
  <2>1. UNCHANGED <<ctl, file, flen, done, stats>> /\ Observe
    BY <1>3 DEF WriterWake, storageVars, ctlVars
  <2>2. /\ \A c \in Consumers :
             pc'[c] = pc[c] \/ (pc[c] \in {"idle", "get"} /\ pc'[c] \in {"idle", "get"})
        /\ NoErrors' => NoErrors
    BY <1>3, <1>t DEF WriterWake, NoErrors, TypeOK, TypeConsumer
  <2>3. QED
    BY <2>1, <2>2, FrameBytes DEF Observe
<1>4. CASE CloseCall \/ OpenCall \/ MarkClosed \/ StorageClose \/ StorageOpenFails
  <2>1. /\ UNCHANGED <<file, flen, done, stats>> /\ Observe
        /\ ctl # "stats" /\ ctl' # "stats"
    <3>1. CASE CloseCall \/ OpenCall
      BY <3>1 DEF CloseCall, OpenCall, StartClose, storageVars
    <3>2. CASE MarkClosed \/ StorageClose \/ StorageOpenFails
      BY <3>2, <1>t DEF MarkClosed, StorageClose, StorageOpenFails, storageVars, consumerVars,
        TypeOK, TypeControl
    <3>3. QED
      BY <1>4, <3>1, <3>2
  <2>2. /\ \A c \in Consumers :
             pc'[c] = pc[c] \/ (pc[c] \in {"idle", "get"} /\ pc'[c] \in {"idle", "get"})
        /\ NoErrors' => NoErrors
    <3>1. CASE CloseCall \/ OpenCall
      BY <3>1, <1>t DEF CloseCall, OpenCall, StartClose, NoErrors, TypeOK, TypeConsumer, FlushInv
    <3>2. CASE MarkClosed \/ StorageClose \/ StorageOpenFails
      BY <3>2 DEF MarkClosed, StorageClose, StorageOpenFails, consumerVars, NoErrors
    <3>3. QED
      BY <1>4, <3>1, <3>2
  <2>3. QED
    BY <2>1, <2>2, FrameBytes DEF Observe
<1>5. CASE StorageOpen
  BY <1>5 DEF StorageOpen, BytesInv, consumerVars
<1>6. CASE ResetStats
  <2>1. /\ ctl = "stats" /\ stats' = ZeroStats /\ UNCHANGED <<file, pc, flen, done>> /\ Observe
    BY <1>6 DEF ResetStats, storageVars, consumerVars
  <2>2. ASSUME solo' PROVE file = <<>> /\ \A c \in Consumers : pc[c] = "idle"
    BY <1>t, <2>1, <2>2 DEF Observe, LogInv, Opening, SoloNow, FlushInv, Consumers
  <2>3. QED
    BY <2>1, <2>2 DEF BytesInv, ZeroStats, Uncounted, Consumers
<1>7. CASE ResetRing
  BY <1>7, FrameBytes DEF ResetRing, Observe, NoErrors, storageVars, consumerVars
<1>8. CASE UNCHANGED vars
  BY <1>8, FrameBytes DEF vars, NoErrors
<1>9. QED
  BY <1>1, <1>2, <1>3, <1>4, <1>5, <1>6, <1>7, <1>8 DEF Next, ControlStep

StatsInv == IInv /\ LinesInv /\ CountInv /\ BytesInv

LEMMA StatsAtRest == StatsInv => StatsExact
<1> SUFFICES ASSUME StatsInv, NoneInCall, ctl = "idle", pc[Writer] = "idle"
             PROVE  /\ quiet => /\ stats.dropped > 0 <=> stats.overflows > 0
                                /\ pendingDrops <= stats.dropped
                                /\ stats.lines = Cardinality(ends)
                    /\ solo /\ NoErrors => stats.bytes = Len(file)
  BY DEF StatsExact
<1>1. /\ stats.lines \in Nat /\ stats.dropped \in Nat /\ stats.overflows \in Nat
      /\ stats.bytes \in Nat /\ pendingDrops \in Nat /\ Len(file) \in Nat
  BY DEF StatsInv, IInv, TypeOK, StatsType, TypeRing, TypeStorage
<1>2. Queued = {} /\ Dropping = {} /\ Cardinality({}) = 0
  BY FS_EmptySet DEF NoneInCall, InCall, Queued, Dropping
<1>3. quiet => Counts
  BY DEF StatsInv, CountInv, Opening
<1>4. Cardinality(ends) \in Nat
  BY FS_CardinalityType DEF StatsInv, LinesInv
<1>5. pc[Closer] = "idle"
  BY DEF StatsInv, IInv, FlushInv
<1>6. solo /\ NoErrors => stats.bytes + Uncounted(Writer) + Uncounted(Closer) = Len(file)
  BY DEF StatsInv, BytesInv
<1>7. Uncounted(Writer) = 0 /\ Uncounted(Closer) = 0
  BY <1>5 DEF Uncounted
<1>8. QED
  BY <1>1, <1>2, <1>3, <1>4, <1>6, <1>7 DEF Counts

\* For any producers, whatever their calls, drops and wake-ups: at rest every
\* line accepted since the file was opened is counted, every line dropped
\* belongs to an episode that is reported, and, without overlap and errors, the
\* bytes counted are those of the log.
THEOREM StatsAreExact == Spec => []StatsExact
<1>1. Init => StatsInv
  BY InitIInv, InitStats DEF StatsInv
<1>2. StatsInv /\ [Next]_vars => StatsInv'
  BY StepIInv, StepLines, StepCount, StepBytes DEF StatsInv, IInv
<1>3. QED
  BY <1>1, <1>2, StatsAtRest, PTL DEF Spec
=============================================================================
