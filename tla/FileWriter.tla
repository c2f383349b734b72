----------------------------- MODULE FileWriter -----------------------------
(***************************************************************************)
(* The asynchronous file writer (services/file_writer.c): producers put    *)
(* whole lines into a byte ring under a spinlock; a low-priority writer    *)
(* thread takes chunks of bytes out of it and writes them to storage; the  *)
(* thread that opens, closes or flushes the file (the controller) also     *)
(* takes chunks, through the same do_flush() and the same static           *)
(* write_buffer.                                                           *)
(*                                                                         *)
(* A byte is its position in the stream of accepted bytes: the k-th byte   *)
(* ever put into the ring is the number k, across all files.  The ring is  *)
(* then the interval rd+1 .. wr, as in the put and get indices of Zephyr's *)
(* ring_buf, and the log file is a sequence of positions.                  *)
(***************************************************************************)
EXTENDS Integers, Sequences, FiniteSets

CONSTANTS
  Producers,    \* threads that call file_writer_write()
  RingSize,     \* RING_BUFFER_SIZE, in bytes
  BufferSize,   \* writer.buffer_size, the size of a chunk
  LineLens,     \* lengths of the lines producers write
  MaxBytes,     \* bound: bytes accepted in a behaviour
  MaxDrops,     \* bound: lines dropped since the last open
  MaxErrors,    \* bound: failed storage writes since the last open
  MaxOpens      \* bound: files opened in a behaviour

ASSUME SizeAssumption ==
  /\ RingSize \in Nat \ {0}
  /\ BufferSize \in 1..RingSize
  /\ \A n \in LineLens : n \in Nat \ {0}

Writer == "writer"        \* the writer thread
Closer == "closer"        \* the controller, inside do_flush()
Consumers == {Writer, Closer}

ASSUME ProducerAssumption == Producers \cap Consumers = {}

VARIABLES
  fileOpen,     \* writer.file_open
  handleOpen,   \* writer.file.is_open, the storage layer's view
  file,         \* contents of the current log file: positions, in order
  rd, wr,       \* bytes ever taken from, and put into, the ring
  wbuf,         \* write_buffer, shared by every call of do_flush()
  pendingDrops, \* writer.pending_drops
  stats,        \* writer.stats
  pc,           \* consumer: where it is in do_flush()
  flen,         \* consumer: its local `len`
  done,         \* consumer: bytes storage_write() has copied so far
  ctl,          \* controller: where it is in open / close / flush
  after,        \* controller: what follows its do_flush()
  ppc,          \* producer: where it is in file_writer_write()
  plen,         \* producer: length of its line
  pnew,         \* producer: its local new_episode
  opens,        \* history: files opened
  base,         \* history: wr when the current file's ring was reset
  ends,         \* history: positions after base at which a line ends
  due,          \* history: wr when the last close was called
  solo,         \* history: see Solo below
  quiet         \* history: no producer was in a call while this file was opened

ringVars     == <<rd, wr, pendingDrops>>
storageVars  == <<handleOpen, file>>
consumerVars == <<pc, flen, done, wbuf>>
ctlVars      == <<ctl, after, opens>>
producerVars == <<ppc, plen, pnew>>
histVars     == <<base, ends, due>>
vars == <<fileOpen, handleOpen, file, rd, wr, wbuf, pendingDrops, stats, pc, flen,
          done, ctl, after, ppc, plen, pnew, opens, base, ends, due, solo, quiet>>

-----------------------------------------------------------------------------
ZeroStats == [lines |-> 0, bytes |-> 0, errors |-> 0, overflows |-> 0,
              dropped |-> 0]

RingUsed  == wr - rd                \* ring_buf_size_get()
\* Mutant: one byte too many, as in a ring that keeps no byte free.
RingSpaceOffByOne == RingSize - RingUsed + 1
RingSpace == RingSize - RingUsed    \* ring_buf_space_get()

\* storage_write(), storage_open() and storage_close() hold storage_state.lock.
StorageFree == \A c \in Consumers : pc[c] # "writing"

InFlush(c) == pc[c] \in {"get", "write", "writing", "stat", "failed"}
InCall(p)  == ppc[p] # "idle"

(***************************************************************************)
(* History of overlaps, observed by every step and read by none.           *)
(* solo: since the current file was opened the writer thread has never     *)
(* been inside do_flush() while the controller was inside open or close,   *)
(* which the comment on the ring (a single unlocked consumer) takes for    *)
(* granted.                                                                *)
(***************************************************************************)
SoloNow  == ctl = "idle" \/ pc[Writer] = "idle"
QuietNow == ctl \in {"stats", "ring"} => \A p \in Producers : ppc[p] = "idle"

Observe     == solo' = (solo /\ SoloNow') /\ quiet' = (quiet /\ QuietNow')
ObserveOpen == solo' = SoloNow' /\ quiet' = QuietNow'

-----------------------------------------------------------------------------
(* file_writer_write(), called by a producer thread *)

\* The unlocked test of writer.file_open passes; the spinlock comes next.
WriteBegin(p, n) ==
  /\ ppc[p] = "idle"
  /\ fileOpen
  /\ wr + n <= MaxBytes
  /\ ppc'  = [ppc EXCEPT ![p] = "enqueue"]
  /\ plen' = [plen EXCEPT ![p] = n]
  /\ UNCHANGED <<fileOpen, storageVars, ringVars, consumerVars, stats,
                 ctlVars, pnew, histVars>>
  /\ Observe

\* Under ring_lock: the line does not fit, so all of it is dropped.
DropLine(p) ==
  /\ ppc[p] = "enqueue"
  /\ RingSpace < plen[p]
  /\ pendingDrops < MaxDrops /\ stats.dropped < MaxDrops
  /\ pnew' = [pnew EXCEPT ![p] = (pendingDrops = 0)]
  /\ pendingDrops' = pendingDrops + 1
  /\ ppc' = [ppc EXCEPT ![p] = "dropped"]
  /\ plen' = [plen EXCEPT ![p] = 0]
  /\ UNCHANGED <<fileOpen, storageVars, rd, wr, consumerVars, stats, ctlVars,
                 histVars>>
  /\ Observe

\* Mutant: ring_buf_put() puts what fits, and the rest of the line is lost.
PutWhatFits(p) ==
  /\ ppc[p] = "enqueue"
  /\ RingSpace > 0
  /\ pendingDrops' = 0
  /\ wr' = wr + (IF RingSpace < plen[p] THEN RingSpace ELSE plen[p])
  /\ ends' = ends \cup {wr + plen[p]}
  /\ ppc' = [ppc EXCEPT ![p] = "queued"]
  /\ plen' = [plen EXCEPT ![p] = 0]
  /\ UNCHANGED <<fileOpen, storageVars, rd, consumerVars, stats, ctlVars,
                 pnew, base, due>>
  /\ Observe

\* Under ring_lock: the whole line is put into the ring, an episode ends.
PutLine(p) ==
  /\ ppc[p] = "enqueue"
  /\ RingSpace >= plen[p]
  /\ pendingDrops' = 0
  /\ wr' = wr + plen[p]
  /\ ends' = ends \cup {wr'}
  /\ ppc' = [ppc EXCEPT ![p] = "queued"]
  /\ plen' = [plen EXCEPT ![p] = 0]
  /\ UNCHANGED <<fileOpen, storageVars, rd, consumerVars, stats, ctlVars,
                 pnew, base, due>>
  /\ Observe

\* Mutant: a new episode is recognised by pending_drops, read after the unlock.
CountDropLate(p) ==
  /\ ppc[p] = "dropped"
  /\ stats' = [stats EXCEPT !.dropped = @ + 1,
                            !.overflows = IF pendingDrops = 1 THEN @ + 1 ELSE @]
  /\ ppc' = [ppc EXCEPT ![p] = "idle"]
  /\ pnew' = [pnew EXCEPT ![p] = FALSE]
  /\ UNCHANGED <<fileOpen, storageVars, ringVars, consumerVars, ctlVars,
                 plen, histVars>>
  /\ Observe

\* After the spinlock: count the drop.
CountDrop(p) ==
  /\ ppc[p] = "dropped"
  /\ stats' = [stats EXCEPT !.dropped = @ + 1,
                            !.overflows = IF pnew[p] THEN @ + 1 ELSE @]
  /\ ppc' = [ppc EXCEPT ![p] = "idle"]
  /\ pnew' = [pnew EXCEPT ![p] = FALSE]
  /\ UNCHANGED <<fileOpen, storageVars, ringVars, consumerVars, ctlVars,
                 plen, histVars>>
  /\ Observe

\* After the spinlock: count the line.
CountLine(p) ==
  /\ ppc[p] = "queued"
  /\ stats' = [stats EXCEPT !.lines = @ + 1]
  /\ ppc' = [ppc EXCEPT ![p] = "idle"]
  /\ UNCHANGED <<fileOpen, storageVars, ringVars, consumerVars, ctlVars,
                 plen, pnew, histVars>>
  /\ Observe

-----------------------------------------------------------------------------
(* do_flush(), called by the writer thread and by the controller *)

\* do_flush() returns: the writer thread waits again, the controller goes on
\* with file_writer_close().
Return(c) ==
  /\ pc' = [pc EXCEPT ![c] = "idle"]
  /\ flen' = [flen EXCEPT ![c] = 0]
  /\ done' = [done EXCEPT ![c] = 0]
  /\ ctl' = IF c = Closer THEN "mark" ELSE ctl

\* The file is closed, or the ring is empty: nothing to do.
FlushNothing(c) ==
  /\ pc[c] = "get"
  /\ ~fileOpen \/ RingUsed = 0
  /\ Return(c)
  /\ UNCHANGED <<fileOpen, storageVars, ringVars, wbuf, stats, after, opens,
                 producerVars, histVars>>
  /\ Observe

\* ring_buf_get(): up to a chunk moves from the ring into write_buffer.
FlushGet(c) ==
  /\ pc[c] = "get"
  /\ fileOpen /\ RingUsed > 0
  /\ LET n == IF RingUsed < BufferSize THEN RingUsed ELSE BufferSize
     IN  /\ wbuf' = [i \in 1..BufferSize |-> IF i <= n THEN rd + i ELSE wbuf[i]]
         /\ rd' = rd + n
         /\ flen' = [flen EXCEPT ![c] = n]
  /\ pc' = [pc EXCEPT ![c] = "write"]
  /\ UNCHANGED <<fileOpen, storageVars, wr, pendingDrops, done, stats,
                 ctlVars, producerVars, histVars>>
  /\ Observe

\* storage_write() takes the storage lock; it refuses a file that is not open.
WriteStart(c) ==
  /\ pc[c] = "write"
  /\ StorageFree
  /\ pc' = [pc EXCEPT ![c] = IF handleOpen THEN "writing" ELSE "failed"]
  /\ done' = [done EXCEPT ![c] = 0]
  /\ UNCHANGED <<fileOpen, storageVars, ringVars, wbuf, flen, stats, ctlVars,
                 producerVars, histVars>>
  /\ Observe

\* The file system copies write_buffer byte after byte while other threads run.
WriteByte(c) ==
  /\ pc[c] = "writing"
  /\ done[c] < flen[c]
  /\ file' = Append(file, wbuf[done[c] + 1])
  /\ done' = [done EXCEPT ![c] = @ + 1]
  /\ UNCHANGED <<fileOpen, handleOpen, ringVars, pc, flen, wbuf, stats,
                 ctlVars, producerVars, histVars>>
  /\ Observe

\* All bytes are in: the lock is released, storage_sync() makes them durable.
WriteDone(c) ==
  /\ pc[c] = "writing"
  /\ done[c] = flen[c]
  /\ pc' = [pc EXCEPT ![c] = "stat"]
  /\ UNCHANGED <<fileOpen, storageVars, ringVars, wbuf, flen, done, stats,
                 ctlVars, producerVars, histVars>>
  /\ Observe

\* The medium fails part-way: what was copied stays, the rest of the chunk is
\* gone, for it has left the ring.
WriteFails(c) ==
  /\ pc[c] = "writing"
  /\ done[c] < flen[c]
  /\ stats.errors < MaxErrors
  /\ pc' = [pc EXCEPT ![c] = "failed"]
  /\ UNCHANGED <<fileOpen, storageVars, ringVars, wbuf, flen, done, stats,
                 ctlVars, producerVars, histVars>>
  /\ Observe

\* The statistics.
FlushEnd(c) ==
  /\ pc[c] \in {"stat", "failed"}
  /\ stats' = IF pc[c] = "stat"
              THEN [stats EXCEPT !.bytes = @ + flen[c]]
              ELSE [stats EXCEPT !.errors = @ + 1]
  /\ Return(c)
  /\ UNCHANGED <<fileOpen, storageVars, ringVars, wbuf, after, opens,
                 producerVars, histVars>>
  /\ Observe

-----------------------------------------------------------------------------
(* writer_thread_fn() *)

\* Mutant: the thread writes only once the ring is more than half full.
WakeWhenHalfFull ==
  /\ pc[Writer] = "idle"
  /\ pc' = IF fileOpen /\ RingUsed > RingSize \div 2
           THEN [pc EXCEPT ![Writer] = "get"] ELSE pc
  /\ UNCHANGED <<fileOpen, storageVars, ringVars, flen, done, wbuf, stats,
                 ctlVars, producerVars, histVars>>
  /\ Observe

\* k_sem_take() returns, on a token or after its 100 ms timeout; with a file
\* open and data in the ring the thread enters do_flush().  The tokens, and the
\* periodic flush work whose only effect is to give one, bring this moment
\* forward and change nothing else, so an untimed model has no use for them.
WriterWake ==
  /\ pc[Writer] = "idle"
  /\ pc' = IF fileOpen /\ RingUsed > 0 THEN [pc EXCEPT ![Writer] = "get"] ELSE pc
  /\ UNCHANGED <<fileOpen, storageVars, ringVars, flen, done, wbuf, stats,
                 ctlVars, producerVars, histVars>>
  /\ Observe

-----------------------------------------------------------------------------
(* file_writer_open() and file_writer_close(), called by the controller *)

\* The common start of a close: the periodic flush is cancelled, then do_flush().
StartClose(then) ==
  /\ fileOpen
  /\ ctl' = "flush"
  /\ after' = then
  /\ pc' = [pc EXCEPT ![Closer] = "get"]
  /\ due' = wr

CloseCall ==
  /\ ctl = "idle"
  /\ StartClose("idle")
  /\ UNCHANGED <<fileOpen, storageVars, ringVars, wbuf, flen, done, stats,
                 opens, producerVars, base, ends>>
  /\ Observe

\* file_writer_open() closes a file that is still open first.
OpenCall ==
  /\ ctl = "idle"
  /\ opens < MaxOpens
  /\ opens' = opens + 1
  /\ \/ StartClose("open")
     \/ /\ ~fileOpen
        /\ ctl' = "open"
        /\ UNCHANGED <<after, pc, due>>
  /\ UNCHANGED <<fileOpen, storageVars, ringVars, wbuf, flen, done, stats,
                 producerVars, base, ends>>
  /\ Observe

MarkClosed ==
  /\ ctl = "mark"
  /\ fileOpen' = FALSE
  /\ ctl' = "close"
  /\ UNCHANGED <<storageVars, ringVars, consumerVars, stats, after, opens,
                 producerVars, histVars>>
  /\ Observe

\* storage_close(): when it fails the handle stays open.
StorageClose ==
  /\ ctl = "close"
  /\ StorageFree
  /\ handleOpen' \in {FALSE, handleOpen}
  /\ ctl' = after
  /\ UNCHANGED <<fileOpen, file, ringVars, consumerVars, stats, after, opens,
                 producerVars, histVars>>
  /\ Observe

\* storage_open() of a new log file, then writer.file_open = true.
StorageOpen ==
  /\ ctl = "open"
  /\ StorageFree
  /\ handleOpen' = TRUE
  /\ file' = <<>>
  /\ fileOpen' = TRUE
  /\ ctl' = "stats"
  /\ UNCHANGED <<ringVars, consumerVars, stats, after, opens, producerVars,
                 histVars>>
  /\ ObserveOpen

\* storage_open() has cleared the handle and fails: no file is open.
StorageOpenFails ==
  /\ ctl = "open"
  /\ StorageFree
  /\ handleOpen' = FALSE
  /\ ctl' = "idle"
  /\ UNCHANGED <<fileOpen, file, ringVars, consumerVars, stats, after, opens,
                 producerVars, histVars>>
  /\ Observe

ResetStats ==
  /\ ctl = "stats"
  /\ stats' = ZeroStats
  /\ ctl' = "ring"
  /\ UNCHANGED <<fileOpen, storageVars, ringVars, consumerVars, after, opens,
                 producerVars, histVars>>
  /\ Observe

\* Mutant: without ring_buf_reset() the tail of the last file stays.
KeepRing ==
  /\ ctl = "ring"
  /\ pendingDrops' = 0
  /\ base' = wr
  /\ ends' = {}
  /\ ctl' = "idle"
  /\ UNCHANGED <<fileOpen, storageVars, rd, wr, consumerVars, stats, after,
                 opens, producerVars, due>>
  /\ Observe

\* ring_buf_reset() and pending_drops = 0.
ResetRing ==
  /\ ctl = "ring"
  /\ rd' = wr
  /\ pendingDrops' = 0
  /\ base' = wr
  /\ ends' = {}
  /\ ctl' = "idle"
  /\ UNCHANGED <<fileOpen, storageVars, wr, consumerVars, stats, after,
                 opens, producerVars, due>>
  /\ Observe

-----------------------------------------------------------------------------
Init ==
  /\ fileOpen = FALSE /\ handleOpen = FALSE /\ file = <<>>
  /\ rd = 0 /\ wr = 0 /\ base = 0 /\ ends = {} /\ due = 0
  /\ wbuf = [i \in 1..BufferSize |-> 0]
  /\ pendingDrops = 0
  /\ stats = ZeroStats
  /\ pc = [c \in Consumers |-> "idle"]
  /\ flen = [c \in Consumers |-> 0]
  /\ done = [c \in Consumers |-> 0]
  /\ ctl = "idle" /\ after = "idle" /\ opens = 0
  /\ ppc = [p \in Producers |-> "idle"]
  /\ plen = [p \in Producers |-> 0]
  /\ pnew = [p \in Producers |-> FALSE]
  /\ solo = TRUE /\ quiet = TRUE

ProducerStep(p) ==
  \/ \E n \in LineLens : WriteBegin(p, n)
  \/ DropLine(p) \/ PutLine(p) \/ CountDrop(p) \/ CountLine(p)

FlushStep(c) ==
  \/ FlushNothing(c) \/ FlushGet(c)
  \/ WriteStart(c) \/ WriteByte(c) \/ WriteDone(c) \/ WriteFails(c)
  \/ FlushEnd(c)

ControlStep ==
  \/ CloseCall \/ OpenCall \/ MarkClosed \/ StorageClose
  \/ StorageOpen \/ StorageOpenFails \/ ResetStats \/ ResetRing

Next ==
  \/ \E p \in Producers : ProducerStep(p)
  \/ \E c \in Consumers : FlushStep(c)
  \/ WriterWake
  \/ ControlStep

(***************************************************************************)
(* Weak fairness of do_flush() only: the writer thread has the lowest      *)
(* priority, but every other thread blocks most of the time, its wait has  *)
(* a timeout, and storage operations return.                               *)
(***************************************************************************)
Spec ==
  /\ Init /\ [][Next]_vars
  /\ WF_vars(WriterWake \/ FlushStep(Writer))
  /\ WF_vars(FlushStep(Closer))

-----------------------------------------------------------------------------
(* Properties *)

StatsType == [lines : Nat, bytes : Nat, errors : Nat, overflows : Nat,
              dropped : Nat]

TypeStorage ==
  /\ fileOpen \in BOOLEAN /\ handleOpen \in BOOLEAN
  /\ file \in Seq(Nat)

\* RING_BUFFER_SIZE is never exceeded.
TypeRing ==
  /\ rd \in Nat /\ wr \in Nat /\ rd <= wr /\ wr - rd <= RingSize
  /\ pendingDrops \in Nat

TypeConsumer ==
  /\ wbuf \in [1..BufferSize -> Nat]
  /\ pc \in [Consumers -> {"idle", "get", "write", "writing", "stat", "failed"}]
  /\ flen \in [Consumers -> 0..BufferSize]
  /\ done \in [Consumers -> 0..BufferSize]

TypeControl ==
  /\ ctl \in {"idle", "flush", "mark", "close", "open", "stats", "ring"}
  /\ after \in {"idle", "open"}
  /\ opens \in Nat

TypeProducer ==
  /\ ppc \in [Producers -> {"idle", "enqueue", "dropped", "queued"}]
  /\ plen \in [Producers -> Nat]
  /\ pnew \in [Producers -> BOOLEAN]

TypeHistory ==
  /\ base \in Nat /\ due \in Nat /\ ends \subseteq Nat
  /\ solo \in BOOLEAN /\ quiet \in BOOLEAN

\* Types, and the bounds of the ring.
TypeOK ==
  /\ TypeStorage /\ TypeRing /\ stats \in StatsType
  /\ TypeConsumer /\ TypeControl /\ TypeProducer /\ TypeHistory

NoErrors == stats.errors = 0 /\ \A c \in Consumers : pc[c] # "failed"

NoneInCall == \A p \in Producers : ~InCall(p)

\* do_flush() hands chunks from the ring to the file through a shared static
\* buffer and loses its place on an error.  While its two callers never overlap
\* and no write fails, the log is exactly the accepted bytes, in order, with no
\* gap, no repetition and nothing of an earlier file.
LogFaithful ==
  solo /\ NoErrors => \A i \in 1..Len(file) : file[i] = base + i

\* file_writer_write() enqueues a line whole or not at all (comment on the
\* ring): whenever the ring has been drained the log ends where a line ends.
LogEndsWithLine ==
  /\ solo /\ NoErrors /\ ctl = "idle" /\ pc[Writer] = "idle"
  /\ RingUsed = 0
  => file = <<>> \/ base + Len(file) \in ends

\* file_writer_write() updates stats after it left the spinlock, and
\* file_writer_open() clears them while producers run.  When no call is under
\* way, every dropped line of the file belongs to a reported episode, and the
\* lines and bytes counted are those accepted and stored.
StatsExact ==
  (NoneInCall /\ ctl = "idle" /\ pc[Writer] = "idle") =>
     /\ quiet => /\ stats.dropped > 0 <=> stats.overflows > 0
                 /\ pendingDrops <= stats.dropped
                 /\ stats.lines = Cardinality(ends)
     /\ solo /\ NoErrors => stats.bytes = Len(file)

\* A byte accepted into the ring leaves it while the file is open: no wake-up
\* of the writer thread is lost for good, whatever the order of gives, takes,
\* timeouts and flushes.
Drains ==
  \A k \in 1..MaxBytes :
    (fileOpen /\ rd < k /\ k <= wr) ~> (rd >= k \/ ~fileOpen)

\* file_writer.h, file_writer_close(): "Flushes all buffered data and closes
\* the file".  What was buffered when close was called has left the ring by the
\* time the file is closed.
CloseFlushesAll ==
  ctl = "close" /\ solo /\ NoErrors => rd >= due
=============================================================================
