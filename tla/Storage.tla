------------------------------- MODULE Storage -------------------------------
(***************************************************************************)
(* The storage layer (services/storage.c) over its two backends, the FAT   *)
(* card and LittleFS in the external flash, from the boot (app_init.c) to  *)
(* the sessions that services/logger.c writes and the phone lists, a page  *)
(* at a time, and deletes (mcumgr_custom.c).                               *)
(*                                                                         *)
(* Each storage call holds the storage lock, a listing also while it calls *)
(* back, so one call is one step.  The threads that start and stop         *)
(* sessions run between the calls of an mcumgr command; these are served   *)
(* one at a time.  A path is the sequence of its elements: <<"SD", "logs", *)
(* 2, 5, "flight">> is the log of session 2/5 on the card.                 *)
(***************************************************************************)
EXTENDS Naturals, Sequences, FiniteSets, SequencesExt

CONSTANTS
  Days, Ids,     \* names of date directories and sessions, in character order
  PageSize,      \* TEMPO_SESSION_LIST_PAGE_SIZE
  ListMaxDates, ListMaxPerDate, \* TEMPO_SESSION_LIST_MAX_DATES, ..._MAX_PER_DATE
  MaxSessions    \* bound: sessions in the file system

ASSUME StorageAssumption ==
  /\ Days \subseteq Nat /\ IsFiniteSet(Days) /\ Ids \subseteq Nat /\ IsFiniteSet(Ids)
  /\ {PageSize, ListMaxDates, ListMaxPerDate, MaxSessions} \subseteq Nat \ {0}

VARIABLES
  boot,    \* main(): "fat", "lfs", "logs", "up" or "failed"
  bad,     \* history: what has failed at boot
  backend, \* storage_state.backend
  ready,   \* storage_state.initialized
  mounts,  \* the mount points of the file system
  dirs, files,   \* the directories and files on them
  session, \* the session being recorded, <<>>: none
  phase,   \* logger state: "NONE", "LOGGING" or "JUMPED"
  pc,      \* where the mcumgr thread is
  list,    \* tempo_mgmt_session_list(): page, dates to do, total, emitted, truncated
  steady,  \* history: no session was made or deleted since page 0 was asked for
  received,     \* history: what the phone's pages so far had, while steady
  target,  \* tempo_mgmt_session_delete(): the session
  cut,     \* history: reading a directory failed in the delete
  blind    \* history: the delete looked while its target was in JUMPED

bootVars == <<boot, bad, backend, ready, mounts>>
treeVars == <<dirs, files, session, phase>>
cmdVars == <<pc, list, target, cut>>
storageVars == <<bootVars, treeVars, cmdVars, received, steady, blind>>

Sessions == Days \X Ids
Key(s) == <<"logs", s[1], s[2]>>
LogFile(s) == Append(Key(s), "flight")

StorageTypeOK ==
  /\ boot \in {"fat", "lfs", "logs", "up", "failed"}
  /\ bad \subseteq {"card", "flash", "lfs", "mkdir"}
  /\ backend \in {"fat", "lfs"} /\ mounts \subseteq {"SD", "lfs"}
  /\ {ready, steady, cut, blind} \subseteq BOOLEAN
  /\ session \in Sessions \cup {<<>>} /\ phase \in {"NONE", "LOGGING", "JUMPED"}
  /\ target \in Sessions \cup {<<>>}
  /\ pc \in {"idle", "dates", "sessions", "check", "info", "files", "dir"}
  /\ Len(list.out) <= PageSize /\ list.total <= Cardinality(Sessions)

-----------------------------------------------------------------------------
(* Paths *)

\* storage_translate_path()
Translate(path) ==
  LET root == IF backend = "fat" THEN "SD" ELSE "lfs" IN
  IF Head(path) = root THEN path ELSE <<root>> \o path

\* translate_path(): a legacy /lfs prefix is taken off.
FatPath(path) ==
  CASE Head(path) = "SD"  -> path
    [] Head(path) = "lfs" -> <<"SD">> \o Tail(path)
    [] OTHER              -> <<"SD">> \o path

\* The path a backend's list_dir or delete works on: LittleFS takes it as it is.
LfsPath(path) == path
Physical(path) == IF backend = "fat" THEN FatPath(path) ELSE LfsPath(path)

Mounted(path) == Head(path) \in mounts
Parent(path) == Front(path)

-----------------------------------------------------------------------------
(* Boot: app_storage_init() *)

Boot(from, to) == boot = from /\ boot' = to
BootOnly == UNCHANGED <<treeVars, cmdVars, received, steady, blind>>

\* Mutant: the flag is set whether or not the backend came up.
InitBackendAnyway(b, up) ==
  /\ ready' = TRUE
  /\ backend' = IF up THEN b ELSE backend

\* storage_init(), which is refused once a backend is in use (-EALREADY); up: the
\* backend's own initialisation is reached and succeeds.
InitBackend(b, up) ==
  /\ ready' = (ready \/ up)
  /\ backend' = IF up THEN b ELSE backend

\* storage_fatfs_init(): the disk answers and the file system is mounted.
FatInit ==
  \/ /\ InitBackend("fat", TRUE) /\ Boot("fat", "logs")
     /\ mounts' = mounts \cup {"SD"} /\ UNCHANGED bad
  \/ /\ InitBackend("fat", FALSE) /\ Boot("fat", "lfs")
     /\ bad' = bad \cup {"card"} /\ UNCHANGED mounts

\* storage_fatfs_card_present()
NoCard ==
  /\ Boot("fat", "lfs")
  /\ bad' = bad \cup {"card"} /\ UNCHANGED <<backend, ready, mounts>>

\* storage_auto_init()
TryFat == (FatInit \/ NoCard) /\ BootOnly

\* storage_littlefs_init(): a mount that fails is no failure.
LfsInit ==
  \/ /\ ~ready /\ InitBackend("lfs", TRUE) /\ Boot("lfs", "logs")
     /\ \/ mounts' = mounts \cup {"lfs"} /\ UNCHANGED bad
        \/ bad' = bad \cup {"lfs"} /\ UNCHANGED mounts
  \/ /\ InitBackend("lfs", FALSE) /\ Boot("lfs", "failed")
     /\ bad' = IF ready THEN bad ELSE bad \cup {"flash"}
     /\ UNCHANGED mounts

TryLfs == LfsInit /\ BootOnly

\* The sessions of earlier flights are found, or the logs directory is made.
MakeLogs ==
  LET logs == Translate(<<"logs">>) IN
  \/ /\ Mounted(logs) /\ Boot("logs", "up")
     /\ \E old \in SUBSET Sessions :
          /\ Cardinality(old) <= MaxSessions
          /\ dirs' = {logs} \cup {Translate(<<"logs", s[1]>>) : s \in old}
                            \cup {Translate(Key(s)) : s \in old}
          /\ files' = {Translate(LogFile(s)) : s \in old}
     /\ UNCHANGED bad
  \/ /\ Boot("logs", "failed")
     /\ bad' = IF Mounted(logs) THEN bad \cup {"mkdir"} ELSE bad
     /\ UNCHANGED <<dirs, files>>

BootLogs ==
  /\ MakeLogs
  /\ UNCHANGED <<backend, ready, mounts, session, phase, cmdVars, received, steady, blind>>

-----------------------------------------------------------------------------
(* Sessions: logger_start(), logger_jumped() and logger_stop() *)

\* create_directory_path(): the directories above a file, as far as n.
MadeDirs(path, n) == {SubSeq(path, 1, k) : k \in 2..n}

Exist(s) == Translate(Key(s)) \in dirs

\* storage_open(); a directory or the file may not be made.  Session names are
\* drawn at random: a new one is not on the card.
StorageOpen(s) ==
  LET path == Translate(LogFile(s)) IN
  \E n \in 2..Len(path) :
    /\ dirs' = dirs \cup MadeDirs(path, IF n = Len(path) THEN n - 1 ELSE n)
    /\ IF n = Len(path)
       THEN files' = files \cup {path} /\ session' = s /\ phase' = "LOGGING"
       ELSE UNCHANGED <<files, session, phase>>

\* The listing under way, if any, is no longer one of a steady tree.
Disturb == steady' = FALSE /\ received' = <<>>

StartSession ==
  /\ boot = "up" /\ session = <<>>
  /\ Cardinality({s \in Sessions : Exist(s)}) < MaxSessions
  /\ \E s \in Sessions : ~Exist(s) /\ s # target /\ StorageOpen(s)
  /\ Disturb
  /\ UNCHANGED <<bootVars, cmdVars, blind>>

MarkJumped ==
  /\ phase = "LOGGING" /\ phase' = "JUMPED"
  /\ UNCHANGED <<bootVars, dirs, files, session, cmdVars, received, steady, blind>>

StopSession ==
  /\ session # <<>> /\ session' = <<>> /\ phase' = "NONE"
  /\ blind' = FALSE
  /\ UNCHANGED <<bootVars, dirs, files, cmdVars, received, steady>>

-----------------------------------------------------------------------------
(* tempo_mgmt_session_list() *)

\* storage_list_dir(): the directories in a directory, by name.  One that
\* cannot be opened has none.
SubDirs(path) ==
  IF Physical(path) \in dirs /\ Mounted(Physical(path))
  THEN {Last(d) : d \in {e \in dirs : Len(e) > 1 /\ Parent(e) = Physical(path)}}
  ELSE {}

\* collect_dir_names_callback(): as many as fit, in the order of the directory.
CollectNames(names, max) ==
  IF Cardinality(names) <= max THEN names
  ELSE CHOOSE some \in SUBSET names : Cardinality(some) = max

\* sort_names()
SortNames(names, descending) ==
  LET n == Cardinality(names) IN
  CHOOSE s \in [1..n -> names] :
    \A i, j \in 1..n : i < j => IF descending THEN s[i] > s[j] ELSE s[i] < s[j]

NoList == [page |-> 0, dates |-> <<>>, total |-> 0, out |-> <<>>, truncated |-> FALSE]

\* The phone asks for the first page, or the next.
AskPage ==
  /\ boot = "up" /\ pc = "idle" /\ pc' = "dates"
  /\ list' = [NoList EXCEPT !.page = list.page]
  /\ IF list.page = 0 THEN steady' = TRUE /\ received' = <<>> ELSE UNCHANGED <<steady, received>>
  /\ UNCHANGED <<bootVars, treeVars, target, cut, blind>>

ListDates ==
  /\ pc = "dates" /\ pc' = "sessions"
  /\ LET names == SubDirs(<<"logs">>) IN
       list' = [list EXCEPT !.dates = SortNames(CollectNames(names, ListMaxDates), TRUE),
                            !.truncated = Cardinality(names) > ListMaxDates]
  /\ UNCHANGED <<bootVars, treeVars, target, cut, received, steady, blind>>

\* Mutant: the page begins one late.
EmitLate(ids) ==
  LET first == list.page * PageSize + 1
      skip == IF list.total < first THEN first - list.total ELSE 0
      last == skip + PageSize - Len(list.out)
  IN  SubSeq(ids, skip + 1, IF last < Len(ids) THEN last ELSE Len(ids))

\* Of a date's sessions, those of the page: from its first on, as many as fit.
Emit(ids) ==
  LET first == list.page * PageSize
      skip == IF list.total < first THEN first - list.total ELSE 0
      last == skip + PageSize - Len(list.out)
  IN  SubSeq(ids, skip + 1, IF last < Len(ids) THEN last ELSE Len(ids))

ListSessions ==
  /\ pc = "sessions" /\ list.dates # <<>>
  /\ LET date == Head(list.dates)
         names == SubDirs(<<"logs", date>>)
         ids == SortNames(CollectNames(names, ListMaxPerDate), FALSE)
         page == Emit(ids)
     IN list' = [list EXCEPT !.dates = Tail(@), !.total = @ + Len(ids),
                   !.out = @ \o [j \in 1..Len(page) |-> <<date, page[j]>>],
                   !.truncated = @ \/ Cardinality(names) > ListMaxPerDate]
  /\ UNCHANGED <<bootVars, treeVars, pc, target, cut, received, steady, blind>>

\* The answer; the phone goes on as long as total_pages says so.
ListReply ==
  /\ pc = "sessions" /\ list.dates = <<>> /\ pc' = "idle"
  /\ LET total_pages == (list.total + PageSize - 1) \div PageSize
         next == IF list.page + 1 < total_pages THEN list.page + 1 ELSE 0
     IN list' = [NoList EXCEPT !.page = next, !.truncated = list.truncated]
  /\ received' = IF steady THEN received \o list.out ELSE <<>>
  /\ UNCHANGED <<bootVars, treeVars, target, cut, steady, blind>>

-----------------------------------------------------------------------------
(* tempo_mgmt_session_delete() *)

\* The phone names a session it knows of.
AskDelete ==
  /\ boot = "up" /\ pc = "idle" /\ pc' = "check"
  /\ \E s \in Sessions : Exist(s) /\ target' = s
  /\ UNCHANGED <<bootVars, treeVars, list, cut, received, steady, blind>>

Look == blind' = (blind \/ (phase = "JUMPED" /\ session = target))

Looked(to) ==
  /\ pc' = to /\ target' = IF to = "idle" THEN <<>> ELSE target
  /\ UNCHANGED <<bootVars, treeVars, list, cut, received, steady>>

\* Mutant: the answer of logger_get_session_info() is not asked for.
CheckStateOnly == pc = "check" /\ Look /\ Looked("files")

\* logger_get_state()
CheckState ==
  /\ pc = "check" /\ Look
  /\ Looked(IF phase = "LOGGING" THEN "info" ELSE "files")

\* logger_get_session_info(), which knows a session in LOGGING only
CheckInfo ==
  /\ pc = "info" /\ Look
  /\ Looked(IF phase = "LOGGING" /\ session = target THEN "idle" ELSE "files")

Entries(path) == {f \in files : Mounted(f) /\ Parent(f) = path}

\* storage_list_dir() with delete_files_callback(), which stops at a file that
\* cannot be deleted; a directory read that fails just ends the loop.
DeleteFiles ==
  /\ pc = "files" /\ Disturb
  /\ LET all == Entries(Physical(Key(target))) IN
     \/ /\ files' = files \ all /\ pc' = "dir" /\ UNCHANGED <<target, cut>>
     \/ /\ \E gone \in SUBSET all : gone # all /\ files' = files \ gone
        /\ \/ pc' = "idle" /\ target' = <<>> /\ UNCHANGED cut
           \/ pc' = "dir" /\ cut' = TRUE /\ UNCHANGED target
  /\ UNCHANGED <<bootVars, dirs, session, phase, list, blind>>

\* The directory too, if it is empty and can be; success is answered anyhow.
DeleteDir ==
  LET dir == Physical(Key(target)) IN
  /\ pc = "dir" /\ pc' = "idle" /\ target' = <<>>
  /\ dirs' \in {dirs, dirs \ {dir}}
  /\ dirs' # dirs => Entries(dir) = {}
  /\ cut' = FALSE /\ Disturb
  /\ UNCHANGED <<bootVars, files, session, phase, list, blind>>

-----------------------------------------------------------------------------
StorageInit ==
  /\ boot = "fat" /\ bad = {} /\ backend = "lfs" /\ ready = FALSE /\ mounts = {}
  /\ dirs = {} /\ files = {} /\ session = <<>> /\ phase = "NONE"
  /\ pc = "idle" /\ list = NoList /\ target = <<>> /\ cut = FALSE
  /\ received = <<>> /\ steady = FALSE /\ blind = FALSE

StorageNext ==
  \/ TryFat \/ TryLfs \/ BootLogs
  \/ StartSession \/ MarkJumped \/ StopSession
  \/ AskPage \/ ListDates \/ ListSessions \/ ListReply
  \/ AskDelete \/ CheckState \/ CheckInfo \/ DeleteFiles \/ DeleteDir

StorageSpec == StorageInit /\ [][StorageNext]_storageVars

-----------------------------------------------------------------------------
(* Properties *)

\* The device comes up on the card, or on the flash when the card does not; it
\* gives up only when neither can be used or the logs directory cannot be made
\* (storage.c:56, storage_littlefs.c:118).
BootFallsBack ==
  boot = "failed" =>
    "mkdir" \in bad \/ ("card" \in bad /\ bad \cap {"flash", "lfs"} # {})

\* "Newest first", then by session name, one page at a time: a phone that reads
\* all pages while no session comes or goes has every session of the card
\* exactly once, in that order, unless the answer says that it is truncated.
ListingExact ==
  LET after(s, t) == s[1] > t[1] \/ (s[1] = t[1] /\ s[2] < t[2])
      all == {s \in Sessions : Exist(s)}
  IN pc = "idle" /\ list.page = 0 /\ steady /\ backend = "fat" =>
       /\ \A i, j \in 1..Len(received) : i < j => after(received[i], received[j])
       /\ ToSet(received) = all \/ (list.truncated /\ ToSet(received) \subseteq all)

\* "Cannot delete active logging session": the log being written stays, however
\* the states change while the command looks at them (mcumgr_custom.c:388),
\* unless it looks while the session is in JUMPED, which it takes for no session.
\* And on the card a delete that answers success has left no file behind, unless
\* the directory could not be read to its end.
DeleteExact ==
  /\ session # <<>> /\ ~blind => Translate(LogFile(session)) \in files
  /\ pc = "dir" /\ ~cut /\ backend = "fat" => Translate(LogFile(target)) \notin files

\* "We deleted the files": so it has on either backend.
DeletedIsGone ==
  pc = "dir" /\ ~cut => Translate(LogFile(target)) \notin files
=============================================================================
