----------------------------- MODULE StorageProofs -----------------------------
(***************************************************************************)
(* Theorems about what is kept: the storage (Storage) and the settings     *)
(* store (Settings).  For any days, sessions, faults and resets: the       *)
(* types; which backend a boot comes up on; that the command that deletes  *)
(* a session spares the one being recorded; and that the pages of a        *)
(* listing walk are, in order, all the sessions that the limits of the     *)
(* listing admit.  For any values, commands of the two users and resets:   *)
(* what was confirmed to a user is kept, and each key has, in RAM and in   *)
(* flash, a value that it may have.                                        *)
(***************************************************************************)
EXTENDS Storage, Settings, FiniteSetTheorems, FunctionTheorems, SequenceTheorems,
        WellFoundedInduction, TLAPS

-----------------------------------------------------------------------------
(* The storage: which backend a boot comes up on *)

\* A boot stands between what it has tried and what it has found to fail.
BootStage ==
  /\ boot = "fat" => ~ready
  /\ boot = "lfs" => ~ready /\ "card" \in bad
  /\ boot \in {"logs", "up"} =>
       \/ backend = "fat" /\ "SD" \in mounts
       \/ backend = "lfs" /\ "card" \in bad /\ ("lfs" \in mounts \/ "lfs" \in bad)
  /\ BootFallsBack

-----------------------------------------------------------------------------
(* The storage: the delete command and the session being recorded *)

Deleting == {"check", "info", "files", "dir"}

\* Nothing is listed, deleted or recorded before the storage is up.
CommandsTyped ==
  /\ pc \in {"idle", "dates", "sessions"} \cup Deleting
  /\ pc \in Deleting => target \in Sessions
  /\ session \in Sessions \cup {<<>>} /\ phase \in {"NONE", "LOGGING", "JUMPED"}
  /\ session = <<>> <=> phase = "NONE"
  /\ boot # "up" => pc = "idle" /\ session = <<>>

\* The command has found out, before it deletes, that its target is not being
\* recorded.
DeleteInv ==
  /\ pc = "files" /\ session # <<>> /\ ~blind => session # target
  /\ DeleteExact

-----------------------------------------------------------------------------
(* Paths *)

\* How the elements of a path are put together and taken apart.
LEMMA AppendThree ==
  ASSUME NEW a, NEW b, NEW c, NEW d
  PROVE  Append(<<a, b, c>>, d) = <<a, b, c, d>>
<1> DEFINE S == {a, b, c, d}
           f == Append(<<a, b, c>>, d)
           g == <<a, b, c, d>>
<1>1. <<a, b, c>> \in Seq(S) /\ g \in Seq(S) /\ Len(g) = 4 /\ Len(<<a, b, c>>) = 3
  OBVIOUS
<1>2. /\ f \in Seq(S) /\ Len(f) = 4
      /\ \A i \in 1..3 : f[i] = <<a, b, c>>[i]
      /\ f[4] = d
  <2> HIDE DEF f, g
  <2>1. /\ Append(<<a, b, c>>, d) \in Seq(S)
        /\ Len(Append(<<a, b, c>>, d)) = Len(<<a, b, c>>) + 1
        /\ \A i \in 1..Len(<<a, b, c>>) : Append(<<a, b, c>>, d)[i] = <<a, b, c>>[i]
        /\ Append(<<a, b, c>>, d)[Len(<<a, b, c>>) + 1] = d
    BY <1>1, AppendProperties
  <2>2. QED
    BY <1>1, <2>1 DEF f
<1>3. f[1] = g[1] /\ f[2] = g[2] /\ f[3] = g[3] /\ f[4] = g[4]
  BY <1>2
<1> HIDE DEF f, g, S
<1>4. \A i \in 1..Len(f) : f[i] = g[i]
  BY <1>2, <1>3
<1>5. f = g
  BY <1>1, <1>2, <1>4, SeqEqual
<1>6. QED
  BY <1>5 DEF f, g

LEMMA ConsThree ==
  ASSUME NEW a, NEW b, NEW c, NEW d
  PROVE  <<a>> \o <<b, c, d>> = <<a, b, c, d>>
<1> DEFINE S == {a, b, c, d}
           r == <<b, c, d>>
           h == <<a>>
           f == h \o r
           g == <<a, b, c, d>>
<1>1. h \in Seq(S) /\ r \in Seq(S) /\ g \in Seq(S)
      /\ Len(g) = 4 /\ Len(r) = 3 /\ Len(h) = 1 /\ h[1] = a
      /\ r[1] = b /\ r[2] = c /\ r[3] = d
      /\ g[1] = a /\ g[2] = b /\ g[3] = c /\ g[4] = d
  OBVIOUS
<1> HIDE DEF S, h, r, g
<1>2. /\ h \o r \in Seq(S) /\ Len(h \o r) = Len(h) + Len(r)
      /\ \A i \in 1..Len(h) + Len(r) : (h \o r)[i] = IF i <= Len(h) THEN h[i] ELSE r[i - Len(h)]
  BY <1>1, ConcatProperties, Zenon
<1>3. f[1] = g[1] /\ f[2] = g[2] /\ f[3] = g[3] /\ f[4] = g[4]
  BY <1>1, <1>2
<1> HIDE DEF f
<1>4. f \in Seq(S) /\ Len(f) = Len(g) /\ \A i \in 1..Len(f) : f[i] = g[i]
  BY <1>1, <1>2, <1>3 DEF f
<1>5. f = g
  BY <1>1, <1>4, SeqEqual, Zenon
<1>6. QED
  BY <1>5 DEF f, g, h, r

LEMMA ConsFour ==
  ASSUME NEW a, NEW b, NEW c, NEW d, NEW e
  PROVE  <<a>> \o <<b, c, d, e>> = <<a, b, c, d, e>>
<1> DEFINE S == {a, b, c, d, e}
           r == <<b, c, d, e>>
           h == <<a>>
           f == h \o r
           g == <<a, b, c, d, e>>
<1>1. h \in Seq(S) /\ r \in Seq(S) /\ g \in Seq(S)
      /\ Len(g) = 5 /\ Len(r) = 4 /\ Len(h) = 1 /\ h[1] = a
      /\ r[1] = b /\ r[2] = c /\ r[3] = d /\ r[4] = e
      /\ g[1] = a /\ g[2] = b /\ g[3] = c /\ g[4] = d /\ g[5] = e
  OBVIOUS
<1> HIDE DEF S, h, r, g
<1>2. /\ h \o r \in Seq(S) /\ Len(h \o r) = Len(h) + Len(r)
      /\ \A i \in 1..Len(h) + Len(r) : (h \o r)[i] = IF i <= Len(h) THEN h[i] ELSE r[i - Len(h)]
  BY <1>1, ConcatProperties, Zenon
<1>3. f[1] = g[1] /\ f[2] = g[2] /\ f[3] = g[3] /\ f[4] = g[4] /\ f[5] = g[5]
  BY <1>1, <1>2
<1> HIDE DEF f
<1>4. f \in Seq(S) /\ Len(f) = Len(g) /\ \A i \in 1..Len(f) : f[i] = g[i]
  BY <1>1, <1>2, <1>3 DEF f
<1>5. f = g
  BY <1>1, <1>4, SeqEqual, Zenon
<1>6. QED
  BY <1>5 DEF f, g, h, r

LEMMA FrontOfFive ==
  ASSUME NEW a, NEW b, NEW c, NEW d, NEW e
  PROVE  Front(<<a, b, c, d, e>>) = <<a, b, c, d>>
<1> DEFINE S == {a, b, c, d, e}
           p == <<a, b, c, d, e>>
           f == SubSeq(p, 1, 4)
           g == <<a, b, c, d>>
<1>1. g \in Seq(S) /\ Len(g) = 4 /\ Len(p) = 5
      /\ p[1] = a /\ p[2] = b /\ p[3] = c /\ p[4] = d /\ {a, b, c, d} \subseteq S
      /\ g[1] = a /\ g[2] = b /\ g[3] = c /\ g[4] = d
  OBVIOUS
<1> HIDE DEF S, p, g
<1>2. \A i \in 1..4 : p[i] \in S
  BY <1>1
<1>3. /\ f \in Seq(S) /\ Len(f) = IF 1 <= 4 THEN 4 - 1 + 1 ELSE 0
      /\ \A i \in 1..4 - 1 + 1 : f[i] = p[1 + i - 1]
  BY <1>2, SubSeqProperties
<1> HIDE DEF f
<1>4. f[1] = g[1] /\ f[2] = g[2] /\ f[3] = g[3] /\ f[4] = g[4]
  BY <1>1, <1>3
<1>5. \A i \in 1..Len(f) : f[i] = g[i]
  BY <1>3, <1>4
<1>6. f = g
  BY <1>1, <1>3, <1>5, SeqEqual
<1>7. Front(p) = SubSeq(p, 1, Len(p) - 1)
  BY Zenon DEF Front
<1>8. Len(p) - 1 = 4
  BY <1>1
<1>9. QED
  BY <1>6, <1>7, <1>8, Zenon DEF f, g, p

Root == IF backend = "fat" THEN "SD" ELSE "lfs"

\* Where the log of a session is.
LEMMA LogPath ==
  ASSUME NEW s \in Sessions
  PROVE  Translate(LogFile(s)) = <<Root, "logs", s[1], s[2], "flight">>
<1>1. LogFile(s) = <<"logs", s[1], s[2], "flight">>
  BY AppendThree DEF LogFile, Key
<1>2. Head(<<"logs", s[1], s[2], "flight">>) = "logs"
  OBVIOUS
<1>3. "logs" # Root
  BY DEF Root
<1>4. Translate(LogFile(s)) = <<Root>> \o <<"logs", s[1], s[2], "flight">>
  BY <1>1, <1>2, <1>3, Zenon DEF Translate, Root
<1>5. QED
  BY <1>4, ConsFour, Zenon

\* The directory that it is in.
LEMMA LogParent ==
  ASSUME NEW s \in Sessions
  PROVE  Parent(Translate(LogFile(s))) = <<Root, "logs", s[1], s[2]>>
BY LogPath, FrontOfFive, Zenon DEF Parent

\* The directory that a delete works on: LittleFS is asked for it without the
\* mount point.
LEMMA DeletePath ==
  ASSUME NEW s \in Sessions
  PROVE  Physical(Key(s)) = IF backend = "fat" THEN <<"SD", "logs", s[1], s[2]>>
                            ELSE <<"logs", s[1], s[2]>>
<1>1. Key(s) = <<"logs", s[1], s[2]>>
  BY DEF Key
<1>2. Head(<<"logs", s[1], s[2]>>) = "logs"
  OBVIOUS
<1>3. FatPath(Key(s)) = <<"SD">> \o <<"logs", s[1], s[2]>>
  BY <1>1, <1>2 DEF FatPath
<1>4. FatPath(Key(s)) = <<"SD", "logs", s[1], s[2]>>
  BY <1>3, ConsThree, Zenon
<1>5. QED
  BY <1>1, <1>4, Zenon DEF Physical, LfsPath

LEMMA SessionIsPair == \A s, t \in Sessions : s[1] = t[1] /\ s[2] = t[2] => s = t
BY DEF Sessions

\* Different sessions have different logs.
LEMMA LogsDiffer ==
  ASSUME NEW s \in Sessions, NEW t \in Sessions, s # t
  PROVE  Translate(LogFile(s)) # Translate(LogFile(t))
BY LogPath, SessionIsPair

\* A delete finds the log of another session in no place.
LEMMA DeleteOfOther ==
  ASSUME NEW s \in Sessions, NEW t \in Sessions, s # t
  PROVE  Translate(LogFile(s)) \notin Entries(Physical(Key(t)))
<1>1. Parent(Translate(LogFile(s))) = <<Root, "logs", s[1], s[2]>>
  BY LogParent
<1>2. Parent(Translate(LogFile(s))) # Physical(Key(t))
  <2>1. CASE backend = "fat"
    BY <1>1, <2>1, DeletePath, SessionIsPair
  <2>2. CASE backend # "fat"
    <3>1. Physical(Key(t)) = <<"logs", t[1], t[2]>>
      BY <2>2, DeletePath
    <3>2. Len(<<Root, "logs", s[1], s[2]>>) # Len(<<"logs", t[1], t[2]>>)
      OBVIOUS
    <3>3. QED
      BY <1>1, <3>1, <3>2, Zenon
  <2>3. QED
    BY <2>1, <2>2
<1>3. QED
  BY <1>2 DEF Entries

\* And, on a card that is mounted, that of its target.
LEMMA DeleteOfTarget ==
  ASSUME NEW t \in Sessions, backend = "fat", "SD" \in mounts, Translate(LogFile(t)) \in files
  PROVE  Translate(LogFile(t)) \in Entries(Physical(Key(t)))
<1>1. Parent(Translate(LogFile(t))) = Physical(Key(t))
  BY LogParent, DeletePath DEF Root
<1>2. Head(Translate(LogFile(t))) = "SD"
  BY LogPath DEF Root
<1>3. QED
  BY <1>1, <1>2 DEF Entries, Mounted

LEMMA HeadOfTwo == ASSUME NEW a, NEW b PROVE Head(<<a>> \o <<b>>) = a
<1> DEFINE S == {a, b}
           h == <<a>>
           r == <<b>>
           f == h \o r
           g == <<a, b>>
<1>1. h \in Seq(S) /\ r \in Seq(S) /\ g \in Seq(S)
      /\ Len(g) = 2 /\ Len(h) = 1 /\ Len(r) = 1
      /\ h[1] = a /\ r[1] = b /\ g[1] = a /\ g[2] = b /\ Head(g) = a
  OBVIOUS
<1> HIDE DEF S, h, r, g
<1>2. /\ h \o r \in Seq(S) /\ Len(h \o r) = Len(h) + Len(r)
      /\ \A i \in 1..Len(h) + Len(r) : (h \o r)[i] = IF i <= Len(h) THEN h[i] ELSE r[i - Len(h)]
  BY <1>1, ConcatProperties, Zenon
<1>3. f[1] = g[1] /\ f[2] = g[2]
  BY <1>1, <1>2
<1> HIDE DEF f
<1>4. f \in Seq(S) /\ Len(f) = Len(g) /\ \A i \in 1..Len(f) : f[i] = g[i]
  BY <1>1, <1>2, <1>3 DEF f
<1>5. f = g
  BY <1>1, <1>4, SeqEqual, Zenon
<1>6. QED
  BY <1>1, <1>5, Zenon DEF f, h, r

\* The logs directory is on the backend's own mount point.
LEMMA LogsMounted == Mounted(Translate(<<"logs">>)) <=> Root \in mounts
<1>1. Head(<<"logs">>) = "logs" /\ "logs" # Root
  BY DEF Root
<1>2. Translate(<<"logs">>) = <<Root>> \o <<"logs">>
  BY <1>1, Zenon DEF Translate, Root
<1>3. QED
  BY <1>2, HeadOfTwo, Zenon DEF Mounted

-----------------------------------------------------------------------------
(* The steps of the storage's boot *)

LEMMA BootStageInit == StorageInit => BootStage
BY DEF StorageInit, BootStage, BootFallsBack

LEMMA BootStageStep == BootStage /\ [StorageNext]_storageVars => BootStage'
<1> SUFFICES ASSUME BootStage, [StorageNext]_storageVars PROVE BootStage'
  OBVIOUS
<1> USE DEF BootStage, BootFallsBack
<1>1. ASSUME FatInit PROVE BootStage'
  <2>1. CASE InitBackend("fat", TRUE) /\ Boot("fat", "logs") /\ mounts' = mounts \cup {"SD"}
    BY <2>1 DEF InitBackend, Boot
  <2>2. CASE InitBackend("fat", FALSE) /\ Boot("fat", "lfs") /\ bad' = bad \cup {"card"}
    <3>1. ~ready'
      BY <2>2, Zenon DEF InitBackend, Boot
    <3>2. QED
      BY <2>2, <3>1 DEF Boot
  <2>3. QED
    BY <1>1, <2>1, <2>2 DEF FatInit
<1>2. ASSUME NoCard PROVE BootStage'
  BY <1>2 DEF NoCard, Boot
<1>3. ASSUME LfsInit PROVE BootStage'
  <2>1. ~ready /\ "card" \in bad
    BY <1>3 DEF LfsInit, Boot
  <2>2. CASE /\ InitBackend("lfs", TRUE) /\ Boot("lfs", "logs")
             /\ \/ mounts' = mounts \cup {"lfs"} /\ UNCHANGED bad
                \/ bad' = bad \cup {"lfs"} /\ UNCHANGED mounts
    BY <2>1, <2>2 DEF InitBackend, Boot
  <2>3. CASE Boot("lfs", "failed") /\ bad' = bad \cup {"flash"}
    BY <2>1, <2>3 DEF Boot
  <2>4. QED
    BY <1>3, <2>1, <2>2, <2>3 DEF LfsInit
<1>4. ASSUME BootLogs PROVE BootStage'
  <2>1. UNCHANGED <<backend, ready, mounts>>
    BY <1>4 DEF BootLogs
  <2>2. CASE Boot("logs", "up") /\ UNCHANGED bad
    BY <2>1, <2>2 DEF Boot
  <2>3. CASE /\ Boot("logs", "failed")
             /\ bad' = IF Mounted(Translate(<<"logs">>)) THEN bad \cup {"mkdir"} ELSE bad
    <3>1. Root \notin mounts => "card" \in bad /\ "lfs" \in bad
      BY <2>3 DEF Boot, Root
    <3>2. QED
      BY <2>3, <3>1, LogsMounted DEF Boot
  <2>4. QED
    BY <1>4, <2>2, <2>3 DEF BootLogs, MakeLogs
<1>5. ASSUME UNCHANGED bootVars PROVE BootStage'
  BY <1>5 DEF bootVars
<1>6. TryFat => FatInit \/ NoCard
  BY Zenon DEF TryFat
<1>7. TryLfs => LfsInit
  BY Zenon DEF TryLfs
<1>8. TryFat \/ TryLfs \/ BootLogs \/ UNCHANGED bootVars
  BY Zenon DEF StorageNext, StartSession, MarkJumped, StopSession, AskPage, ListDates, ListSessions,
     ListReply, AskDelete, CheckState, CheckInfo, Looked, DeleteFiles, DeleteDir, storageVars
<1>9. QED
  BY <1>1, <1>2, <1>3, <1>4, <1>5, <1>6, <1>7, <1>8

\* The device comes up on the card, or on the flash when the card does not; it
\* gives up only when neither can be used or the logs directory cannot be made
\* (storage.c, storage_littlefs.c).
THEOREM StorageComesUp == StorageSpec => []BootFallsBack
<1>1. BootStage => BootFallsBack
  BY DEF BootStage
<1>2. QED
  BY BootStageInit, BootStageStep, <1>1, PTL DEF StorageSpec

-----------------------------------------------------------------------------
(* The steps of the delete command *)

LEMMA CommandsTypedInit == StorageInit => CommandsTyped
BY DEF StorageInit, CommandsTyped, Deleting

LEMMA PairNotEmpty == <<>> \notin Sessions
BY DEF Sessions

LEMMA CommandsTypedStep == CommandsTyped /\ [StorageNext]_storageVars => CommandsTyped'
<1> SUFFICES ASSUME CommandsTyped, [StorageNext]_storageVars PROVE CommandsTyped'
  OBVIOUS
<1> USE DEF CommandsTyped, Deleting
<1>1. CASE TryFat \/ TryLfs \/ BootLogs
  <2>1. boot # "up"
    BY <1>1 DEF TryFat, TryLfs, BootLogs, FatInit, NoCard, LfsInit, MakeLogs, Boot
  <2>2. UNCHANGED <<pc, target, session, phase>>
    BY <1>1, Zenon DEF TryFat, TryLfs, BootLogs, BootOnly, treeVars, cmdVars
  <2>3. QED
    BY <2>1, <2>2
<1>2. CASE StartSession
  <2>1. boot' = boot /\ boot = "up" /\ pc' = pc /\ target' = target
    BY <1>2 DEF StartSession, bootVars, cmdVars
  <2>2. (session' \in Sessions /\ phase' = "LOGGING") \/ UNCHANGED <<session, phase>>
    BY <1>2 DEF StartSession, StorageOpen
  <2>3. QED
    BY <2>1, <2>2, PairNotEmpty
<1>3. CASE MarkJumped \/ StopSession
  BY <1>3 DEF MarkJumped, StopSession, bootVars, cmdVars
<1>4. CASE AskPage \/ ListDates \/ ListSessions \/ ListReply
  BY <1>4 DEF AskPage, ListDates, ListSessions, ListReply, bootVars, treeVars
<1>5. CASE AskDelete
  BY <1>5 DEF AskDelete, bootVars, treeVars
<1>6. CASE CheckState \/ CheckInfo
  BY <1>6 DEF CheckState, CheckInfo, Looked, bootVars, treeVars
<1>7. CASE DeleteFiles
  BY <1>7 DEF DeleteFiles, bootVars
<1>8. CASE DeleteDir
  BY <1>8 DEF DeleteDir, bootVars
<1>9. CASE UNCHANGED storageVars
  BY <1>9 DEF storageVars, bootVars, treeVars, cmdVars
<1>10. QED
  BY <1>1, <1>2, <1>3, <1>4, <1>5, <1>6, <1>7, <1>8, <1>9 DEF StorageNext

-----------------------------------------------------------------------------
(* The steps of the delete, against the session being recorded *)

LEMMA DeleteInvInit == StorageInit => DeleteInv
BY DEF StorageInit, DeleteInv, DeleteExact

\* The path of a log depends on the backend only.
LEMMA LogStays ==
  ASSUME UNCHANGED backend, NEW s
  PROVE  Translate(LogFile(s))' = Translate(LogFile(s))
BY DEF Translate, LogFile, Key

\* A step that leaves the tree and the command alone.
LEMMA DeleteSame ==
  ASSUME DeleteInv, UNCHANGED <<backend, files, session, pc, target, cut, blind>>
  PROVE  DeleteInv'
BY LogStays DEF DeleteInv, DeleteExact

LEMMA DeleteInvBoot ==
  ASSUME CommandsTyped, DeleteInv, TryFat \/ TryLfs \/ BootLogs
  PROVE  DeleteInv'
<1>1. boot # "up"
  BY DEF TryFat, TryLfs, BootLogs, FatInit, NoCard, LfsInit, MakeLogs, Boot
<1>2. UNCHANGED <<pc, session>>
  BY Zenon DEF TryFat, TryLfs, BootLogs, BootOnly, treeVars, cmdVars
<1>3. pc = "idle" /\ session = <<>>
  BY <1>1 DEF CommandsTyped
<1>4. QED
  BY <1>2, <1>3 DEF DeleteInv, DeleteExact

\* A session is opened: it is not the target, and its log is another's.
LEMMA DeleteInvStart ==
  ASSUME CommandsTyped, DeleteInv, StartSession
  PROVE  DeleteInv'
<1> USE DEF DeleteInv, DeleteExact
<1>1. UNCHANGED <<backend, pc, target, cut, blind>> /\ session = <<>>
  BY Zenon DEF StartSession, bootVars, cmdVars
<1>2. PICK s \in Sessions : s # target /\ StorageOpen(s)
  BY Zenon DEF StartSession
<1>3. \/ UNCHANGED <<files, session>>
      \/ files' = files \cup {Translate(LogFile(s))} /\ session' = s
  BY <1>2, Zenon DEF StorageOpen
<1>4. CASE UNCHANGED <<files, session>>
  BY <1>1, <1>4, DeleteSame
<1>5. CASE files' = files \cup {Translate(LogFile(s))} /\ session' = s
  <2>1. Translate(LogFile(session))' \in files'
    <3>1. Translate(LogFile(session))' = Translate(LogFile(s))
      BY <1>1, <1>5, Zenon DEF Translate, LogFile, Key
    <3>2. QED
      BY <1>5, <3>1
  <2>2. pc = "dir" => Translate(LogFile(target)) # Translate(LogFile(s))
    BY <1>2, LogsDiffer DEF CommandsTyped, Deleting
  <2>3. Translate(LogFile(target))' = Translate(LogFile(target))
    BY <1>1, Zenon DEF Translate, LogFile, Key
  <2>4. (pc = "dir" /\ ~cut /\ backend = "fat") => Translate(LogFile(target)) \notin files'
    BY <1>5, <2>2
  <2>5. QED
    BY <1>1, <1>2, <1>5, <2>1, <2>3, <2>4
<1>6. QED
  BY <1>3, <1>4, <1>5

LEMMA DeleteInvStop ==
  ASSUME DeleteInv, StopSession
  PROVE  DeleteInv'
<1>1. UNCHANGED <<backend, files, pc, target, cut>> /\ session' = <<>>
  BY Zenon DEF StopSession, bootVars, cmdVars
<1>2. QED
  BY <1>1, LogStays DEF DeleteInv, DeleteExact

LEMMA DeleteInvJump ==
  ASSUME DeleteInv, MarkJumped
  PROVE  DeleteInv'
<1>1. UNCHANGED <<backend, files, session, pc, target, cut, blind>>
  BY Zenon DEF MarkJumped, bootVars, cmdVars
<1>2. QED
  BY <1>1, DeleteSame

\* A listing, or a delete that is asked for, leaves the tree alone.
LEMMA DeleteInvAsk ==
  ASSUME CommandsTyped, DeleteInv, AskPage \/ ListDates \/ ListSessions \/ ListReply \/ AskDelete
  PROVE  DeleteInv'
<1>1. UNCHANGED <<backend, files, session, blind>>
  BY Zenon DEF AskPage, ListDates, ListSessions, ListReply, AskDelete, bootVars, treeVars
<1>2. pc' \notin {"files", "dir"}
  BY DEF AskPage, ListDates, ListSessions, ListReply, AskDelete
<1>3. QED
  BY <1>1, <1>2, LogStays DEF DeleteInv, DeleteExact

\* The command looks at the logger, which says LOGGING and the session, or is in
\* JUMPED, when the look is blind to the session, or records nothing.
LEMMA DeleteInvLook ==
  ASSUME CommandsTyped, DeleteInv, CheckState \/ CheckInfo
  PROVE  DeleteInv'
<1>1. UNCHANGED <<backend, files, session, phase>>
  BY Zenon DEF CheckState, CheckInfo, Looked, bootVars, treeVars
<1>2. blind' = (blind \/ (phase = "JUMPED" /\ session = target))
  BY Zenon DEF CheckState, CheckInfo, Look
<1>3. pc' # "dir"
  BY DEF CheckState, CheckInfo, Looked
<1>4. pc' = "files" => target' = target /\ ~(phase = "LOGGING" /\ session = target)
  BY DEF CheckState, CheckInfo, Looked
<1>5. (session # <<>> /\ ~blind') => Translate(LogFile(session))' \in files'
  BY <1>1, <1>2, Zenon DEF DeleteInv, DeleteExact, Translate, LogFile, Key
<1>6. (session # <<>> /\ ~blind' /\ pc' = "files") => session # target
  BY <1>2, <1>4 DEF CommandsTyped
<1>7. QED
  BY <1>1, <1>3, <1>4, <1>5, <1>6 DEF DeleteInv, DeleteExact

\* Whatever files of the target go, that of the session stays; and when all go,
\* the target's log is among them.
LEMMA DeleteInvFiles ==
  ASSUME BootStage, CommandsTyped, DeleteInv, DeleteFiles
  PROVE  DeleteInv'
<1> DEFINE all == Entries(Physical(Key(target)))
<1>1. pc = "files" /\ UNCHANGED <<backend, session, blind>> /\ target \in Sessions
  BY DEF DeleteFiles, bootVars, CommandsTyped, Deleting
<1>2. \E gone \in SUBSET all : files' = files \ gone
  BY Zenon DEF DeleteFiles
<1>3. pc' \in {"dir", "idle"}
  BY DEF DeleteFiles
<1>4. pc' = "dir" => target' = target /\ (cut' \/ files' = files \ all)
  BY DEF DeleteFiles
<1>5. Translate(LogFile(session))' = Translate(LogFile(session))
  BY <1>1, Zenon DEF Translate, LogFile, Key
<1>6. (session # <<>> /\ ~blind) => Translate(LogFile(session)) \in files'
  <2> SUFFICES ASSUME session # <<>>, ~blind PROVE Translate(LogFile(session)) \in files'
    OBVIOUS
  <2>1. session \in Sessions /\ session # target /\ Translate(LogFile(session)) \in files
    BY <1>1 DEF CommandsTyped, DeleteInv, DeleteExact
  <2>2. Translate(LogFile(session)) \notin all
    BY <1>1, <2>1, DeleteOfOther
  <2>3. QED
    BY <1>2, <2>1, <2>2
<1>7. (backend = "fat" /\ files' = files \ all) => Translate(LogFile(target)) \notin files'
  <2> SUFFICES ASSUME backend = "fat", files' = files \ all
               PROVE  Translate(LogFile(target)) \notin files'
    OBVIOUS
  <2>1. "SD" \in mounts
    BY <1>1 DEF BootStage, CommandsTyped
  <2>2. Translate(LogFile(target)) \in files => Translate(LogFile(target)) \in all
    BY <1>1, <2>1, DeleteOfTarget
  <2>3. QED
    BY <2>2
<1>8. ASSUME target' = target PROVE Translate(LogFile(target))' = Translate(LogFile(target))
  BY <1>1, <1>8, Zenon DEF Translate, LogFile, Key
<1> HIDE DEF all
<1>9. QED
  BY <1>1, <1>3, <1>4, <1>5, <1>6, <1>7, <1>8 DEF DeleteInv, DeleteExact

LEMMA DeleteInvDir ==
  ASSUME DeleteInv, DeleteDir
  PROVE  DeleteInv'
<1>1. UNCHANGED <<backend, files, session, blind>> /\ pc' = "idle"
  BY Zenon DEF DeleteDir, bootVars
<1>2. QED
  BY <1>1, LogStays DEF DeleteInv, DeleteExact

LEMMA DeleteInvStep ==
  BootStage /\ CommandsTyped /\ DeleteInv /\ [StorageNext]_storageVars => DeleteInv'
<1>1. ASSUME DeleteInv, UNCHANGED storageVars PROVE DeleteInv'
  <2>1. UNCHANGED <<backend, files, session, pc, target, cut, blind>>
    BY <1>1, Zenon DEF storageVars, bootVars, treeVars, cmdVars
  <2>2. QED
    BY <1>1, <2>1, DeleteSame
<1>2. QED
  BY <1>1, DeleteInvBoot, DeleteInvStart, DeleteInvStop, DeleteInvJump, DeleteInvAsk, DeleteInvLook,
     DeleteInvFiles, DeleteInvDir, Zenon DEF StorageNext

\* "Cannot delete active logging session": the log being written stays, unless
\* the delete looks while its session is in JUMPED; and on the card a delete
\* that answers success has left no log behind, unless the directory could not
\* be read to its end (mcumgr_custom.c).
THEOREM DeleteKeepsSession == StorageSpec => []DeleteExact
<1>1. DeleteInv => DeleteExact
  BY DEF DeleteInv
<1>2. QED
  BY BootStageInit, BootStageStep, CommandsTypedInit, CommandsTypedStep, DeleteInvInit,
     DeleteInvStep, <1>1, PTL DEF StorageSpec

-----------------------------------------------------------------------------
(* Names in order *)

LEMMA LeastNumber ==
  ASSUME NEW T, T \subseteq Nat, T # {} PROVE \E n \in T : \A m \in T : n <= m
<1> DEFINE R == OpToRel(<, Nat)
<1>1. IsWellFoundedOn(R, Nat)
  BY NatLessThanWellFounded
<1>2. \A x, y \in Nat : x < y => <<x, y>> \in R
  BY DEF OpToRel
<1> HIDE DEF R
<1>3. \E x \in T : \A y \in T : ~(<<y, x>> \in R)
  BY <1>1, WFMin
<1>4. PICK n \in T : \A m \in T : ~(<<m, n>> \in R)
  BY <1>3
<1>5. ASSUME NEW m \in T PROVE n <= m
  <2>1. ~(m < n)
    BY <1>2, <1>4
  <2>2. QED
    BY <2>1
<1>6. QED
  BY <1>5


Increasing(s, n) == \A i, j \in 1..n : i < j => s[i] < s[j]

\* Every finite set of names can be put in order.
LEMMA SortedExists ==
  ASSUME NEW S, S \subseteq Nat, IsFiniteSet(S)
  PROVE  \E s \in [1..Cardinality(S) -> S] : Increasing(s, Cardinality(S))
<1> DEFINE Sortable(X) == \E s \in [1..Cardinality(X) -> X] : Increasing(s, Cardinality(X))
           T == {n \in Nat : \E X \in SUBSET Nat : IsFiniteSet(X) /\ Cardinality(X) = n /\ ~Sortable(X)}
<1>1. SUFFICES ASSUME ~Sortable(S) PROVE FALSE
  OBVIOUS
<1>2. Cardinality(S) \in T
  BY <1>1, FS_CardinalityType
<1>3. PICK n \in T : \A m \in T : n <= m
  <2>1. T \subseteq Nat /\ T # {}
    BY <1>2
  <2> HIDE DEF T
  <2>2. QED
    BY <2>1, LeastNumber
<1>4. n \in Nat /\ \E X \in SUBSET Nat : IsFiniteSet(X) /\ Cardinality(X) = n /\ ~Sortable(X)
  BY <1>3
<1>5. PICK X \in SUBSET Nat : IsFiniteSet(X) /\ Cardinality(X) = n /\ ~Sortable(X)
  BY <1>4
<1>6. CASE X = {}
  <2>1. Cardinality(X) = 0
    BY <1>6, FS_EmptySet
  <2>2. [i \in 1..0 |-> 0] \in [1..0 -> X] /\ Increasing([i \in 1..0 |-> 0], 0)
    BY DEF Increasing
  <2>3. QED
    BY <1>5, <2>1, <2>2
<1>7. CASE X # {}
  <2>1. PICK a \in X : \A x \in X : a <= x
    BY <1>7, LeastNumber
  <2> DEFINE Y == X \ {a}
  <2>2. IsFiniteSet(Y) /\ Cardinality(Y) = n - 1 /\ Y \in SUBSET Nat
    BY <1>5, FS_RemoveElement
  <2>3. n - 1 \in Nat
    BY <2>2, FS_CardinalityType
  <2>4. Sortable(Y)
    <3>1. n - 1 \notin T
      BY <1>3, <1>4, <2>3
    <3>2. QED
      BY <2>2, <2>3, <3>1
  <2>5. PICK s \in [1..n - 1 -> Y] : Increasing(s, n - 1)
    BY <2>2, <2>4
  <2> DEFINE r == [i \in 1..n |-> IF i = 1 THEN a ELSE s[i - 1]]
  <2>6. \A i \in 1..n : i # 1 => i - 1 \in 1..n - 1 /\ s[i - 1] \in Y
    BY <1>4, <2>5
  <2>7. \A y \in Y : a < y
    BY <2>1
  <2>8. r \in [1..n -> X]
    BY <2>6
  <2>9. ASSUME NEW i \in 1..n, NEW j \in 1..n, i < j PROVE r[i] < r[j]
    <3>1. j # 1 /\ r[j] = s[j - 1] /\ s[j - 1] \in Y
      BY <2>6, <2>9
    <3>2. CASE i = 1
      BY <2>7, <3>1, <3>2
    <3>3. CASE i # 1
      <4>1. r[i] = s[i - 1] /\ i - 1 \in 1..n - 1 /\ j - 1 \in 1..n - 1 /\ i - 1 < j - 1
        BY <1>4, <2>9, <3>1, <3>3
      <4>2. QED
        BY <2>5, <3>1, <4>1 DEF Increasing
    <3>4. QED
      BY <3>2, <3>3
  <2> HIDE DEF r
  <2>10. Increasing(r, n)
    BY <2>9 DEF Increasing
  <2>11. QED
    BY <1>5, <2>8, <2>10
<1>8. QED
  BY <1>6, <1>7

\* The elements of an enumeration without repetition, counted as far as one of them.
Distinct(s, n) == \A i, j \in 1..n : i # j => s[i] # s[j]

FirstOf(s, k) == {s[i] : i \in 1..k}

LEMMA CountUpTo ==
  ASSUME NEW n \in Nat, NEW S, NEW s \in [1..n -> S], Distinct(s, n), NEW k \in 0..n
  PROVE  IsFiniteSet(FirstOf(s, k)) /\ Cardinality(FirstOf(s, k)) = k
<1> USE DEF Distinct, FirstOf
<1> DEFINE T == {s[i] : i \in 1..k}
           f == [i \in 1..k |-> s[i]]
<1>1. f \in [1..k -> T]
  OBVIOUS
<1>2. \A i, j \in 1..k : f[i] = f[j] => i = j
  OBVIOUS
<1>3. \A t \in T : \E i \in 1..k : f[i] = t
  OBVIOUS
<1>4. IsFiniteSet(1..k) /\ Cardinality(1..k) = k
  BY FS_Interval
<1> HIDE DEF f, T
<1>5. f \in Bijection(1..k, T)
  BY <1>1, <1>2, <1>3, Fun_IsBij
<1>6. ExistsBijection(1..k, T)
  BY <1>5 DEF ExistsBijection
<1>7. IsFiniteSet(T) /\ Cardinality(T) = k
  BY <1>4, <1>6, FS_Bijection
<1>8. QED
  BY <1>7 DEF T

Ordered(s, n, descending) ==
  \A i, j \in 1..n : i < j => IF descending THEN s[i] > s[j] ELSE s[i] < s[j]

LEMMA SortedEither ==
  ASSUME NEW S, S \subseteq Nat, IsFiniteSet(S), NEW descending \in BOOLEAN
  PROVE  \E s \in [1..Cardinality(S) -> S] : Ordered(s, Cardinality(S), descending)
<1>1. PICK n \in Nat : n = Cardinality(S)
  BY FS_CardinalityType
<1>2. PICK s \in [1..n -> S] : Increasing(s, n)
  BY <1>1, SortedExists
<1>3. CASE ~descending
  BY <1>1, <1>2, <1>3 DEF Ordered, Increasing
<1>4. CASE descending
  <2> DEFINE r == [i \in 1..n |-> s[n + 1 - i]]
  <2>1. \A i \in 1..n : n + 1 - i \in 1..n
    OBVIOUS
  <2>2. r \in [1..n -> S]
    BY <1>2, <2>1
  <2>3. ASSUME NEW i \in 1..n, NEW j \in 1..n, i < j PROVE r[i] > r[j]
    <3>1. s[n + 1 - j] < s[n + 1 - i]
      BY <1>2, <2>1, <2>3 DEF Increasing
    <3>2. s[n + 1 - j] \in Nat /\ s[n + 1 - i] \in Nat
      BY <1>2, <2>1
    <3>3. QED
      BY <3>1, <3>2
  <2> HIDE DEF r
  <2>4. Ordered(r, n, descending)
    BY <1>4, <2>3 DEF Ordered
  <2>5. QED
    BY <1>1, <2>2, <2>4
<1>5. QED
  BY <1>3, <1>4

\* sort_names() gives every name once, in order.
LEMMA SortIs ==
  ASSUME NEW S, S \subseteq Nat, IsFiniteSet(S), NEW descending \in BOOLEAN
  PROVE  LET s == SortNames(S, descending) IN
         /\ s \in Seq(S) /\ Len(s) = Cardinality(S) /\ Len(s) \in Nat
         /\ Ordered(s, Len(s), descending)
         /\ Distinct(s, Len(s))
         /\ \A x \in S : \E i \in 1..Len(s) : s[i] = x
<1> DEFINE s == SortNames(S, descending)
<1>1. PICK n \in Nat : n = Cardinality(S)
  BY FS_CardinalityType
<1>2. s = CHOOSE r \in [1..n -> S] : Ordered(r, n, descending)
  BY <1>1, Zenon DEF SortNames, Ordered
<1>3. \E r \in [1..n -> S] : Ordered(r, n, descending)
  BY <1>1, SortedEither
<1> HIDE DEF s
<1>4. s \in [1..n -> S] /\ Ordered(s, n, descending)
  BY <1>2, <1>3
<1>5. s \in Seq(S)
  BY <1>4, SeqDef
<1>6. Len(s) = n
  <2>1. Len(s) \in Nat /\ DOMAIN s = 1..Len(s)
    BY <1>5, LenProperties
  <2>2. DOMAIN s = 1..n
    BY <1>4
  <2>3. PICK a \in Nat : a = Len(s)
    BY <2>1
  <2>4. \A i : i \in 1..a <=> i \in 1..n
    BY <2>1, <2>2, <2>3
  <2>5. (a # 0 => a \in 1..a) /\ (n # 0 => n \in 1..n)
    OBVIOUS
  <2>6. (a # 0 => a \in 1..n) /\ (n # 0 => n \in 1..a)
    BY <2>4, <2>5
  <2>7. a = n
    BY ONLY <2>6, a \in Nat, n \in Nat
  <2>8. QED
    BY <2>3, <2>7
<1>7. ASSUME NEW i \in 1..n, NEW j \in 1..n, i # j PROVE s[i] # s[j]
  <2>1. s[i] \in Nat /\ s[j] \in Nat
    BY <1>4
  <2>2. i < j \/ j < i
    BY <1>7
  <2>3. QED
    BY <1>4, <2>1, <2>2 DEF Ordered
<1>8. ASSUME NEW x \in S PROVE \E i \in 1..n : s[i] = x
  <2>1. IsFiniteSet(1..n) /\ Cardinality(1..n) = n
    BY FS_Interval
  <2>2. s \in Injection(1..n, S)
    BY <1>4, <1>7, Fun_IsInj
  <2>3. s \in Surjection(1..n, S)
    BY <1>1, <2>1, <2>2, FS_Injection
  <2>4. QED
    BY <2>3, Fun_SurjectionProperties
<1>9. QED
  BY <1>1, <1>4, <1>5, <1>6, <1>7, <1>8 DEF s, Distinct

\* collect_dir_names_callback() takes all names or the limit.
LEMMA CollectIs ==
  ASSUME NEW S, S \subseteq Nat, IsFiniteSet(S), NEW max \in Nat
  PROVE  LET c == CollectNames(S, max) IN
         /\ c \subseteq S /\ IsFiniteSet(c)
         /\ Cardinality(S) <= max => c = S
<1>1. PICK n \in Nat : n = Cardinality(S)
  BY FS_CardinalityType
<1>2. CASE n <= max
  BY <1>1, <1>2 DEF CollectNames
<1>3. CASE n > max
  <2>1. PICK s \in [1..n -> S] : Increasing(s, n)
    BY <1>1, SortedExists
  <2>2. ASSUME NEW i \in 1..n, NEW j \in 1..n, i # j PROVE s[i] # s[j]
    <3>1. s[i] \in Nat /\ s[j] \in Nat
      BY <2>1
    <3>2. i < j \/ j < i
      BY <2>2
    <3>3. QED
      BY <2>1, <3>1, <3>2 DEF Increasing
  <2>3. Cardinality(FirstOf(s, max)) = max /\ FirstOf(s, max) \in SUBSET S
    <3>1. max \in 0..n /\ 1..max \subseteq 1..n
      BY <1>3
    <3>2. Distinct(s, n)
      BY <2>2 DEF Distinct
    <3>3. Cardinality(FirstOf(s, max)) = max
      BY <2>1, <3>1, <3>2, CountUpTo
    <3>4. \A i \in 1..max : s[i] \in S
      BY <2>1, <3>1
    <3>5. QED
      BY <3>3, <3>4 DEF FirstOf
  <2>4. CollectNames(S, max) = CHOOSE some \in SUBSET S : Cardinality(some) = max
    BY <1>1, <1>3 DEF CollectNames
  <2>5. CollectNames(S, max) \in SUBSET S
    BY <2>3, <2>4
  <2>6. QED
    BY <1>1, <1>3, <2>5, FS_Subset
<1>4. QED
  BY <1>2, <1>3

-----------------------------------------------------------------------------
(* The tree of the session directories *)

\* A prefix of a path, given by its elements.
LEMMA PrefixIs ==
  ASSUME NEW S, NEW p \in Seq(S), NEW g \in Seq(S), Len(g) \in 1..Len(p),
         \A i \in 1..Len(g) : g[i] = p[i]
  PROVE  SubSeq(p, 1, Len(g)) = g
<1> DEFINE f == SubSeq(p, 1, Len(g))
<1>1. PICK n \in Nat : n = Len(g)
  BY LenProperties
<1>2. PICK m \in Nat : m = Len(p)
  BY LenProperties
<1>3. n \in 1..m /\ \A i \in 1..n : p[i] \in S
  BY <1>1, <1>2, ElementOfSeq
<1>4. /\ SubSeq(p, 1, n) \in Seq(S)
      /\ Len(SubSeq(p, 1, n)) = IF 1 <= n THEN n - 1 + 1 ELSE 0
      /\ \A i \in 1..n - 1 + 1 : SubSeq(p, 1, n)[i] = p[1 + i - 1]
  BY <1>3, SubSeqProperties
<1>5. f \in Seq(S) /\ Len(f) = n /\ \A i \in 1..n : f[i] = p[i]
  BY <1>1, <1>3, <1>4
<1> HIDE DEF f
<1>6. \A i \in 1..Len(f) : f[i] = g[i]
  BY <1>1, <1>5
<1>7. f = g
  BY <1>1, <1>5, <1>6, SeqEqual
<1>8. QED
  BY <1>7 DEF f

LEMMA PrefixesOfFive ==
  ASSUME NEW a, NEW b, NEW c, NEW d, NEW e
  PROVE  /\ SubSeq(<<a, b, c, d, e>>, 1, 2) = <<a, b>>
         /\ SubSeq(<<a, b, c, d, e>>, 1, 3) = <<a, b, c>>
         /\ SubSeq(<<a, b, c, d, e>>, 1, 4) = <<a, b, c, d>>
<1> DEFINE S == {a, b, c, d, e}
           p == <<a, b, c, d, e>>
           f == <<a, b>>
           g == <<a, b, c>>
           h == <<a, b, c, d>>
<1>1. /\ p \in Seq(S) /\ f \in Seq(S) /\ g \in Seq(S) /\ h \in Seq(S)
      /\ Len(p) = 5 /\ Len(f) = 2 /\ Len(g) = 3 /\ Len(h) = 4
      /\ \A i \in 1..2 : f[i] = p[i]
      /\ \A i \in 1..3 : g[i] = p[i]
      /\ \A i \in 1..4 : h[i] = p[i]
  OBVIOUS
<1> HIDE DEF S, p, f, g, h
<1>2. SubSeq(p, 1, Len(f)) = f
  BY <1>1, PrefixIs
<1>3. SubSeq(p, 1, Len(g)) = g
  BY <1>1, PrefixIs
<1>4. SubSeq(p, 1, Len(h)) = h
  BY <1>1, PrefixIs
<1>5. SubSeq(p, 1, 2) = f /\ SubSeq(p, 1, 3) = g /\ SubSeq(p, 1, 4) = h
  BY <1>1, <1>2, <1>3, <1>4
<1>6. QED
  BY <1>5 DEF p, f, g, h

LEMMA FrontOfTwo ==
  ASSUME NEW a, NEW b PROVE Front(<<a, b>>) = <<a>>
<1> DEFINE S == {a, b}
           p == <<a, b>>
           f == <<a>>
<1>1. p \in Seq(S) /\ f \in Seq(S) /\ Len(p) = 2 /\ Len(f) = 1 /\ \A i \in 1..1 : f[i] = p[i]
  OBVIOUS
<1>2. Front(p) = SubSeq(p, 1, Len(p) - 1)
  BY Zenon DEF Front
<1> HIDE DEF S, p, f
<1>3. SubSeq(p, 1, Len(f)) = f
  BY <1>1, PrefixIs
<1>4. Front(p) = f
  BY <1>1, <1>2, <1>3
<1>5. QED
  BY <1>4 DEF p, f

LEMMA FrontOfThree ==
  ASSUME NEW a, NEW b, NEW c PROVE Front(<<a, b, c>>) = <<a, b>>
<1> DEFINE S == {a, b, c}
           p == <<a, b, c>>
           f == <<a, b>>
<1>1. p \in Seq(S) /\ f \in Seq(S) /\ Len(p) = 3 /\ Len(f) = 2 /\ \A i \in 1..2 : f[i] = p[i]
  OBVIOUS
<1>2. Front(p) = SubSeq(p, 1, Len(p) - 1)
  BY Zenon DEF Front
<1> HIDE DEF S, p, f
<1>3. SubSeq(p, 1, Len(f)) = f
  BY <1>1, PrefixIs
<1>4. Front(p) = f
  BY <1>1, <1>2, <1>3
<1>5. QED
  BY <1>4 DEF p, f

LEMMA FrontOfFour ==
  ASSUME NEW a, NEW b, NEW c, NEW d PROVE Front(<<a, b, c, d>>) = <<a, b, c>>
<1> DEFINE S == {a, b, c, d}
           p == <<a, b, c, d>>
           f == <<a, b, c>>
<1>1. p \in Seq(S) /\ f \in Seq(S) /\ Len(p) = 4 /\ Len(f) = 3 /\ \A i \in 1..3 : f[i] = p[i]
  OBVIOUS
<1>2. Front(p) = SubSeq(p, 1, Len(p) - 1)
  BY Zenon DEF Front
<1> HIDE DEF S, p, f
<1>3. SubSeq(p, 1, Len(f)) = f
  BY <1>1, PrefixIs
<1>4. Front(p) = f
  BY <1>1, <1>2, <1>3
<1>5. QED
  BY <1>4 DEF p, f

LEMMA ConsOne == ASSUME NEW a, NEW b PROVE <<a>> \o <<b>> = <<a, b>>
<1> DEFINE S == {a, b}
           r == <<b>>
           h == <<a>>
           f == h \o r
           g == <<a, b>>
<1>1. h \in Seq(S) /\ r \in Seq(S) /\ g \in Seq(S)
      /\ Len(g) = 2 /\ Len(r) = 1 /\ Len(h) = 1 /\ h[1] = a
      /\ r[1] = b /\ g[1] = a /\ g[2] = b
  OBVIOUS
<1> HIDE DEF S, h, r, g
<1>2. /\ h \o r \in Seq(S) /\ Len(h \o r) = Len(h) + Len(r)
      /\ \A i \in 1..Len(h) + Len(r) : (h \o r)[i] = IF i <= Len(h) THEN h[i] ELSE r[i - Len(h)]
  BY <1>1, ConcatProperties, Zenon
<1>3. f[1] = g[1] /\ f[2] = g[2]
  BY <1>1, <1>2
<1> HIDE DEF f
<1>4. f \in Seq(S) /\ Len(f) = Len(g) /\ \A i \in 1..Len(f) : f[i] = g[i]
  BY <1>1, <1>2, <1>3 DEF f
<1>5. f = g
  BY <1>1, <1>4, SeqEqual, Zenon
<1>6. QED
  BY <1>5 DEF f, g, h, r

LEMMA ConsTwo == ASSUME NEW a, NEW b, NEW c PROVE <<a>> \o <<b, c>> = <<a, b, c>>
<1> DEFINE S == {a, b, c}
           r == <<b, c>>
           h == <<a>>
           f == h \o r
           g == <<a, b, c>>
<1>1. h \in Seq(S) /\ r \in Seq(S) /\ g \in Seq(S)
      /\ Len(g) = 3 /\ Len(r) = 2 /\ Len(h) = 1 /\ h[1] = a
      /\ r[1] = b /\ r[2] = c /\ g[1] = a /\ g[2] = b /\ g[3] = c
  OBVIOUS
<1> HIDE DEF S, h, r, g
<1>2. /\ h \o r \in Seq(S) /\ Len(h \o r) = Len(h) + Len(r)
      /\ \A i \in 1..Len(h) + Len(r) : (h \o r)[i] = IF i <= Len(h) THEN h[i] ELSE r[i - Len(h)]
  BY <1>1, ConcatProperties, Zenon
<1>3. f[1] = g[1] /\ f[2] = g[2] /\ f[3] = g[3]
  BY <1>1, <1>2
<1> HIDE DEF f
<1>4. f \in Seq(S) /\ Len(f) = Len(g) /\ \A i \in 1..Len(f) : f[i] = g[i]
  BY <1>1, <1>2, <1>3 DEF f
<1>5. f = g
  BY <1>1, <1>4, SeqEqual, Zenon
<1>6. QED
  BY <1>5 DEF f, g, h, r

\* The directories of the tree, by what they hold.
LogsDir == <<Root, "logs">>
DayDir(d) == <<Root, "logs", d>>
IdDir(d, i) == <<Root, "logs", d, i>>

LEMMA TreePaths ==
  /\ Translate(<<"logs">>) = LogsDir
  /\ \A d : Translate(<<"logs", d>>) = DayDir(d)
  /\ \A s : Translate(Key(s)) = IdDir(s[1], s[2])
<1>0. "logs" # Root
  BY DEF Root
<1>1. Translate(<<"logs">>) = LogsDir
  <2>1. Head(<<"logs">>) = "logs"
    OBVIOUS
  <2>2. Translate(<<"logs">>) = <<Root>> \o <<"logs">>
    BY <1>0, <2>1, Zenon DEF Translate, Root
  <2>3. QED
    BY <2>2, ConsOne, Zenon DEF LogsDir
<1>2. ASSUME NEW d PROVE Translate(<<"logs", d>>) = DayDir(d)
  <2>1. Head(<<"logs", d>>) = "logs"
    OBVIOUS
  <2>2. Translate(<<"logs", d>>) = <<Root>> \o <<"logs", d>>
    BY <1>0, <2>1, Zenon DEF Translate, Root
  <2>3. QED
    BY <2>2, ConsTwo, Zenon DEF DayDir
<1>3. ASSUME NEW s PROVE Translate(Key(s)) = IdDir(s[1], s[2])
  <2>1. Head(<<"logs", s[1], s[2]>>) = "logs"
    OBVIOUS
  <2>2. Translate(Key(s)) = <<Root>> \o <<"logs", s[1], s[2]>>
    BY <1>0, <2>1, Zenon DEF Translate, Root, Key
  <2>3. QED
    BY <2>2, ConsThree, Zenon DEF IdDir
<1>4. QED
  BY <1>1, <1>2, <1>3, Zenon

\* Nothing but the logs directory, directories of days and of sessions in them.
Shaped(e) ==
  \/ e = LogsDir
  \/ \E d \in Days : e = DayDir(d)
  \/ \E d \in Days, i \in Ids : e = IdDir(d, i)

\* A directory is in one that is there.
TreeInv ==
  /\ boot \in {"fat", "lfs", "logs"} => dirs = {}
  /\ boot = "up" => LogsDir \in dirs
  /\ \A e \in dirs : Shaped(e)
  /\ \A d \in Days, i \in Ids : IdDir(d, i) \in dirs => DayDir(d) \in dirs

LEMMA TreeInit == StorageInit => TreeInv
BY DEF StorageInit, TreeInv

LEMMA ShapesDiffer ==
  ASSUME NEW d, NEW i, NEW e
  PROVE  LogsDir # DayDir(e) /\ LogsDir # IdDir(d, i) /\ DayDir(e) # IdDir(d, i)
<1>1. Len(LogsDir) = 2 /\ Len(DayDir(e)) = 3 /\ Len(IdDir(d, i)) = 4
  BY DEF LogsDir, DayDir, IdDir
<1>2. QED
  BY <1>1

LEMMA NamesDiffer ==
  ASSUME NEW d, NEW i, NEW e, NEW j
  PROVE  /\ DayDir(d) = DayDir(e) => d = e
         /\ IdDir(d, i) = IdDir(e, j) => d = e /\ i = j
BY DEF DayDir, IdDir

\* The directories that storage_open() makes for a log.
LEMMA MadeFor ==
  ASSUME NEW s \in Sessions, NEW n \in 2..4
  PROVE  /\ LogsDir \in MadeDirs(Translate(LogFile(s)), n)
         /\ \A e \in MadeDirs(Translate(LogFile(s)), n) :
              e = LogsDir \/ e = DayDir(s[1]) \/ e = IdDir(s[1], s[2])
         /\ IdDir(s[1], s[2]) \in MadeDirs(Translate(LogFile(s)), n)
              => DayDir(s[1]) \in MadeDirs(Translate(LogFile(s)), n)
<1> DEFINE p == Translate(LogFile(s))
<1>1. p = <<Root, "logs", s[1], s[2], "flight">>
  BY LogPath
<1>2. SubSeq(p, 1, 2) = LogsDir /\ SubSeq(p, 1, 3) = DayDir(s[1]) /\ SubSeq(p, 1, 4) = IdDir(s[1], s[2])
  BY <1>1, PrefixesOfFive, Zenon DEF LogsDir, DayDir, IdDir
<1> HIDE DEF p
<1>3. \A k \in 2..n : k = 2 \/ k = 3 \/ k = 4
  OBVIOUS
<1>4. 2 \in 2..n /\ (4 \in 2..n => 3 \in 2..n)
  OBVIOUS
<1>5. LogsDir \in MadeDirs(p, n)
  BY <1>2, <1>4 DEF MadeDirs
<1>6. ASSUME NEW e \in MadeDirs(p, n)
      PROVE  e = LogsDir \/ e = DayDir(s[1]) \/ e = IdDir(s[1], s[2])
  <2>1. PICK k \in 2..n : e = SubSeq(p, 1, k)
    BY DEF MadeDirs
  <2>2. QED
    BY <1>2, <1>3, <2>1
<1>7. ASSUME IdDir(s[1], s[2]) \in MadeDirs(p, n) PROVE DayDir(s[1]) \in MadeDirs(p, n)
  <2>1. PICK k \in 2..n : IdDir(s[1], s[2]) = SubSeq(p, 1, k)
    BY <1>7 DEF MadeDirs
  <2>2. k # 2 /\ k # 3
    BY <1>2, <2>1, ShapesDiffer
  <2>3. 3 \in 2..n
    BY <1>3, <2>1, <2>2
  <2>4. QED
    BY <1>2, <2>3 DEF MadeDirs
<1>8. QED
  BY <1>5, <1>6, <1>7 DEF p

\* The paths depend on the backend only.
LEMMA TreeStays ==
  ASSUME UNCHANGED backend
  PROVE  /\ LogsDir' = LogsDir
         /\ \A d : DayDir(d)' = DayDir(d)
         /\ \A d, i : IdDir(d, i)' = IdDir(d, i)
         /\ \A e : Shaped(e) => Shaped(e)'
<1>1. Root' = Root
  BY DEF Root
<1>2. /\ LogsDir' = LogsDir
      /\ \A d : DayDir(d)' = DayDir(d)
      /\ \A d, i : IdDir(d, i)' = IdDir(d, i)
  BY <1>1 DEF LogsDir, DayDir, IdDir
<1>3. \A e : Shaped(e) => Shaped(e)'
  BY <1>2 DEF Shaped
<1>4. QED
  BY <1>2, <1>3

\* A step that leaves the tree alone.
LEMMA TreeSame ==
  ASSUME TreeInv, UNCHANGED <<backend, dirs>>,
         boot' = boot \/ boot' = "failed"
  PROVE  TreeInv'
<1>1. /\ LogsDir' = LogsDir
      /\ \A d : DayDir(d)' = DayDir(d)
      /\ \A d, i : IdDir(d, i)' = IdDir(d, i)
      /\ \A e : Shaped(e) => Shaped(e)'
  BY TreeStays
<1>2. (boot' \in {"fat", "lfs", "logs"} => dirs' = {}) /\ (boot' = "up" => LogsDir' \in dirs')
  BY <1>1 DEF TreeInv
<1>3. \A e \in dirs' : Shaped(e)'
  BY <1>1 DEF TreeInv
<1>4. \A d \in Days, i \in Ids : IdDir(d, i)' \in dirs' => DayDir(d)' \in dirs'
  BY <1>1 DEF TreeInv
<1>5. QED
  BY <1>2, <1>3, <1>4 DEF TreeInv

\* Before the logs directory is made there is no tree.
LEMMA TreeInvBoot ==
  ASSUME TreeInv, TryFat \/ TryLfs
  PROVE  TreeInv'
<1>1. boot \in {"fat", "lfs"} /\ boot' # "up" /\ dirs' = dirs
  BY DEF TryFat, TryLfs, FatInit, NoCard, LfsInit, Boot, BootOnly, treeVars
<1>2. dirs' = {}
  BY <1>1 DEF TreeInv
<1>3. QED
  BY <1>1, <1>2 DEF TreeInv

\* The sessions of earlier flights are found in their directories.
LEMMA TreeInvLogs ==
  ASSUME TreeInv, BootLogs
  PROVE  TreeInv'
<1>1. UNCHANGED backend
  BY DEF BootLogs
<1>2. CASE boot' = "up"
  <2>1. PICK old \in SUBSET Sessions :
          dirs' = {Translate(<<"logs">>)} \cup {Translate(<<"logs", s[1]>>) : s \in old}
                  \cup {Translate(Key(s)) : s \in old}
    BY <1>2, Zenon DEF BootLogs, MakeLogs, Boot
  <2>2. dirs' = {LogsDir} \cup {DayDir(s[1]) : s \in old} \cup {IdDir(s[1], s[2]) : s \in old}
    BY <2>1, TreePaths
  <2>3. \A s \in old : s[1] \in Days /\ s[2] \in Ids
    BY DEF Sessions
  <2>4. /\ LogsDir' = LogsDir
        /\ \A d : DayDir(d)' = DayDir(d)
        /\ \A d, i : IdDir(d, i)' = IdDir(d, i)
        /\ \A e : Shaped(e) => Shaped(e)'
    BY <1>1, TreeStays
  <2>5. \A e \in dirs' : Shaped(e)
    BY <2>2, <2>3 DEF Shaped
  <2>6. ASSUME NEW d \in Days, NEW i \in Ids, IdDir(d, i) \in dirs' PROVE DayDir(d) \in dirs'
    <3>1. IdDir(d, i) # LogsDir /\ \A s \in old : IdDir(d, i) # DayDir(s[1])
      BY ShapesDiffer
    <3>2. PICK s \in old : IdDir(d, i) = IdDir(s[1], s[2])
      BY <2>2, <2>6, <3>1
    <3>3. d = s[1]
      BY <3>2, NamesDiffer
    <3>4. QED
      BY <2>2, <3>3
  <2>7. LogsDir \in dirs'
    BY <2>2
  <2>8. \A e \in dirs' : Shaped(e)'
    BY <2>4, <2>5
  <2>9. \A d \in Days, i \in Ids : IdDir(d, i)' \in dirs' => DayDir(d)' \in dirs'
    BY <2>4, <2>6
  <2>10. LogsDir' \in dirs'
    BY <2>4, <2>7
  <2>11. QED
    BY <1>2, <2>8, <2>9, <2>10 DEF TreeInv
<1>3. CASE boot' = "failed"
  <2>1. UNCHANGED dirs
    BY <1>3, Zenon DEF BootLogs, MakeLogs, Boot
  <2>2. QED
    BY <1>1, <1>3, <2>1, TreeSame
<1>4. QED
  BY <1>2, <1>3, Zenon DEF BootLogs, MakeLogs, Boot

LEMMA TreeInvStart ==
  ASSUME TreeInv, StartSession
  PROVE  TreeInv'
<1>1. UNCHANGED backend /\ boot' = boot /\ boot = "up"
  BY Zenon DEF StartSession, bootVars
<1>2. PICK s \in Sessions : StorageOpen(s)
  BY Zenon DEF StartSession
<1>3. Len(Translate(LogFile(s))) = 5
  BY LogPath
<1>4. PICK n \in 2..5 : dirs' = dirs \cup MadeDirs(Translate(LogFile(s)), IF n = 5 THEN n - 1 ELSE n)
  BY <1>2, <1>3 DEF StorageOpen
<1>5. PICK m \in 2..4 : dirs' = dirs \cup MadeDirs(Translate(LogFile(s)), m)
  <2>1. (IF n = 5 THEN n - 1 ELSE n) \in 2..4
    OBVIOUS
  <2>2. QED
    BY <1>4, <2>1
<1>6. s[1] \in Days /\ s[2] \in Ids
  BY DEF Sessions
<1>7. PICK M : M = MadeDirs(Translate(LogFile(s)), m)
  OBVIOUS
<1>8. /\ LogsDir \in M
      /\ \A e \in M : e = LogsDir \/ e = DayDir(s[1]) \/ e = IdDir(s[1], s[2])
      /\ IdDir(s[1], s[2]) \in M => DayDir(s[1]) \in M
  BY <1>7, MadeFor
<1>9. dirs' = dirs \cup M
  BY <1>5, <1>7
<1>10. \A e \in dirs' : Shaped(e)
  BY <1>6, <1>8, <1>9 DEF Shaped, TreeInv
<1>11. ASSUME NEW d \in Days, NEW i \in Ids, IdDir(d, i) \in dirs' PROVE DayDir(d) \in dirs'
  <2>1. CASE IdDir(d, i) \in dirs
    BY <1>9, <2>1 DEF TreeInv
  <2>2. CASE IdDir(d, i) \in M
    <3>1. IdDir(d, i) = IdDir(s[1], s[2])
      BY <1>8, <2>2, ShapesDiffer
    <3>2. d = s[1]
      BY <3>1, NamesDiffer
    <3>3. QED
      BY <1>8, <1>9, <2>2, <3>1, <3>2
  <2>3. QED
    BY <1>9, <1>11, <2>1, <2>2
<1>12. /\ LogsDir' = LogsDir
       /\ \A d : DayDir(d)' = DayDir(d)
       /\ \A d, i : IdDir(d, i)' = IdDir(d, i)
       /\ \A e : Shaped(e) => Shaped(e)'
  BY <1>1, TreeStays
<1>13. \A e \in dirs' : Shaped(e)'
  BY <1>10, <1>12
<1>14. \A d \in Days, i \in Ids : IdDir(d, i)' \in dirs' => DayDir(d)' \in dirs'
  BY <1>11, <1>12
<1>15. LogsDir' \in dirs'
  BY <1>8, <1>9, <1>12
<1>16. QED
  BY <1>1, <1>13, <1>14, <1>15 DEF TreeInv

\* A delete takes the directory of one session, or, on LittleFS, one that is not
\* there.
LEMMA TreeInvDelete ==
  ASSUME TreeInv, CommandsTyped, DeleteDir
  PROVE  TreeInv'
<1>1. UNCHANGED backend /\ boot' = boot /\ boot = "up" /\ target \in Sessions
  BY DEF DeleteDir, bootVars, CommandsTyped, Deleting
<1>2. dirs' \in {dirs, dirs \ {Physical(Key(target))}}
  BY Zenon DEF DeleteDir
<1>3. LogsDir # Physical(Key(target)) /\ \A d : DayDir(d) # Physical(Key(target))
  <2>1. CASE backend = "fat"
    <3>1. Physical(Key(target)) = IdDir(target[1], target[2])
      BY <1>1, <2>1, DeletePath DEF IdDir, Root
    <3>2. QED
      BY <3>1, ShapesDiffer
  <2>2. CASE backend # "fat"
    <3>1. Physical(Key(target)) = <<"logs", target[1], target[2]>>
      BY <1>1, <2>2, DeletePath
    <3>2. Len(LogsDir) = 2 /\ LogsDir[1] = "lfs" /\ \A d : DayDir(d)[1] = "lfs"
      BY <2>2 DEF LogsDir, DayDir, Root
    <3>3. Len(Physical(Key(target))) = 3 /\ Physical(Key(target))[1] = "logs"
      BY <3>1
    <3>4. QED
      BY <3>2, <3>3
  <2>3. QED
    BY <2>1, <2>2
<1>4. /\ LogsDir' = LogsDir
      /\ \A d : DayDir(d)' = DayDir(d)
      /\ \A d, i : IdDir(d, i)' = IdDir(d, i)
      /\ \A e : Shaped(e) => Shaped(e)'
  BY <1>1, TreeStays
<1>5. LogsDir' \in dirs'
  BY <1>1, <1>2, <1>3, <1>4 DEF TreeInv
<1>6. \A e \in dirs' : Shaped(e)'
  BY <1>2, <1>4 DEF TreeInv
<1>7. \A d \in Days, i \in Ids : IdDir(d, i)' \in dirs' => DayDir(d)' \in dirs'
  BY <1>2, <1>3, <1>4 DEF TreeInv
<1>8. QED
  BY <1>1, <1>5, <1>6, <1>7 DEF TreeInv

LEMMA TreeInvStep == TreeInv /\ CommandsTyped /\ [StorageNext]_storageVars => TreeInv'
<1> SUFFICES ASSUME TreeInv, CommandsTyped, [StorageNext]_storageVars PROVE TreeInv'
  OBVIOUS
<1>1. CASE \/ MarkJumped \/ StopSession \/ AskPage \/ ListDates \/ ListSessions \/ ListReply
           \/ AskDelete \/ CheckState \/ CheckInfo \/ DeleteFiles \/ UNCHANGED storageVars
  <2>1. UNCHANGED <<backend, dirs, boot>>
    BY <1>1, Zenon DEF MarkJumped, StopSession, AskPage, ListDates, ListSessions, ListReply,
       AskDelete, CheckState, CheckInfo, Looked, DeleteFiles, storageVars, bootVars, treeVars
  <2>2. QED
    BY <2>1, TreeSame
<1>2. QED
  BY <1>1, TreeInvBoot, TreeInvLogs, TreeInvStart, TreeInvDelete, Zenon DEF StorageNext

-----------------------------------------------------------------------------
(* What a directory of the tree holds *)

DayNames == {d \in Days : DayDir(d) \in dirs}
IdNames(d) == {i \in Ids : IdDir(d, i) \in dirs}

LEMMA LastOf ==
  /\ \A a, b : Last(<<a, b>>) = b
  /\ \A a, b, c : Last(<<a, b, c>>) = c
  /\ \A a, b, c, d : Last(<<a, b, c, d>>) = d
<1>1. ASSUME NEW a, NEW b PROVE Last(<<a, b>>) = b
  BY DEF Last
<1>2. ASSUME NEW a, NEW b, NEW c PROVE Last(<<a, b, c>>) = c
  BY DEF Last
<1>3. ASSUME NEW a, NEW b, NEW c, NEW d PROVE Last(<<a, b, c, d>>) = d
  BY DEF Last
<1>4. QED
  BY <1>1, <1>2, <1>3

\* The parents and names of the tree's directories.
LEMMA TreeParents ==
  ASSUME NEW d, NEW i
  PROVE  /\ Parent(LogsDir) = <<Root>>
         /\ Parent(DayDir(d)) = LogsDir /\ Last(DayDir(d)) = d
         /\ Parent(IdDir(d, i)) = DayDir(d) /\ Last(IdDir(d, i)) = i
<1>1. Front(LogsDir) = <<Root>>
  BY FrontOfTwo, Zenon DEF LogsDir
<1>2. Front(DayDir(d)) = LogsDir
  BY FrontOfThree, Zenon DEF LogsDir, DayDir
<1>3. Front(IdDir(d, i)) = DayDir(d)
  BY FrontOfFour, Zenon DEF DayDir, IdDir
<1>4. Last(DayDir(d)) = d
  BY LastOf DEF DayDir
<1>5. Last(IdDir(d, i)) = i
  BY LastOf DEF IdDir
<1>6. QED
  BY <1>1, <1>2, <1>3, <1>4, <1>5, Zenon DEF Parent

LEMMA RootDiffers ==
  ASSUME NEW d PROVE <<Root>> # LogsDir /\ <<Root>> # DayDir(d)
<1>1. Len(<<Root>>) = 1 /\ Len(LogsDir) = 2 /\ Len(DayDir(d)) = 3
  BY DEF LogsDir, DayDir
<1>2. QED
  BY <1>1

\* storage_list_dir() on the card names the days of the tree and their sessions.
LEMMA DirNames ==
  ASSUME TreeInv, boot = "up", backend = "fat", "SD" \in mounts
  PROVE  /\ SubDirs(<<"logs">>) = DayNames
         /\ \A d \in Days : SubDirs(<<"logs", d>>) = IdNames(d)
<1>0. Root = "SD"
  BY DEF Root
<1>1. Physical(<<"logs">>) = LogsDir
  <2>1. Head(<<"logs">>) = "logs"
    OBVIOUS
  <2>2. FatPath(<<"logs">>) = <<"SD">> \o <<"logs">>
    BY <2>1 DEF FatPath
  <2>3. QED
    BY <1>0, <2>2, ConsOne, Zenon DEF LogsDir, Physical
<1>2. ASSUME NEW d PROVE Physical(<<"logs", d>>) = DayDir(d)
  <2>1. Head(<<"logs", d>>) = "logs"
    OBVIOUS
  <2>2. FatPath(<<"logs", d>>) = <<"SD">> \o <<"logs", d>>
    BY <2>1 DEF FatPath
  <2>3. QED
    BY <1>0, <2>2, ConsTwo, Zenon DEF DayDir, Physical
<1>3. Mounted(LogsDir) /\ \A d : Mounted(DayDir(d))
  BY <1>0 DEF Mounted, LogsDir, DayDir
<1>4. \A e \in dirs : Len(e) > 1
  BY DEF TreeInv, Shaped, LogsDir, DayDir, IdDir
<1>5. SubDirs(<<"logs">>) = {Last(e) : e \in {f \in dirs : Parent(f) = LogsDir}}
  <2>1. LogsDir \in dirs
    BY DEF TreeInv
  <2>2. QED
    BY <1>1, <1>3, <1>4, <2>1 DEF SubDirs
<1>6. SubDirs(<<"logs">>) = DayNames
  <2>1. ASSUME NEW e \in dirs, Parent(e) = LogsDir PROVE Last(e) \in DayNames
    <3>1. CASE e = LogsDir
      BY <2>1, <3>1, TreeParents, RootDiffers
    <3>2. CASE \E d \in Days : e = DayDir(d)
      BY <3>2, TreeParents DEF DayNames
    <3>3. CASE \E d \in Days, i \in Ids : e = IdDir(d, i)
      BY <2>1, <3>3, TreeParents, ShapesDiffer
    <3>4. QED
      BY <3>1, <3>2, <3>3 DEF TreeInv, Shaped
  <2>2. ASSUME NEW d \in DayNames PROVE \E e \in dirs : Parent(e) = LogsDir /\ Last(e) = d
    BY TreeParents DEF DayNames
  <2>3. QED
    BY <1>5, <2>1, <2>2
<1>7. ASSUME NEW d \in Days PROVE SubDirs(<<"logs", d>>) = IdNames(d)
  <2>1. ASSUME NEW e \in dirs, Parent(e) = DayDir(d) PROVE Last(e) \in IdNames(d)
    <3>1. CASE e = LogsDir
      BY <2>1, <3>1, TreeParents, RootDiffers
    <3>2. CASE \E f \in Days : e = DayDir(f)
      BY <2>1, <3>2, TreeParents, ShapesDiffer
    <3>3. CASE \E f \in Days, i \in Ids : e = IdDir(f, i)
      <4>1. PICK f \in Days, i \in Ids : e = IdDir(f, i)
        BY <3>3
      <4>2. f = d /\ Last(e) = i
        BY <2>1, <4>1, TreeParents, NamesDiffer
      <4>3. QED
        BY <4>1, <4>2 DEF IdNames
    <3>4. QED
      BY <3>1, <3>2, <3>3 DEF TreeInv, Shaped
  <2>2. ASSUME NEW i \in IdNames(d)
        PROVE  DayDir(d) \in dirs /\ \E e \in dirs : Parent(e) = DayDir(d) /\ Last(e) = i
    BY TreeParents DEF IdNames, TreeInv
  <2>3. CASE DayDir(d) \in dirs
    <3>1. SubDirs(<<"logs", d>>) = {Last(e) : e \in {f \in dirs : Parent(f) = DayDir(d)}}
      BY <1>2, <1>3, <1>4, <2>3 DEF SubDirs
    <3>2. QED
      BY <2>1, <2>2, <3>1
  <2>4. CASE DayDir(d) \notin dirs
    <3>1. SubDirs(<<"logs", d>>) = {}
      BY <1>2, <2>4 DEF SubDirs
    <3>2. QED
      BY <2>2, <2>4, <3>1
  <2>5. QED
    BY <2>3, <2>4
<1>8. QED
  BY <1>6, <1>7

-----------------------------------------------------------------------------
(* The types of the storage's state *)

BootTyped ==
  /\ boot \in {"fat", "lfs", "logs", "up", "failed"}
  /\ bad \subseteq {"card", "flash", "lfs", "mkdir"}
  /\ backend \in {"fat", "lfs"} /\ mounts \subseteq {"SD", "lfs"}
  /\ ready \in BOOLEAN /\ steady \in BOOLEAN /\ cut \in BOOLEAN /\ blind \in BOOLEAN
  /\ target \in Sessions \cup {<<>>}

\* The sessions counted, and those that the dates still to do can have, are no
\* more than there are names.
ListTyped ==
  /\ list \in [page : Nat, dates : Seq(Days), total : Nat, out : Seq(Sessions), truncated : BOOLEAN]
  /\ pc # "sessions" => list.dates = <<>> /\ list.total = 0 /\ list.out = <<>>
  /\ Len(list.out) <= PageSize
  /\ list.total + Len(list.dates) * Cardinality(Ids) <= Cardinality(Days) * Cardinality(Ids)

LEMMA NamesTyped ==
  ASSUME TreeInv, BootStage, BootTyped, boot = "up"
  PROVE  SubDirs(<<"logs">>) \subseteq Days /\ \A d \in Days : SubDirs(<<"logs", d>>) \subseteq Ids
<1>1. CASE backend = "fat"
  <2>1. "SD" \in mounts
    BY <1>1 DEF BootStage
  <2>2. QED
    BY <1>1, <2>1, DirNames DEF DayNames, IdNames
<1>2. CASE backend = "lfs"
  <2>1. Physical(<<"logs">>) = <<"logs">> /\ \A d : Physical(<<"logs", d>>) = <<"logs", d>>
    BY <1>2 DEF Physical, LfsPath
  <2>2. Head(<<"logs">>) = "logs" /\ \A d : Head(<<"logs", d>>) = "logs"
    OBVIOUS
  <2>3. ~Mounted(<<"logs">>) /\ \A d : ~Mounted(<<"logs", d>>)
    BY <2>2 DEF Mounted, BootTyped
  <2>4. QED
    BY <2>1, <2>3 DEF SubDirs
<1>3. QED
  BY <1>1, <1>2 DEF BootTyped

LEMMA BootTypedInit == StorageInit => BootTyped
BY DEF StorageInit, BootTyped

LEMMA BootTypedStep == BootTyped /\ [StorageNext]_storageVars => BootTyped'
<1> SUFFICES ASSUME BootTyped, [StorageNext]_storageVars PROVE BootTyped'
  OBVIOUS
<1>1. CASE TryFat \/ TryLfs
  <2>1. UNCHANGED <<steady, cut, blind, target>>
    BY <1>1, Zenon DEF TryFat, TryLfs, BootOnly, cmdVars
  <2>2. ready' \in BOOLEAN
    <3>1. ready' = ready \/ ready' = (ready \/ TRUE) \/ ready' = (ready \/ FALSE)
      BY <1>1, Zenon DEF TryFat, TryLfs, FatInit, NoCard, LfsInit, InitBackend
    <3>2. QED
      BY <3>1, Zenon DEF BootTyped
  <2>3. boot' \in {"fat", "lfs", "logs", "up", "failed"} /\ backend' \in {"fat", "lfs"}
    BY <1>1 DEF TryFat, TryLfs, FatInit, NoCard, LfsInit, InitBackend, Boot, BootTyped
  <2>4. bad' \subseteq {"card", "flash", "lfs", "mkdir"} /\ mounts' \subseteq {"SD", "lfs"}
    BY <1>1 DEF TryFat, TryLfs, FatInit, NoCard, LfsInit, BootTyped
  <2>5. QED
    BY <2>1, <2>2, <2>3, <2>4 DEF BootTyped
<1>2. CASE BootLogs
  <2>1. UNCHANGED <<backend, ready, mounts, steady, cut, blind, target>>
    BY <1>2, Zenon DEF BootLogs, cmdVars
  <2>2. boot' \in {"up", "failed"} /\ bad' \subseteq {"card", "flash", "lfs", "mkdir"}
    BY <1>2 DEF BootLogs, MakeLogs, Boot, BootTyped
  <2>3. QED
    BY <2>1, <2>2 DEF BootTyped
<1>3. CASE StartSession \/ MarkJumped \/ StopSession
  <2>1. UNCHANGED <<boot, bad, backend, ready, mounts, cut, target>>
    BY <1>3, Zenon DEF StartSession, MarkJumped, StopSession, bootVars, cmdVars
  <2>2. steady' \in {steady, FALSE} /\ blind' \in {blind, FALSE}
    BY <1>3 DEF StartSession, MarkJumped, StopSession, Disturb
  <2>3. QED
    BY <2>1, <2>2 DEF BootTyped
<1>4. CASE AskPage \/ ListDates \/ ListSessions \/ ListReply
  <2>1. UNCHANGED <<boot, bad, backend, ready, mounts, cut, target, blind>>
    BY <1>4, Zenon DEF AskPage, ListDates, ListSessions, ListReply, bootVars
  <2>2. steady' \in {steady, TRUE}
    BY <1>4 DEF AskPage, ListDates, ListSessions, ListReply
  <2>3. QED
    BY <2>1, <2>2 DEF BootTyped
<1>5. CASE AskDelete
  BY <1>5 DEF AskDelete, bootVars, BootTyped
<1>6. CASE CheckState \/ CheckInfo
  <2>1. UNCHANGED <<boot, bad, backend, ready, mounts, cut, steady>>
    BY <1>6, Zenon DEF CheckState, CheckInfo, Looked, bootVars
  <2>2. target' \in {target, <<>>}
    BY <1>6 DEF CheckState, CheckInfo, Looked
  <2>3. blind' = (blind \/ (phase = "JUMPED" /\ session = target))
    BY <1>6, Zenon DEF CheckState, CheckInfo, Look
  <2>4. blind' \in BOOLEAN
    BY <2>3, Zenon
  <2>5. QED
    BY <2>1, <2>2, <2>4 DEF BootTyped
<1>7. CASE DeleteFiles \/ DeleteDir
  <2>1. UNCHANGED <<boot, bad, backend, ready, mounts, blind>> /\ steady' = FALSE
    BY <1>7, Zenon DEF DeleteFiles, DeleteDir, bootVars, Disturb
  <2>2. target' \in {target, <<>>} /\ cut' \in {cut, TRUE, FALSE}
    BY <1>7 DEF DeleteFiles, DeleteDir
  <2>3. QED
    BY <2>1, <2>2 DEF BootTyped
<1>8. CASE UNCHANGED storageVars
  BY <1>8 DEF storageVars, bootVars, cmdVars, BootTyped
<1>9. QED
  BY <1>1, <1>2, <1>3, <1>4, <1>5, <1>6, <1>7, <1>8 DEF StorageNext

-----------------------------------------------------------------------------
(* The steps of a listing *)

\* The names that a directory read gives, sorted: at most all.
LEMMA NamesSorted ==
  ASSUME NEW N, N \subseteq Nat, IsFiniteSet(N), NEW S \in SUBSET N, NEW max \in Nat,
         NEW descending \in BOOLEAN
  PROVE  LET s == SortNames(CollectNames(S, max), descending) IN
         s \in Seq(N) /\ Len(s) \in Nat /\ Len(s) <= Cardinality(N)
<1>1. S \subseteq Nat /\ IsFiniteSet(S)
  BY FS_Subset
<1>2. CollectNames(S, max) \subseteq S /\ IsFiniteSet(CollectNames(S, max))
  BY <1>1, CollectIs
<1>3. PICK c : c = CollectNames(S, max)
  OBVIOUS
<1>4. c \in SUBSET N /\ c \subseteq Nat /\ IsFiniteSet(c)
  BY <1>2, <1>3
<1>5. Cardinality(c) <= Cardinality(N)
  BY <1>4, FS_Subset
<1>6. PICK s : s = SortNames(c, descending)
  OBVIOUS
<1>7. s \in Seq(c) /\ Len(s) = Cardinality(c) /\ Len(s) \in Nat
  BY <1>4, <1>6, SortIs
<1>8. s \in Seq(N)
  <2>1. \A i \in 1..Len(s) : s[i] \in N
    BY <1>4, <1>7, ElementOfSeq
  <2>2. s \in [1..Len(s) -> N]
    BY <1>7, <2>1, LenProperties
  <2>3. QED
    BY <1>7, <2>2, SeqDef
<1>9. QED
  BY <1>3, <1>5, <1>6, <1>7, <1>8

\* Where a page stands: its first session, those counted and those it has, and
\* how many it skips.
At(first, total, len, skip) ==
  /\ first \in Nat /\ first = list.page * PageSize
  /\ total \in Nat /\ total = list.total
  /\ len \in 0..PageSize /\ len = Len(list.out)
  /\ skip \in Nat /\ skip = IF total < first THEN first - total ELSE 0

\* The names of a page, from those of a date.
PageOf(page, ids, skip, len) ==
  /\ Len(page) = IF Len(ids) <= skip THEN 0
                 ELSE IF Len(ids) - skip <= PageSize - len THEN Len(ids) - skip
                 ELSE PageSize - len
  /\ \A j \in 1..Len(page) : skip + j \in 1..Len(ids) /\ page[j] = ids[skip + j]

\* Of the sessions of a date, a page has those from the skipped on that fit.
LEMMA EmitIs ==
  ASSUME NEW N, NEW ids \in Seq(N), NEW first, NEW total, NEW len, NEW skip,
         At(first, total, len, skip)
  PROVE  Emit(ids) \in Seq(N) /\ PageOf(Emit(ids), ids, skip, len)
<1> USE DEF At, PageOf
<1>15. PICK n \in Nat : n = Len(ids)
  BY LenProperties
<1>0. PageSize \in Nat
  BY StorageAssumption
<1>16. skip \in Nat /\ len \in 0..PageSize
  OBVIOUS
<1>1. PICK m \in Nat : m = IF skip + PageSize - len < n THEN skip + PageSize - len ELSE n
  BY <1>0
<1>2. PICK a \in Nat : a = skip + 1
  OBVIOUS
<1>3. PICK e : e = SubSeq(ids, a, m)
  OBVIOUS
<1>4. Emit(ids) = e
  BY <1>1, <1>2, <1>3, <1>15 DEF Emit
<1>5. m <= n /\ \A i \in a..m : i \in 1..n
  BY <1>1, <1>2
<1>6. \A i \in a..m : ids[i] \in N
  BY <1>5, <1>15, ElementOfSeq
<1>7. a \in Int /\ m \in Int
  OBVIOUS
<1>8. /\ e \in Seq(N)
      /\ Len(e) = IF a <= m THEN m - a + 1 ELSE 0
      /\ \A i \in 1..m - a + 1 : e[i] = ids[a + i - 1]
  BY <1>3, <1>6, <1>7, SubSeqProperties
<1>9. PICK k \in Nat : k = Len(e)
  BY <1>8, LenProperties
<1>10. k = IF a <= m THEN m - a + 1 ELSE 0
  BY <1>8, <1>9
<1>11. ASSUME NEW j \in 1..k
       PROVE  j \in 1..m - a + 1 /\ a + j - 1 = skip + j /\ skip + j \in 1..n
  <2>1. j \in Nat /\ j <= k /\ 1 <= j
    OBVIOUS
  <2>2. a <= m
    BY <1>10, <2>1
  <2>3. m <= n
    BY <1>5
  <2>4. QED
    BY ONLY <1>2, <1>10, <2>1, <2>2, <2>3, a \in Nat, k \in Nat, m \in Nat, n \in Nat, <1>16
<1>12. \A j \in 1..k : e[j] = ids[skip + j]
  <2>1. ASSUME NEW j \in 1..k PROVE e[j] = ids[skip + j]
    <3>1. e[j] = ids[a + j - 1]
      BY <1>8, <1>11
    <3>2. QED
      BY <1>11, <3>1
  <2>2. QED
    BY <2>1
<1>13. k = IF n <= skip THEN 0 ELSE IF n - skip <= PageSize - len THEN n - skip ELSE PageSize - len
  <2>1. len \in Nat /\ len <= PageSize
    BY <1>0
  <2>2. CASE skip + PageSize - len < n
    <3>1. m = skip + PageSize - len
      BY <1>1, <2>2
    <3>2. QED
      BY ONLY <1>0, <1>2, <1>10, <2>1, <2>2, <3>1, <1>16, n \in Nat, a \in Nat, k \in Nat, m \in Nat
  <2>3. CASE ~(skip + PageSize - len < n)
    <3>1. m = n
      BY <1>1, <2>3
    <3>2. QED
      BY ONLY <1>0, <1>2, <1>10, <2>1, <2>3, <3>1, <1>16, n \in Nat, a \in Nat, k \in Nat, m \in Nat
  <2>4. QED
    BY <2>2, <2>3
<1>14. QED
  BY <1>4, <1>8, <1>9, <1>11, <1>12, <1>13, <1>15

\* A date's names put behind the sessions that a page has.
Grown(new, out, date, page) ==
  /\ Len(new) = Len(out) + Len(page)
  /\ \A j \in 1..Len(out) : new[j] = out[j]
  /\ \A j \in 1..Len(page) : new[Len(out) + j] = <<date, page[j]>>

\* The sessions that a page has, with their date, after those it has already.
LEMMA PageGrows ==
  ASSUME NEW date \in Days, NEW page \in Seq(Ids), NEW out \in Seq(Sessions), NEW new,
         new = out \o [j \in 1..Len(page) |-> <<date, page[j]>>]
  PROVE  new \in Seq(Sessions) /\ Grown(new, out, date, page)
<1> USE DEF Grown
<1>13. PICK a \in Nat : a = Len(out)
  BY LenProperties
<1>14. PICK b \in Nat : b = Len(page)
  BY LenProperties
<1>1. PICK p : p = [j \in 1..b |-> <<date, page[j]>>]
  OBVIOUS
<1>2. \A j \in 1..b : page[j] \in Ids
  BY <1>14, ElementOfSeq
<1>3. p \in [1..b -> Sessions]
  BY <1>1, <1>2 DEF Sessions
<1>4. p \in Seq(Sessions) /\ Len(p) = b
  <2>1. p \in Seq(Sessions)
    BY <1>3, SeqDef
  <2>2. DOMAIN p = 1..b
    BY <1>3
  <2>3. QED
    BY <2>1, <2>2, LenProperties
<1>5. /\ out \o p \in Seq(Sessions)
      /\ Len(out \o p) = Len(out) + Len(p)
      /\ \A i \in 1..Len(out) + Len(p) : (out \o p)[i] = IF i <= Len(out) THEN out[i] ELSE p[i - Len(out)]
  BY <1>4, ConcatProperties, Zenon
<1>6. new = out \o p
  BY <1>1, <1>14
<1>7. /\ new \in Seq(Sessions) /\ Len(new) = a + b
      /\ \A i \in 1..a + b : new[i] = IF i <= a THEN out[i] ELSE p[i - a]
  BY <1>4, <1>5, <1>6, <1>13
<1>8. \A j \in 1..a : j \in 1..a + b /\ j <= a
  OBVIOUS
<1>9. \A j \in 1..b : a + j \in 1..a + b /\ ~(a + j <= a) /\ a + j - a = j
  OBVIOUS
<1>10. (\A j \in 1..a : new[j] = out[j]) /\ \A j \in 1..b : new[a + j] = p[j]
  <2>1. ASSUME NEW j \in 1..a PROVE new[j] = out[j]
    BY <1>7, <1>8
  <2>2. ASSUME NEW j \in 1..b PROVE new[a + j] = p[j]
    <3>1. PICK i \in 1..a + b : i = a + j
      BY <1>9
    <3>2. ~(i <= a) /\ i - a = j
      BY <1>9, <3>1
    <3>3. new[i] = IF i <= a THEN out[i] ELSE p[i - a]
      BY <1>7
    <3>4. QED
      BY <3>1, <3>2, <3>3
  <2>3. QED
    BY <2>1, <2>2
<1>11. \A j \in 1..b : p[j] = <<date, page[j]>>
  BY <1>1
<1>12. QED
  BY <1>7, <1>10, <1>11, <1>13, <1>14

\* One date fewer to do leaves room for its sessions.
LEMMA RoomForDate ==
  ASSUME NEW k \in Nat, k # 0, NEW c \in Nat, NEW total \in Nat, NEW n \in Nat, n <= c, NEW room \in Nat,
         total + k * c <= room
  PROVE  total + n + (k - 1) * c <= room
<1>1. (k - 1) * c = k * c - c
  OBVIOUS
<1>2. PICK x \in Nat : x = k * c
  OBVIOUS
<1>3. QED
  BY <1>1, <1>2

\* Only the listing's own steps have it at work.
Listing == {"dates", "sessions"}

LEMMA ListTypedInit == StorageInit => ListTyped
<1> SUFFICES ASSUME StorageInit PROVE ListTyped
  OBVIOUS
<1>1. list = NoList
  BY DEF StorageInit
<1>2. /\ NoList.page = 0 /\ NoList.dates = <<>> /\ NoList.total = 0 /\ NoList.out = <<>>
      /\ NoList \in [page : Nat, dates : Seq(Days), total : Nat, out : Seq(Sessions), truncated : BOOLEAN]
  BY DEF NoList
<1>3. PICK c \in Nat : c = Cardinality(Ids)
  BY StorageAssumption, FS_CardinalityType
<1>4. PICK d \in Nat : d = Cardinality(Days)
  BY StorageAssumption, FS_CardinalityType
<1>5. 0 * c = 0 /\ d * c \in Nat
  OBVIOUS
<1>6. Len(<<>>) = 0 /\ PageSize \in Nat
  BY StorageAssumption
<1>7. QED
  BY <1>1, <1>2, <1>3, <1>4, <1>5, <1>6 DEF ListTyped

\* The counts of a list with no dates to do.
LEMMA ListTypedEmpty ==
  ASSUME NEW page \in Nat, NEW truncated \in BOOLEAN,
         list' = [page |-> page, dates |-> <<>>, total |-> 0, out |-> <<>>, truncated |-> truncated]
  PROVE  ListTyped'
<1>1. /\ list' \in [page : Nat, dates : Seq(Days), total : Nat, out : Seq(Sessions), truncated : BOOLEAN]
      /\ list'.dates = <<>> /\ list'.total = 0 /\ list'.out = <<>>
  OBVIOUS
<1>2. PICK c \in Nat : c = Cardinality(Ids)
  BY StorageAssumption, FS_CardinalityType
<1>3. PICK d \in Nat : d = Cardinality(Days)
  BY StorageAssumption, FS_CardinalityType
<1>4. 0 * c = 0 /\ d * c \in Nat
  OBVIOUS
<1>5. Len(<<>>) = 0 /\ PageSize \in Nat
  BY StorageAssumption
<1>6. QED
  BY <1>1, <1>2, <1>3, <1>4, <1>5 DEF ListTyped

LEMMA ListTypedAsk ==
  ASSUME ListTyped, AskPage
  PROVE  ListTyped'
<1>1. list' = [page |-> list.page, dates |-> <<>>, total |-> 0, out |-> <<>>, truncated |-> FALSE]
  BY DEF AskPage, NoList
<1>2. list.page \in Nat
  BY DEF ListTyped
<1>3. QED
  BY <1>1, <1>2, ListTypedEmpty

LEMMA ListTypedReply ==
  ASSUME ListTyped, ListReply
  PROVE  ListTyped'
<1>1. PICK next : next \in {list.page + 1, 0} /\ list' = [NoList EXCEPT !.page = next, !.truncated = list.truncated]
  BY DEF ListReply
<1>2. list' = [page |-> next, dates |-> <<>>, total |-> 0, out |-> <<>>, truncated |-> list.truncated]
  BY <1>1 DEF NoList
<1>3. next \in Nat /\ list.truncated \in BOOLEAN
  BY <1>1 DEF ListTyped
<1>4. QED
  BY <1>2, <1>3, ListTypedEmpty

\* The dates of the page: no more than there are.
LEMMA ListTypedDates ==
  ASSUME ListTyped, BootStage, TreeInv, BootTyped, CommandsTyped, ListDates
  PROVE  ListTyped'
<1>1. PICK names : names = SubDirs(<<"logs">>)
  OBVIOUS
<1>2. names \in SUBSET Days
  BY <1>1, NamesTyped DEF ListDates, CommandsTyped
<1>3. PICK dates : dates = SortNames(CollectNames(names, ListMaxDates), TRUE)
  OBVIOUS
<1>4. dates \in Seq(Days) /\ Len(dates) \in Nat /\ Len(dates) <= Cardinality(Days)
  BY <1>2, <1>3, StorageAssumption, NamesSorted
<1>5. PICK truncated \in BOOLEAN : list' = [list EXCEPT !.dates = dates, !.truncated = truncated]
  <2>1. list' = [list EXCEPT !.dates = dates, !.truncated = Cardinality(names) > ListMaxDates]
    BY <1>1, <1>3, Zenon DEF ListDates
  <2>2. (Cardinality(names) > ListMaxDates) \in BOOLEAN
    <3>1. Cardinality(names) \in Nat /\ ListMaxDates \in Nat
      BY <1>2, StorageAssumption, FS_Subset, FS_CardinalityType
    <3>2. QED
      BY <3>1
  <2>3. QED
    BY <2>1, <2>2, Zenon
<1>6. PICK c \in Nat : c = Cardinality(Ids)
  BY StorageAssumption, FS_CardinalityType
<1>7. PICK d \in Nat : d = Cardinality(Days)
  BY StorageAssumption, FS_CardinalityType
<1>8. PICK k \in Nat : k = Len(dates)
  BY <1>4
<1>9. k * c <= d * c /\ 0 + k * c = k * c
  BY ONLY <1>4, <1>7, <1>8, c \in Nat, d \in Nat, k \in Nat
<1>10. /\ list' \in [page : Nat, dates : Seq(Days), total : Nat, out : Seq(Sessions), truncated : BOOLEAN]
       /\ list'.dates = dates /\ list'.total = 0 /\ list'.out = list.out
  <2>1. list.total = 0
    BY DEF ListDates, ListTyped
  <2>2. QED
    BY <1>4, <1>5, <2>1 DEF ListTyped
<1>11. Len(list.out) <= PageSize /\ pc' = "sessions"
  BY DEF ListTyped, ListDates
<1>12. QED
  BY <1>6, <1>7, <1>8, <1>9, <1>10, <1>11 DEF ListTyped

\* What a date adds: n sessions to those counted, of which k to the page.
DateListed(date, names, ids, len, skip, n, k) ==
  /\ date \in Days /\ names \in SUBSET Ids /\ ids \in Seq(Ids)
  /\ n = Len(ids) /\ n <= Cardinality(Ids)
  /\ k = IF n <= skip THEN 0 ELSE IF n - skip <= PageSize - len THEN n - skip ELSE PageSize - len
  /\ list'.page = list.page /\ list'.dates = Tail(list.dates) /\ list'.total = list.total + n
  /\ list'.truncated = (list.truncated \/ Cardinality(names) > ListMaxPerDate)
  /\ list'.out \in Seq(Sessions) /\ Len(list'.out) = len + k
  /\ \A j \in 1..len : list'.out[j] = list.out[j]
  /\ \A j \in 1..k : skip + j \in 1..n /\ list'.out[len + j] = <<date, ids[skip + j]>>
  /\ list' \in [page : Nat, dates : Seq(Days), total : Nat, out : Seq(Sessions), truncated : BOOLEAN]

\* What a date adds to the page, in terms of its sorted names.
LEMMA ListSessionsIs ==
  ASSUME ListTyped, BootStage, TreeInv, BootTyped, CommandsTyped, ListSessions,
         NEW date, date = Head(list.dates),
         NEW names, names = SubDirs(<<"logs", date>>),
         NEW ids, ids = SortNames(CollectNames(names, ListMaxPerDate), FALSE),
         NEW first, NEW total, NEW len, NEW skip, At(first, total, len, skip)
  PROVE  \E n, k \in Nat : DateListed(date, names, ids, len, skip, n, k)
<1> USE DEF DateListed
<1>1. list.dates \in Seq(Days) /\ list.dates # <<>> /\ boot = "up"
  BY DEF ListTyped, ListSessions, CommandsTyped
<1>2. date \in Days /\ Tail(list.dates) \in Seq(Days)
  BY <1>1, HeadTailProperties
<1>3. names \in SUBSET Ids
  BY <1>1, <1>2, NamesTyped
<1>4. ids \in Seq(Ids) /\ Len(ids) <= Cardinality(Ids)
  BY <1>3, StorageAssumption, NamesSorted
<1>5. PICK n \in Nat : n = Len(ids)
  BY <1>4, LenProperties
<1>6. PICK page : page = Emit(ids)
  OBVIOUS
<1>7. /\ page \in Seq(Ids)
      /\ Len(page) = IF n <= skip THEN 0 ELSE IF n - skip <= PageSize - len THEN n - skip ELSE PageSize - len
      /\ \A j \in 1..Len(page) : skip + j \in 1..n /\ page[j] = ids[skip + j]
  <2>1. page \in Seq(Ids) /\ PageOf(page, ids, skip, len)
    BY <1>4, <1>6, EmitIs
  <2>2. QED
    BY <1>5, <2>1, Zenon DEF PageOf
<1>8. PICK k \in Nat : k = Len(page)
  BY <1>7, LenProperties
<1>9. PICK new : new = list.out \o [j \in 1..Len(page) |-> <<date, page[j]>>]
  OBVIOUS
<1>10. list.out \in Seq(Sessions) /\ len = Len(list.out)
  BY DEF ListTyped, At
<1>11. /\ new \in Seq(Sessions) /\ Len(new) = len + k
       /\ \A j \in 1..len : new[j] = list.out[j]
       /\ \A j \in 1..k : new[len + j] = <<date, page[j]>>
  <2>1. page \in Seq(Ids)
    BY <1>7
  <2>2. new \in Seq(Sessions) /\ Grown(new, list.out, date, page)
    BY <1>2, <1>9, <1>10, <2>1, PageGrows
  <2>3. QED
    BY <1>8, <1>10, <2>2, Zenon DEF Grown
<1>12. list' = [list EXCEPT !.dates = Tail(@), !.total = @ + n, !.out = new,
                            !.truncated = @ \/ Cardinality(names) > ListMaxPerDate]
  BY <1>5, <1>6, <1>9, Zenon DEF ListSessions
<1>13. (list.truncated \/ Cardinality(names) > ListMaxPerDate) \in BOOLEAN
  BY Zenon
<1>14. list' \in [page : Nat, dates : Seq(Days), total : Nat, out : Seq(Sessions), truncated : BOOLEAN]
  <2>1. list.total + n \in Nat
    <3>1. list.total \in Nat
      BY DEF ListTyped
    <3>2. QED
      BY ONLY <3>1, n \in Nat
  <2>2. list.page \in Nat
    BY DEF ListTyped
  <2>3. list' = [page |-> list.page, dates |-> Tail(list.dates), total |-> list.total + n, out |-> new,
                 truncated |-> (list.truncated \/ Cardinality(names) > ListMaxPerDate)]
    BY <1>12, Zenon DEF ListTyped
  <2>4. QED
    BY <1>2, <1>11, <1>13, <2>1, <2>2, <2>3, Zenon
<1>15. /\ list'.page = list.page /\ list'.dates = Tail(list.dates) /\ list'.total = list.total + n
       /\ list'.truncated = (list.truncated \/ Cardinality(names) > ListMaxPerDate)
       /\ list'.out = new
  BY <1>12, Zenon DEF ListTyped
<1>16. \A j \in 1..k : skip + j \in 1..n /\ list'.out[len + j] = <<date, ids[skip + j]>>
  BY <1>7, <1>8, <1>11, <1>15
<1>17. k = IF n <= skip THEN 0 ELSE IF n - skip <= PageSize - len THEN n - skip ELSE PageSize - len
  BY <1>7, <1>8
<1>18. QED
  BY <1>2, <1>3, <1>4, <1>5, <1>11, <1>14, <1>15, <1>16, <1>17

\* Where a listing's step finds the page.
LEMMA AtExists ==
  ASSUME ListTyped
  PROVE  \E first, total, len, skip : At(first, total, len, skip)
<1>1. list.page \in Nat /\ list.total \in Nat /\ PageSize \in Nat /\ Len(list.out) \in Nat
      /\ Len(list.out) <= PageSize
  BY StorageAssumption, LenProperties DEF ListTyped
<1>2. PICK first \in Nat : first = list.page * PageSize
  <2>1. \A a, b \in Nat : a * b \in Nat
    OBVIOUS
  <2>2. QED
    BY <1>1, <2>1
<1>3. PICK total \in Nat : total = list.total
  BY <1>1
<1>4. PICK skip \in Nat : skip = IF total < first THEN first - total ELSE 0
  <2>1. (IF total < first THEN first - total ELSE 0) \in Nat
    OBVIOUS
  <2>2. QED
    BY <2>1
<1>5. Len(list.out) \in 0..PageSize
  BY <1>1
<1>6. At(first, total, Len(list.out), skip)
  BY <1>2, <1>3, <1>4, <1>5 DEF At
<1>7. QED
  BY <1>6, Zenon

LEMMA ListTypedSessions ==
  ASSUME ListTyped, BootStage, TreeInv, BootTyped, CommandsTyped, ListSessions
  PROVE  ListTyped'
<1>1. PICK first, total, len, skip : At(first, total, len, skip)
  BY AtExists
<1>2. PICK date : date = Head(list.dates)
  OBVIOUS
<1>14. PICK names : names = SubDirs(<<"logs", date>>)
  OBVIOUS
<1>15. PICK ids : ids = SortNames(CollectNames(names, ListMaxPerDate), FALSE)
  OBVIOUS
<1>16. PICK n, k \in Nat : DateListed(date, names, ids, len, skip, n, k)
  BY <1>1, <1>2, <1>14, <1>15, ListSessionsIs
<1>3. /\ n <= Cardinality(Ids)
      /\ k = IF n <= skip THEN 0 ELSE IF n - skip <= PageSize - len THEN n - skip ELSE PageSize - len
      /\ list'.dates = Tail(list.dates) /\ list'.total = list.total + n
      /\ Len(list'.out) = len + k
      /\ list' \in [page : Nat, dates : Seq(Days), total : Nat, out : Seq(Sessions), truncated : BOOLEAN]
  BY <1>16, Zenon DEF DateListed
<1>4. PICK c \in Nat : c = Cardinality(Ids)
  BY StorageAssumption, FS_CardinalityType
<1>5. PICK d \in Nat : d = Cardinality(Days)
  BY StorageAssumption, FS_CardinalityType
<1>6. PICK m \in Nat : m = Len(list.dates) /\ m # 0 /\ Len(Tail(list.dates)) = m - 1
  <2>1. list.dates \in Seq(Days) /\ list.dates # <<>>
    BY DEF ListTyped, ListSessions
  <2>2. QED
    BY <2>1, LenProperties, HeadTailProperties, EmptySeq
<1>7. PICK room \in Nat : room = d * c
  <2>1. \A a, b \in Nat : a * b \in Nat
    OBVIOUS
  <2>2. QED
    BY <2>1
<1>8. total \in Nat /\ total = list.total /\ total + m * c <= room
  BY <1>1, <1>4, <1>5, <1>6, <1>7 DEF ListTyped, At
<1>9. total + n + (m - 1) * c <= room
  BY <1>3, <1>4, <1>6, <1>8, RoomForDate
<1>10. len + k <= PageSize
  <2>1. len \in 0..PageSize /\ skip \in Nat /\ PageSize \in Nat
    BY <1>1, StorageAssumption DEF At
  <2>2. QED
    BY ONLY <1>3, <2>1, n \in Nat, k \in Nat
<1>11. list'.total + Len(list'.dates) * c <= d * c
  BY <1>3, <1>6, <1>7, <1>8, <1>9
<1>12. pc' = "sessions"
  BY DEF ListSessions
<1>13. QED
  BY <1>3, <1>4, <1>5, <1>10, <1>11, <1>12 DEF ListTyped

LEMMA ListTypedStep ==
  ListTyped /\ BootStage /\ TreeInv /\ BootTyped /\ CommandsTyped /\ [StorageNext]_storageVars
    => ListTyped'
<1> SUFFICES ASSUME ListTyped, BootStage, TreeInv, BootTyped, CommandsTyped, [StorageNext]_storageVars
             PROVE  ListTyped'
  OBVIOUS
<1>1. ASSUME UNCHANGED list, pc' = pc \/ {pc, pc'} \subseteq {"idle"} \cup Deleting PROVE ListTyped'
  BY <1>1 DEF ListTyped, Deleting
<1>2. CASE TryFat \/ TryLfs \/ BootLogs \/ StartSession \/ MarkJumped \/ StopSession \/ UNCHANGED storageVars
  <2>1. UNCHANGED <<list, pc>>
    BY <1>2, Zenon DEF TryFat, TryLfs, BootOnly, BootLogs, StartSession, MarkJumped, StopSession,
       storageVars, cmdVars
  <2>2. QED
    BY <1>1, <2>1
<1>3. CASE AskDelete \/ CheckState \/ CheckInfo \/ DeleteFiles \/ DeleteDir
  <2>1. UNCHANGED list /\ {pc, pc'} \subseteq {"idle"} \cup Deleting
    BY <1>3 DEF AskDelete, CheckState, CheckInfo, Looked, DeleteFiles, DeleteDir, Deleting
  <2>2. QED
    BY <1>1, <2>1
<1>4. QED
  BY <1>2, <1>3, ListTypedAsk, ListTypedDates, ListTypedSessions, ListTypedReply, Zenon DEF StorageNext

\* The types of the storage rest on one another: the listing's bounds need the shape of
\* the tree, and that needs what the commands have asked for.
StorageInv == BootStage /\ CommandsTyped /\ BootTyped /\ TreeInv /\ ListTyped

LEMMA StorageInvInit == StorageInit => StorageInv
BY BootStageInit, CommandsTypedInit, BootTypedInit, TreeInit, ListTypedInit DEF StorageInv

LEMMA StorageInvStep == StorageInv /\ [StorageNext]_storageVars => StorageInv'
BY BootStageStep, CommandsTypedStep, BootTypedStep, TreeInvStep, ListTypedStep DEF StorageInv

LEMMA StorageInvTypes == StorageInv => StorageTypeOK
<1> SUFFICES ASSUME StorageInv PROVE StorageTypeOK
  OBVIOUS
<1>1. BootTyped /\ CommandsTyped /\ ListTyped
  BY DEF StorageInv
<1>2. list.total <= Cardinality(Sessions)
  <2>1. PICK c \in Nat : c = Cardinality(Ids)
    BY StorageAssumption, FS_CardinalityType
  <2>2. PICK d \in Nat : d = Cardinality(Days)
    BY StorageAssumption, FS_CardinalityType
  <2>3. PICK m \in Nat : m = Len(list.dates)
    BY <1>1, LenProperties DEF ListTyped
  <2>4. PICK t \in Nat : t = list.total
    BY <1>1 DEF ListTyped
  <2>5. t + m * c <= d * c
    BY <1>1, <2>1, <2>2, <2>3, <2>4 DEF ListTyped
  <2>6. \A a, b \in Nat : a * b \in Nat
    OBVIOUS
  <2>7. PICK x \in Nat : x = m * c
    BY <2>6
  <2>8. PICK y \in Nat : y = d * c
    BY <2>6
  <2>9. Cardinality(Sessions) = d * c
    BY <2>1, <2>2, StorageAssumption, FS_Product DEF Sessions
  <2>10. t <= y
    BY <2>5, <2>7, <2>8
  <2>11. QED
    BY <2>4, <2>8, <2>9, <2>10
<1>3. {ready, steady, cut, blind} \subseteq BOOLEAN
  BY <1>1, Zenon DEF BootTyped
<1>4. pc \in {"idle", "dates", "sessions", "check", "info", "files", "dir"}
  BY <1>1 DEF CommandsTyped, Deleting
<1>5. QED
  BY <1>1, <1>2, <1>3, <1>4 DEF StorageTypeOK, BootTyped, CommandsTyped, ListTyped

\* Types, for any days, sessions, faults and resets: in particular a page never holds
\* more than PageSize sessions (mcumgr_custom.c:268), and a listing never counts
\* more sessions than there can be.
THEOREM StorageTypes == StorageSpec => []StorageTypeOK
BY StorageInvInit, StorageInvStep, StorageInvTypes, PTL DEF StorageSpec

-----------------------------------------------------------------------------
(* The place of a session in a list *)

\* "Newest first", then by session name.
Ahead(s, t) == s[1] > t[1] \/ (s[1] = t[1] /\ s[2] < t[2])

AheadOf(L, s) == {t \in L : Ahead(t, s)}

Rank(L, s) == Cardinality(AheadOf(L, s))

\* The sessions of L whose dates are not in T.
DoneOf(L, T) == {t \in L : t[1] \notin T}

\* n sessions of L, in order, of which the first has the given rank.
Ranked(L, seq, first, n) ==
  /\ seq \in Seq(Sessions) /\ Len(seq) = n
  /\ \A j \in 1..n : seq[j] \in L /\ Rank(L, seq[j]) = first + j - 1

LEMMA SessionNumbers ==
  /\ IsFiniteSet(Sessions)
  /\ \A s \in Sessions : s[1] \in Nat /\ s[2] \in Nat /\ s[1] \in Days /\ s[2] \in Ids
  /\ \A s, t \in Sessions : s[1] = t[1] /\ s[2] = t[2] => s = t
<1>1. IsFiniteSet(Days \X Ids)
  BY StorageAssumption, FS_Product
<1>2. \A s \in Sessions : s[1] \in Nat /\ s[2] \in Nat /\ s[1] \in Days /\ s[2] \in Ids
  BY StorageAssumption DEF Sessions
<1>3. QED
  BY <1>1, <1>2, SessionIsPair DEF Sessions

LEMMA RankIsNat ==
  ASSUME NEW L \in SUBSET Sessions, NEW s
  PROVE  /\ IsFiniteSet(L) /\ IsFiniteSet(AheadOf(L, s)) /\ Rank(L, s) \in Nat
<1>1. IsFiniteSet(L)
  BY SessionNumbers, FS_Subset
<1>2. AheadOf(L, s) \in SUBSET L
  BY DEF AheadOf
<1>3. IsFiniteSet(AheadOf(L, s))
  BY <1>1, <1>2, FS_Subset
<1>4. QED
  BY <1>1, <1>3, FS_CardinalityType DEF Rank

\* The rank tells the order.
LEMMA RankOrders ==
  ASSUME NEW L \in SUBSET Sessions, NEW s \in L, NEW t \in L, Rank(L, s) < Rank(L, t)
  PROVE  Ahead(s, t)
<1> SUFFICES ASSUME ~Ahead(s, t) PROVE FALSE
  OBVIOUS
<1>1. /\ s[1] \in Nat /\ s[2] \in Nat /\ t[1] \in Nat /\ t[2] \in Nat
      /\ s[1] = t[1] /\ s[2] = t[2] => s = t
  BY SessionNumbers
<1>2. s = t \/ Ahead(t, s)
  BY <1>1 DEF Ahead
<1>3. CASE s = t
  BY <1>3, RankIsNat
<1>4. CASE Ahead(t, s)
  <2>1. AheadOf(L, t) \in SUBSET AheadOf(L, s)
    <3>1. ASSUME NEW u \in L, Ahead(u, t) PROVE Ahead(u, s)
      <4>1. u[1] \in Nat /\ u[2] \in Nat
        BY SessionNumbers
      <4>2. QED
        BY <1>1, <1>4, <3>1, <4>1 DEF Ahead
    <3>2. QED
      BY <3>1 DEF AheadOf
  <2>2. Rank(L, t) <= Rank(L, s)
    BY <2>1, RankIsNat, FS_Subset DEF Rank
  <2>3. QED
    BY <2>2, RankIsNat
<1>5. QED
  BY <1>2, <1>3, <1>4

LEMMA RankedOrder ==
  ASSUME NEW L \in SUBSET Sessions, NEW seq, NEW n \in Nat, Ranked(L, seq, 0, n),
         NEW i \in 1..n, NEW j \in 1..n, i < j
  PROVE  Ahead(seq[i], seq[j])
<1>1. seq[i] \in L /\ seq[j] \in L /\ Rank(L, seq[i]) = 0 + i - 1 /\ Rank(L, seq[j]) = 0 + j - 1
  BY DEF Ranked
<1>2. Rank(L, seq[i]) < Rank(L, seq[j])
  BY <1>1
<1>3. QED
  BY <1>1, <1>2, RankOrders

\* As many sessions as there are, all of them different, are all.
LEMMA RankedAll ==
  ASSUME NEW L \in SUBSET Sessions, NEW seq, NEW n \in Nat, Ranked(L, seq, 0, n), n = Cardinality(L)
  PROVE  ToSet(seq) = L
<1>1. seq \in Seq(Sessions) /\ Len(seq) = n /\ \A j \in 1..n : seq[j] \in L
  BY DEF Ranked
<1>2. DOMAIN seq = 1..n /\ seq \in [1..n -> L]
  BY <1>1, LenProperties
<1>3. Distinct(seq, n)
  <2>1. ASSUME NEW i \in 1..n, NEW j \in 1..n, i # j PROVE seq[i] # seq[j]
    <3>1. Rank(L, seq[i]) = 0 + i - 1 /\ Rank(L, seq[j]) = 0 + j - 1
      BY DEF Ranked
    <3>2. 0 + i - 1 # 0 + j - 1
      BY <2>1
    <3>3. QED
      BY <3>1, <3>2
  <2>2. QED
    BY <2>1 DEF Distinct
<1>4. n \in 0..n
  OBVIOUS
<1>5. IsFiniteSet(FirstOf(seq, n)) /\ Cardinality(FirstOf(seq, n)) = n
  BY <1>2, <1>3, <1>4, CountUpTo
<1>6. FirstOf(seq, n) \in SUBSET L
  BY <1>1 DEF FirstOf
<1>7. FirstOf(seq, n) = L
  BY <1>5, <1>6, RankIsNat, FS_Subset
<1>8. ToSet(seq) = FirstOf(seq, n)
  BY <1>2 DEF ToSet, FirstOf
<1>9. QED
  BY <1>7, <1>8

\* The sessions of one more date of L, in order; the dates to do are no newer,
\* those done are.
DateOf(L, T, date, ids, n) ==
  /\ date \in T /\ T \in SUBSET Days /\ ids \in [1..n -> Ids] /\ Ordered(ids, n, FALSE)
  /\ \A i \in 1..n : <<date, ids[i]>> \in L
  /\ \A t \in L : t[1] = date => \E i \in 1..n : ids[i] = t[2]
  /\ \A t \in L : t[1] \notin T => t[1] > date
  /\ \A e \in T : e <= date

\* They follow those done, in their order.
DateCounted(L, T, date, ids, n) ==
  /\ Cardinality(DoneOf(L, T)) \in Nat
  /\ Cardinality(DoneOf(L, T \ {date})) = Cardinality(DoneOf(L, T)) + n
  /\ \A j \in 1..n : Rank(L, <<date, ids[j]>>) = Cardinality(DoneOf(L, T)) + j - 1

LEMMA DateCounts ==
  ASSUME NEW L \in SUBSET Sessions, NEW T, NEW date, NEW n \in Nat, NEW ids, DateOf(L, T, date, ids, n)
  PROVE  DateCounted(L, T, date, ids, n)
<1> USE DEF DateOf, DateCounted
<1>1. PICK pairs : pairs = [i \in 1..n |-> <<date, ids[i]>>]
  OBVIOUS
<1>2. pairs \in [1..n -> L] /\ \A i \in 1..n : pairs[i] = <<date, ids[i]>>
  BY <1>1
<1>3. date \in Nat /\ T \subseteq Nat /\ \A i \in 1..n : ids[i] \in Nat /\ ids[i] \in Ids
  BY StorageAssumption
<1>4. Distinct(pairs, n)
  <2>1. ASSUME NEW i \in 1..n, NEW j \in 1..n, i # j PROVE pairs[i] # pairs[j]
    <3>1. ids[i] # ids[j]
      <4>1. i < j \/ j < i
        BY <2>1
      <4>2. QED
        BY <1>3, <4>1 DEF Ordered
    <3>2. QED
      BY <1>2, <3>1
  <2>2. QED
    BY <2>1 DEF Distinct
<1>5. IsFiniteSet(DoneOf(L, T)) /\ Cardinality(DoneOf(L, T)) \in Nat
  <2>1. DoneOf(L, T) \in SUBSET L
    BY DEF DoneOf
  <2>2. IsFiniteSet(DoneOf(L, T))
    BY <2>1, RankIsNat, FS_Subset
  <2>3. QED
    BY <2>2, FS_CardinalityType
<1>6. ASSUME NEW k \in 0..n
      PROVE  Cardinality(DoneOf(L, T) \cup FirstOf(pairs, k)) = Cardinality(DoneOf(L, T)) + k
  <2>1. IsFiniteSet(FirstOf(pairs, k)) /\ Cardinality(FirstOf(pairs, k)) = k
    BY <1>2, <1>4, CountUpTo
  <2>2. 1..k \subseteq 1..n
    OBVIOUS
  <2>3. DoneOf(L, T) \cap FirstOf(pairs, k) = {}
    <3>1. \A s \in FirstOf(pairs, k) : s[1] = date
      BY <1>2, <2>2 DEF FirstOf
    <3>2. QED
      BY <3>1 DEF DoneOf
  <2>4. PICK X, F : X = DoneOf(L, T) /\ F = FirstOf(pairs, k)
    BY Zenon
  <2>5. Cardinality(X \cup F) = Cardinality(X) + Cardinality(F) - Cardinality(X \cap F)
    BY <1>5, <2>1, <2>4, FS_Union
  <2>6. Cardinality(X \cap F) = 0
    BY <2>3, <2>4, FS_EmptySet
  <2>7. PICK x \in Nat : x = Cardinality(X)
    BY <1>5, <2>4
  <2>8. k \in Nat
    OBVIOUS
  <2>9. Cardinality(X \cup F) = x + k
    BY <2>1, <2>4, <2>5, <2>6, <2>7, <2>8
  <2>10. QED
    BY <2>4, <2>7, <2>9
<1>7. DoneOf(L, T \ {date}) = DoneOf(L, T) \cup FirstOf(pairs, n)
  <2>1. ASSUME NEW t \in L, t[1] \notin T \ {date} PROVE t \in DoneOf(L, T) \cup FirstOf(pairs, n)
    <3>1. CASE t[1] \notin T
      BY <3>1 DEF DoneOf
    <3>2. CASE t[1] = date
      <4>1. PICK i \in 1..n : ids[i] = t[2]
        BY <3>2
      <4>2. t = pairs[i]
        BY <1>2, <3>2, <4>1, SessionNumbers DEF Sessions
      <4>3. QED
        BY <4>2 DEF FirstOf
    <3>3. QED
      BY <2>1, <3>1, <3>2
  <2>2. ASSUME NEW i \in 1..n PROVE pairs[i] \in DoneOf(L, T \ {date})
    BY <1>2 DEF DoneOf
  <2>3. QED
    BY <2>1, <2>2 DEF DoneOf, FirstOf
<1>8. ASSUME NEW j \in 1..n
      PROVE  AheadOf(L, <<date, ids[j]>>) = DoneOf(L, T) \cup FirstOf(pairs, j - 1)
  <2>1. ASSUME NEW t \in L, Ahead(t, <<date, ids[j]>>)
        PROVE  t \in DoneOf(L, T) \cup FirstOf(pairs, j - 1)
    <3>1. t[1] \in Nat /\ t[2] \in Nat
      BY SessionNumbers
    <3>2. CASE t[1] > date
      <4>1. t[1] \notin T
        BY <1>3, <3>1, <3>2
      <4>2. QED
        BY <4>1 DEF DoneOf
    <3>3. CASE t[1] = date /\ t[2] < ids[j]
      <4>1. PICK i \in 1..n : ids[i] = t[2]
        BY <3>3
      <4>2. ~(j < i) /\ i # j
        BY <1>3, <3>1, <3>3, <4>1 DEF Ordered
      <4>3. i \in 1..j - 1
        BY <4>2
      <4>4. t = pairs[i]
        BY <1>2, <3>3, <4>1, SessionNumbers DEF Sessions
      <4>5. QED
        BY <4>3, <4>4 DEF FirstOf
    <3>4. QED
      BY <2>1, <3>2, <3>3 DEF Ahead
  <2>2. ASSUME NEW t \in DoneOf(L, T) PROVE t \in L /\ Ahead(t, <<date, ids[j]>>)
    BY DEF DoneOf, Ahead
  <2>3. ASSUME NEW i \in 1..j - 1 PROVE pairs[i] \in L /\ Ahead(pairs[i], <<date, ids[j]>>)
    <3>1. i \in 1..n /\ i < j
      OBVIOUS
    <3>2. ids[i] < ids[j]
      BY <3>1 DEF Ordered
    <3>3. QED
      BY <1>2, <3>1, <3>2 DEF Ahead
  <2>4. QED
    BY <2>1, <2>2, <2>3 DEF AheadOf, FirstOf
<1>9. ASSUME NEW j \in 1..n PROVE Rank(L, <<date, ids[j]>>) = Cardinality(DoneOf(L, T)) + j - 1
  <2>1. j - 1 \in 0..n
    OBVIOUS
  <2>2. Rank(L, <<date, ids[j]>>) = Cardinality(DoneOf(L, T)) + (j - 1)
    BY <1>6, <1>8, <2>1 DEF Rank
  <2>3. QED
    BY <1>5, <2>2
<1>10. n \in 0..n
  OBVIOUS
<1>11. QED
  BY <1>5, <1>6, <1>7, <1>9, <1>10

-----------------------------------------------------------------------------
(* The pages *)

\* How many sessions a page has when so many are counted.
Held(total, first) ==
  IF total <= first THEN 0 ELSE IF total - first <= PageSize THEN total - first ELSE PageSize

\* A page that n more sessions are counted for takes k of them.
Takes(first, total, len, skip, n, k) ==
  /\ first \in Nat /\ total \in Nat /\ n \in Nat
  /\ skip = IF total < first THEN first - total ELSE 0
  /\ len = Held(total, first)
  /\ k = IF n <= skip THEN 0 ELSE IF n - skip <= PageSize - len THEN n - skip ELSE PageSize - len

\* Those it takes come behind those it has.
LEMMA HeldGrows ==
  ASSUME NEW first, NEW total, NEW len, NEW skip, NEW n, NEW k, Takes(first, total, len, skip, n, k)
  PROVE  /\ len \in Nat /\ k \in Nat /\ skip \in Nat
         /\ len + k = Held(total + n, first)
         /\ k # 0 => total + skip = first + len
<1> USE DEF Takes, Held
<1>5. PICK P \in Nat : P = PageSize
  BY StorageAssumption
<1>1. CASE total < first
  BY <1>1, <1>5
<1>2. CASE total >= first /\ total - first <= P
  BY <1>2, <1>5
<1>3. CASE total >= first /\ ~(total - first <= P)
  <2>1. skip = 0 /\ len = P
    BY <1>3, <1>5
  <2>2. k = 0
    BY <1>5, <2>1
  <2>3. total + n - first > P /\ ~(total + n <= first)
    BY <1>3, <1>5
  <2>4. QED
    BY <1>5, <2>1, <2>2, <2>3
<1>4. QED
  BY <1>1, <1>2, <1>3, <1>5

\* "total_pages", rounded up: a page is left when there are more sessions than
\* the pages so far have.
LEMMA PagesLeft ==
  ASSUME NEW P \in Nat \ {0}, NEW total \in Nat, NEW page \in Nat
  PROVE  page + 1 < (total + P - 1) \div P <=> (page + 1) * P < total
OBVIOUS

-----------------------------------------------------------------------------
(* The listing of a card on which no session comes or goes *)

ListedDays == CollectNames(DayNames, ListMaxDates)
ListedIds(d) == CollectNames(IdNames(d), ListMaxPerDate)

\* The sessions that the limits leave.
Listed == {s \in Sessions : s[1] \in ListedDays /\ s[2] \in ListedIds(s[1])}

\* No limit is met, as far as the dates ds.
Whole(ds) ==
  /\ ~(Cardinality(DayNames) > ListMaxDates)
  /\ \A d \in ds : ~(Cardinality(IdNames(d)) > ListMaxPerDate)

ElementsOf(dates) == {dates[i] : i \in 1..Len(dates)}

ToDo == ElementsOf(list.dates)

\* What the page in the making has come to: the newest dates are done, newest
\* first, the sessions of these are counted, and those of the page are in it.
PageMade ==
  /\ ToDo \subseteq ListedDays
  /\ \A d \in ListedDays \ ToDo, e \in ToDo : d > e
  /\ Ordered(list.dates, Len(list.dates), TRUE)
  /\ list.total = Cardinality(DoneOf(Listed, ToDo))
  /\ Ranked(Listed, list.out, list.page * PageSize, Held(list.total, list.page * PageSize))
  /\ list.truncated \/ Whole(ListedDays \ ToDo)

\* What the phone has: the pages before this one, which is not the last of them.
PagesBefore ==
  /\ Ranked(Listed, received, 0, list.page * PageSize)
  /\ list.page # 0 => list.page * PageSize < Cardinality(Listed)

\* Or, when it has asked for all, all of them.
PagesAll ==
  /\ Ranked(Listed, received, 0, Cardinality(Listed))
  /\ list.truncated \/ Whole(ListedDays)

ListingInv ==
  /\ steady => boot = "up"
  /\ steady /\ backend = "fat" =>
       /\ pc = "sessions" => PageMade
       /\ pc \in Listing \/ list.page # 0 => PagesBefore
       /\ pc \notin Listing /\ list.page = 0 => PagesAll

\* The tree's names depend on the tree and the backend only.
LEMMA NamesStay ==
  ASSUME UNCHANGED <<backend, dirs>>
  PROVE  /\ ListedDays' = ListedDays /\ Listed' = Listed
         /\ DayNames' = DayNames /\ \A d : IdNames(d)' = IdNames(d)
         /\ \A ds : Whole(ds)' = Whole(ds)
<1>1. (\A d : DayDir(d)' = DayDir(d)) /\ \A d, i : IdDir(d, i)' = IdDir(d, i)
  BY TreeStays
<1>2. DayNames' = DayNames /\ \A d : IdNames(d)' = IdNames(d)
  BY <1>1 DEF DayNames, IdNames
<1>3. ListedDays' = ListedDays /\ \A d : ListedIds(d)' = ListedIds(d)
  BY <1>2, Zenon DEF ListedDays, ListedIds
<1>4. Listed' = Listed
  BY <1>3 DEF Listed
<1>5. \A ds : Whole(ds)' = Whole(ds)
  BY <1>2, Zenon DEF Whole
<1>6. QED
  BY <1>2, <1>3, <1>4, <1>5

LEMMA ListedTypes ==
  /\ DayNames \in SUBSET Days /\ DayNames \subseteq Nat /\ IsFiniteSet(DayNames)
  /\ ListedDays \in SUBSET DayNames /\ IsFiniteSet(ListedDays)
  /\ ListedDays \subseteq Nat /\ ListedDays \subseteq Days
  /\ \A d : /\ IdNames(d) \in SUBSET Ids /\ IdNames(d) \subseteq Nat /\ IsFiniteSet(IdNames(d))
            /\ ListedIds(d) \in SUBSET IdNames(d) /\ IsFiniteSet(ListedIds(d))
            /\ ListedIds(d) \subseteq Nat /\ ListedIds(d) \subseteq Ids
  /\ Listed \in SUBSET Sessions /\ Cardinality(Listed) \in Nat
<1>1. DayNames \in SUBSET Days /\ DayNames \subseteq Nat /\ IsFiniteSet(DayNames)
  BY StorageAssumption, FS_Subset DEF DayNames
<1>2. ListMaxDates \in Nat /\ ListMaxPerDate \in Nat
  BY StorageAssumption
<1>3. ListedDays \in SUBSET DayNames /\ IsFiniteSet(ListedDays)
  BY <1>1, <1>2, CollectIs DEF ListedDays
<1>4. ASSUME NEW d
      PROVE  /\ IdNames(d) \in SUBSET Ids /\ IdNames(d) \subseteq Nat /\ IsFiniteSet(IdNames(d))
             /\ ListedIds(d) \in SUBSET IdNames(d) /\ IsFiniteSet(ListedIds(d))
             /\ ListedIds(d) \subseteq Nat /\ ListedIds(d) \subseteq Ids
  <2>1. IdNames(d) \in SUBSET Ids /\ IdNames(d) \subseteq Nat /\ IsFiniteSet(IdNames(d))
    BY StorageAssumption, FS_Subset DEF IdNames
  <2>2. ListedIds(d) \in SUBSET IdNames(d) /\ IsFiniteSet(ListedIds(d))
    BY <1>2, <2>1, CollectIs DEF ListedIds
  <2>3. QED
    BY <2>1, <2>2
<1>5. Listed \in SUBSET Sessions
  BY DEF Listed
<1>6. Cardinality(Listed) \in Nat
  BY <1>5, RankIsNat, FS_CardinalityType
<1>7. QED
  BY <1>1, <1>3, <1>4, <1>5, <1>6

\* A walk over all pages has every session that there is, unless a limit was met.
LEMMA WalkExact ==
  ASSUME StorageInv, ListingInv
  PROVE  ListingExact
<1> SUFFICES ASSUME pc = "idle", list.page = 0, steady, backend = "fat"
             PROVE  /\ \A i, j \in 1..Len(received) : i < j => Ahead(received[i], received[j])
                    /\ \/ ToSet(received) = {s \in Sessions : Exist(s)}
                       \/ list.truncated /\ ToSet(received) \subseteq {s \in Sessions : Exist(s)}
  BY Zenon DEF ListingExact, Ahead
<1>1. PICK n \in Nat : n = Cardinality(Listed)
  BY ListedTypes
<1>2. PICK L \in SUBSET Sessions : L = Listed
  BY ListedTypes
<1>3. Ranked(L, received, 0, n) /\ (list.truncated \/ Whole(ListedDays))
  BY <1>1, <1>2 DEF ListingInv, Listing, PagesAll
<1>4. Len(received) = n
  BY <1>3 DEF Ranked
<1>5. \A i, j \in 1..n : i < j => Ahead(received[i], received[j])
  BY <1>3, RankedOrder
<1>6. ToSet(received) = L
  BY <1>1, <1>2, <1>3, RankedAll
<1>7. \A s \in Sessions : Exist(s) <=> IdDir(s[1], s[2]) \in dirs
  BY TreePaths, Zenon DEF Exist
<1>8. L \subseteq {s \in Sessions : Exist(s)}
  <2>1. \A s \in L : s \in Sessions /\ s[2] \in IdNames(s[1])
    BY <1>2, ListedTypes DEF Listed
  <2>2. QED
    BY <1>7, <2>1 DEF IdNames
<1>9. ASSUME Whole(ListedDays), NEW s \in Sessions, Exist(s) PROVE s \in L
  <2>1. s[1] \in Days /\ s[2] \in Ids /\ IdDir(s[1], s[2]) \in dirs
    BY <1>7, <1>9, SessionNumbers
  <2>2. s[1] \in DayNames /\ s[2] \in IdNames(s[1])
    BY <2>1 DEF StorageInv, TreeInv, DayNames, IdNames
  <2>3. Cardinality(DayNames) \in Nat /\ Cardinality(IdNames(s[1])) \in Nat
        /\ ListMaxDates \in Nat /\ ListMaxPerDate \in Nat
    BY ListedTypes, StorageAssumption, FS_CardinalityType
  <2>4. ListedDays = DayNames
    BY <1>9, <2>3 DEF Whole, ListedDays, CollectNames
  <2>5. ListedIds(s[1]) = IdNames(s[1])
    BY <1>9, <2>2, <2>3, <2>4 DEF Whole, ListedIds, CollectNames
  <2>6. QED
    BY <1>2, <2>2, <2>4, <2>5 DEF Listed
<1>10. QED
  BY <1>3, <1>4, <1>5, <1>6, <1>8, <1>9

LEMMA ListingInit == StorageInit => ListingInv
BY DEF StorageInit, ListingInv

LEMMA ListingSame ==
  ASSUME ListingInv, UNCHANGED <<boot, backend, dirs, list, received, steady>>,
         pc' = pc \/ (pc \notin Listing /\ pc' \notin Listing)
  PROVE  ListingInv'
<1>1. ListedDays' = ListedDays /\ Listed' = Listed /\ \A ds : Whole(ds)' = Whole(ds)
  BY NamesStay
<1>2. ToDo' = ToDo
  BY DEF ToDo
<1>3. PagesBefore' <=> PagesBefore
  BY <1>1, Zenon DEF PagesBefore
<1>4. PagesAll' <=> PagesAll
  BY <1>1, Zenon DEF PagesAll
<1>5. PageMade' <=> PageMade
  BY <1>1, <1>2, Zenon DEF PageMade
<1>6. CASE pc' = pc
  BY <1>3, <1>4, <1>5, <1>6 DEF ListingInv
<1>7. CASE pc \notin Listing /\ pc' \notin Listing
  <2>1. pc' # "sessions"
    BY <1>7 DEF Listing
  <2>2. QED
    BY <1>3, <1>4, <1>7, <2>1 DEF ListingInv
<1>8. QED
  BY <1>6, <1>7

\* A walk begins with nothing received, or goes on.
LEMMA ListingAsk ==
  ASSUME StorageInv, ListingInv, AskPage
  PROVE  ListingInv'
<1>1. /\ UNCHANGED <<boot, backend, dirs>> /\ boot = "up" /\ pc = "idle" /\ pc' = "dates"
      /\ list'.page = list.page
  BY DEF AskPage, bootVars, treeVars, NoList
<1>2. Listed' = Listed
  BY <1>1, NamesStay
<1>3. list.page \in Nat /\ PageSize \in Nat
  BY StorageAssumption DEF StorageInv, ListTyped
<1>4. CASE list.page = 0
  <2>1. received' = <<>>
    BY <1>4 DEF AskPage
  <2>2. 0 * PageSize = 0
    BY <1>3
  <2>3. Ranked(Listed, <<>>, 0, 0)
    BY DEF Ranked
  <2>4. PagesBefore'
    BY <1>1, <1>2, <1>4, <2>1, <2>2, <2>3 DEF PagesBefore
  <2>5. QED
    BY <1>1, <2>4 DEF ListingInv, Listing
<1>5. CASE list.page # 0
  <2>1. UNCHANGED <<steady, received>>
    BY <1>5 DEF AskPage
  <2>2. steady /\ backend = "fat" => PagesBefore
    BY <1>5 DEF ListingInv
  <2>3. PagesBefore => PagesBefore'
    BY <1>1, <1>2, <2>1, Zenon DEF PagesBefore
  <2>4. QED
    BY <1>1, <2>1, <2>2, <2>3 DEF ListingInv, Listing
<1>6. QED
  BY <1>4, <1>5

\* The dates are read: all of them are to do.
LEMMA ListingDates ==
  ASSUME StorageInv, ListingInv, ListDates
  PROVE  ListingInv'
<1>1. UNCHANGED <<boot, backend, dirs, received, steady>> /\ pc = "dates" /\ pc' = "sessions"
  BY DEF ListDates, bootVars, treeVars
<1>2. ListedDays' = ListedDays /\ Listed' = Listed /\ \A ds : Whole(ds)' = Whole(ds)
  BY <1>1, NamesStay
<1>3. boot = "up" /\ list.page \in Nat /\ list.total = 0 /\ list.out = <<>> /\ PageSize \in Nat
  BY <1>1, StorageAssumption DEF StorageInv, ListTyped, CommandsTyped
<1>4. SUFFICES ASSUME steady, backend = "fat" PROVE PageMade' /\ PagesBefore'
  BY <1>1, <1>3 DEF ListingInv, Listing
<1>5. PICK names : names = SubDirs(<<"logs">>)
  OBVIOUS
<1>6. names = DayNames
  <2>1. "SD" \in mounts
    BY <1>3, <1>4 DEF StorageInv, BootStage
  <2>2. QED
    BY <1>3, <1>4, <1>5, <2>1, DirNames DEF StorageInv
<1>7. PICK dates : dates = SortNames(ListedDays, TRUE)
  OBVIOUS
<1>8. list' = [list EXCEPT !.dates = dates, !.truncated = Cardinality(names) > ListMaxDates]
  BY <1>5, <1>6, <1>7, Zenon DEF ListDates, ListedDays
<1>9. /\ list'.page = list.page /\ list'.dates = dates /\ list'.total = 0 /\ list'.out = <<>>
      /\ list'.truncated = (Cardinality(names) > ListMaxDates)
  BY <1>3, <1>8, Zenon DEF StorageInv, ListTyped
<1>10. PICK D : D = ListedDays
  OBVIOUS
<1>11. D \subseteq Nat /\ IsFiniteSet(D)
  BY <1>10, ListedTypes
<1>12. /\ dates \in Seq(D) /\ Ordered(dates, Len(dates), TRUE) /\ Len(dates) \in Nat
       /\ \A x \in D : \E i \in 1..Len(dates) : dates[i] = x
  BY <1>7, <1>10, <1>11, SortIs
<1>13. ToDo' = D
  <2>1. \A i \in 1..Len(dates) : dates[i] \in D
    BY <1>12, ElementOfSeq
  <2>2. ToDo' = {dates[i] : i \in 1..Len(dates)}
    BY <1>9 DEF ToDo, ElementsOf
  <2>3. QED
    BY <1>12, <2>1, <2>2
<1>14. DoneOf(Listed, D) = {}
  BY <1>10 DEF DoneOf, Listed
<1>15. Cardinality(DoneOf(Listed, D)) = 0
  BY <1>14, FS_EmptySet
<1>16. PICK first \in Nat : first = list.page * PageSize
  <2>1. \A a, b \in Nat : a * b \in Nat
    OBVIOUS
  <2>2. QED
    BY <1>3, <2>1
<1>17. Held(0, first) = 0
  BY DEF Held
<1>18. Ranked(Listed, <<>>, first, 0)
  BY DEF Ranked
<1>19. list'.truncated \/ Whole({})
  BY <1>6, <1>9 DEF Whole
<1>20. PageMade'
  <2>1. ToDo' \subseteq ListedDays' /\ ListedDays' \ ToDo' = {}
    BY <1>2, <1>10, <1>13
  <2>2. Ordered(list'.dates, Len(list'.dates), TRUE)
    BY <1>9, <1>12
  <2>3. list'.total = Cardinality(DoneOf(Listed', ToDo'))
    BY <1>2, <1>9, <1>13, <1>15
  <2>4. Ranked(Listed', list'.out, list'.page * PageSize, Held(list'.total, list'.page * PageSize))
    BY <1>2, <1>9, <1>16, <1>17, <1>18
  <2>5. list'.truncated \/ Whole(ListedDays \ ToDo)'
    BY <1>1, <1>19, <2>1, NamesStay DEF Whole
  <2>6. QED
    BY <2>1, <2>2, <2>3, <2>4, <2>5 DEF PageMade
<1>21. PagesBefore'
  <2>1. PagesBefore
    BY <1>1, <1>4 DEF ListingInv, Listing
  <2>2. QED
    BY <1>1, <1>2, <1>9, <2>1, Zenon DEF PagesBefore
<1>22. QED
  BY <1>20, <1>21

\* The first of the dates T to do is the newest.
DatesLeft(T, date, rest) ==
  /\ date \in T /\ T \subseteq Days
  /\ \A e \in T : e <= date
  /\ ElementsOf(rest) = T \ {date}
  /\ Ordered(rest, Len(rest), TRUE)

LEMMA ToDoNext ==
  ASSUME NEW dates \in Seq(Days), dates # <<>>, Ordered(dates, Len(dates), TRUE)
  PROVE  DatesLeft(ElementsOf(dates), Head(dates), Tail(dates))
<1> USE DEF DatesLeft, ElementsOf, Ordered
<1>16. PICK T, date, rest : T = ElementsOf(dates) /\ date = Head(dates) /\ rest = Tail(dates)
  BY Zenon
<1>1. PICK m \in Nat : m = Len(dates) /\ m # 0
  BY LenProperties, EmptySeq
<1>2. date = dates[1]
  BY <1>1, <1>16
<1>4. T = {dates[i] : i \in 1..m}
  BY <1>1, <1>16
<1>5. \A i \in 1..m : dates[i] \in Days /\ dates[i] \in Nat
  BY <1>1, StorageAssumption, ElementOfSeq
<1>6. rest \in Seq(Days) /\ Len(rest) = m - 1 /\ \A i \in 1..m - 1 : rest[i] = dates[i + 1]
  BY <1>1, <1>16, HeadTailProperties
<1>7. \A i, j \in 1..m : i < j => dates[i] > dates[j]
  BY <1>1
<1>8. 1 \in 1..m /\ \A i \in 1..m - 1 : i + 1 \in 1..m /\ 1 < i + 1
  BY <1>1
<1>9. \A i \in 1..m : i = 1 \/ (i - 1 \in 1..m - 1 /\ i - 1 + 1 = i /\ 1 < i)
  BY <1>1
<1>10. date \in T /\ T \subseteq Days
  BY <1>2, <1>4, <1>5, <1>8
<1>11. \A i \in 1..m : i # 1 => date > dates[i]
  BY <1>2, <1>7, <1>8, <1>9
<1>12. \A e \in T : e <= date
  <2>1. ASSUME NEW i \in 1..m PROVE dates[i] <= date
    <3>1. CASE i = 1
      BY <1>2, <1>5, <3>1
    <3>2. CASE i # 1
      <4>1. date > dates[i]
        BY <1>11, <3>2
      <4>2. date \in Nat /\ dates[i] \in Nat
        BY <1>2, <1>5, <1>8
      <4>3. QED
        BY <4>1, <4>2
    <3>3. QED
      BY <3>1, <3>2
  <2>2. QED
    BY <1>4, <2>1
<1>13. {rest[i] : i \in 1..m - 1} = T \ {date}
  <2>1. ASSUME NEW i \in 1..m - 1 PROVE rest[i] \in T \ {date}
    <3>1. rest[i] = dates[i + 1] /\ i + 1 \in 1..m /\ i + 1 # 1
      BY <1>6, <1>8
    <3>2. date > dates[i + 1]
      BY <1>11, <3>1
    <3>3. date \in Nat
      BY <1>2, <1>5, <1>8
    <3>4. dates[i + 1] # date
      BY <3>2, <3>3
    <3>5. QED
      BY <1>4, <3>1, <3>4
  <2>2. ASSUME NEW e \in T, e # date PROVE \E i \in 1..m - 1 : rest[i] = e
    <3>1. PICK i \in 1..m : e = dates[i]
      BY <1>4
    <3>2. i - 1 \in 1..m - 1 /\ i - 1 + 1 = i
      BY <1>2, <1>9, <2>2, <3>1
    <3>3. rest[i - 1] = dates[i]
      BY <1>6, <3>2
    <3>4. QED
      BY <3>1, <3>2, <3>3
  <2>3. QED
    BY <2>1, <2>2
<1>14. \A i, j \in 1..m - 1 : i < j => rest[i] > rest[j]
  <2>1. ASSUME NEW i \in 1..m - 1, NEW j \in 1..m - 1, i < j PROVE rest[i] > rest[j]
    <3>1. i + 1 \in 1..m /\ j + 1 \in 1..m /\ i + 1 < j + 1
      BY <1>8, <2>1
    <3>2. dates[i + 1] > dates[j + 1]
      BY <1>7, <3>1
    <3>3. QED
      BY <1>6, <3>2
  <2>2. QED
    BY <2>1
<1>15. QED
  <2>1. 1..Len(rest) = 1..m - 1
    BY <1>6
  <2>2. QED
    BY <1>10, <1>12, <1>13, <1>14, <1>16, <2>1

\* The place of the sessions that a date adds to the page.
\* k sessions of a date, after those skipped, put behind len that are there.
Put(new, out, len, k, skip, n, date, ids) ==
  /\ len \in Nat /\ k \in Nat /\ skip \in Nat /\ n \in Nat
  /\ new \in Seq(Sessions) /\ Len(new) = len + k
  /\ \A j \in 1..len : new[j] = out[j]
  /\ \A j \in 1..k : skip + j \in 1..n /\ new[len + j] = <<date, ids[skip + j]>>

\* The names of a date, with their rank in L.
RankedDate(L, date, ids, n, total) ==
  \A j \in 1..n : <<date, ids[j]>> \in L /\ Rank(L, <<date, ids[j]>>) = total + j - 1

LEMMA RankedGrows ==
  ASSUME NEW L, NEW out, NEW new, NEW first \in Nat, NEW total \in Nat,
         NEW n, NEW len, NEW k, NEW skip, NEW date, NEW ids,
         Ranked(L, out, first, len), Put(new, out, len, k, skip, n, date, ids),
         RankedDate(L, date, ids, n, total), k # 0 => total + skip = first + len
  PROVE  Ranked(L, new, first, len + k)
<1> USE DEF Put, RankedDate
<1>1. ASSUME NEW j \in 1..len PROVE new[j] \in L /\ Rank(L, new[j]) = first + j - 1
  BY DEF Ranked
<1>2. ASSUME NEW i \in 1..k PROVE new[len + i] \in L /\ Rank(L, new[len + i]) = first + (len + i) - 1
  <2>1. PICK j \in 1..n : j = skip + i
    OBVIOUS
  <2>2. new[len + i] = <<date, ids[j]>>
    BY <2>1
  <2>3. Rank(L, <<date, ids[j]>>) = total + j - 1 /\ <<date, ids[j]>> \in L
    OBVIOUS
  <2>4. total + j - 1 = first + (len + i) - 1
    <3>1. total + skip = first + len
      OBVIOUS
    <3>2. QED
      BY <2>1, <3>1
  <2>5. QED
    BY <2>2, <2>3, <2>4
<1>3. ASSUME NEW j \in 1..len + k PROVE new[j] \in L /\ Rank(L, new[j]) = first + j - 1
  <2>1. CASE j <= len
    <3>1. j \in 1..len
      BY <2>1
    <3>2. QED
      BY <1>1, <3>1
  <2>2. CASE ~(j <= len)
    <3>1. PICK i \in 1..k : j = len + i
      <4>1. j - len \in 1..k /\ j = len + (j - len)
        BY <2>2
      <4>2. QED
        BY <4>1
    <3>2. QED
      BY <1>2, <3>1
  <2>3. QED
    BY <2>1, <2>2
<1>4. QED
  BY <1>3 DEF Ranked

\* A page behind those before it.
LEMMA RankedJoin ==
  ASSUME NEW L, NEW seq, NEW out, NEW first \in Nat, NEW len \in Nat,
         Ranked(L, seq, 0, first), Ranked(L, out, first, len)
  PROVE  Ranked(L, seq \o out, 0, first + len)
<1>1. seq \in Seq(Sessions) /\ Len(seq) = first /\ out \in Seq(Sessions) /\ Len(out) = len
  BY DEF Ranked
<1>2. PICK new : new = seq \o out
  OBVIOUS
<1>3. /\ new \in Seq(Sessions) /\ Len(new) = first + len
      /\ \A i \in 1..first + len : new[i] = IF i <= first THEN seq[i] ELSE out[i - first]
  BY <1>1, <1>2, ConcatProperties
<1>4. ASSUME NEW i \in 1..first + len PROVE new[i] \in L /\ Rank(L, new[i]) = 0 + i - 1
  <2>1. CASE i <= first
    <3>1. i \in 1..first /\ new[i] = seq[i]
      BY <1>3, <2>1
    <3>2. QED
      BY <3>1 DEF Ranked
  <2>2. CASE ~(i <= first)
    <3>1. PICK j \in 1..len : j = i - first
      <4>1. i - first \in 1..len
        BY <2>2
      <4>2. QED
        BY <4>1
    <3>2. new[i] = out[j]
      BY <1>3, <2>2, <3>1
    <3>3. out[j] \in L /\ Rank(L, out[j]) = first + j - 1
      BY DEF Ranked
    <3>4. first + j - 1 = 0 + i - 1
      BY <3>1
    <3>5. QED
      BY <3>2, <3>3, <3>4
  <2>3. QED
    BY <2>1, <2>2
<1>5. QED
  BY <1>2, <1>3, <1>4 DEF Ranked

\* The names that the limits leave of a date, in order.
NamesOf(d, ids, n) ==
  /\ ids \in [1..n -> Ids] /\ Ordered(ids, n, FALSE)
  /\ \A i \in 1..n : ids[i] \in ListedIds(d)
  /\ \A x \in ListedIds(d) : \E i \in 1..n : ids[i] = x

LEMMA DateNames ==
  ASSUME NEW d \in Days, NEW ids, ids = SortNames(ListedIds(d), FALSE), NEW n \in Nat, n = Len(ids)
  PROVE  NamesOf(d, ids, n)
<1> USE DEF NamesOf
<1>1. PICK S : S = ListedIds(d)
  OBVIOUS
<1>2. S \subseteq Nat /\ IsFiniteSet(S) /\ S \subseteq Ids
  BY <1>1, ListedTypes
<1>3. /\ ids \in Seq(S) /\ Ordered(ids, n, FALSE)
      /\ \A x \in S : \E i \in 1..n : ids[i] = x
  BY <1>1, <1>2, SortIs
<1>4. \A i \in 1..n : ids[i] \in S
  BY <1>3, ElementOfSeq
<1>5. ids \in [1..n -> Ids]
  <2>1. DOMAIN ids = 1..n /\ ids = [i \in DOMAIN ids |-> ids[i]]
    BY <1>3, LenProperties
  <2>2. QED
    BY <1>2, <1>4, <2>1
<1>6. QED
  BY <1>1, <1>3, <1>4, <1>5

\* A date is counted, and its sessions put in the page as far as they are of it.
LEMMA ListingSessions ==
  ASSUME StorageInv, ListingInv, ListSessions
  PROVE  ListingInv'
<1>1. UNCHANGED <<boot, backend, dirs, received, steady>> /\ pc = "sessions" /\ pc' = "sessions"
  BY DEF ListSessions, bootVars, treeVars
<1>2. /\ ListedDays' = ListedDays /\ Listed' = Listed
      /\ DayNames' = DayNames /\ \A d : IdNames(d)' = IdNames(d)
  BY <1>1, NamesStay
<1>3. boot = "up"
  BY <1>1 DEF StorageInv, CommandsTyped
<1>4. SUFFICES ASSUME steady, backend = "fat" PROVE PageMade' /\ PagesBefore'
  BY <1>1, <1>3 DEF ListingInv, Listing
<1>5. PageMade /\ PagesBefore
  BY <1>1, <1>4 DEF ListingInv, Listing
<1>6. PICK first, total, len, skip : At(first, total, len, skip)
  BY AtExists DEF StorageInv
<1>7. PICK date : date = Head(list.dates)
  OBVIOUS
<1>8. PICK names : names = SubDirs(<<"logs", date>>)
  OBVIOUS
<1>9. PICK ids : ids = SortNames(CollectNames(names, ListMaxPerDate), FALSE)
  OBVIOUS
<1>10. PICK n, k \in Nat : DateListed(date, names, ids, len, skip, n, k)
  BY <1>6, <1>7, <1>8, <1>9, ListSessionsIs DEF StorageInv
<1>11. /\ date \in Days /\ n = Len(ids)
       /\ k = IF n <= skip THEN 0 ELSE IF n - skip <= PageSize - len THEN n - skip ELSE PageSize - len
       /\ list'.page = list.page /\ list'.dates = Tail(list.dates) /\ list'.total = list.total + n
       /\ list'.truncated = (list.truncated \/ Cardinality(names) > ListMaxPerDate)
       /\ list'.out \in Seq(Sessions) /\ Len(list'.out) = len + k
       /\ \A j \in 1..len : list'.out[j] = list.out[j]
       /\ \A j \in 1..k : skip + j \in 1..n /\ list'.out[len + j] = <<date, ids[skip + j]>>
  BY <1>10, Zenon DEF DateListed
<1>12. names = IdNames(date)
  <2>1. "SD" \in mounts
    BY <1>3, <1>4 DEF StorageInv, BootStage
  <2>2. QED
    BY <1>3, <1>4, <1>8, <1>11, <2>1, DirNames DEF StorageInv
<1>13. /\ ids \in [1..n -> Ids] /\ Ordered(ids, n, FALSE)
       /\ \A i \in 1..n : ids[i] \in ListedIds(date)
       /\ \A x \in ListedIds(date) : \E i \in 1..n : ids[i] = x
  <2>1. ids = SortNames(ListedIds(date), FALSE)
    BY <1>9, <1>12 DEF ListedIds
  <2>2. NamesOf(date, ids, n)
    BY <1>11, <2>1, DateNames
  <2>3. QED
    BY <2>2 DEF NamesOf
<1>14. PICK T : T = ToDo
  OBVIOUS
<1>15. PICK L \in SUBSET Sessions : L = Listed
  BY ListedTypes
<1>16. list.dates \in Seq(Days) /\ list.dates # <<>>
  BY DEF ListSessions, StorageInv, ListTyped
<1>17. DatesLeft(T, date, Tail(list.dates))
  <2>1. Ordered(list.dates, Len(list.dates), TRUE)
    BY <1>5 DEF PageMade
  <2>2. QED
    BY <1>7, <1>14, <1>16, <2>1, ToDoNext DEF ToDo
<1>18. ToDo' = T \ {date}
  BY <1>11, <1>17 DEF ToDo, DatesLeft
<1>19. date \in ListedDays /\ T \subseteq ListedDays
  BY <1>5, <1>14, <1>17 DEF PageMade, DatesLeft
<1>20. /\ Cardinality(DoneOf(L, T)) \in Nat
       /\ Cardinality(DoneOf(L, T \ {date})) = Cardinality(DoneOf(L, T)) + n
       /\ \A j \in 1..n : Rank(L, <<date, ids[j]>>) = Cardinality(DoneOf(L, T)) + j - 1
  <2>1. \A i \in 1..n : <<date, ids[i]>> \in L
    BY <1>11, <1>13, <1>15, <1>19 DEF Listed, Sessions
  <2>2. \A t \in L : t[1] = date => \E i \in 1..n : ids[i] = t[2]
    BY <1>13, <1>15 DEF Listed
  <2>3. \A t \in L : t[1] \notin T => t[1] > date
    BY <1>5, <1>14, <1>15, <1>17 DEF Listed, PageMade, DatesLeft
  <2>4. T \in SUBSET Days /\ date \in T /\ \A e \in T : e <= date
    BY <1>17 DEF DatesLeft
  <2>5. DateOf(L, T, date, ids, n)
    BY <1>13, <2>1, <2>2, <2>3, <2>4 DEF DateOf
  <2>6. DateCounted(L, T, date, ids, n)
    BY <2>5, DateCounts
  <2>7. QED
    BY <2>6 DEF DateCounted
<1>21. total = Cardinality(DoneOf(L, T)) /\ total \in Nat /\ total = list.total
       /\ first \in Nat /\ first = list.page * PageSize
       /\ skip = IF total < first THEN first - total ELSE 0
  BY <1>5, <1>6, <1>14, <1>15 DEF PageMade, At
<1>22. len = Held(total, first) /\ Ranked(L, list.out, first, len)
  <2>1. Ranked(L, list.out, first, Held(total, first))
    BY <1>5, <1>15, <1>21 DEF PageMade
  <2>2. len = Len(list.out)
    BY <1>6 DEF At
  <2>3. QED
    BY <2>1, <2>2 DEF Ranked
<1>23. /\ len \in Nat /\ skip \in Nat
       /\ len + k = Held(total + n, first)
       /\ k # 0 => total + skip = first + len
  <2>1. Takes(first, total, len, skip, n, k)
    BY <1>11, <1>21, <1>22 DEF Takes
  <2>2. QED
    BY <2>1, HeldGrows
<1>24. Ranked(L, list'.out, first, len + k)
  <2>1. RankedDate(L, date, ids, n, total)
    BY <1>11, <1>13, <1>15, <1>19, <1>20, <1>21 DEF Listed, Sessions, RankedDate
  <2>2. Put(list'.out, list.out, len, k, skip, n, date, ids)
    BY <1>11, <1>23 DEF Put
  <2>3. QED
    BY <1>21, <1>22, <1>23, <2>1, <2>2, RankedGrows
<1>25. PageMade'
  <2>1. ToDo' \subseteq ListedDays'
    BY <1>2, <1>18, <1>19
  <2>2. \A d \in ListedDays' \ ToDo', e \in ToDo' : d > e
    <3>1. ASSUME NEW d \in ListedDays, NEW e \in T, e # date, d \notin T \/ d = date PROVE d > e
      <4>1. CASE d \notin T
        BY <1>5, <1>14, <3>1, <4>1 DEF PageMade
      <4>2. CASE d = date
        <5>1. e <= date /\ e \in Nat /\ date \in Nat
          BY <1>17, StorageAssumption DEF DatesLeft
        <5>2. QED
          BY <3>1, <4>2, <5>1
      <4>3. QED
        BY <3>1, <4>1, <4>2
    <3>2. QED
      BY <1>2, <1>18, <3>1
  <2>3. Ordered(list'.dates, Len(list'.dates), TRUE)
    BY <1>11, <1>17 DEF DatesLeft
  <2>4. list'.total = Cardinality(DoneOf(Listed', ToDo'))
    BY <1>2, <1>11, <1>15, <1>18, <1>20, <1>21
  <2>5. Ranked(Listed', list'.out, list'.page * PageSize, Held(list'.total, list'.page * PageSize))
    BY <1>2, <1>11, <1>15, <1>21, <1>23, <1>24
  <2>6. list'.truncated \/ Whole(ListedDays \ ToDo)'
    <3>1. ASSUME ~list'.truncated PROVE Whole(ListedDays \ (T \ {date}))
      <4>1. Whole(ListedDays \ T)
        BY <1>5, <1>11, <1>14, <3>1 DEF PageMade
      <4>2. ~(Cardinality(IdNames(date)) > ListMaxPerDate)
        BY <1>11, <1>12, <3>1
      <4>3. QED
        BY <4>1, <4>2 DEF Whole
    <3>2. QED
      BY <1>2, <1>18, <3>1 DEF Whole
  <2>7. QED
    BY <2>1, <2>2, <2>3, <2>4, <2>5, <2>6 DEF PageMade
<1>26. PagesBefore'
  BY <1>1, <1>2, <1>5, <1>11, Zenon DEF PagesBefore
<1>27. QED
  BY <1>25, <1>26

\* The page is what the phone has next; after the last it has all.
LEMMA ListingReply ==
  ASSUME StorageInv, ListingInv, ListReply
  PROVE  ListingInv'
<1>1. UNCHANGED <<boot, backend, dirs, steady>> /\ pc = "sessions" /\ pc' = "idle" /\ list.dates = <<>>
  BY DEF ListReply, bootVars, treeVars
<1>2. /\ ListedDays' = ListedDays /\ Listed' = Listed
      /\ DayNames' = DayNames /\ \A d : IdNames(d)' = IdNames(d)
  BY <1>1, NamesStay
<1>3. boot = "up"
  BY <1>1 DEF StorageInv, CommandsTyped
<1>4. SUFFICES ASSUME steady, backend = "fat"
               PROVE  /\ list'.page # 0 => PagesBefore'
                      /\ list'.page = 0 => PagesAll'
  BY <1>1, <1>3 DEF ListingInv, Listing
<1>5. PageMade /\ PagesBefore
  BY <1>1, <1>4 DEF ListingInv, Listing
<1>6. PICK L \in SUBSET Sessions : L = Listed
  BY ListedTypes
<1>7. ToDo = {}
  BY <1>1 DEF ToDo, ElementsOf
<1>8. PICK total \in Nat : total = list.total /\ total = Cardinality(L)
  <2>1. DoneOf(L, {}) = L
    BY DEF DoneOf
  <2>2. list.total = Cardinality(L)
    BY <1>5, <1>6, <1>7, <2>1 DEF PageMade
  <2>3. list.total \in Nat
    BY DEF StorageInv, ListTyped
  <2>4. QED
    BY <2>2, <2>3
<1>9. PICK page \in Nat : page = list.page
  BY DEF StorageInv, ListTyped
<1>10. PICK P \in Nat \ {0} : P = PageSize
  BY StorageAssumption
<1>11. PICK first \in Nat : first = page * P
  <2>1. \A a, b \in Nat : a * b \in Nat
    OBVIOUS
  <2>2. QED
    BY <2>1
<1>12. PICK len \in Nat : len = Held(total, first)
  <2>1. Held(total, first) \in Nat
    BY <1>10 DEF Held
  <2>2. QED
    BY <2>1
<1>13. Ranked(L, received, 0, first) /\ (page # 0 => first < total)
  BY <1>5, <1>6, <1>8, <1>9, <1>10, <1>11 DEF PagesBefore
<1>14. Ranked(L, list.out, first, len)
  BY <1>5, <1>6, <1>8, <1>9, <1>10, <1>11, <1>12 DEF PageMade
<1>15. received' = received \o list.out
  BY <1>4 DEF ListReply
<1>16. Ranked(L, received', 0, first + len)
  BY <1>13, <1>14, <1>15, RankedJoin
<1>17. PICK next : next = IF page + 1 < (total + P - 1) \div P THEN page + 1 ELSE 0
  OBVIOUS
<1>18. list'.page = next /\ list'.truncated = list.truncated
  BY <1>8, <1>9, <1>10, <1>17 DEF ListReply, NoList
<1>19. page + 1 < (total + P - 1) \div P <=> (page + 1) * P < total
  BY PagesLeft
<1>20. (page + 1) * P = first + P /\ 0 * P = 0
  BY <1>11
<1>21. ASSUME next # 0 PROVE PagesBefore'
  <2>1. next = page + 1 /\ next * P = first + P /\ first + P < total
    BY <1>17, <1>19, <1>20, <1>21
  <2>2. len = P
    <3>1. ~(total <= first) /\ ~(total - first <= P)
      BY <2>1
    <3>2. QED
      BY <1>10, <1>12, <3>1 DEF Held
  <2>3. Ranked(L, received', 0, next * P) /\ next * P < total
    BY <1>16, <2>1, <2>2
  <2>4. QED
    BY <1>2, <1>6, <1>8, <1>10, <1>18, <2>3 DEF PagesBefore
<1>22. ASSUME next = 0 PROVE PagesAll'
  <2>1. total <= first + P
    BY <1>17, <1>19, <1>20, <1>22
  <2>2. page = 0 => first = 0
    BY <1>11, <1>20
  <2>3. first <= total
    BY <1>13, <2>2
  <2>4. first + len = total
    <3>1. len = IF total <= first THEN 0 ELSE IF total - first <= P THEN total - first ELSE P
      BY <1>10, <1>12 DEF Held
    <3>2. QED
      BY ONLY <2>1, <2>3, <3>1, P \in Nat \ {0}, first \in Nat, total \in Nat, len \in Nat
  <2>5. Ranked(L, received', 0, total)
    BY <1>16, <2>4
  <2>6. ListedDays \ ToDo = ListedDays
    BY <1>7
  <2>7. list'.truncated \/ Whole(ListedDays)
    BY <1>5, <1>18, <2>6 DEF PageMade
  <2>8. list'.truncated \/ Whole(ListedDays)'
    BY <1>2, <2>7 DEF Whole
  <2>9. QED
    BY <1>2, <1>6, <1>8, <2>5, <2>8 DEF PagesAll
<1>23. QED
  BY <1>18, <1>21, <1>22

LEMMA ListingStep == StorageInv /\ ListingInv /\ [StorageNext]_storageVars => ListingInv'
<1> SUFFICES ASSUME StorageInv, ListingInv, [StorageNext]_storageVars PROVE ListingInv'
  OBVIOUS
<1>1. CASE TryFat \/ TryLfs \/ BootLogs
  <2>1. boot # "up"
    BY <1>1 DEF TryFat, TryLfs, BootLogs, FatInit, NoCard, LfsInit, MakeLogs, Boot
  <2>2. steady' = steady
    BY <1>1, Zenon DEF TryFat, TryLfs, BootLogs, BootOnly
  <2>3. ~steady'
    BY <2>1, <2>2, Zenon DEF ListingInv
  <2>4. QED
    BY <2>3, Zenon DEF ListingInv
<1>2. CASE StartSession \/ DeleteFiles \/ DeleteDir
  <2>1. steady' = FALSE
    BY <1>2, Zenon DEF StartSession, DeleteFiles, DeleteDir, Disturb
  <2>2. QED
    BY <2>1, Zenon DEF ListingInv
<1>3. CASE MarkJumped \/ StopSession \/ UNCHANGED storageVars
  <2>1. UNCHANGED <<boot, backend, dirs, list, received, steady, pc>>
    BY <1>3, Zenon DEF MarkJumped, StopSession, storageVars, bootVars, treeVars, cmdVars
  <2>2. QED
    BY <2>1, ListingSame
<1>4. CASE AskDelete \/ CheckState \/ CheckInfo
  <2>1. UNCHANGED <<boot, backend, dirs, list, received, steady>>
    BY <1>4, Zenon DEF AskDelete, CheckState, CheckInfo, Looked, bootVars, treeVars
  <2>2. pc \notin Listing /\ pc' \notin Listing
    BY <1>4 DEF AskDelete, CheckState, CheckInfo, Looked, Listing
  <2>3. QED
    BY <2>1, <2>2, ListingSame
<1>5. QED
  BY <1>1, <1>2, <1>3, <1>4, ListingAsk, ListingDates, ListingSessions, ListingReply, Zenon
     DEF StorageNext

\* For any days, sessions, limits and size of a page: a walk of the pages of a card on
\* which no session comes or goes gives every session exactly once, newest day first,
\* unless the answer says that it is truncated, and then only sessions that are there, in
\* that order (mcumgr_custom.c:136-338).  Each request lists the card anew and skips what
\* the earlier pages held; the pages fit together because every request meets the
\* sessions in the same places.
THEOREM WalkListsAll == StorageSpec => []ListingExact
BY StorageInvInit, StorageInvStep, ListingInit, ListingStep, WalkExact, PTL DEF StorageSpec

-----------------------------------------------------------------------------
(* The settings store *)

Domains == DOMAIN nvm = Keys /\ DOMAIN ram = Keys /\ watched \in Keys

\* What was promised is in flash; it is in RAM from where the boot has put it
\* there, which for the calibration is mag_init().
InFlash == promised # Absent => nvm[watched] = promised
InRam ==
  promised # Absent /\ watched # "cal" /\ stage # "start" => ram[watched] = promised
CalInRam ==
  promised # Absent /\ watched = "cal" /\ magOn /\ (stage = "mag" \/ (stage = "up" /\ ~factory))
    => ram[watched] = promised

\* The service is not up before mag_init().
MagLater == stage \in {"start", "loaded"} => magOn = FALSE

IInv == Domains /\ MagLater /\ InFlash /\ InRam /\ CalInRam

LEMMA InitIInv == SettingsInit => IInv
<1> SUFFICES ASSUME SettingsInit PROVE IInv
  OBVIOUS
<1>1. watched \in Keys
  BY SettingsAssumption DEF SettingsInit, Keys
<1>2. QED
  BY <1>1 DEF SettingsInit, IInv, Domains, MagLater, InFlash, InRam, CalInRam, Built

LEMMA StepDomains == Domains /\ [SettingsNext]_settingsVars => Domains'
<1> SUFFICES ASSUME Domains, [SettingsNext]_settingsVars PROVE Domains'
  OBVIOUS
<1>1. watched' = watched
  BY DEF SettingsNext, InitSettings, InitMag, UseMode, Reset, SettingsSet, ModeSet, CalSet,
     Begins, SetRam, Save, settingsVars
<1>2. DOMAIN nvm' = Keys
  BY DEF Domains, SettingsNext, InitSettings, MakeUuid, InitMag, UseMode, Reset, SettingsSet,
     ModeSet, CalSet, Begins, SetRam, Save, settingsVars
<1>3. CASE InitSettings
  <2>1. \A lost : DOMAIN Loaded(lost) = Keys
    BY DEF Loaded
  <2>2. DOMAIN ram' = Keys
    BY <1>3, <2>1 DEF Domains, InitSettings, MakeUuid
  <2>3. QED
    BY <1>1, <1>2, <2>2 DEF Domains
<1>4. CASE ~InitSettings
  <2>1. DOMAIN ram' = Keys
    BY <1>4 DEF Domains, SettingsNext, InitMag, UseMode, Reset, Built, SettingsSet,
       ModeSet, CalSet, Begins, SetRam, Save, settingsVars
  <2>2. QED
    BY <1>1, <1>2, <2>1 DEF Domains
<1>5. QED
  BY <1>3, <1>4

LEMMA StepMagLater == MagLater /\ [SettingsNext]_settingsVars => MagLater'
  BY DEF MagLater, SettingsNext, InitSettings, InitMag, UseMode, Reset, SettingsSet, ModeSet,
     CalSet, Begins, SetRam, Save, settingsVars

\* The boot loads what is in flash; what it cannot read is no longer promised.
LEMMA InitSettingsKeeps == IInv /\ InitSettings => (InFlash /\ InRam /\ CalInRam)'
<1> SUFFICES ASSUME Domains, InFlash, InitSettings PROVE (InFlash /\ InRam /\ CalInRam)'
  BY DEF IInv
<1>1. watched' = watched /\ stage' = "loaded"
  BY DEF InitSettings
<1>2. CASE promised' = Absent
  BY <1>2 DEF InFlash, InRam, CalInRam
<1>3. CASE \E lost : MakeUuid(Loaded(lost), lost)
  <2>1. PICK lost : MakeUuid(Loaded(lost), lost)
    BY <1>3
  <2> DEFINE now == Loaded(lost)
  <2>2. promised # Absent /\ watched \notin lost => now[watched] = promised
    BY DEF Loaded, Domains, InFlash
  <2>3. DOMAIN now = Keys
    BY DEF Loaded
  <2> HIDE DEF now
  <2>4. CASE ram' = now /\ Forget(lost) /\ UNCHANGED nvm
    BY <1>1, <2>2, <2>4 DEF Forget, InFlash, InRam, CalInRam
  <2>5. CASE \E id \in Values :
          /\ ram' = [now EXCEPT !["device_uuid"] = id]
          /\ nvm' = [nvm EXCEPT !["device_uuid"] = id]
          /\ IF watched = "device_uuid" THEN promised' = id ELSE Forget(lost)
    BY <1>1, <2>2, <2>3, <2>5 DEF Forget, InFlash, InRam, CalInRam, Domains
  <2>6. CASE \E id \in Values :
          /\ ram' = [now EXCEPT !["device_uuid"] = id]
          /\ Forget(lost \cup {"device_uuid"}) /\ UNCHANGED nvm
    BY <1>1, <2>2, <2>3, <2>6 DEF Forget, InFlash, InRam, CalInRam, Domains
  <2>7. QED
    BY <2>1, <2>4, <2>5, <2>6 DEF MakeUuid, now
<1>4. QED
  BY <1>2, <1>3 DEF InitSettings, Forget, Domains

LEMMA InitMagKeeps == IInv /\ InitMag => (InFlash /\ InRam /\ CalInRam)'
<1> SUFFICES ASSUME IInv, InitMag PROVE (InFlash /\ InRam /\ CalInRam)'
  OBVIOUS
<1> USE DEF IInv, Domains, MagLater, InFlash, InRam, CalInRam
<1>1. UNCHANGED <<nvm, watched>> /\ stage = "loaded" /\ stage' = "mag"
  BY DEF InitMag
<1>2. CASE \E ok \in BOOLEAN :
        /\ ram' = [ram EXCEPT !["cal"] = IF ok /\ nvm["cal"] # Absent THEN nvm["cal"] ELSE 0]
        /\ Forget(IF ok THEN {} ELSE {"cal"})
  <2>1. PICK ok \in BOOLEAN :
          /\ ram' = [ram EXCEPT !["cal"] = IF ok /\ nvm["cal"] # Absent THEN nvm["cal"] ELSE 0]
          /\ Forget(IF ok THEN {} ELSE {"cal"})
    BY <1>2
  <2>2. CASE ok = TRUE
    BY <1>1, <2>1, <2>2 DEF Forget
  <2>3. CASE ok = FALSE
    BY <1>1, <2>1, <2>3 DEF Forget
  <2>4. QED
    BY <2>2, <2>3
<1>3. CASE UNCHANGED <<magOn, ram, promised>>
  BY <1>1, <1>3
<1>4. QED
  BY <1>2, <1>3 DEF InitMag

LEMMA UseModeKeeps == IInv /\ UseMode => (InFlash /\ InRam /\ CalInRam)'
<1> SUFFICES ASSUME IInv, UseMode PROVE (InFlash /\ InRam /\ CalInRam)'
  OBVIOUS
<1>1. UNCHANGED <<nvm, magOn, watched, promised>> /\ stage = "mag" /\ stage' = "up"
  BY DEF UseMode
<1>2. CASE factory'
  <2>1. ram' = [ram EXCEPT !["cal"] = 0]
    BY <1>2 DEF UseMode
  <2>2. QED
    BY <1>1, <1>2, <2>1 DEF IInv, Domains, InFlash, InRam, CalInRam
<1>3. CASE ~factory'
  <2>1. ram' = ram
    BY <1>3 DEF UseMode
  <2>2. QED
    BY <1>1, <1>3, <2>1 DEF IInv, InFlash, InRam, CalInRam
<1>4. QED
  BY <1>2, <1>3

\* From the change in RAM to the end of the save nothing is promised.
LEMMA SetRamKeeps ==
  ASSUME IInv, NEW u \in Users, SetRam(u)
  PROVE  (InFlash /\ InRam /\ CalInRam)'
<1> DEFINE k == todo[u][1][1]  v == todo[u][1][2]
<1>1. UNCHANGED <<stage, nvm, magOn, factory, watched>>
  BY DEF SetRam
<1>2. \/ ram' = [ram EXCEPT ![k] = v] /\ promised' = IF watched \in {k} THEN Absent ELSE promised
      \/ ram' = ram /\ promised' = promised
  BY DEF SetRam, Forget
<1> HIDE DEF k, v
<1>3. QED
  BY <1>1, <1>2 DEF IInv, Domains, InFlash, InRam, CalInRam

\* It is promised again if what was saved is what is in RAM: the other user
\* may have changed it in between.
LEMMA SaveKeeps ==
  ASSUME IInv, NEW u \in Users, Save(u)
  PROVE  (InFlash /\ InRam /\ CalInRam)'
<1> DEFINE k == todo[u][1][1]  v == Saved(k, todo[u][1][2])
<1>1. UNCHANGED <<stage, ram, magOn, factory, watched>>
  BY DEF Save
<1>2. \/ /\ nvm' = [nvm EXCEPT ![k] = IF v = Empty THEN Absent ELSE v]
         /\ promised' = IF k = watched THEN (IF ram[k] = v /\ v # Empty THEN v ELSE Absent)
                                       ELSE promised
      \/ nvm' = nvm /\ promised' = IF watched \in {k} THEN Absent ELSE promised
  BY DEF Save, Confirm, Forget
<1> HIDE DEF k, v
<1>3. QED
  BY <1>1, <1>2 DEF IInv, Domains, InFlash, InRam, CalInRam

LEMMA StepIInv == IInv /\ [SettingsNext]_settingsVars => IInv'
<1> SUFFICES ASSUME IInv, [SettingsNext]_settingsVars PROVE (InFlash /\ InRam /\ CalInRam)'
  BY StepDomains, StepMagLater DEF IInv
<1>1. CASE InitSettings \/ InitMag \/ UseMode
  BY <1>1, InitSettingsKeeps, InitMagKeeps, UseModeKeeps
<1>2. CASE Reset
  BY <1>2 DEF Reset, IInv, InFlash, InRam, CalInRam
<1>3. CASE \E u \in Users : SetRam(u) \/ Save(u)
  BY <1>3, SetRamKeeps, SaveKeeps
<1>4. CASE UNCHANGED <<stage, nvm, ram, magOn, factory, watched, promised>>
  BY <1>4 DEF IInv, InFlash, InRam, CalInRam
<1>5. QED
  BY <1>1, <1>2, <1>3, <1>4
     DEF SettingsNext, SettingsSet, ModeSet, CalSet, Begins, settingsVars

\* For any settings and calibrations, whatever the two users' commands do to
\* each other and whenever the device is reset, what a user was told is set
\* stays in flash and is in force once the boot has come to it.
THEOREM ConfirmedIsKept == SettingsSpec => []Kept
<1>1. IInv => Kept
  BY DEF IInv, Kept, InForce, InFlash, InRam, CalInRam
<1>2. QED
  BY InitIInv, StepIInv, <1>1, PTL DEF SettingsSpec

-----------------------------------------------------------------------------
(* Types *)

\* What a command can set: a key, and a value that it may have.
Setting == UNION {{k} \X ValueOf(k) : k \in Keys}

FlashTyped == \A k \in Keys : nvm[k] \in (ValueOf(k) \ {Empty}) \cup {Absent}
RamTyped == \A k \in Keys : ram[k] \in ValueOf(k) \cup {0}
StageTyped == stage \in {"start", "loaded", "mag", "up"} /\ {magOn, factory} \subseteq BOOLEAN
WatchTyped ==
  asked \in AskedSets /\ watched \in Keys /\ promised \in ValueOf(watched) \cup {Absent}
\* Of a command only such pairs are left to do, and one of them is being saved.
TodoTyped ==
  /\ todo \in [Users -> Seq(Setting)] /\ saving \in [Users -> BOOLEAN]
  /\ \A u \in Users : saving[u] => todo[u] # <<>>

TypeInv == Domains /\ StageTyped /\ FlashTyped /\ RamTyped /\ WatchTyped /\ TodoTyped

LEMMA InvIsType == TypeInv => SettingsTypeOK
BY DEF TypeInv, StageTyped, FlashTyped, RamTyped, WatchTyped, TodoTyped, SettingsTypeOK

\* The values apart from the empty string are numbers.
LEMMA ValuesAre ==
  /\ \A k \in Keys : Absent \notin ValueOf(k)
  /\ \A k \in Keys \ Texts : Empty \notin ValueOf(k)
  /\ ValueOf("cal") = Values /\ ValueOf("device_uuid") = Values
  /\ {"cal", "device_uuid"} \subseteq Keys /\ 0 \notin Values
<1>1. Values \subseteq Nat \ {0}
  BY SettingsAssumption
<1>2. ASSUME NEW k \in Keys PROVE Absent \notin ValueOf(k) /\ (k \notin Texts => Empty \notin ValueOf(k))
  BY <1>1 DEF ValueOf, Absent, Empty, Texts
<1>3. ValueOf("cal") = Values /\ ValueOf("device_uuid") = Values
  BY DEF ValueOf, Texts
<1>4. QED
  BY <1>1, <1>2, <1>3 DEF Keys

LEMMA InitTypeInv == SettingsInit => TypeInv
<1> SUFFICES ASSUME SettingsInit PROVE TypeInv
  OBVIOUS
<1>1. Domains
  BY InitIInv DEF IInv
<1>2. <<>> \in Seq(Setting)
  OBVIOUS
<1>3. StageTyped /\ FlashTyped /\ RamTyped
  BY DEF SettingsInit, StageTyped, FlashTyped, RamTyped, Built
<1>4. WatchTyped
  BY <1>1 DEF SettingsInit, WatchTyped, Domains
<1>5. TodoTyped
  BY <1>2 DEF SettingsInit, TodoTyped
<1>6. QED
  BY <1>1, <1>3, <1>4, <1>5 DEF TypeInv

\* The next of the settings to be done.
LEMMA NextSetting ==
  ASSUME NEW t \in Seq(Setting), t # <<>>
  PROVE  /\ t[1][1] \in Keys /\ t[1][2] \in ValueOf(t[1][1])
         /\ Tail(t) \in Seq(Setting)
<1>1. t[1] \in Setting /\ Tail(t) \in Seq(Setting)
  OBVIOUS
<1>2. PICK k \in Keys : t[1] \in {k} \X ValueOf(k)
  BY <1>1 DEF Setting
<1>3. QED
  BY <1>1, <1>2

\* All that a settings command applies is a value its key may have.
LEMMA AppliedTyped ==
  ASSUME NEW named, NEW want
  PROVE  Applied(named, want) \in Seq(Setting)
<1> DEFINE Taken(k) == IF k \in named /\ want[k] \in ValueOf(k) THEN << <<k, want[k]>> >> ELSE <<>>
<1>1. ASSUME NEW k \in Keys PROVE Taken(k) \in Seq(Setting)
  <2>1. want[k] \in ValueOf(k) => <<k, want[k]>> \in Setting
    BY DEF Setting
  <2>2. <<>> \in Seq(Setting) /\ (want[k] \in ValueOf(k) => << <<k, want[k]>> >> \in Seq(Setting))
    BY <2>1
  <2>3. QED
    BY <2>2
<1>2. /\ Taken("ble_name") \in Seq(Setting) /\ Taken("pps_enabled") \in Seq(Setting)
      /\ Taken("pcb_variant") \in Seq(Setting) /\ Taken("log_backend") \in Seq(Setting)
      /\ Taken("mag_mode") \in Seq(Setting)
  BY <1>1, Zenon DEF Keys
<1>3. Applied(named, want) = Taken("ble_name") \o Taken("pps_enabled") \o Taken("pcb_variant")
                               \o Taken("log_backend") \o Taken("mag_mode")
  BY Zenon DEF Applied
<1> HIDE DEF Taken
<1>4. \A s, t \in Seq(Setting) : s \o t \in Seq(Setting)
  BY ConcatProperties
<1>5. Taken("ble_name") \o Taken("pps_enabled") \in Seq(Setting)
  BY <1>2, <1>4, Zenon
<1>6. Taken("ble_name") \o Taken("pps_enabled") \o Taken("pcb_variant") \in Seq(Setting)
  BY <1>2, <1>4, <1>5, Zenon
<1>7. Taken("ble_name") \o Taken("pps_enabled") \o Taken("pcb_variant") \o Taken("log_backend")
        \in Seq(Setting)
  BY <1>2, <1>4, <1>6, Zenon
<1>8. QED
  BY <1>2, <1>3, <1>4, <1>7, Zenon

LEMMA TypeInitSettings ==
  ASSUME TypeInv, InitSettings
  PROVE  FlashTyped' /\ RamTyped' /\ WatchTyped'
<1> USE DEF TypeInv, Domains
<1>1. UNCHANGED <<asked, watched>> /\ WatchTyped
  BY DEF InitSettings
<1>2. CASE Forget(Keys) /\ UNCHANGED <<nvm, ram>>
  BY <1>1, <1>2 DEF Forget, FlashTyped, RamTyped, WatchTyped
<1>3. CASE \E lost : MakeUuid(Loaded(lost), lost)
  <2>1. PICK lost : MakeUuid(Loaded(lost), lost)
    BY <1>3
  <2> DEFINE now == Loaded(lost)
  <2>2. DOMAIN now = Keys /\ \A k \in Keys : now[k] \in ValueOf(k) \cup {0}
    BY DEF Loaded, FlashTyped, RamTyped
  <2> HIDE DEF now
  <2>3. ValueOf("device_uuid") = Values /\ "device_uuid" \in Keys
        /\ \A k \in Keys \ Texts : Empty \notin ValueOf(k)
    BY ValuesAre
  <2>4. "device_uuid" \notin Texts
    BY DEF Texts
  <2>5. CASE ram' = now /\ Forget(lost) /\ UNCHANGED nvm
    BY <1>1, <2>2, <2>5 DEF Forget, FlashTyped, RamTyped, WatchTyped
  <2>6. CASE \E id \in Values :
          /\ ram' = [now EXCEPT !["device_uuid"] = id]
          /\ nvm' = [nvm EXCEPT !["device_uuid"] = id]
          /\ IF watched = "device_uuid" THEN promised' = id ELSE Forget(lost)
    <3>1. PICK id \in Values :
          /\ ram' = [now EXCEPT !["device_uuid"] = id]
          /\ nvm' = [nvm EXCEPT !["device_uuid"] = id]
          /\ IF watched = "device_uuid" THEN promised' = id ELSE Forget(lost)
      BY <2>6
    <3>2. RamTyped'
      BY <2>2, <2>3, <3>1 DEF RamTyped
    <3>3. FlashTyped'
      BY <2>3, <2>4, <3>1 DEF FlashTyped
    <3>4. WatchTyped'
      BY <1>1, <2>3, <3>1 DEF WatchTyped, Forget
    <3>5. QED
      BY <3>2, <3>3, <3>4
  <2>7. CASE \E id \in Values :
          /\ ram' = [now EXCEPT !["device_uuid"] = id]
          /\ Forget(lost \cup {"device_uuid"}) /\ UNCHANGED nvm
    <3>1. PICK id \in Values : ram' = [now EXCEPT !["device_uuid"] = id]
      BY <2>7
    <3>2. RamTyped'
      BY <2>2, <2>3, <3>1 DEF RamTyped
    <3>3. QED
      BY <1>1, <2>7, <3>2 DEF Forget, FlashTyped, WatchTyped
  <2>8. QED
    BY <2>1, <2>5, <2>6, <2>7 DEF MakeUuid, now
<1>4. QED
  BY <1>2, <1>3 DEF InitSettings

LEMMA TypeInitMag ==
  ASSUME TypeInv, InitMag
  PROVE  FlashTyped' /\ RamTyped' /\ WatchTyped'
<1> USE DEF TypeInv, Domains
<1>1. UNCHANGED <<nvm, asked, watched>> /\ FlashTyped /\ WatchTyped /\ RamTyped
  BY DEF InitMag
<1>2. promised' \in {promised, Absent}
  BY DEF InitMag, Forget
<1>3. \/ UNCHANGED ram
      \/ \E ok \in BOOLEAN :
           ram' = [ram EXCEPT !["cal"] = IF ok /\ nvm["cal"] # Absent THEN nvm["cal"] ELSE 0]
  BY DEF InitMag
<1>4. nvm["cal"] # Absent => nvm["cal"] \in ValueOf("cal")
  BY ValuesAre DEF FlashTyped
<1>5. RamTyped'
  BY <1>3, <1>4 DEF RamTyped
<1>6. QED
  BY <1>1, <1>2, <1>5 DEF FlashTyped, WatchTyped

\* A user goes on with a command, its next setting being saved or not, or gives
\* it up.
LEMMA TodoStep ==
  ASSUME TodoTyped, NEW u \in Users, NEW t \in Seq(Setting), NEW b \in BOOLEAN,
         todo' = [todo EXCEPT ![u] = t], saving' = [saving EXCEPT ![u] = b], b => t # <<>>
  PROVE  TodoTyped'
<1>1. todo' \in [Users -> Seq(Setting)] /\ saving' \in [Users -> BOOLEAN]
  BY DEF TodoTyped
<1>2. ASSUME NEW w \in Users PROVE saving'[w] => todo'[w] # <<>>
  <2>1. CASE w = u
    BY <2>1 DEF TodoTyped
  <2>2. CASE w # u
    BY <2>2 DEF TodoTyped
  <2>3. QED
    BY <2>1, <2>2
<1>3. QED
  BY <1>1, <1>2 DEF TodoTyped

LEMMA TypeSetRam ==
  ASSUME TypeInv, NEW u \in Users, SetRam(u)
  PROVE  RamTyped' /\ WatchTyped' /\ TodoTyped'
<1> DEFINE k == todo[u][1][1]  v == todo[u][1][2]
<1> USE DEF TypeInv, Domains
<1>1. k \in Keys /\ v \in ValueOf(k)
  BY NextSetting DEF SetRam, TodoTyped
<1>2. UNCHANGED <<asked, watched>> /\ promised' \in {promised, Absent}
  BY DEF SetRam, Forget
<1>3. ram' \in {ram, [ram EXCEPT ![k] = v]}
  BY DEF SetRam
<1>4. /\ todo[u] # <<>>
      /\ \/ saving' = [saving EXCEPT ![u] = TRUE] /\ todo' = todo
         \/ saving' = saving /\ ~saving[u] /\ todo' = [todo EXCEPT ![u] = <<>>]
  BY DEF SetRam
<1> HIDE DEF k, v
<1>5. RamTyped'
  BY <1>1, <1>3 DEF RamTyped
<1>6. TodoTyped'
  <2>1. <<>> \in Seq(Setting)
    OBVIOUS
  <2>2. CASE saving' = [saving EXCEPT ![u] = TRUE] /\ todo' = todo
    <3>1. todo' = [todo EXCEPT ![u] = todo[u]] /\ todo[u] \in Seq(Setting)
      BY <2>2 DEF TodoTyped
    <3>2. QED
      BY <1>4, <2>2, <3>1, TodoStep
  <2>3. CASE saving' = saving /\ ~saving[u] /\ todo' = [todo EXCEPT ![u] = <<>>]
    <3>1. saving' = [saving EXCEPT ![u] = FALSE]
      BY <2>3 DEF TodoTyped
    <3>2. TodoTyped
      BY DEF TypeInv
    <3>3. QED
      BY <2>1, <2>3, <3>1, <3>2, TodoStep
  <2>4. QED
    BY <1>4, <2>2, <2>3
<1>7. QED
  BY <1>2, <1>5, <1>6 DEF WatchTyped

LEMMA TypeSave ==
  ASSUME TypeInv, NEW u \in Users, Save(u)
  PROVE  FlashTyped' /\ WatchTyped' /\ TodoTyped'
<1> DEFINE k == todo[u][1][1]  v == Saved(k, todo[u][1][2])
<1> USE DEF TypeInv, Domains
<1>1. /\ k \in Keys /\ todo[u][1][2] \in ValueOf(k)
      /\ Tail(todo[u]) \in Seq(Setting)
  BY NextSetting DEF Save, TodoTyped
<1>2. CanSave(k) => v \in ValueOf(k)
  BY <1>1, ValuesAre DEF CanSave, Saved, RamTyped
<1>3. UNCHANGED <<asked, watched>>
  BY DEF Save
<1>4. \/ /\ CanSave(k)
         /\ nvm' = [nvm EXCEPT ![k] = IF v = Empty THEN Absent ELSE v]
         /\ promised' = IF k = watched THEN (IF ram[k] = v /\ v # Empty THEN v ELSE Absent)
                                       ELSE promised
      \/ nvm' = nvm /\ promised' \in {promised, Absent}
  BY DEF Save, Confirm, Forget
<1>5. /\ saving' = [saving EXCEPT ![u] = FALSE]
      /\ \/ todo' = [todo EXCEPT ![u] = Tail(todo[u])]
         \/ todo' = [todo EXCEPT ![u] = <<>>]
  BY DEF Save
<1>6. TodoTyped'
  <2>1. <<>> \in Seq(Setting)
    OBVIOUS
  <2>2. QED
    BY <1>1, <1>5, <2>1, TodoStep
<1> HIDE DEF k, v
<1>7. FlashTyped'
  BY <1>1, <1>2, <1>4 DEF FlashTyped
<1>8. WatchTyped'
  BY <1>1, <1>2, <1>3, <1>4 DEF WatchTyped
<1>9. QED
  BY <1>6, <1>7, <1>8

\* A command that begins has pairs of a key and a value it may have.
LEMMA TypeBegins ==
  ASSUME TypeInv, SettingsSet \/ ModeSet \/ \E u \in Users : CalSet(u)
  PROVE  TodoTyped' /\ UNCHANGED <<stage, nvm, ram, magOn, factory, asked, watched, promised>>
<1> USE DEF TypeInv
<1>1. ASSUME NEW u \in Users, NEW todos \in Seq(Setting), Begins(u, todos)
      PROVE  TodoTyped' /\ UNCHANGED <<stage, nvm, ram, magOn, factory, asked, watched, promised>>
  BY <1>1 DEF Begins, TodoTyped
<1>2. ASSUME NEW k \in Keys, NEW v \in ValueOf(k) PROVE << <<k, v>> >> \in Seq(Setting)
  <2>1. <<k, v>> \in Setting
    BY DEF Setting
  <2>2. QED
    BY <2>1
<1>3. {"cal", "mag_mode"} \subseteq Keys /\ {"smp", "usb"} \subseteq Users
  BY DEF Keys, Users
<1>4. CASE SettingsSet
  <2>1. PICK named, want : Begins("smp", Applied(named, want))
    BY <1>4, Zenon DEF SettingsSet
  <2>2. QED
    BY <1>1, <1>3, <2>1, AppliedTyped
<1>5. CASE ModeSet
  <2>1. PICK m \in ValueOf("mag_mode") : Begins("usb", << <<"mag_mode", m>> >>)
    BY <1>5, Zenon DEF ModeSet
  <2>2. << <<"mag_mode", m>> >> \in Seq(Setting)
    BY <1>2, <1>3
  <2>3. QED
    BY <1>1, <1>3, <2>1, <2>2
<1>6. CASE \E u \in Users : CalSet(u)
  <2>1. PICK u \in Users : CalSet(u)
    BY <1>6
  <2>2. PICK c \in ValueOf("cal") : Begins(u, << <<"cal", c>> >>)
    BY <2>1, Zenon DEF CalSet
  <2>3. << <<"cal", c>> >> \in Seq(Setting)
    BY <1>2, <1>3
  <2>4. QED
    BY <1>1, <2>2, <2>3
<1>7. QED
  BY <1>4, <1>5, <1>6

LEMMA StageStep == StageTyped /\ [SettingsNext]_settingsVars => StageTyped'
<1> SUFFICES ASSUME StageTyped, [SettingsNext]_settingsVars PROVE StageTyped'
  OBVIOUS
<1>1. CASE InitSettings \/ InitMag \/ Reset
  BY <1>1 DEF InitSettings, InitMag, Reset, StageTyped
<1>2. CASE UseMode
  <2>1. factory' \in BOOLEAN
    BY <1>2, Zenon DEF UseMode
  <2>2. stage' = "up" /\ magOn' = magOn
    BY <1>2 DEF UseMode
  <2>3. QED
    BY <2>1, <2>2 DEF StageTyped
<1>3. CASE UNCHANGED <<stage, magOn, factory>>
  BY <1>3 DEF StageTyped
<1>4. QED
  BY <1>1, <1>2, <1>3, Zenon
     DEF SettingsNext, SettingsSet, ModeSet, CalSet, Begins, SetRam, Save, settingsVars

LEMMA StepTypeInv == TypeInv /\ [SettingsNext]_settingsVars => TypeInv'
<1> SUFFICES ASSUME TypeInv, [SettingsNext]_settingsVars
             PROVE  FlashTyped' /\ RamTyped' /\ WatchTyped' /\ TodoTyped'
  BY StepDomains, StageStep DEF TypeInv
<1>1. CASE InitSettings \/ InitMag
  <2>1. UNCHANGED <<todo, saving>>
    BY <1>1 DEF InitSettings, InitMag
  <2>2. TodoTyped'
    BY <2>1 DEF TodoTyped, TypeInv
  <2>3. QED
    BY <1>1, <2>2, TypeInitSettings, TypeInitMag
<1>2. CASE UseMode
  <2>1. UNCHANGED <<nvm, todo, saving, asked, watched, promised>>
        /\ ram' \in {ram, [ram EXCEPT !["cal"] = 0]}
    BY <1>2 DEF UseMode
  <2>2. RamTyped'
    BY <2>1 DEF TypeInv, Domains, RamTyped
  <2>3. QED
    BY <2>1, <2>2 DEF TypeInv, FlashTyped, WatchTyped, TodoTyped
<1>3. CASE Reset
  <2>1. UNCHANGED <<nvm, asked, watched, promised>> /\ ram' = Built
    BY <1>3 DEF Reset
  <2>2. TodoTyped'
    <3>1. <<>> \in Seq(Setting)
      OBVIOUS
    <3>2. QED
      BY <1>3, <3>1 DEF Reset, TodoTyped
  <2>3. RamTyped'
    BY <2>1 DEF RamTyped, Built
  <2>4. QED
    BY <2>1, <2>2, <2>3 DEF TypeInv, FlashTyped, WatchTyped
<1>4. CASE SettingsSet \/ ModeSet \/ \E u \in Users : CalSet(u)
  BY <1>4, TypeBegins DEF TypeInv, FlashTyped, RamTyped, WatchTyped
<1>5. CASE \E u \in Users : SetRam(u)
  <2>1. PICK u \in Users : SetRam(u)
    BY <1>5
  <2>2. nvm' = nvm
    BY <2>1 DEF SetRam
  <2>3. QED
    BY <2>1, <2>2, TypeSetRam DEF TypeInv, FlashTyped
<1>6. CASE \E u \in Users : Save(u)
  <2>1. PICK u \in Users : Save(u)
    BY <1>6
  <2>2. ram' = ram
    BY <2>1 DEF Save
  <2>3. QED
    BY <2>1, <2>2, TypeSave DEF TypeInv, RamTyped
<1>7. CASE UNCHANGED settingsVars
  BY <1>7 DEF settingsVars, TypeInv, FlashTyped, RamTyped, WatchTyped, TodoTyped
<1>8. QED
  BY <1>1, <1>2, <1>3, <1>4, <1>5, <1>6, <1>7 DEF SettingsNext

\* Whatever the commands want, flash and RAM hold for each key a value that it
\* may have, or none, and what was promised is one (config/settings.c).
THEOREM SettingsTypes == SettingsSpec => []SettingsTypeOK
BY InitTypeInv, StepTypeInv, InvIsType, PTL DEF SettingsSpec
=============================================================================
