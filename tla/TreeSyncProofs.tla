--------------------------- MODULE TreeSyncProofs ---------------------------
(***************************************************************************)
(* Theorems about TreeSync, for every tree and every value of its constants.*)
(***************************************************************************)
EXTENDS TreeSync, TLAPS

LocalFile == [data: Checksums \cup {Dir}, ctime: Times]
Entry     == [data: Checksums \cup {Dir}, mtime: Nat, etag: Nat]

\* The two halves of TypeOK: both sides, and what a run has.
LocalOK(f)   == f \in [Path -> LocalFile] /\ \A p \in Files : f[p].data # Dir
RemoteOK(f)  == f \in [Path -> Entry] /\ \A p \in Files : f[p].data # Dir
RecordsOK(f) == f \in [Path -> Records] /\ \A p \in Folders : f[p].md5 = Nothing
ResOK(f)     == f \in [Path -> Resources] /\ \A p \in Folders : f[p].md5 = Nothing
EnvOK == LocalOK(local) /\ RemoteOK(remote) /\ rev \in Nat /\ left \in [{"user", "others"} -> Nat]
RunOK ==
    /\ RecordsOK(index) /\ RecordsOK(st) /\ ResOK(res)
    /\ pc \in {"idle", "scanned", "syncing"}
    /\ opt \in {"normal", "force", "upload-only", "no-remote-new"}
    /\ linked \subseteq Path /\ unlisted \subseteq Path
    /\ agenda \in Seq(SUBSET Path)

LEMMA Halves == TypeOK <=> EnvOK /\ RunOK /\ faults \in 0..MaxFaults
BY DEF TypeOK, KindsKept, EnvOK, RunOK, LocalOK, RemoteOK, RecordsOK, ResOK, LocalFile, Entry

-----------------------------------------------------------------------------
(* Values.                                                                 *)

\* Every name is that of a file or of a folder.
LEMMA Names ==
    /\ Folders \subseteq Path /\ Files \subseteq Path
    /\ \A p \in Path : p \in Files <=> p \notin Folders
    /\ Dir \notin Checksums /\ Nothing \in Checksums /\ Nothing # Dir
    /\ Content \subseteq Checksums /\ Truncated \in Checksums
BY TreeAssumption DEF Files, Checksums, Data

\* What stands for an absent file, entry, record or resource.
LEMMA NoneType ==
    /\ NoFile \in LocalFile /\ NoEntry \in Entry
    /\ NoRecord \in Records /\ NewResource \in Resources
    /\ NoFile.data = Nothing /\ NoEntry.data = Nothing
    /\ NoRecord.md5 = Nothing /\ NewResource.md5 = Nothing
BY DEF NoFile, NoEntry, NoRecord, NewResource, LocalFile, Entry, Times,
       Records, Resources, Checksums, States, NoETag, NoTime

\* The length of a content is a number.
LEMMA SizeType == ASSUME NEW d PROVE SizeOf(d) \in Nat
BY ContentAssumption DEF SizeOf

\* A checksum is never that of a folder.
LEMMA MD5Type == ASSUME NEW d PROVE MD5(d) \in Checksums
BY DEF MD5, Checksums

LEMMA GetMD5Type == ASSUME NEW r \in Resources, NEW d PROVE GetMD5(r, d) \in Checksums
BY MD5Type DEF GetMD5, Resources

\* The resource that a scan makes.
LEMMA FromLocalType ==
    ASSUME NEW f \in LocalFile, NEW r \in Records
    PROVE  FromLocal(f, r) \in Resources
<1> DEFINE state == IF IsChanged(f, r) THEN "local_new" ELSE "remote_deleted"
           md5   == IF NotTouched(f, r) THEN r.md5
                    ELSE IF NeedsMD5(f, r) THEN MD5(f.data) ELSE Nothing
<1>1. state \in States
    BY DEF States
<1>2. md5 \in Checksums
    BY MD5Type DEF Records, Checksums
<1> HIDE DEF state, md5
<1>3. f.ctime \in Nat /\ r.srv \in Nat
    BY DEF LocalFile, Times, Records
<1>4. FromLocal(f, r) = [state |-> state, exists |-> TRUE, bad |-> FALSE, md5 |-> md5,
                         size |-> SizeOf(f.data), ctime |-> f.ctime,
                         mtime |-> r.srv, etag |-> NoETag]
    BY DEF FromLocal, state, md5
<1> QED
    BY <1>1, <1>2, <1>3, <1>4, SizeType DEF Resources, NoETag

LEMMA FolderFromLocalType ==
    ASSUME NEW f \in LocalFile, NEW r \in Records
    PROVE  FolderFromLocal(f, r) \in Resources /\ FolderFromLocal(f, r).md5 = Nothing
<1> DEFINE state == IF f.ctime <= r.ctime THEN "remote_deleted" ELSE "local_new"
<1>1. state \in States
    BY DEF States
<1>2. f.ctime \in Nat /\ r.srv \in Nat
    BY DEF LocalFile, Times, Records
<1>3. FolderFromLocal(f, r) = [NewResource EXCEPT !.state = state, !.exists = TRUE,
                                                  !.ctime = f.ctime, !.mtime = r.srv]
    BY DEF FolderFromLocal
<1> HIDE DEF state
<1> QED
    BY <1>1, <1>2, <1>3, NoneType DEF Resources

LEMMA FromDeletedType ==
    ASSUME NEW r \in Records
    PROVE  FromDeleted(r) \in Resources /\ FromDeleted(r).md5 = r.md5
BY DEF FromDeleted, NewResource, Records, Resources, States, NoETag, NoTime, Checksums

\* The resource that an entry makes of it, whatever its folder is about to become.
LEMMA FromRemoteType ==
    ASSUME NEW r \in Resources, NEW e \in Entry, e.data # Dir, NEW parent \in States, NEW d
    PROVE  FromRemote(r, e, parent, d) \in Resources
<1>1. RemoteState(r, e, parent, d) \in States
    BY DEF RemoteState, Recursive, States, Resources
<1>2. RemoteSize(r, e, parent, d) \in Nat
    BY SizeType DEF RemoteSize, Resources
<1>3. e.data \in Checksums
    BY DEF Entry
<1> QED
    BY <1>1, <1>2, <1>3 DEF FromRemote, Resources, Entry

LEMMA FromRemoteFolderType ==
    ASSUME NEW r \in Resources, NEW e \in Entry
    PROVE  FromRemoteFolder(r, e) \in Resources /\ FromRemoteFolder(r, e).md5 = Nothing
BY Names DEF FromRemoteFolder, Resources, Entry, States

\* Records.
LEMMA ItemType ==
    ASSUME NEW r \in Records, NEW o
    PROVE  /\ Item(r) \in Records /\ Item(r).md5 = r.md5
           /\ Forgetful(o, r) \in Records /\ Forgetful(o, r).md5 = r.md5
BY DEF Item, Forgetful, Records

LEMMA SetIndexType ==
    ASSUME NEW rec \in Records, NEW r \in Resources, NEW t \in Nat
    PROVE  SetIndex(rec, r, t) \in Records
BY DEF SetIndex, Records, Resources

LEMMA SetSrvTimeType ==
    ASSUME NEW rec \in Records, NEW r \in Resources
    PROVE  SetSrvTime(rec, r) \in Records /\ SetSrvTime(rec, r).md5 = rec.md5
BY DEF SetSrvTime, Records, Resources

\* A new second for some directories.
LEMMA StampedType ==
    ASSUME NEW f, LocalOK(f), NEW dirs, NEW t \in Times
    PROVE  LocalOK(Stamped(f, dirs, t))
BY Names DEF LocalOK, LocalFile, Stamped

LEMMA TouchedType ==
    ASSUME NEW f, LocalOK(f), NEW dirs, NEW g \in Touched(f, dirs)
    PROVE  LocalOK(g)
<1>1. PICK T : g = Stamped(f, T, 3)
    BY DEF Touched
<1> QED
    BY <1>1, StampedType DEF Times


\* The records of a run that writes the one of p, or erases it with all below it.
LEMMA RecordedType ==
    ASSUME RecordsOK(st), NEW p \in Path, NEW r \in Resources, NEW t \in Nat
    PROVE  RecordsOK(Recorded(p, r, t))
<1>1. CASE p \in Folders
    <2>1. [Item(st[p]) EXCEPT !.ctime = t] \in Records
          /\ [Item(st[p]) EXCEPT !.ctime = t].md5 = st[p].md5
        BY ItemType DEF RecordsOK, Records
    <2> QED
        BY <1>1, <2>1 DEF Recorded, RecordsOK
<1>2. CASE p \notin Folders
    <2>1. SetIndex(st[p], r, t) \in Records
        BY SetIndexType DEF RecordsOK
    <2> QED
        BY <1>2, <2>1 DEF Recorded, RecordsOK
<1> QED
    BY <1>1, <1>2

LEMMA ForgottenType ==
    ASSUME RecordsOK(st), NEW p
    PROVE  RecordsOK(Forgotten(p))
BY NoneType, Names DEF RecordsOK, Forgotten

\* Sequences of one, and of two put together.
LEMMA SeqType ==
    ASSUME NEW S
    PROVE  /\ <<>> \in Seq(S) /\ \A e \in S : <<e>> \in Seq(S)
           /\ \A s, t \in Seq(S) : s \o t \in Seq(S)
OBVIOUS

\* The groups of siblings that the walk has before it.
LEMMA WalkType == ASSUME NEW p PROVE Walk(p) \in Seq(SUBSET Path)
<1>1. \A g \in SUBSET Path : Group(g) \in Seq(SUBSET Path)
    BY SeqType DEF Group
<1>2. Children(p) \subseteq Path
    BY DEF Children
<1> DEFINE known == {q \in Children(p) : res[q].state # "unknown"}
           here  == {q \in known : res[q].exists}
           gone  == {q \in known \ here : Leftover(q)}
<1>3. /\ Group(here) \in Seq(SUBSET Path) /\ Group(gone) \in Seq(SUBSET Path)
      /\ Group(known \ (here \cup gone)) \in Seq(SUBSET Path)
    BY <1>1, <1>2
<1>4. Walk(p) = Group(here) \o Group(gone) \o Group(known \ (here \cup gone))
    BY DEF Walk
<1> HIDE DEF known, here, gone
<1> QED
    BY <1>3, <1>4, SeqType

LEMMA RestType ==
    ASSUME agenda \in Seq(SUBSET Path), agenda # <<>>, NEW p
    PROVE  Rest(p) \in Seq(SUBSET Path)
<1>1. Head(agenda) \in SUBSET Path /\ Tail(agenda) \in Seq(SUBSET Path)
    OBVIOUS
<1>2. Head(agenda) \ {p} \in SUBSET Path
    BY <1>1
<1>3. /\ <<Head(agenda) \ {p}>> \in Seq(SUBSET Path)
      /\ <<Head(agenda) \ {p}>> \o Tail(agenda) \in Seq(SUBSET Path)
    BY <1>1, <1>2, SeqType
<1> QED
    BY <1>1, <1>3 DEF Rest

-----------------------------------------------------------------------------
(* The ends that several steps have.                                       *)

\* SyncSelf returns.
LEMMA ReturnType ==
    ASSUME RunOK, NEW p \in Path, NEW r \in Resources, p \in Folders => r.md5 = Nothing,
           NEW rec, RecordsOK(rec), NEW links \in SUBSET Path,
           agenda # <<>>, Return(p, r, rec, links)
    PROVE  RunOK' /\ left' = left /\ faults' = faults
<1>1. ResOK(res)'
    BY DEF RunOK, ResOK, Return
<1>2. RecordsOK(st)'
    <2>1. SetSrvTime(rec[p], r) \in Records /\ SetSrvTime(rec[p], r).md5 = rec[p].md5
        BY SetSrvTimeType DEF RecordsOK
    <2>2. RecordsOK([rec EXCEPT ![p] = SetSrvTime(@, r)])
        BY <2>1 DEF RecordsOK
    <2>3. st' = IF p \in links THEN [rec EXCEPT ![p] = SetSrvTime(@, r)] ELSE rec
        BY DEF Return
    <2> QED
        BY <2>2, <2>3 DEF RecordsOK
<1>3. agenda' \in Seq(SUBSET Path)
    <2>1. Rest(p) \in Seq(SUBSET Path) /\ Walk(p) \in Seq(SUBSET Path)
        BY WalkType, RestType DEF RunOK
    <2>2. agenda' = Rest(p) \/ agenda' = Walk(p) \o Rest(p)
        BY DEF Return
    <2> QED
        BY <2>1, <2>2, SeqType
<1> QED
    BY <1>1, <1>2, <1>3 DEF RunOK, RecordsOK, Return

\* An exception that Sync catches.
LEMMA CaughtType ==
    ASSUME RunOK, NEW p, agenda # <<>>, Caught(p)
    PROVE  RunOK' /\ left' = left
BY RestType DEF RunOK, RecordsOK, ResOK, Caught

\* The process ends, with the index that is on disk then.
LEMMA ExitType ==
    ASSUME LocalOK(local), NEW rec, RecordsOK(rec), ExitWith(rec)
    PROVE  RunOK' /\ LocalOK(local)'
<1>1. RecordsOK(index)'
    <2>1. \A p \in Path : LET r == [rec[p] EXCEPT !.ctime = IF @ = NoTime THEN NoTime ELSE 0]
                          IN  r \in Records /\ r.md5 = rec[p].md5
        BY DEF RecordsOK, Records
    <2>2. index' = [p \in Path |-> [rec[p] EXCEPT !.ctime = IF @ = NoTime THEN NoTime ELSE 0]]
        BY DEF ExitWith
    <2> QED
        BY <2>1, <2>2, Names DEF RecordsOK
<1>2. LocalOK(local)'
    <2> DEFINE time(p) == IF Here(p) /\ local[p].ctime > rec[p].ctime THEN 1 ELSE 0
    <2>1. \A p \in Path : time(p) \in Times
        BY DEF Times
    <2>2. local' = [p \in Path |-> [local[p] EXCEPT !.ctime = time(p)]]
        BY DEF ExitWith
    <2> HIDE DEF time
    <2> QED
        BY <2>1, <2>2, Names DEF LocalOK, LocalFile
<1>3. RecordsOK(st)' /\ ResOK(res)'
    BY NoneType, Names DEF ExitWith, RecordsOK, ResOK
<1> QED
    BY <1>1, <1>2, <1>3 DEF RunOK, ExitWith

-----------------------------------------------------------------------------
(* Steps.                                                                  *)

LEMMA TypeInit == Init => TypeOK
<1> SUFFICES ASSUME Init PROVE EnvOK /\ RunOK /\ faults \in 0..MaxFaults
    BY Halves
<1>1. LocalOK(local)
    BY NoneType, Names DEF Init, LocalOK
<1>2. RemoteOK(remote)
    <2>1. remote \in [Path -> {NoEntry} \cup [data: Content \cup {Dir}, mtime: {1}, etag: {1}]]
        BY DEF Init, Drives
    <2>2. \A p \in Path : remote[p] # NoEntry => remote[p].data \in Contents(p)
        BY DEF Init, Drives
    <2>3. \A p \in Path : remote[p] \in Entry
        BY <2>1, NoneType, Names DEF Entry
    <2>4. \A p \in Files : remote[p].data # Dir
        BY <2>2, NoneType, Names DEF Contents
    <2> QED
        BY <2>1, <2>3, <2>4 DEF RemoteOK
<1>3. RecordsOK(index) /\ RecordsOK(st) /\ ResOK(res)
    BY NoneType, Names DEF Init, RecordsOK, ResOK
<1>4. rev \in Nat /\ left \in [{"user", "others"} -> Nat] /\ faults \in 0..MaxFaults
    BY TreeAssumption DEF Init
<1> QED
    BY <1>1, <1>2, <1>3, <1>4 DEF EnvOK, RunOK, Init

\* The user and the other clients.
LEMMA TypeEnvironment ==
    ASSUME EnvOK, RunOK, Environment
    PROVE  EnvOK' /\ RunOK' /\ faults' = faults
<1>1. ASSUME NEW who \in {"user", "others"}, Acts(who) PROVE left' \in [{"user", "others"} -> Nat]
    BY <1>1 DEF Acts, EnvOK
<1>2. ASSUME NEW p \in Path, NEW d \in Checksums \cup {Dir}, p \in Files => d # Dir
      PROVE  LocalOK([local EXCEPT ![p].data = d])
    BY <1>2, Names DEF EnvOK, LocalOK, LocalFile
<1>3. ASSUME NEW p \in Path, NEW e \in Entry, p \in Files => e.data # Dir
      PROVE  RemoteOK([remote EXCEPT ![p] = e])
    BY <1>3, Names DEF EnvOK, RemoteOK
<1>4. ASSUME NEW p \in Path, NEW c \in Contents(p), LocalWrite(p, c) PROVE EnvOK'
    <2>1. c \in Checksums \cup {Dir} /\ (p \in Files => c # Dir)
        BY Names DEF Contents
    <2>2. LocalOK(local)'
        <3>1. PICK dirs : local' = Stamped([local EXCEPT ![p].data = c], dirs, 1)
            BY <1>4 DEF LocalWrite
        <3> QED
            BY <1>2, <2>1, <3>1, StampedType DEF Times
    <2> QED
        BY <1>1, <1>4, <2>2 DEF LocalWrite, EnvOK, RemoteOK
<1>5. ASSUME NEW p \in Path, NEW c \in Contents(p), RemoteWrite(p, c) PROVE EnvOK'
    <2>1. c \in Checksums \cup {Dir} /\ (p \in Files => c # Dir)
        BY Names DEF Contents
    <2>2. [data |-> c, mtime |-> rev + 1, etag |-> rev + 1] \in Entry
        BY <2>1 DEF Entry, EnvOK
    <2>3. RemoteOK(remote)'
        BY <1>3, <1>5, <2>1, <2>2 DEF RemoteWrite
    <2> QED
        BY <1>1, <1>5, <2>3 DEF RemoteWrite, EnvOK, LocalOK
<1>6. ASSUME NEW p \in Path, LocalDelete(p) PROVE EnvOK'
    <2>1. LocalOK(Stamped(local, {Parent[p]}, 1))
        BY StampedType DEF EnvOK, Times
    <2>2. LocalOK(local)'
        BY <1>6, <2>1, NoneType, Names DEF LocalDelete, LocalOK
    <2> QED
        BY <1>1, <1>6, <2>2 DEF LocalDelete, EnvOK, RemoteOK
<1>7. ASSUME NEW p \in Path, RemoteTrash(p) PROVE EnvOK'
    <2>1. RemoteOK(remote)'
        BY <1>7, NoneType, Names DEF RemoteTrash, RemoteOK, EnvOK
    <2> QED
        BY <1>1, <1>7, <2>1 DEF RemoteTrash, EnvOK, LocalOK
<1>8. ASSUME NEW p \in Files, NEW q \in Files, LocalMove(p, q) PROVE EnvOK'
    <2>1. LocalOK([local EXCEPT ![q].data = local[p].data, ![p] = NoFile])
        BY NoneType, Names DEF EnvOK, LocalOK, LocalFile
    <2>2. LocalOK(local)'
        <3>1. PICK dirs : local' = Stamped([local EXCEPT ![q].data = local[p].data,
                                                         ![p] = NoFile], dirs, 1)
            BY <1>8 DEF LocalMove
        <3> QED
            BY <2>1, <3>1, StampedType DEF Times
    <2> QED
        BY <1>1, <1>8, <2>2 DEF LocalMove, EnvOK, RemoteOK
<1>9. ASSUME NEW p \in Files, NEW q \in Files, RemoteMove(p, q) PROVE EnvOK'
    <2>1. RemoteOK([remote EXCEPT ![q] = remote[p], ![p] = NoEntry])
        BY NoneType, Names DEF EnvOK, RemoteOK
    <2> QED
        BY <1>1, <1>9, <2>1 DEF RemoteMove, EnvOK, LocalOK
<1>10. UNCHANGED <<run, faults>>
    BY DEF Environment, LocalWrite, RemoteWrite, LocalDelete, RemoteTrash, LocalMove, RemoteMove
<1>11. RunOK'
    BY <1>10 DEF run, RunOK, RecordsOK, ResOK
<1> QED
    BY <1>4, <1>5, <1>6, <1>7, <1>8, <1>9, <1>10, <1>11 DEF Environment

\* The scan.
LEMMA TypeScan ==
    ASSUME EnvOK, RunOK, NEW o \in Options, Scan(o)
    PROVE  EnvOK' /\ RunOK' /\ faults' = faults
<1> DEFINE rec == [p \in Path |-> Forgetful(o, index[p])]
<1>1. /\ RecordsOK(rec)
      /\ \A p \in Path : Item(rec[p]) \in Records /\ Item(rec[p]).md5 = rec[p].md5
    BY ItemType, Names DEF RunOK, RecordsOK
<1>2. st' = [p \in Path |-> IF Here(p) THEN Item(rec[p])
                            ELSE IF Leftover(p) THEN rec[p] ELSE index[p]]
    BY DEF Scan
<1>3. res' = [p \in Path |-> IF Here(p) THEN ScannedInTree(p, rec)
                             ELSE IF Leftover(p) THEN FromDeleted(rec[p])
                             ELSE NewResource]
    BY DEF Scan
<1> HIDE DEF rec
<1>4. RecordsOK(st)'
    BY <1>1, <1>2, Names DEF RecordsOK, RunOK
<1>5. ASSUME NEW p \in Path
      PROVE  /\ ScannedAlone(p, Item(rec[p])) \in Resources
             /\ p \in Folders => ScannedAlone(p, Item(rec[p])).md5 = Nothing
    BY <1>1, FromLocalType, FolderFromLocalType DEF ScannedAlone, EnvOK, LocalOK
<1>6. ASSUME NEW p \in Path
      PROVE  /\ ScannedInTree(p, rec) \in Resources
             /\ p \in Folders => ScannedInTree(p, rec).md5 = Nothing
    <2>1. PICK s \in States : ScannedInTree(p, rec) = [ScannedAlone(p, Item(rec[p])) EXCEPT !.state = s]
        <3>1. ScannedAlone(p, Item(rec[p])).state \in States /\ "local_new" \in States
            BY <1>5 DEF Resources, States
        <3> QED
            BY <3>1 DEF ScannedInTree
    <2> QED
        BY <1>5, <2>1 DEF Resources
<1>7. ResOK(res)'
    <2>1. \A p \in Path : res'[p] \in Resources
        BY <1>1, <1>3, <1>6, FromDeletedType, NoneType DEF RecordsOK
    <2>2. \A p \in Folders : res'[p].md5 = Nothing
        BY <1>1, <1>3, <1>6, FromDeletedType, NoneType, Names DEF RecordsOK
    <2> QED
        BY <1>3, <2>1, <2>2 DEF ResOK
<1>8. opt' \in {"normal", "force", "upload-only", "no-remote-new"}
    BY TreeAssumption DEF Scan
<1> QED
    BY <1>4, <1>7, <1>8 DEF Scan, RunOK, RecordsOK, env, EnvOK, LocalOK, RemoteOK

\* An entry of the listing.
LEMMA TypeList ==
    ASSUME EnvOK, RunOK, NEW p \in Path, List(p)
    PROVE  EnvOK' /\ RunOK' /\ faults' = faults
<1>1. res[p] \in Resources /\ remote[p] \in Entry
    BY DEF RunOK, ResOK, EnvOK, RemoteOK
<1>2. ASSUME p \in Folders PROVE ResOK(res)'
    <2> DEFINE r == FromRemoteFolder(res[p], remote[p])
    <2>1. r \in Resources /\ r.md5 = Nothing
        BY <1>1, FromRemoteFolderType
    <2>2. res' = SetState(p, r)
        BY <1>2 DEF List
    <2> HIDE DEF r
    <2>3. \A q \in Path : /\ [res[q] EXCEPT !.state = r.state] \in Resources
                          /\ [res[q] EXCEPT !.state = r.state].md5 = res[q].md5
        BY <2>1 DEF RunOK, ResOK, Resources
    <2> QED
        BY <2>1, <2>2, <2>3, Names DEF SetState, RunOK, ResOK
<1>3. ASSUME p \notin Folders PROVE ResOK(res)'
    <2>1. StateOfFolder(p) \in States
        <3>1. Parent[p] = Root \/ Parent[p] \in Path
            BY TreeAssumption
        <3>2. \A q \in Path : res[q].state \in States
            BY DEF RunOK, ResOK, Resources
        <3> QED
            BY <3>1, <3>2 DEF StateOfFolder, States
    <2>2. remote[p].data # Dir
        BY <1>3, Names DEF EnvOK, RemoteOK
    <2>3. FromRemote(res[p], remote[p], StateOfFolder(p), local[p].data) \in Resources
        BY <1>1, <2>1, <2>2, FromRemoteType
    <2>4. res' = [res EXCEPT ![p] = FromRemote(@, remote[p], StateOfFolder(p), local[p].data)]
        BY <1>3 DEF List
    <2> QED
        BY <1>3, <2>3, <2>4 DEF RunOK, ResOK
<1>4. ResOK(res)'
    BY <1>2, <1>3
<1> QED
    BY <1>4 DEF List, RunOK, RecordsOK, env, EnvOK, LocalOK, RemoteOK

LEMMA TypeStartSync ==
    ASSUME EnvOK, RunOK, StartSync
    PROVE  EnvOK' /\ RunOK' /\ faults' = faults
BY WalkType DEF StartSync, RunOK, RecordsOK, ResOK, env, EnvOK, LocalOK, RemoteOK

\* What is there after one of the requests.
LEMMA StoredType ==
    ASSUME EnvOK, NEW p \in Path, Stored(p, local[p].data)
    PROVE  RemoteOK(remote)' /\ rev' \in Nat
<1>1. [data |-> local[p].data, mtime |-> rev + 1, etag |-> rev + 1] \in Entry
    BY DEF EnvOK, LocalOK, LocalFile, Entry
<1>2. p \in Files => local[p].data # Dir
    BY DEF EnvOK, LocalOK
<1> QED
    BY <1>1, <1>2, Names DEF Stored, EnvOK, RemoteOK

LEMMA UploadedType ==
    ASSUME EnvOK, RunOK, NEW p \in Path
    PROVE  /\ Uploaded(p) \in Resources
           /\ p \in Folders => Uploaded(p).md5 = Nothing
<1> DEFINE md5 == IF p \in Folders THEN Nothing ELSE local[p].data
<1>1. md5 \in Checksums
    BY Names DEF EnvOK, LocalOK, LocalFile
<1>2. res[p] \in Resources /\ rev + 1 \in Nat /\ "sync" \in States
    BY DEF RunOK, ResOK, EnvOK, States
<1>3. Uploaded(p) = [res[p] EXCEPT !.state = "sync", !.etag = rev + 1, !.mtime = rev + 1,
                                   !.md5 = md5]
    BY DEF Uploaded
<1>4. p \in Folders => md5 = Nothing
    OBVIOUS
<1> HIDE DEF md5
<1> QED
    BY <1>1, <1>2, <1>3, <1>4 DEF Resources

\* A file that has been moved, and what it is found to have been, are no folders.
LEMMA OriginsType ==
    ASSUME RunOK, NEW p \in Path, NEW m \in Origins(p)
    PROVE  p \in Files /\ m \in Files
<1>1. p \in Files /\ m \in FindByMD5(GetMD5(res[p], local[p].data))
    BY DEF Origins
<1>2. m \in Path /\ res[m].md5 # Nothing
    BY <1>1 DEF FindByMD5
<1> QED
    BY <1>1, <1>2, Names DEF RunOK, ResOK

\* CheckRename has moved m to p.
LEMMA MovedType ==
    ASSUME EnvOK, RunOK, NEW p \in Path, Visits(p), NEW m \in Origins(p), NEW t \in Nat,
           Moved(p, m, t)
    PROVE  RunOK' /\ left' = left /\ faults' = faults
<1> DEFINE md5 == GetMD5(res[p], local[p].data)
           to  == [res[p] EXCEPT !.state = "sync", !.mtime = res[m].mtime, !.md5 = md5]
           rec == SetSrvTime(Recorded(p, to, t)[p], to)
<1>1. p \in Files /\ m \in Files /\ m \in Path
    BY OriginsType, Names
<1>2. md5 \in Checksums /\ res[p] \in Resources /\ res[m] \in Resources
    BY <1>1, GetMD5Type DEF RunOK, ResOK
<1>3. to \in Resources
    <2> HIDE DEF md5
    <2> QED
        BY <1>2 DEF Resources, States
<1>4. /\ res' = [res EXCEPT ![p] = to, ![m].state = "both_deleted"]
      /\ st' = [Forgotten(m) EXCEPT ![p] = rec]
      /\ linked' = (linked \cup {p}) \ {m} /\ agenda' = Rest(p)
      /\ UNCHANGED <<left, index, pc, opt, unlisted, faults>>
    BY DEF Moved
<1> HIDE DEF to
<1>5. rec \in Records
    <2>1. Recorded(p, to, t)[p] \in Records
        BY <1>3, RecordedType DEF RunOK, RecordsOK
    <2> QED
        BY <1>3, <2>1, SetSrvTimeType
<1> HIDE DEF rec
<1>6. ResOK(res)'
    <2>1. \A r \in Resources : [r EXCEPT !.state = "both_deleted"] \in Resources
        BY DEF Resources, States
    <2> QED
        BY <1>1, <1>2, <1>3, <1>4, <2>1, Names DEF RunOK, ResOK
<1>7. RecordsOK(st)'
    BY <1>1, <1>4, <1>5, ForgottenType, Names DEF RunOK, RecordsOK
<1>8. agenda' \in Seq(SUBSET Path)
    BY <1>4, RestType DEF Visits, RunOK
<1> QED
    BY <1>4, <1>6, <1>7, <1>8 DEF RunOK, RecordsOK

\* Uploads, and what is left alone because it is read-only.
LEMMA TypeUpload ==
    ASSUME EnvOK, RunOK, NEW p \in Path, Create(p) \/ EditContent(p)
    PROVE  EnvOK' /\ RunOK' /\ faults' = faults
<1>1. /\ Stored(p, local[p].data)
      /\ Return(p, Uploaded(p), Recorded(p, Uploaded(p), res[p].ctime), linked)
      /\ local' = local /\ agenda # <<>>
    BY DEF Create, EditContent, Self, Visits
<1>2. RecordsOK(Recorded(p, Uploaded(p), res[p].ctime))
    <2>1. res[p].ctime \in Nat
        BY DEF RunOK, ResOK, Resources
    <2> QED
        BY <2>1, UploadedType, RecordedType DEF RunOK
<1>3. RunOK' /\ left' = left /\ faults' = faults
    BY <1>1, <1>2, UploadedType, ReturnType DEF RunOK
<1> QED
    BY <1>1, <1>3, StoredType DEF EnvOK, LocalOK

\* SyncSelf does nothing but store the server time, or a record that has it.
LEMMA TypeAlone ==
    ASSUME EnvOK, RunOK, NEW p \in Path,
           LeaveReadOnly(p) \/ SkipRemote(p) \/ BothDeleted(p) \/ AlreadySync(p)
    PROVE  EnvOK' /\ RunOK' /\ faults' = faults
<1>1. /\ res[p] \in Resources /\ (p \in Folders => res[p].md5 = Nothing)
      /\ RecordsOK(st) /\ RecordsOK(Forgotten(p))
      /\ RecordsOK(Recorded(p, res[p], res[p].ctime))
    <2>1. res[p] \in Resources /\ res[p].ctime \in Nat
        BY DEF RunOK, ResOK, Resources
    <2> QED
        BY <2>1, ForgottenType, RecordedType DEF RunOK, ResOK
<1>2. PICK rec \in {st, Forgotten(p), Recorded(p, res[p], res[p].ctime)},
           links \in {linked, linked \ {p}, linked \cup {p}} : Return(p, res[p], rec, links)
    BY DEF LeaveReadOnly, SkipRemote, BothDeleted, AlreadySync
<1>3. RecordsOK(rec) /\ links \in SUBSET Path
    BY <1>1 DEF RunOK
<1>4. UNCHANGED <<local, remote, rev>> /\ agenda # <<>>
    BY DEF LeaveReadOnly, SkipRemote, BothDeleted, AlreadySync, Skips, Self, Visits
<1>5. RunOK' /\ left' = left /\ faults' = faults
    BY <1>1, <1>2, <1>3, <1>4, ReturnType
<1> QED
    BY <1>4, <1>5 DEF EnvOK, LocalOK, RemoteOK

LEMMA TypeDelete ==
    ASSUME EnvOK, RunOK, NEW p \in Path, DeleteRemote(p) \/ DeleteLocal(p)
    PROVE  EnvOK' /\ RunOK' /\ faults' = faults
<1>1. /\ Return(p, res[p], Forgotten(p), linked \ {p})
      /\ rev' = rev /\ agenda # <<>>
    BY DEF DeleteRemote, DeleteLocal, Self, Visits
<1>2. RunOK' /\ left' = left /\ faults' = faults
    <2>1. res[p] \in Resources /\ (p \in Folders => res[p].md5 = Nothing)
        BY DEF RunOK, ResOK
    <2>2. RecordsOK(Forgotten(p)) /\ linked \ {p} \in SUBSET Path
        BY ForgottenType DEF RunOK
    <2> QED
        BY <1>1, <2>1, <2>2, ReturnType
<1>3. LocalOK(local)' /\ RemoteOK(remote)'
    <2>1. CASE DeleteRemote(p)
        BY <2>1, NoneType, Names DEF DeleteRemote, EnvOK, LocalOK, RemoteOK
    <2>2. CASE DeleteLocal(p)
        <3>1. LocalOK([q \in Path |-> IF q \in Below(p) THEN NoFile ELSE local[q]])
            BY NoneType, Names DEF EnvOK, LocalOK
        <3>2. LocalOK(local')
            BY <2>2, <3>1, TouchedType DEF DeleteLocal
        <3> QED
            BY <2>2, <3>2 DEF DeleteLocal, EnvOK, LocalOK, RemoteOK
    <2> QED
        BY <2>1, <2>2
<1> QED
    BY <1>1, <1>2, <1>3 DEF EnvOK

LEMMA TypeDownload ==
    ASSUME EnvOK, RunOK, NEW p \in Path, Download(p)
    PROVE  EnvOK' /\ RunOK' /\ faults' = faults
<1> DEFINE r == [res[p] EXCEPT !.state = "sync"]
<1>1. r \in Resources /\ (p \in Folders => r.md5 = Nothing)
    BY DEF RunOK, ResOK, Resources, States
<1>2. /\ Return(p, r, Recorded(p, r, 2), linked \cup {p})
      /\ UNCHANGED <<remote, rev>> /\ agenda # <<>>
    BY DEF Download, Self, Visits
<1> HIDE DEF r
<1>3. RunOK' /\ left' = left /\ faults' = faults
    <2>1. RecordsOK(Recorded(p, r, 2)) /\ linked \cup {p} \in SUBSET Path
        BY <1>1, RecordedType DEF RunOK
    <2> QED
        BY <1>1, <1>2, <2>1, ReturnType
<1>4. LocalOK(local')
    <2>1. LocalOK([local EXCEPT ![p] = [data |-> remote[p].data, ctime |-> 2]])
        <3>1. /\ [data |-> remote[p].data, ctime |-> 2] \in LocalFile
              /\ p \in Files => remote[p].data # Dir
            BY DEF EnvOK, RemoteOK, Entry, LocalFile, Times
        <3> QED
            BY <3>1, Names DEF EnvOK, LocalOK
    <2> QED
        BY <2>1, TouchedType DEF Download
<1> QED
    BY <1>2, <1>3, <1>4 DEF EnvOK, LocalOK, RemoteOK

\* What the server makes of a move.
LEMMA ServerMovesType ==
    ASSUME EnvOK, NEW p \in Files, NEW m \in Files, ServerMoves(p, m)
    PROVE  RemoteOK(remote')
<1>1. RemoteOK([remote EXCEPT ![p] = remote[m], ![m] = NoEntry])
    BY NoneType, Names DEF EnvOK, RemoteOK
<1>2. RemoteOK([remote EXCEPT ![m] = NoEntry])
    BY NoneType, Names DEF EnvOK, RemoteOK
<1>3. \/ remote' = remote
      \/ remote' = [remote EXCEPT ![p] = remote[m], ![m] = NoEntry]
      \/ remote' = [remote EXCEPT ![m] = NoEntry]
    BY DEF ServerMoves
<1> QED
    BY <1>1, <1>2, <1>3 DEF EnvOK

LEMMA TypeMove ==
    ASSUME EnvOK, RunOK, NEW p \in Path, NEW m \in Path, MoveRemote(p, m) \/ MoveLocal(p, m)
    PROVE  EnvOK' /\ RunOK' /\ faults' = faults
<1>1. Visits(p) /\ m \in Origins(p) /\ rev' = rev
    BY DEF MoveRemote, MoveLocal
<1>2. p \in Files /\ m \in Files
    BY <1>1, OriginsType
<1>3. RunOK' /\ left' = left /\ faults' = faults
    <2>1. res[p].ctime \in Nat
        BY DEF RunOK, ResOK, Resources
    <2>2. PICK t \in {res[p].ctime, 2} : Moved(p, m, t)
        BY DEF MoveRemote, MoveLocal
    <2> QED
        BY <1>1, <2>1, <2>2, MovedType
<1>4. CASE MoveRemote(p, m)
    <2>1. RemoteOK(remote')
        BY <1>2, <1>4, ServerMovesType DEF MoveRemote
    <2> QED
        BY <1>1, <1>3, <1>4, <2>1 DEF MoveRemote, EnvOK, LocalOK, RemoteOK
<1>5. CASE MoveLocal(p, m)
    <2>1. LocalOK([local EXCEPT ![p] = [data |-> local[m].data, ctime |-> 2], ![m] = NoFile])
        <3>1. [data |-> local[m].data, ctime |-> 2] \in LocalFile /\ local[m].data # Dir
            BY <1>2 DEF EnvOK, LocalOK, LocalFile, Times
        <3> QED
            BY <1>2, <3>1, NoneType, Names DEF EnvOK, LocalOK
    <2>2. LocalOK(local')
        BY <1>5, <2>1, TouchedType DEF MoveLocal
    <2> QED
        BY <1>1, <1>3, <1>5, <2>2 DEF MoveLocal, EnvOK, LocalOK, RemoteOK
<1> QED
    BY <1>4, <1>5

LEMMA TypeRefused ==
    ASSUME EnvOK, RunOK, NEW p \in Path,
           RefusedByServer(p) \/ \E m \in Path : MoveLocalRefused(p, m)
    PROVE  EnvOK' /\ RunOK' /\ faults' = faults
<1>1. Caught(p) /\ agenda # <<>> /\ UNCHANGED <<local, remote, rev, faults>>
    BY DEF RefusedByServer, MoveLocalRefused, Self, Visits
<1> QED
    BY <1>1, CaughtType DEF EnvOK, LocalOK, RemoteOK

\* A request fails.
LEMMA TypeHttpError ==
    ASSUME EnvOK, RunOK, faults \in 0..MaxFaults, NEW p \in Path, HttpError(p)
    PROVE  EnvOK' /\ RunOK' /\ faults' \in 0..MaxFaults
<1>1. Caught(p) /\ agenda # <<>> /\ UNCHANGED <<remote, rev>>
    BY DEF HttpError, Self, Visits
<1>2. faults' \in 0..MaxFaults
    BY TreeAssumption DEF HttpError, Fault
<1>3. LocalOK(local')
    <2>1. LocalOK([local EXCEPT ![p] = [data |-> Truncated, ctime |-> 2]])
        <3>1. [data |-> Truncated, ctime |-> 2] \in LocalFile /\ Truncated # Dir
            BY Names DEF LocalFile, Times
        <3> QED
            BY <3>1, Names DEF EnvOK, LocalOK
    <2>2. \/ local' = local
          \/ \E dirs : local' \in Touched([local EXCEPT ![p] = [data |-> Truncated, ctime |-> 2]], dirs)
        BY DEF HttpError
    <2> QED
        BY <2>1, <2>2, TouchedType DEF EnvOK
<1> QED
    BY <1>1, <1>2, <1>3, CaughtType DEF EnvOK, LocalOK, RemoteOK

\* The process ends: saved, in an assertion, or killed.
LEMMA TypeEnd ==
    ASSUME EnvOK, RunOK, faults \in 0..MaxFaults,
           SaveState \/ Abort \/ \E p \in Path : Dies(p)
    PROVE  EnvOK' /\ RunOK' /\ faults' \in 0..MaxFaults
<1>1. PICK rec \in {st, index} : ExitWith(rec)
    BY DEF SaveState, Abort, Dies
<1>2. RunOK' /\ LocalOK(local)'
    BY <1>1, ExitType DEF RunOK, EnvOK
<1>3. rev' = rev /\ left' = left /\ faults' \in 0..MaxFaults
    BY TreeAssumption DEF SaveState, Abort, Dies, Fault
<1>4. RemoteOK(remote')
    <2>1. CASE remote' = remote
        BY <2>1 DEF EnvOK
    <2>2. ASSUME NEW p \in Path, NEW m \in Path, MoveCrashes(p, m), ServerMoves(p, m)
          PROVE  RemoteOK(remote')
        <3>1. p \in Files /\ m \in Files
            BY <2>2, OriginsType DEF MoveCrashes
        <3> QED
            BY <2>2, <3>1, ServerMovesType
    <2> QED
        BY <2>1, <2>2 DEF SaveState, Abort, Dies
<1> QED
    BY <1>2, <1>3, <1>4 DEF EnvOK, LocalOK, RemoteOK

LEMMA TypeStutter == ASSUME TypeOK, UNCHANGED vars PROVE TypeOK'
BY DEF TypeOK, KindsKept, vars

LEMMA TypeNext == TypeOK /\ [Next]_vars => TypeOK'
<1> SUFFICES ASSUME TypeOK, Next PROVE EnvOK' /\ RunOK' /\ faults' \in 0..MaxFaults
    BY TypeStutter DEF TypeOK, KindsKept, EnvOK, RunOK, LocalOK, RemoteOK, RecordsOK, ResOK,
        LocalFile, Entry
<1>1. EnvOK /\ RunOK /\ faults \in 0..MaxFaults
    BY Halves
<1>2. CASE Environment
    BY <1>1, <1>2, TypeEnvironment
<1>3. ASSUME NEW o \in Options, Scan(o) PROVE EnvOK' /\ RunOK' /\ faults' = faults
    BY <1>1, <1>3, TypeScan
<1>4. ASSUME NEW p \in Path, List(p) PROVE EnvOK' /\ RunOK' /\ faults' = faults
    BY <1>1, <1>4, TypeList
<1>5. ASSUME NEW p \in Path, SyncSelf(p) PROVE EnvOK' /\ RunOK' /\ faults' = faults
    BY <1>1, <1>5, TypeUpload, TypeAlone, TypeDelete, TypeDownload, TypeMove, TypeRefused
        DEF SyncSelf
<1>6. CASE SaveState \/ Abort \/ \E p \in Path : Dies(p)
    BY <1>1, <1>6, TypeEnd
<1>7. CASE StartSync
    BY <1>1, <1>7, TypeStartSync
<1>8. ASSUME NEW p \in Path, HttpError(p) PROVE EnvOK' /\ RunOK' /\ faults' \in 0..MaxFaults
    BY <1>1, <1>8, TypeHttpError
<1> QED
    BY <1>1, <1>2, <1>3, <1>4, <1>5, <1>6, <1>7, <1>8 DEF Next, RunStep, Failure

\* Every reachable state is well typed, and in it no file has the content of a
\* folder and no folder a checksum, whatever was moved or cut short: the search for
\* the origin of a move finds nothing but files (Resource.cc:478-515).
THEOREM TypeCorrect == Spec => []TypeOK
BY TypeInit, TypeNext, PTL DEF Spec

-----------------------------------------------------------------------------
(* The tree.                                                               *)

\* Whoever goes up comes to the root: no set of names has the folder of each.
LEMMA UpToRoot ==
    ASSUME NEW S \in SUBSET Path, \A p \in S : Parent[p] \in S
    PROVE  S = {}
BY TreeAssumption

LEMMA ParentType ==
    ASSUME NEW p \in Path
    PROVE  /\ Parent[p] \in Folders \cup {Root} /\ Root \notin Path
           /\ Parent[p] # Root <=> Parent[p] \in Path
BY TreeAssumption

\* What the definition of Ancestors says.
LEMMA AncestorIn ==
    ASSUME NEW p \in Path, NEW q \in Ancestors[p],
           NEW S \in SUBSET Path, Closed(S), Parent[p] \in S \cup {Root}
    PROVE  q \in S
BY DEF Ancestors

LEMMA AncestorIf ==
    ASSUME NEW p \in Path, NEW q \in Path,
           \A S \in SUBSET Path : Closed(S) /\ Parent[p] \in S \cup {Root} => q \in S
    PROVE  q \in Ancestors[p]
BY DEF Ancestors

LEMMA AncestorsClosed ==
    ASSUME NEW p \in Path
    PROVE  /\ Ancestors[p] \subseteq Folders /\ Ancestors[p] \subseteq Path
           /\ Closed(Ancestors[p]) /\ Parent[p] \in Ancestors[p] \cup {Root}
<1>1. Ancestors[p] \subseteq Path
    BY DEF Ancestors
<1>2. Ancestors[p] \subseteq Folders
    <2>1. Closed(Folders) /\ Parent[p] \in Folders \cup {Root} /\ Folders \in SUBSET Path
        BY ParentType, Names DEF Closed
    <2> QED
        BY <2>1, AncestorIn
<1>3. ASSUME NEW x \in Ancestors[p], Parent[x] # Root PROVE Parent[x] \in Ancestors[p]
    <2>1. x \in Path /\ Parent[x] \in Path
        BY <1>1, <1>3, ParentType
    <2>2. \A S \in SUBSET Path : Closed(S) /\ Parent[p] \in S \cup {Root} => Parent[x] \in S
        BY <1>3, AncestorIn DEF Closed
    <2> QED
        BY <2>1, <2>2, AncestorIf
<1>4. ASSUME Parent[p] # Root PROVE Parent[p] \in Ancestors[p]
    BY <1>4, ParentType, AncestorIf
<1> QED
    BY <1>1, <1>2, <1>3, <1>4 DEF Closed

\* In a set that has the folder of each, a name has all its ancestors.
LEMMA AncestorsWithin ==
    ASSUME NEW S \in SUBSET Path, Closed(S), NEW p \in S
    PROVE  Ancestors[p] \subseteq S
BY AncestorIn DEF Closed

LEMMA AncestorsAtRoot == ASSUME NEW p \in Path, Parent[p] = Root PROVE Ancestors[p] = {}
<1>1. Closed({}) /\ {} \in SUBSET Path
    BY DEF Closed
<1> QED
    BY <1>1, AncestorIn

LEMMA AncestorsStep ==
    ASSUME NEW p \in Path, Parent[p] # Root
    PROVE  Ancestors[p] = {Parent[p]} \cup Ancestors[Parent[p]]
<1> DEFINE f == Parent[p]
           S == {f} \cup Ancestors[f]
<1>1. f \in Path /\ f \in Ancestors[p]
    BY ParentType, AncestorsClosed
<1>2. Ancestors[p] \subseteq S
    <2>1. S \in SUBSET Path /\ Closed(S)
        BY <1>1, AncestorsClosed DEF Closed
    <2> QED
        BY <2>1, AncestorIn
<1>3. Ancestors[f] \subseteq Ancestors[p]
    BY <1>1, AncestorsClosed, AncestorsWithin
<1> QED
    BY <1>1, <1>2, <1>3

LEMMA AncestorsTransitive ==
    ASSUME NEW p \in Path, NEW q \in Ancestors[p], NEW x \in Ancestors[q]
    PROVE  x \in Ancestors[p]
BY AncestorsClosed, AncestorsWithin

\* No folder is in itself.
LEMMA AncestorsIrreflexive == ASSUME NEW p \in Path PROVE p \notin Ancestors[p]
<1> SUFFICES ASSUME p \in Ancestors[p] PROVE FALSE
    OBVIOUS
<1> DEFINE C == {x \in Ancestors[p] : p \in Ancestors[x]}
<1>1. C \in SUBSET Path /\ p \in C
    BY AncestorsClosed
<1>2. ASSUME NEW x \in C PROVE Parent[x] \in C
    <2>1. x \in Path /\ p \in Ancestors[x]
        BY <1>1
    <2>2. Parent[x] # Root
        BY <2>1, AncestorsAtRoot
    <2>3. Parent[x] \in Ancestors[p]
        BY <2>1, <2>2, AncestorsClosed DEF Closed
    <2>4. p \in Ancestors[Parent[x]]
        BY <2>1, <2>2, AncestorsStep
    <2> QED
        BY <2>3, <2>4
<1> HIDE DEF C
<1> QED
    BY <1>1, <1>2, UpToRoot

\* The folders that a name is in are in one another.
LEMMA AncestorsLinear ==
    ASSUME NEW p \in Path, NEW a \in {p} \cup Ancestors[p], NEW b \in {p} \cup Ancestors[p]
    PROVE  a = b \/ a \in Ancestors[b] \/ b \in Ancestors[a]
<1> DEFINE Forked(x) == \E u, v \in {x} \cup Ancestors[x] :
                            u # v /\ u \notin Ancestors[v] /\ v \notin Ancestors[u]
           S == {x \in Path : Forked(x)}
<1>1. ASSUME NEW x \in S PROVE Parent[x] \in S
    <2>1. PICK u \in {x} \cup Ancestors[x], v \in {x} \cup Ancestors[x] :
                u # v /\ u \notin Ancestors[v] /\ v \notin Ancestors[u]
        OBVIOUS
    <2>2. u \in Ancestors[x] /\ v \in Ancestors[x] /\ x \in Path
        BY <2>1
    <2>3. Parent[x] \in Path /\ Ancestors[x] = {Parent[x]} \cup Ancestors[Parent[x]]
        BY <2>2, AncestorsAtRoot, AncestorsStep, ParentType
    <2> QED
        BY <2>1, <2>2, <2>3
<1>2. S = {}
    <2> HIDE DEF S
    <2>1. S \in SUBSET Path
        BY DEF S
    <2> QED
        BY <1>1, <2>1, UpToRoot
<1> QED
    BY <1>2

LEMMA BelowIs ==
    ASSUME NEW p \in Path
    PROVE  /\ Below(p) \subseteq Path /\ p \in Below(p)
           /\ \A q \in Path : q \in Below(p) <=> q = p \/ p \in Ancestors[q]
BY DEF Below

\* What is in a folder is below what the folder is below.
LEMMA BelowParent ==
    ASSUME NEW p \in Path, NEW q \in Path
    PROVE  /\ Parent[q] \in Below(p) => q \in Below(p) /\ q # p
           /\ q \in Below(p) /\ q # p => Parent[q] \in Below(p) /\ Parent[q] # Root
<1>1. CASE Parent[q] = Root
    BY <1>1, ParentType, BelowIs, AncestorsAtRoot
<1>2. CASE Parent[q] # Root
    <2>1. Parent[q] \in Path /\ Ancestors[q] = {Parent[q]} \cup Ancestors[Parent[q]]
        BY <1>2, ParentType, AncestorsStep
    <2>2. Parent[q] \in Below(p) <=> p \in Ancestors[q]
        BY <2>1, BelowIs
    <2> QED
        BY <1>2, <2>2, BelowIs, AncestorsIrreflexive
<1> QED
    BY <1>1, <1>2

\* A file has nothing below it.
LEMMA FileIsLeaf ==
    ASSUME NEW p \in Files
    PROVE  /\ Children(p) = {} /\ Below(p) = {p}
           /\ \A q \in Path : Parent[q] # p
<1>1. \A q \in Path : Parent[q] # p
    BY ParentType, Names
<1>2. \A q \in Path : p \notin Ancestors[q]
    BY AncestorsClosed, Names
<1> QED
    BY <1>1, <1>2, Names DEF Children, Below

\* A tree to which a name is added, from which a folder is cut off, or a file.
LEMMA ClosedAdd ==
    ASSUME NEW S \in SUBSET Path, Closed(S), NEW p \in Path, Parent[p] \in S \cup {Root}
    PROVE  Closed(S \cup {p})
BY DEF Closed

LEMMA ClosedCut ==
    ASSUME NEW S \in SUBSET Path, Closed(S), NEW p \in Path
    PROVE  Closed(S \ Below(p))
<1>1. ASSUME NEW q \in S \ Below(p) PROVE Parent[q] \in (S \ Below(p)) \cup {Root}
    BY BelowParent DEF Closed
<1> QED
    BY <1>1 DEF Closed

LEMMA ClosedWithout ==
    ASSUME NEW S \in SUBSET Path, Closed(S), NEW p \in Files
    PROVE  Closed(S \ {p})
<1>1. \A q \in S \ {p} : Parent[q] # p
    BY FileIsLeaf
<1> QED
    BY <1>1 DEF Closed

-----------------------------------------------------------------------------
(* The groups of siblings still to be walked.                              *)

Items(s) == UNION {s[i] : i \in DOMAIN s}

Disjoint(s) == \A i, j \in DOMAIN s : i # j => s[i] \cap s[j] = {}

LEMMA ItemsOf ==
    ASSUME NEW s \in Seq(SUBSET Path)
    PROVE  /\ Items(s) \subseteq Path
           /\ \A i \in 1..Len(s) : s[i] \subseteq Items(s)
           /\ \A q \in Items(s) : \E i \in 1..Len(s) : q \in s[i]
<1>1. DOMAIN s = 1..Len(s) /\ \A i \in 1..Len(s) : s[i] \in SUBSET Path
    OBVIOUS
<1> QED
    BY <1>1 DEF Items

LEMMA ItemsConcat ==
    ASSUME NEW s \in Seq(SUBSET Path), NEW t \in Seq(SUBSET Path)
    PROVE  /\ s \o t \in Seq(SUBSET Path)
           /\ Items(s \o t) = Items(s) \cup Items(t)
           /\ /\ Disjoint(s) /\ Disjoint(t) /\ Items(s) \cap Items(t) = {}
              => Disjoint(s \o t)
<1>1. /\ DOMAIN (s \o t) = 1..(Len(s) + Len(t)) /\ Len(s) \in Nat /\ Len(t) \in Nat
      /\ DOMAIN s = 1..Len(s) /\ DOMAIN t = 1..Len(t)
      /\ \A i \in 1..Len(s) : (s \o t)[i] = s[i]
      /\ \A i \in (Len(s) + 1)..(Len(s) + Len(t)) : (s \o t)[i] = t[i - Len(s)]
    OBVIOUS
<1>2. \A i \in 1..Len(t) : (s \o t)[i + Len(s)] = t[i] /\ i + Len(s) \in DOMAIN (s \o t)
    BY <1>1
<1>3. Items(s \o t) \subseteq Items(s) \cup Items(t)
    BY <1>1 DEF Items
<1>4. Items(s) \cup Items(t) \subseteq Items(s \o t)
    <2>1. Items(s) \subseteq Items(s \o t)
        BY <1>1 DEF Items
    <2>2. Items(t) \subseteq Items(s \o t)
        BY <1>2, <1>1 DEF Items
    <2> QED
        BY <2>1, <2>2
<1>5. ASSUME Disjoint(s), Disjoint(t), Items(s) \cap Items(t) = {},
             NEW i \in DOMAIN (s \o t), NEW j \in DOMAIN (s \o t), i # j
      PROVE  (s \o t)[i] \cap (s \o t)[j] = {}
    <2>1. \A x \in 1..Len(s), y \in 1..Len(t) : s[x] \cap t[y] = {}
        <3>1. /\ \A x \in 1..Len(s) : s[x] \subseteq Items(s)
              /\ \A y \in 1..Len(t) : t[y] \subseteq Items(t)
            BY ItemsOf
        <3> QED
            BY <1>5, <3>1
    <2>2. i \in Nat /\ j \in Nat /\ i \in 1..(Len(s) + Len(t)) /\ j \in 1..(Len(s) + Len(t))
        BY <1>1
    <2>3. CASE i <= Len(s) /\ j <= Len(s)
        BY <1>1, <1>5, <2>2, <2>3 DEF Disjoint
    <2>4. CASE i > Len(s) /\ j > Len(s)
        <3>1. i - Len(s) \in 1..Len(t) /\ j - Len(s) \in 1..Len(t) /\ i - Len(s) # j - Len(s)
            BY <1>1, <1>5, <2>2, <2>4
        <3>2. (s \o t)[i] = t[i - Len(s)] /\ (s \o t)[j] = t[j - Len(s)]
            BY <1>1, <2>2, <2>4
        <3> QED
            BY <1>1, <1>5, <3>1, <3>2 DEF Disjoint
    <2>5. CASE i <= Len(s) /\ j > Len(s)
        <3>1. j - Len(s) \in 1..Len(t) /\ i \in 1..Len(s)
            BY <1>1, <2>2, <2>5
        <3>2. (s \o t)[i] = s[i] /\ (s \o t)[j] = t[j - Len(s)]
            BY <1>1, <2>2, <2>5
        <3> QED
            BY <2>1, <3>1, <3>2
    <2>6. CASE i > Len(s) /\ j <= Len(s)
        <3>1. i - Len(s) \in 1..Len(t) /\ j \in 1..Len(s)
            BY <1>1, <2>2, <2>6
        <3>2. (s \o t)[j] = s[j] /\ (s \o t)[i] = t[i - Len(s)]
            BY <1>1, <2>2, <2>6
        <3> QED
            BY <2>1, <3>1, <3>2
    <2> QED
        BY <1>1, <2>2, <2>3, <2>4, <2>5, <2>6
<1>6. s \o t \in Seq(SUBSET Path)
    OBVIOUS
<1> QED
    BY <1>3, <1>4, <1>5, <1>6 DEF Disjoint

LEMMA ItemsGroup ==
    ASSUME NEW g \in SUBSET Path
    PROVE  Items(Group(g)) = g /\ Disjoint(Group(g)) /\ Group(g) \in Seq(SUBSET Path)
<1>1. CASE g = {}
    BY <1>1 DEF Group, Items, Disjoint
<1>2. CASE g # {}
    <2>1. Group(g) = <<g>> /\ DOMAIN <<g>> = {1} /\ <<g>>[1] = g
        BY <1>2 DEF Group
    <2> QED
        BY <2>1 DEF Items, Disjoint
<1> QED
    BY <1>1, <1>2

\* The children of a folder that this run knows.
Known(d) == {q \in Children(d) : res[q].state # "unknown"}

LEMMA ItemsWalk ==
    ASSUME NEW d
    PROVE  Items(Walk(d)) = Known(d) /\ Disjoint(Walk(d)) /\ Walk(d) \in Seq(SUBSET Path)
<1> DEFINE here  == {q \in Known(d) : res[q].exists}
           gone  == {q \in Known(d) \ here : Leftover(q)}
           other == Known(d) \ (here \cup gone)
           s     == Group(here) \o Group(gone)
<1>1. /\ here \in SUBSET Path /\ gone \in SUBSET Path /\ other \in SUBSET Path
      /\ here \cap gone = {} /\ (here \cup gone) \cap other = {}
      /\ (here \cup gone) \cup other = Known(d)
    BY DEF Known, Children
<1>2. Walk(d) = s \o Group(other)
    BY DEF Walk, Known
<1> HIDE DEF here, gone, other
<1>3. s \in Seq(SUBSET Path) /\ Items(s) = here \cup gone /\ Disjoint(s)
    BY <1>1, ItemsGroup, ItemsConcat
<1> HIDE DEF s
<1>4. /\ Group(other) \in Seq(SUBSET Path)
      /\ Items(Group(other)) = other /\ Disjoint(Group(other))
    BY <1>1, ItemsGroup
<1>5. /\ Walk(d) \in Seq(SUBSET Path) /\ Disjoint(Walk(d))
      /\ Items(Walk(d)) = Items(s) \cup Items(Group(other))
    BY <1>1, <1>2, <1>3, <1>4, ItemsConcat
<1> QED
    BY <1>1, <1>3, <1>4, <1>5

Queued  == Items(agenda)
Pending == UNION {Below(p) : p \in Queued}

\* What is still to be walked are subtrees apart from one another.
Apart ==
    /\ Disjoint(agenda)
    /\ \A p, q \in Queued : p \notin Ancestors[q]

LEMMA ItemsRest ==
    ASSUME agenda \in Seq(SUBSET Path), NEW p, Visits(p), Disjoint(agenda)
    PROVE  /\ Items(Rest(p)) = Queued \ {p} /\ Disjoint(Rest(p))
           /\ Rest(p) \in Seq(SUBSET Path) /\ p \in Queued
<1> DEFINE h == Head(agenda)
           t == Tail(agenda)
<1>1. h \in SUBSET Path /\ t \in Seq(SUBSET Path) /\ p \in h /\ agenda = <<h>> \o t
      /\ agenda # <<>>
    BY DEF Visits
<1>2. /\ Len(agenda) \in Nat /\ 1 \in DOMAIN agenda /\ agenda[1] = h
      /\ DOMAIN agenda = 1..Len(agenda) /\ DOMAIN t = 1..(Len(agenda) - 1)
      /\ \A i \in 1..(Len(agenda) - 1) : t[i] = agenda[i + 1]
    BY <1>1
<1>3. \A i \in DOMAIN t : i + 1 \in DOMAIN agenda /\ i + 1 # 1
    BY <1>2
<1>4. Items(t) \cap h = {}
    BY <1>2, <1>3 DEF Items, Disjoint
<1>5. Disjoint(t)
    <2> SUFFICES ASSUME NEW i \in DOMAIN t, NEW j \in DOMAIN t, i # j
                 PROVE  t[i] \cap t[j] = {}
        BY DEF Disjoint
    <2>1. i + 1 \in DOMAIN agenda /\ j + 1 \in DOMAIN agenda /\ i + 1 # j + 1
        BY <1>2
    <2> QED
        BY <1>2, <2>1 DEF Disjoint
<1>6. Queued = h \cup Items(t)
    <2>1. <<h>> \in Seq(SUBSET Path) /\ Items(<<h>>) = h
        BY <1>1, ItemsGroup DEF Group
    <2> QED
        BY <1>1, <2>1, ItemsConcat DEF Queued
<1> HIDE DEF h, t
<1>7. CASE h = {p}
    BY <1>1, <1>4, <1>5, <1>6, <1>7 DEF Rest, h, t
<1>8. CASE h # {p}
    <2> DEFINE g == h \ {p}
               s == <<g>>
    <2>1. g # {} /\ g \in SUBSET Path
        BY <1>1, <1>8
    <2>2. Rest(p) = s \o t
        BY <1>8 DEF Rest, h, t
    <2>3. s \in Seq(SUBSET Path) /\ Items(s) = g /\ Disjoint(s)
        BY <2>1, ItemsGroup DEF Group
    <2>4. g \cap Items(t) = {} /\ g \cup Items(t) = Queued \ {p}
        BY <1>1, <1>4, <1>6
    <2>5. t \in Seq(SUBSET Path) /\ Items(s) \cap Items(t) = {}
        BY <1>1, <2>3, <2>4
    <2> HIDE DEF g, s
    <2>6. /\ Rest(p) \in Seq(SUBSET Path) /\ Disjoint(Rest(p))
          /\ Items(Rest(p)) = Items(s) \cup Items(t)
        BY <1>5, <2>2, <2>3, <2>5, ItemsConcat
    <2> QED
        BY <1>1, <1>6, <2>3, <2>4, <2>6
<1> QED
    BY <1>7, <1>8

LEMMA QueuedType ==
    ASSUME agenda \in Seq(SUBSET Path)
    PROVE  Queued \subseteq Path /\ Queued \subseteq Pending /\ Pending \subseteq Path
<1>1. Queued \subseteq Path
    BY ItemsOf DEF Queued
<1>2. \A p \in Queued : p \in Below(p) /\ Below(p) \subseteq Path
    BY <1>1, BelowIs
<1> QED
    BY <1>1, <1>2 DEF Pending

\* Two subtrees that are apart have nothing in common.
LEMMA BelowApart ==
    ASSUME NEW p \in Path, NEW q \in Path, p # q, p \notin Ancestors[q], q \notin Ancestors[p]
    PROVE  Below(p) \cap Below(q) = {}
<1> SUFFICES ASSUME NEW x \in Below(p), x \in Below(q) PROVE FALSE
    OBVIOUS
<1>1. x \in Path /\ p \in {x} \cup Ancestors[x] /\ q \in {x} \cup Ancestors[x]
    BY BelowIs
<1> QED
    BY <1>1, AncestorsLinear

\* SyncSelf is through with p, and does not go on with its children.
LEMMA AfterLeaf ==
    ASSUME agenda \in Seq(SUBSET Path), Apart, NEW p, Visits(p), agenda' = Rest(p)
    PROVE  /\ Apart' /\ Queued' = Queued \ {p}
           /\ Pending' \subseteq Pending \ Below(p) /\ p \in Queued
<1>1. Queued' = Queued \ {p} /\ Disjoint(agenda') /\ p \in Queued
    BY ItemsRest DEF Apart, Queued
<1>2. Apart'
    BY <1>1 DEF Apart
<1>3. \A q \in Queued' : Below(q) \cap Below(p) = {}
    BY <1>1, QueuedType, BelowApart DEF Apart
<1>4. Pending' = UNION {Below(q) : q \in Queued'}
    BY DEF Pending, Below
<1> QED
    BY <1>1, <1>2, <1>3, <1>4 DEF Pending

\* SyncSelf is through with p, whose children follow.
LEMMA AfterWalk ==
    ASSUME agenda \in Seq(SUBSET Path), Apart, NEW p, Visits(p), agenda' = Walk(p) \o Rest(p)
    PROVE  /\ Apart' /\ Queued' = Known(p) \cup (Queued \ {p})
           /\ Pending' \subseteq Pending \ {p} /\ p \in Queued
<1>1. /\ Items(Walk(p)) = Known(p) /\ Disjoint(Walk(p)) /\ Walk(p) \in Seq(SUBSET Path)
      /\ Items(Rest(p)) = Queued \ {p} /\ Disjoint(Rest(p)) /\ Rest(p) \in Seq(SUBSET Path)
      /\ p \in Queued
    BY ItemsWalk, ItemsRest DEF Apart
<1>2. Queued \subseteq Path /\ p \in Path
    BY <1>1, QueuedType
<1>3. ASSUME NEW q \in Known(p)
      PROVE  /\ q \in Path /\ Parent[q] = p /\ Ancestors[q] = {p} \cup Ancestors[p]
             /\ q \in Below(p) /\ q # p
    <2>1. q \in Path /\ Parent[q] = p
        BY DEF Known, Children
    <2> QED
        BY <1>2, <2>1, ParentType, AncestorsStep, AncestorsIrreflexive, BelowIs
<1>4. Known(p) \cap Queued = {}
    BY <1>1, <1>3 DEF Apart
<1>5. Queued' = Known(p) \cup (Queued \ {p}) /\ Disjoint(agenda')
    <2>1. Items(Walk(p)) \cap Items(Rest(p)) = {}
        BY <1>1, <1>4
    <2>2. /\ Disjoint(Walk(p) \o Rest(p))
          /\ Items(Walk(p) \o Rest(p)) = Items(Walk(p)) \cup Items(Rest(p))
        BY <1>1, <2>1, ItemsConcat
    <2> QED
        BY <1>1, <2>2 DEF Queued
<1>6. ASSUME NEW u \in Queued', NEW v \in Queued' PROVE u \notin Ancestors[v]
    <2>1. CASE v \in Known(p) /\ u \in Known(p)
        <3>1. u \notin Ancestors[p]
            <4>1. p \in Ancestors[u]
                BY <1>3, <2>1
            <4> QED
                BY <4>1, <1>2, <1>3, <2>1, AncestorsTransitive, AncestorsIrreflexive
        <3> QED
            BY <1>3, <2>1, <3>1
    <2>2. CASE v \in Known(p) /\ u \in Queued \ {p}
        BY <1>1, <1>3, <2>2 DEF Apart
    <2>3. CASE v \in Queued \ {p} /\ u \in Known(p)
        <3>1. p \in Ancestors[u] /\ p \notin Ancestors[v] /\ v \in Path
            BY <1>1, <1>2, <1>3, <2>3 DEF Apart
        <3> QED
            BY <3>1, AncestorsTransitive
    <2>4. CASE v \in Queued \ {p} /\ u \in Queued \ {p}
        BY <2>4 DEF Apart
    <2> QED
        BY <1>5, <2>1, <2>2, <2>3, <2>4
<1>7. Pending' \subseteq Pending \ {p}
    <2>1. ASSUME NEW q \in Known(p) PROVE Below(q) \subseteq Below(p) \ {p}
        <3>1. ASSUME NEW x \in Below(q) PROVE x \in Below(p)
            <4>1. x \in Path /\ (x = q \/ q \in Ancestors[x]) /\ p \in Ancestors[q]
                BY <1>3, BelowIs
            <4>2. p \in Ancestors[x]
                BY <4>1, AncestorsTransitive
            <4> QED
                BY <1>2, <4>1, <4>2, BelowIs
        <3>2. p \notin Below(q)
            <4>1. p \in Ancestors[q] /\ q \in Path
                BY <1>3
            <4> QED
                BY <1>2, <1>3, <4>1, BelowIs, AncestorsTransitive, AncestorsIrreflexive
        <3> QED
            BY <3>1, <3>2
    <2>2. ASSUME NEW q \in Queued \ {p} PROVE Below(q) \subseteq Pending \ {p}
        <3>1. p \notin Below(q)
            BY <1>1, <1>2, <2>2, BelowIs DEF Apart
        <3> QED
            BY <2>2, <3>1 DEF Pending
    <2>3. Pending' = UNION {Below(q) : q \in Queued'}
        BY DEF Pending, Below
    <2>4. Below(p) \subseteq Pending
        BY <1>1 DEF Pending
    <2> QED
        BY <1>5, <2>1, <2>2, <2>3, <2>4
<1> QED
    BY <1>1, <1>5, <1>6, <1>7 DEF Apart

-----------------------------------------------------------------------------
(* What the disk, the server, the resources and the walk have to do with   *)
(* one another.                                                            *)

\* What each side holds.
OnDisk   == {p \in Path : Here(p)}
OnServer == {p \in Path : There(p)}

\* Each is a tree, and what the server holds has an entity tag.
DiskInv   == Closed(OnDisk)
ServerInv == Closed(OnServer) /\ \A p \in OnServer : remote[p].etag # NoETag

\* The verdicts on a folder, and those on one whose children can be known.
FolderOK(r) ==
    IF r.exists THEN r.state \in {"remote_deleted", "local_new", "sync"}
    ELSE r.state \in {"unknown", "both_deleted", "remote_new", "local_deleted", "sync"}
Opened(r) == r.exists \/ r.state \in {"remote_new", "local_deleted", "sync"}

KnownInv ==
    /\ \A f \in Folders : FolderOK(res[f])
    /\ \A q \in Path : res[q].state # "unknown" /\ Parent[q] # Root => Opened(res[Parent[q]])

\* The verdicts of the listing. Before the walk they are those on what was listed.
Listed == {"sync", "remote_new", "remote_changed", "local_changed", "local_deleted"}

ScannedOK(q) ==
    /\ res[q].exists <=> Here(q)
    /\ res[q].etag # NoETag <=> There(q) /\ q \notin unlisted
    /\ res[q].etag # NoETag <=> res[q].state \in Listed
    /\ q \in unlisted => There(q)
    /\ res[q].state \in {"local_new", "remote_deleted", "remote_changed", "local_changed"}
       => res[q].exists
    /\ res[q].state \in {"unknown", "both_deleted", "remote_new", "local_deleted"}
       => ~res[q].exists
    /\ q \in Folders /\ res[q].state = "sync" => res[q].exists
    /\ res[q].state # "unknown" /\ ~FolderHere(q) => res[q].etag # NoETag
ScannedInv == \A q \in Path : ScannedOK(q)

\* What the verdict on q still says of both sides until the walk has come to q.
ToWalk(q) ==
    /\ res[q].state = "local_new" => ~There(q)
    /\ res[q].state = "local_changed" => There(q)
    /\ res[q].state = "remote_changed" => FolderHere(q)
    /\ q \in Folders =>
        /\ res[q].exists => Here(q)
        /\ res[q].state \in {"sync", "remote_new"} \/ res[q].etag # NoETag => There(q)
        /\ res[q].state = "sync" => res[q].exists

\* A folder whose children follow is on the server if it has an ID, and on the disk
\* unless it was skipped.
Walked(f) ==
    /\ res[f].etag # NoETag \/ res[f].state = "sync" => There(f)
    /\ \/ Here(f)
       \/ res[f].state = "remote_new" /\ opt \in {"no-remote-new", "upload-only"}

WalkInv ==
    /\ Apart
    /\ \A q \in Queued : Parent[q] # Root => Walked(Parent[q])
    /\ \A q \in Pending : ToWalk(q)

TreeInv ==
    /\ DiskInv /\ ServerInv /\ KnownInv
    /\ pc = "scanned" => ScannedInv
    /\ pc = "syncing" => WalkInv

-----------------------------------------------------------------------------
\* SyncSelf is through with p, which has changed nothing but p itself, and the
\* children follow.
LEMMA WalkKept ==
    ASSUME agenda \in Seq(SUBSET Path), WalkInv, NEW p, Visits(p),
           agenda' = Walk(p) \o Rest(p), opt' = opt,
           \A q \in Path \ {p} : /\ res'[q] = res[q]
                                 /\ There(q)' <=> There(q)
                                 /\ Here(q)' <=> Here(q),
           p \in Folders /\ Here(p) => Here(p)',
           p \in Folders /\ Known(p) # {} => Walked(p)'
    PROVE  WalkInv'
<1>1. /\ Apart' /\ Queued' = Known(p) \cup (Queued \ {p})
      /\ Pending' \subseteq Pending \ {p} /\ p \in Queued
    BY AfterWalk DEF WalkInv
<1>2. Queued \subseteq Path /\ Pending \subseteq Path /\ p \in Path
    BY <1>1, QueuedType
<1>3. ASSUME NEW q \in Path \ {p}, ToWalk(q) PROVE ToWalk(q)'
    <2>1. FolderHere(q) => FolderHere(q)'
        <3>1. q \in Path
            OBVIOUS
        <3>2. Parent[q] # Root => Parent[q] \in Folders /\ Parent[q] \in Path
            BY <3>1, ParentType
        <3> QED
            BY <3>2 DEF FolderHere
    <2> QED
        BY <1>3, <2>1 DEF ToWalk
<1>4. ASSUME NEW q \in Queued \ {p}, Parent[q] # Root PROVE Walked(Parent[q])'
    <2>1. q \in Path /\ Parent[q] \in Path /\ Parent[q] \in Ancestors[q]
        BY <1>2, <1>4, ParentType, AncestorsClosed
    <2>2. Parent[q] # p /\ Walked(Parent[q])
        BY <1>1, <1>4, <2>1 DEF WalkInv, Apart
    <2> QED
        BY <2>1, <2>2 DEF Walked
<1>5. ASSUME NEW q \in Known(p), Parent[q] # Root PROVE Walked(Parent[q])'
    <2>1. Parent[q] = p /\ p \in Folders
        BY <1>5, ParentType DEF Known, Children
    <2> QED
        BY <1>5, <2>1
<1> QED
    BY <1>1, <1>2, <1>3, <1>4, <1>5 DEF WalkInv

\* The children of p do not follow; what is below p may have changed, and files may
\* have been moved away.
LEMMA LeafKept ==
    ASSUME agenda \in Seq(SUBSET Path), WalkInv, NEW p, Visits(p),
           agenda' = Rest(p), opt' = opt,
           \A q \in Path \ Below(p) :
                \/ q \in Files /\ res'[q].state = "both_deleted"
                \/ /\ res'[q] = res[q]
                   /\ There(q)' <=> There(q)
                   /\ Here(q)' <=> Here(q)
    PROVE  WalkInv'
<1>1. /\ Apart' /\ Queued' = Queued \ {p}
      /\ Pending' \subseteq Pending \ Below(p) /\ p \in Queued
    BY AfterLeaf DEF WalkInv
<1>2. Queued \subseteq Path /\ Pending \subseteq Path /\ p \in Path
    BY <1>1, QueuedType
<1>3. ASSUME NEW q \in Path \ Below(p), Parent[q] # Root
      PROVE  /\ Parent[q] \in Path /\ Parent[q] \in Folders
             /\ res'[Parent[q]] = res[Parent[q]]
             /\ There(Parent[q])' <=> There(Parent[q])
             /\ Here(Parent[q])' <=> Here(Parent[q])
    BY <1>2, <1>3, ParentType, BelowParent, Names
<1>4. ASSUME NEW q \in Path \ Below(p), ToWalk(q) PROVE ToWalk(q)'
    <2>1. FolderHere(q) => FolderHere(q)'
        BY <1>3 DEF FolderHere
    <2>2. CASE q \in Files /\ res'[q].state = "both_deleted"
        BY <2>2, Names DEF ToWalk
    <2>3. CASE /\ res'[q] = res[q]
               /\ There(q)' <=> There(q)
               /\ Here(q)' <=> Here(q)
        BY <1>4, <2>1, <2>3 DEF ToWalk
    <2> QED
        BY <2>2, <2>3
<1>5. ASSUME NEW q \in Queued \ {p}, Parent[q] # Root PROVE Walked(Parent[q])'
    <2>1. q \in Path \ Below(p)
        BY <1>1, <1>2, <1>5, BelowIs DEF WalkInv, Apart
    <2>2. Walked(Parent[q])
        BY <1>5 DEF WalkInv
    <2> QED
        BY <1>3, <1>5, <2>1, <2>2 DEF Walked
<1> QED
    BY <1>1, <1>2, <1>4, <1>5 DEF WalkInv

\* A verdict that has been carried out.
LEMMA KnownKept ==
    ASSUME KnownInv,
           \A q \in Path : \/ res'[q] = res[q]
                           \/ /\ res'[q].exists = res[q].exists /\ res[q].state # "unknown"
                              /\ \/ res'[q].state = "sync"
                                 \/ res'[q].state = "both_deleted" /\ q \in Files
    PROVE  KnownInv'
<1>1. ASSUME NEW f \in Folders PROVE FolderOK(res[f])'
    BY Names DEF KnownInv, FolderOK
<1>2. ASSUME NEW q \in Path, res'[q].state # "unknown", Parent[q] # Root
      PROVE  Opened(res[Parent[q]])'
    <2>1. Parent[q] \in Path /\ Parent[q] \notin Files
        BY <1>2, ParentType, Names
    <2>2. Opened(res[Parent[q]])
        BY <1>2 DEF KnownInv
    <2> QED
        BY <2>1, <2>2 DEF Opened
<1> QED
    BY <1>1, <1>2 DEF KnownInv

\* A folder that is to be walked.
LEMMA FolderToWalk ==
    ASSUME agenda \in Seq(SUBSET Path), KnownInv, pc = "syncing" => WalkInv, NEW p, Visits(p)
    PROVE  /\ WalkInv /\ ToWalk(p) /\ p \in Path
           /\ Parent[p] # Root => Walked(Parent[p])
           /\ p \in Folders => FolderOK(res[p])
           /\ p \notin Folders => p \in Files
<1>1. WalkInv
    BY DEF Visits
<1>2. p \in Queued /\ p \in Pending /\ p \in Path
    BY <1>1, ItemsRest, QueuedType DEF WalkInv, Apart
<1> QED
    BY <1>1, <1>2, Names DEF WalkInv, KnownInv

-----------------------------------------------------------------------------
(* Steps that change one of the sides.                                     *)

\* Data of the disk, without regard to the ctimes.
LEMMA TouchedData ==
    ASSUME NEW f, NEW dirs, NEW g \in Touched(f, dirs), NEW q \in Path, f[q] \in LocalFile
    PROVE  g[q].data = f[q].data
<1>1. PICK T : g = Stamped(f, T, 3)
    BY DEF Touched
<1> QED
    BY <1>1 DEF Stamped, LocalFile

LEMMA StampedData ==
    ASSUME NEW f, NEW dirs, NEW t, NEW q \in Path, f[q] \in LocalFile
    PROVE  Stamped(f, dirs, t)[q].data = f[q].data
BY DEF Stamped, LocalFile

\* One name is there now, or one file is not.
LEMMA ClosedChange ==
    ASSUME NEW S \in SUBSET Path, Closed(S), NEW p \in Path, NEW T \in SUBSET Path,
           \A q \in Path \ {p} : q \in T <=> q \in S,
           p \in T => p \in S \/ Parent[p] \in S \cup {Root},
           p \in S /\ p \notin T => p \in Files
    PROVE  Closed(T)
<1>1. CASE p \in T
    <2>1. T = S \cup {p}
        BY <1>1
    <2>2. Parent[p] \in S \cup {Root}
        BY <1>1 DEF Closed
    <2> QED
        BY <2>1, <2>2, ClosedAdd
<1>2. CASE p \notin T /\ p \in S
    <2>1. T = S \ {p} /\ p \in Files
        BY <1>2
    <2> QED
        BY <2>1, ClosedWithout
<1>3. CASE p \notin T /\ p \notin S
    <2>1. T = S
        BY <1>3
    <2> QED
        BY <2>1
<1> QED
    BY <1>1, <1>2, <1>3

LEMMA DiskChange ==
    ASSUME DiskInv, NEW p \in Path,
           \A q \in Path \ {p} : Here(q)' <=> Here(q),
           Here(p)' => Here(p) \/ FolderHere(p), Here(p) /\ ~Here(p)' => p \in Files
    PROVE  DiskInv'
<1>1. FolderHere(p) => Parent[p] \in OnDisk \cup {Root}
    BY ParentType DEF FolderHere, OnDisk
<1> QED
    BY <1>1, ClosedChange DEF DiskInv, OnDisk

LEMMA DiskCut ==
    ASSUME DiskInv, NEW p \in Path,
           \A q \in Path : Here(q)' <=> Here(q) /\ q \notin Below(p)
    PROVE  DiskInv'
<1>1. OnDisk' = OnDisk \ Below(p) /\ OnDisk \in SUBSET Path
    BY DEF OnDisk
<1> QED
    BY <1>1, ClosedCut DEF DiskInv

LEMMA ServerChange ==
    ASSUME ServerInv, NEW p \in Path,
           \A q \in Path \ {p} : remote'[q] = remote[q],
           There(p)' => There(p) \/ FolderThere(p), There(p) /\ ~There(p)' => p \in Files,
           There(p)' => remote'[p].etag # NoETag
    PROVE  ServerInv'
<1>1. FolderThere(p) => Parent[p] \in OnServer \cup {Root}
    BY ParentType DEF FolderThere, OnServer
<1>2. \A q \in Path \ {p} : q \in OnServer' <=> q \in OnServer
    BY DEF OnServer, There
<1>3. Closed(OnServer)'
    BY <1>1, <1>2, ClosedChange DEF ServerInv, OnServer
<1> QED
    BY <1>2, <1>3 DEF ServerInv, OnServer

LEMMA ServerCut ==
    ASSUME ServerInv, NEW p \in Path,
           remote' = [q \in Path |-> IF q \in Below(p) THEN NoEntry ELSE remote[q]]
    PROVE  ServerInv' /\ \A q \in Path \ Below(p) : There(q)' <=> There(q)
<1>1. OnServer' = OnServer \ Below(p) /\ OnServer \in SUBSET Path
    BY NoneType DEF OnServer, There
<1>2. Closed(OnServer)'
    BY <1>1, ClosedCut DEF ServerInv
<1> QED
    BY <1>1, <1>2 DEF ServerInv, There

\* A file that is moved on the server.
LEMMA ServerMove ==
    ASSUME RemoteOK(remote), ServerInv, NEW p \in Files, NEW m \in Files, There(m), p # m,
           remote' = [remote EXCEPT ![p] = remote[m], ![m] = NoEntry], FolderThere(p)
    PROVE  ServerInv'
<1>1. /\ \A q \in Path \ {p, m} : remote'[q] = remote[q]
      /\ remote'[p] = remote[m] /\ remote'[m] = NoEntry /\ p \in Path /\ m \in Path
    BY Names DEF RemoteOK
<1>2. OnServer' = (OnServer \cup {p}) \ {m}
    BY <1>1, NoneType DEF OnServer, There
<1>3. Parent[p] \in OnServer \cup {Root}
    BY <1>1, ParentType DEF FolderThere, OnServer
<1>4. Closed(OnServer)'
    <2>1. Closed(OnServer \cup {p}) /\ OnServer \cup {p} \in SUBSET Path
        BY <1>1, <1>3, ClosedAdd DEF ServerInv, OnServer
    <2> QED
        BY <1>2, <2>1, ClosedWithout
<1>5. ASSUME NEW q \in OnServer' PROVE remote'[q].etag # NoETag
    <2>1. q \in Path /\ (q = p \/ q \in OnServer \ {p, m}) /\ m \in OnServer
        BY <1>1, <1>2 DEF OnServer
    <2> QED
        BY <1>1, <2>1 DEF ServerInv
<1> QED
    BY <1>4, <1>5 DEF ServerInv

LEMMA ServerGone ==
    ASSUME RemoteOK(remote), ServerInv, NEW m \in Files,
           remote' = [remote EXCEPT ![m] = NoEntry]
    PROVE  ServerInv'
<1>1. /\ \A q \in Path \ {m} : remote'[q] = remote[q]
      /\ remote'[m] = NoEntry /\ m \in Path
    BY Names DEF RemoteOK
<1>2. ~There(m)'
    BY <1>1, NoneType DEF There
<1> QED
    BY <1>1, <1>2, ServerChange

-----------------------------------------------------------------------------
(* The user and the other clients.                                         *)

LEMMA TreeEnvironment ==
    ASSUME EnvOK, DiskInv, ServerInv, Environment
    PROVE  DiskInv' /\ ServerInv'
<1>1. ASSUME UNCHANGED local PROVE DiskInv'
    BY <1>1 DEF DiskInv, OnDisk, Here, Closed
<1>2. ASSUME UNCHANGED remote PROVE ServerInv'
    BY <1>2 DEF ServerInv, OnServer, There, Closed
<1>3. \A q \in Path : local[q] \in LocalFile
    BY DEF EnvOK, LocalOK
<1>4. ASSUME NEW p \in Path, NEW c \in Contents(p), LocalWrite(p, c) PROVE DiskInv'
    <2> DEFINE f == [local EXCEPT ![p].data = c]
    <2>1. c \in Checksums \cup {Dir}
        BY Names DEF Contents
    <2>2. \A q \in Path : f[q] \in LocalFile /\ f[q].data = IF q = p THEN c ELSE local[q].data
        BY <1>3, <2>1 DEF EnvOK, LocalOK, LocalFile
    <2>3. PICK dirs : local' = Stamped(f, dirs, 1)
        BY <1>4 DEF LocalWrite
    <2> HIDE DEF f
    <2>4. \A q \in Path : local'[q].data = f[q].data
        BY <2>2, <2>3, StampedData
    <2>5. c # Nothing
        BY ContentAssumption, Names DEF Contents
    <2>6. /\ \A q \in Path \ {p} : Here(q)' <=> Here(q)
          /\ Here(p)'
        BY <2>2, <2>4, <2>5 DEF Here
    <2>7. FolderHere(p)
        BY <1>4 DEF LocalWrite
    <2> QED
        BY <2>6, <2>7, DiskChange
<1>5. ASSUME NEW p \in Path, LocalDelete(p) PROVE DiskInv'
    <2>1. \A q \in Path : Stamped(local, {Parent[p]}, 1)[q].data = local[q].data
        BY <1>3, StampedData
    <2>2. \A q \in Path : local'[q].data = IF q \in Below(p) THEN Nothing ELSE local[q].data
        BY <1>5, <2>1, NoneType DEF LocalDelete
    <2> QED
        BY <2>2, DiskCut DEF Here
<1>6. ASSUME NEW p \in Files, NEW q \in Files, LocalMove(p, q) PROVE DiskInv'
    <2> DEFINE f == [local EXCEPT ![q].data = local[p].data, ![p] = NoFile]
    <2>1. p \in Path /\ q \in Path /\ p # q
        BY <1>6, Names DEF LocalMove
    <2>2. /\ \A x \in Path : f[x] \in LocalFile
          /\ \A x \in Path \ {p, q} : f[x].data = local[x].data
          /\ f[q].data = local[p].data /\ f[p].data = Nothing
        BY <1>3, <2>1, NoneType DEF EnvOK, LocalOK, LocalFile
    <2>3. PICK dirs : local' = Stamped(f, dirs, 1)
        BY <1>6 DEF LocalMove
    <2> HIDE DEF f
    <2>4. \A x \in Path : local'[x].data = f[x].data
        BY <2>2, <2>3, StampedData
    <2>5. OnDisk' = (OnDisk \cup {q}) \ {p}
        <3>1. /\ \A x \in Path \ {p, q} : Here(x)' <=> Here(x)
              /\ Here(q)' /\ ~Here(p)'
            BY <1>6, <2>1, <2>2, <2>4 DEF Here, LocalMove
        <3> QED
            BY <2>1, <3>1 DEF OnDisk
    <2>6. Closed(OnDisk \cup {q}) /\ OnDisk \cup {q} \in SUBSET Path
        BY <1>6, <2>1, ParentType, ClosedAdd DEF LocalMove, FolderHere, OnDisk, DiskInv
    <2> QED
        BY <2>5, <2>6, ClosedWithout DEF DiskInv
<1>7. ASSUME NEW p \in Path, NEW c \in Contents(p), RemoteWrite(p, c) PROVE ServerInv'
    <2>1. /\ \A q \in Path \ {p} : remote'[q] = remote[q]
          /\ remote'[p] = [data |-> c, mtime |-> rev + 1, etag |-> rev + 1]
        BY <1>7 DEF RemoteWrite, EnvOK, RemoteOK
    <2>2. rev + 1 # NoETag
        BY DEF EnvOK, NoETag
    <2>3. c # Nothing
        BY ContentAssumption, Names DEF Contents
    <2> QED
        BY <1>7, <2>1, <2>2, <2>3, ServerChange DEF RemoteWrite, There
<1>8. ASSUME NEW p \in Path, RemoteTrash(p) PROVE ServerInv'
    BY <1>8, ServerCut DEF RemoteTrash
<1>9. ASSUME NEW p \in Files, NEW q \in Files, RemoteMove(p, q) PROVE ServerInv'
    <2>1. p # q
        BY <1>9 DEF RemoteMove
    <2> QED
        BY <1>9, <2>1, ServerMove DEF RemoteMove, EnvOK
<1> QED
    BY <1>1, <1>2, <1>4, <1>5, <1>6, <1>7, <1>8, <1>9
        DEF Environment, LocalWrite, LocalDelete, LocalMove, RemoteWrite, RemoteTrash, RemoteMove

-----------------------------------------------------------------------------
(* The scan and the listing.                                               *)

\* What the scan makes of a name that is there.
LEMMA ScannedIs ==
    ASSUME NEW p, NEW rec
    PROVE  /\ ScannedAlone(p, Item(rec[p])).exists
           /\ ScannedAlone(p, Item(rec[p])).etag = NoETag
           /\ ScannedInTree(p, rec).exists
           /\ ScannedInTree(p, rec).etag = NoETag
           /\ ScannedInTree(p, rec).state \in {"local_new", "remote_deleted"}
<1> DEFINE r == ScannedAlone(p, Item(rec[p]))
<1>1. r.exists /\ r.etag = NoETag /\ r.state \in {"local_new", "remote_deleted"}
    BY DEF ScannedAlone, FolderFromLocal, FromLocal, NewResource
<1>2. PICK s \in {r.state, "local_new"} : ScannedInTree(p, rec) = [r EXCEPT !.state = s]
    BY DEF ScannedInTree
<1>3. [r EXCEPT !.state = s].exists = r.exists /\ [r EXCEPT !.state = s].etag = r.etag
      /\ [r EXCEPT !.state = s].state = s
    BY DEF ScannedAlone, FolderFromLocal, FromLocal, NewResource
<1> QED
    BY <1>1, <1>2, <1>3

LEMMA TreeScan ==
    ASSUME EnvOK, RunOK, DiskInv, ServerInv, NEW o, Scan(o)
    PROVE  KnownInv' /\ ScannedInv'
<1> DEFINE rec == [p \in Path |-> Forgetful(o, index[p])]
<1>1. res' = [p \in Path |-> IF Here(p) THEN ScannedInTree(p, rec)
                             ELSE IF Leftover(p) THEN FromDeleted(rec[p])
                             ELSE NewResource]
    BY DEF Scan
<1> HIDE DEF rec
<1>2. ASSUME NEW p \in Path
      PROVE  /\ res'[p].exists <=> Here(p)
             /\ res'[p].etag = NoETag
             /\ Here(p) => res'[p].state \in {"local_new", "remote_deleted"}
             /\ ~Here(p) => res'[p].state \in {"unknown", "both_deleted"}
             /\ ~Here(p) /\ ~Leftover(p) => res'[p].state = "unknown"
    <2>1. CASE Here(p)
        BY <1>1, <2>1, ScannedIs
    <2>2. CASE ~Here(p) /\ Leftover(p)
        BY <1>1, <2>2 DEF FromDeleted, NewResource
    <2>3. CASE ~Here(p) /\ ~Leftover(p)
        BY <1>1, <2>3 DEF NewResource
    <2> QED
        BY <2>1, <2>2, <2>3
<1>3. UNCHANGED <<local, remote>> /\ unlisted' = {p \in Path : There(p)}
    BY DEF Scan, env
<1>4. \A p \in Path : Here(p) \/ Leftover(p) => FolderHere(p)
    <2>1. \A p \in Path : Here(p) => FolderHere(p)
        BY ParentType DEF DiskInv, Closed, OnDisk, FolderHere
    <2> QED
        BY <2>1 DEF Leftover
<1>5. \A p \in Path : (Here(p)' <=> Here(p)) /\ (There(p)' <=> There(p))
                      /\ (FolderHere(p)' <=> FolderHere(p))
    BY <1>3 DEF Here, There, FolderHere
<1>6. ScannedInv'
    <2> SUFFICES ASSUME NEW p \in Path PROVE ScannedOK(p)'
        BY DEF ScannedInv
    <2> QED
        BY <1>2, <1>3, <1>4, <1>5 DEF ScannedOK, Listed
<1>7. KnownInv'
    <2>1. ASSUME NEW f \in Folders PROVE FolderOK(res[f])'
        BY <1>2, Names DEF FolderOK
    <2>2. ASSUME NEW q \in Path, res'[q].state # "unknown", Parent[q] # Root
          PROVE  Opened(res[Parent[q]])'
        BY <1>2, <1>4, <2>2, ParentType DEF Opened, FolderHere
    <2> QED
        BY <2>1, <2>2 DEF KnownInv
<1> QED
    BY <1>6, <1>7

\* The verdicts of the listing on a file.
LEMMA RemoteStateIs ==
    ASSUME NEW r, r.state # "unknown" \/ ~r.exists, NEW e, NEW d,
           NEW s \in {"sync", "remote_new", "local_deleted"},
           s # "sync" => ~r.exists,
           r.state \in {"unknown", "local_new", "remote_deleted", "both_deleted"},
           r.state = "both_deleted" => ~r.exists
    PROVE  LET t == RemoteState(r, e, s, d)
           IN  /\ t \in Listed
               /\ t \in {"remote_changed", "local_changed"} => r.exists
               /\ t \in {"remote_new", "local_deleted"} => ~r.exists
<1>1. CASE s # "sync"
    <2>1. RemoteState(r, e, s, d) = s
        BY <1>1 DEF RemoteState, Recursive
    <2> QED
        BY <1>1, <2>1 DEF Listed
<1>2. CASE s = "sync" /\ r.bad
    <2>1. RemoteState(r, e, s, d) = "sync"
        BY <1>2 DEF RemoteState, Recursive
    <2> QED
        BY <2>1 DEF Listed
<1>3. CASE s = "sync" /\ ~r.bad /\ ~r.exists
    <2>1. RemoteState(r, e, s, d) \in {"remote_new", "local_deleted"}
        BY <1>3 DEF RemoteState, Recursive
    <2> QED
        BY <1>3, <2>1 DEF Listed
<1>4. CASE s = "sync" /\ ~r.bad /\ r.exists
    <2>1. RemoteState(r, e, s, d) \in {"sync", "remote_changed", "local_changed"}
        BY <1>4 DEF RemoteState, Recursive
    <2> QED
        BY <1>4, <2>1 DEF Listed
<1> QED
    BY <1>1, <1>2, <1>3, <1>4

LEMMA TreeList ==
    ASSUME EnvOK, RunOK, DiskInv, ServerInv, KnownInv, ScannedInv, NEW p \in Path, List(p)
    PROVE  KnownInv' /\ ScannedInv'
<1>1. /\ UNCHANGED <<local, remote>> /\ unlisted' = unlisted \ {p}
      /\ p \in unlisted /\ There(p) /\ remote[p].etag # NoETag /\ FolderKnown(p)
    <2>1. p \in unlisted /\ FolderKnown(p) /\ UNCHANGED env /\ unlisted' = unlisted \ {p}
        BY DEF List
    <2>2. There(p)
        BY <2>1 DEF ScannedInv, ScannedOK
    <2> QED
        BY <2>1, <2>2 DEF env, ServerInv, OnServer
<1>2. \A q \in Path : (Here(q)' <=> Here(q)) /\ (There(q)' <=> There(q))
                      /\ (FolderHere(q)' <=> FolderHere(q))
    BY <1>1 DEF Here, There, FolderHere
<1>3. ScannedOK(p) /\ \A q \in Path : ScannedOK(q)
    BY DEF ScannedInv
<1>4. res[p].etag = NoETag /\ res[p].state \notin Listed
    BY <1>1, <1>3 DEF ScannedOK
\* The folder of p has been listed.
<1>5. ASSUME Parent[p] # Root
      PROVE  /\ Parent[p] \in Path /\ Parent[p] # p
             /\ res[Parent[p]].state \in {"sync", "remote_new", "local_deleted"}
             /\ res[Parent[p]].state # "sync" => ~res[Parent[p]].exists
             /\ Here(p) => res[Parent[p]].exists
    <2>1. Parent[p] \in Path /\ Parent[p] \in Folders /\ Parent[p] # p
        BY <1>5, ParentType, AncestorsClosed, AncestorsIrreflexive
    <2>2. ScannedOK(Parent[p]) /\ FolderOK(res[Parent[p]])
        BY <2>1, <1>3 DEF KnownInv
    <2>3. res[Parent[p]].etag # NoETag
        BY <1>1, <1>5 DEF FolderKnown
    <2>4. res[Parent[p]].state \in Listed
        BY <2>2, <2>3 DEF ScannedOK
    <2>5. Here(p) => Here(Parent[p])
        BY <1>5, <2>1 DEF DiskInv, Closed, OnDisk
    <2> QED
        BY <2>1, <2>2, <2>4, <2>5 DEF ScannedOK, FolderOK, Listed
<1>6. CASE p \in Folders
    <2> DEFINE r == FromRemoteFolder(res[p], remote[p])
    <2>1. /\ r.exists = res[p].exists /\ r.etag = remote[p].etag
          /\ r.exists => r.state = "sync"
          /\ ~r.exists => r.state \in {"remote_new", "local_deleted"}
        BY DEF FromRemoteFolder, RunOK, ResOK, Resources
    <2>2. res' = SetState(p, r)
        BY <1>6 DEF List
    <2> HIDE DEF r
    <2>3. res'[p] = r
        BY <2>2 DEF SetState
    \* What is below a folder that is not there has been listed.
    <2>4. ASSUME NEW q \in Path \ {p}, res'[q] # res[q]
          PROVE  /\ res[q].etag # NoETag /\ ~res[q].exists /\ ~r.exists
                 /\ res[q].state # "unknown"
                 /\ res'[q] = [res[q] EXCEPT !.state = r.state]
        <3>1. /\ q \in Below(p) /\ ~r.exists /\ res[q].state # "unknown"
              /\ res'[q] = [res[q] EXCEPT !.state = r.state]
            BY <2>2, <2>4 DEF SetState
        <3>2. ~Here(p) /\ p \in Ancestors[q]
            BY <1>3, <2>1, <2>4, <3>1, BelowIs DEF ScannedOK
        <3>3. Parent[q] # Root
            BY <3>2, AncestorsAtRoot
        <3>4. ~FolderHere(q)
            <4>1. SUFFICES ASSUME Here(Parent[q]) PROVE FALSE
                BY <3>3 DEF FolderHere
            <4>2. Parent[q] \in OnDisk /\ OnDisk \in SUBSET Path /\ Closed(OnDisk)
                BY <3>3, <4>1, ParentType DEF OnDisk, DiskInv
            <4>3. p \in {Parent[q]} \cup Ancestors[Parent[q]]
                BY <3>2, <3>3, AncestorsStep
            <4>4. p \in OnDisk
                BY <4>2, <4>3, AncestorsWithin
            <4> QED
                BY <3>2, <4>4 DEF OnDisk
        <3>5. ~Here(q)
            BY <3>3, <3>4, ParentType DEF FolderHere, DiskInv, Closed, OnDisk
        <3> QED
            BY <1>3, <3>1, <3>4, <3>5 DEF ScannedOK
    <2>5. ASSUME NEW q \in Path \ {p}
          PROVE  /\ res'[q].exists = res[q].exists /\ res'[q].etag = res[q].etag
                 /\ \/ res'[q].state = res[q].state
                    \/ /\ res[q].state \in Listed /\ ~res[q].exists
                       /\ res'[q].state \in {"remote_new", "local_deleted"}
        <3>1. CASE res'[q] = res[q]
            BY <3>1
        <3>2. CASE res'[q] # res[q]
            <4>1. res[q] \in Resources
                BY DEF RunOK, ResOK
            <4> QED
                BY <1>3, <2>1, <2>4, <3>2, <4>1 DEF ScannedOK, Resources
        <3> QED
            BY <3>1, <3>2
    <2>6. ScannedInv'
        <3> SUFFICES ASSUME NEW q \in Path PROVE ScannedOK(q)'
            BY DEF ScannedInv
        <3>1. CASE q = p
            BY <1>1, <1>2, <1>3, <2>1, <2>3, <3>1 DEF ScannedOK, Listed
        <3>2. CASE q # p
            BY <1>1, <1>2, <1>3, <2>5, <3>2 DEF ScannedOK, Listed
        <3> QED
            BY <3>1, <3>2
    <2>7. KnownInv'
        <3>1. ASSUME NEW f \in Folders PROVE FolderOK(res[f])'
            BY <2>1, <2>3, <2>5, Names DEF KnownInv, FolderOK
        <3>2. ASSUME NEW q \in Path, res'[q].state # "unknown", Parent[q] # Root
              PROVE  Opened(res[Parent[q]])'
            <4>1. Parent[q] \in Path
                BY <3>2, ParentType
            <4>2. CASE Parent[q] = p
                BY <2>1, <2>3, <4>2 DEF Opened
            <4>3. CASE Parent[q] # p /\ q = p
                BY <1>5, <2>5, <3>2, <4>1, <4>3 DEF Opened
            <4>4. CASE Parent[q] # p /\ q # p
                <5>1. res[q].state # "unknown"
                    BY <2>5, <3>2, <4>4 DEF Listed
                <5>2. Opened(res[Parent[q]])
                    BY <3>2, <5>1 DEF KnownInv
                <5> QED
                    BY <2>5, <4>1, <4>4, <5>2 DEF Opened
            <4> QED
                BY <4>2, <4>3, <4>4
        <3> QED
            BY <3>1, <3>2 DEF KnownInv
    <2> QED
        BY <2>6, <2>7
<1>7. CASE p \notin Folders
    <2> DEFINE s == StateOfFolder(p)
               t == RemoteState(res[p], remote[p], s, local[p].data)
    <2>1. s \in {"sync", "remote_new", "local_deleted"} /\ (s # "sync" => ~res[p].exists)
        <3>1. CASE Parent[p] = Root
            BY <3>1 DEF StateOfFolder
        <3>2. CASE Parent[p] # Root
            BY <1>3, <1>5, <3>2 DEF StateOfFolder, ScannedOK
        <3> QED
            BY <3>1, <3>2
    <2>2. res' = [res EXCEPT ![p] = FromRemote(@, remote[p], s, local[p].data)]
        BY <1>7 DEF List
    <2>3. res'[p] = FromRemote(res[p], remote[p], s, local[p].data)
          /\ \A q \in Path \ {p} : res'[q] = res[q]
        BY <2>2 DEF RunOK, ResOK
    <2>4. res'[p].state = t /\ res'[p].exists = res[p].exists /\ res'[p].etag = remote[p].etag
        BY <2>3 DEF FromRemote, RunOK, ResOK, Resources
    <2>5. /\ t \in Listed
          /\ t \in {"remote_changed", "local_changed"} => res[p].exists
          /\ t \in {"remote_new", "local_deleted"} => ~res[p].exists
        <3>1. res[p].state \in {"unknown", "local_new", "remote_deleted", "both_deleted"}
            <4>1. res[p].state \in States
                BY DEF RunOK, ResOK, Resources
            <4> QED
                BY <1>4, <4>1 DEF States, Listed
        <3>2. (res[p].state # "unknown" \/ ~res[p].exists)
              /\ (res[p].state = "both_deleted" => ~res[p].exists)
            BY <1>3 DEF ScannedOK
        <3> HIDE DEF s
        <3> QED
            BY <2>1, <3>1, <3>2, RemoteStateIs
    <2> HIDE DEF s, t
    <2>6. ScannedInv'
        <3> SUFFICES ASSUME NEW q \in Path PROVE ScannedOK(q)'
            BY DEF ScannedInv
        <3>1. CASE q = p
            BY <1>1, <1>2, <1>3, <1>7, <2>4, <2>5, <3>1 DEF ScannedOK, Listed
        <3>2. CASE q # p
            BY <1>1, <1>2, <1>3, <2>3, <3>2 DEF ScannedOK, Listed
        <3> QED
            BY <3>1, <3>2
    <2>7. KnownInv'
        <3>1. \A f \in Folders : res'[f] = res[f]
            BY <1>7, <2>3, Names
        <3>2. \A q \in Path : Parent[q] # Root => res'[Parent[q]] = res[Parent[q]]
            BY <3>1, ParentType
        <3>3. Parent[p] # Root => Opened(res[Parent[p]])
            BY <1>5 DEF Opened
        <3> QED
            BY <2>3, <3>1, <3>2, <3>3 DEF KnownInv
    <2> QED
        BY <2>6, <2>7
<1> QED
    BY <1>6, <1>7

\* All entries have been listed by then, whatever order they came in.
LEMMA TreeStart ==
    ASSUME EnvOK, RunOK, DiskInv, ServerInv, KnownInv, ScannedInv, StartSync
    PROVE  KnownInv' /\ WalkInv'
<1>1. UNCHANGED <<local, remote, opt, res>> /\ agenda' = Walk(Root)
    BY DEF StartSync, env
<1>2. unlisted = {}
    <2>1. unlisted \in SUBSET Path
        BY DEF RunOK
    <2>2. ASSUME NEW p \in unlisted PROVE Parent[p] \in unlisted
        <3>1. p \in Path /\ There(p) /\ ~FolderKnown(p)
            BY <2>1, <2>2 DEF StartSync, ScannedInv, ScannedOK
        <3>2. Parent[p] # Root /\ res[Parent[p]].etag = NoETag
            BY <3>1 DEF FolderKnown
        <3>3. There(Parent[p]) /\ Parent[p] \in Path
            BY <3>1, <3>2, ParentType DEF ServerInv, OnServer, Closed
        <3> QED
            BY <3>2, <3>3 DEF ScannedInv, ScannedOK
    <2> QED
        BY <2>1, <2>2, UpToRoot
<1>3. Items(agenda') \subseteq Children(Root) /\ Disjoint(agenda')
    BY <1>1, ItemsWalk DEF Known
<1>4. \A q \in Queued' : q \in Path /\ Parent[q] = Root
    BY <1>3 DEF Queued, Children
<1>5. Apart'
    BY <1>3, <1>4, AncestorsAtRoot DEF Apart
<1>6. ASSUME NEW q \in Path PROVE ToWalk(q)'
    <2>1. ScannedOK(q) /\ q \notin unlisted
        BY <1>2 DEF ScannedInv
    <2>2. Here(q) => FolderHere(q)
        BY ParentType DEF DiskInv, Closed, OnDisk, FolderHere
    <2>3. ToWalk(q)
        BY <2>1, <2>2 DEF ScannedOK, ToWalk, Listed
    <2> QED
        BY <1>1, <2>3 DEF ToWalk, Here, There, FolderHere
<1>7. Pending' \subseteq Path
    <2>1. \A q \in Queued' : Below(q) \subseteq Path
        BY <1>4, BelowIs
    <2>2. Pending' = UNION {Below(q) : q \in Queued'}
        BY DEF Pending, Below
    <2> QED
        BY <2>1, <2>2
<1>8. KnownInv'
    BY <1>1 DEF KnownInv
<1> QED
    BY <1>4, <1>5, <1>6, <1>7, <1>8 DEF WalkInv

-----------------------------------------------------------------------------
(* The walk.                                                               *)

\* SyncSelf returns, with r for the resource of p.
Returns(p, r) == \E rec, links : Return(p, r, rec, links)

OthersStay(p) == \A q \in Path \ {p} : (There(q)' <=> There(q)) /\ (Here(q)' <=> Here(q))

\* The children of a folder can follow.
Opens(p, r) ==
    p \in Folders /\ Known(p) # {} =>
        /\ r.etag # NoETag \/ r.state = "sync" => There(p)'
        /\ \/ Here(p)'
           \/ r.state = "remote_new" /\ opt \in {"no-remote-new", "upload-only"}

LEMMA ReturnWalks ==
    ASSUME RunOK, KnownInv, WalkInv, NEW p \in Path, Visits(p), NEW r, Returns(p, r),
           r.state \notin {"local_deleted", "remote_deleted"},
           \/ r = res[p]
           \/ r.exists = res[p].exists /\ r.state = "sync" /\ res[p].state # "unknown",
           OthersStay(p), p \in Folders /\ Here(p) => Here(p)', Opens(p, r)
    PROVE  KnownInv' /\ WalkInv' /\ pc' = pc
<1>1. /\ res' = [res EXCEPT ![p] = r] /\ agenda' = Walk(p) \o Rest(p)
      /\ opt' = opt /\ pc' = pc
    BY DEF Returns, Return
<1>2. res'[p] = r /\ \A q \in Path \ {p} : res'[q] = res[q]
    BY <1>1 DEF RunOK, ResOK
<1>3. KnownInv'
    BY <1>2, KnownKept
<1>4. p \in Folders /\ Known(p) # {} => Walked(p)'
    BY <1>1, <1>2 DEF Walked, Opens
<1>5. WalkInv'
    BY <1>1, <1>2, <1>4, WalkKept DEF RunOK, OthersStay
<1> QED
    BY <1>1, <1>3, <1>5

LEMMA TreeUpload ==
    ASSUME EnvOK, RunOK, TreeInv, NEW p \in Path, Create(p) \/ EditContent(p)
    PROVE  /\ TreeInv'
           /\ Create(p) => ~There(p) /\ FolderThere(p)
<1>1. /\ Visits(p) /\ Stored(p, local[p].data) /\ UNCHANGED local
      /\ Return(p, Uploaded(p), Recorded(p, Uploaded(p), res[p].ctime), linked)
      /\ res[p].state \in {"local_new", "local_changed"}
    BY DEF Create, EditContent, Self
<1>2. /\ WalkInv /\ ToWalk(p) /\ (Parent[p] # Root => Walked(Parent[p]))
      /\ (p \in Folders => FolderOK(res[p])) /\ (p \notin Folders => p \in Files)
    BY <1>1, FolderToWalk DEF RunOK, TreeInv
<1>3. ASSUME Create(p) PROVE ~There(p) /\ FolderThere(p)
    BY <1>2, <1>3 DEF Create, Self, ToWalk, StateOfFolder, FolderThere, Walked
<1>4. ASSUME EditContent(p) PROVE There(p)
    BY <1>2, <1>4 DEF EditContent, Self, ToWalk
<1>5. /\ remote'[p] = [data |-> local[p].data, mtime |-> rev + 1, etag |-> rev + 1]
      /\ \A q \in Path \ {p} : remote'[q] = remote[q]
    BY <1>1 DEF Stored, EnvOK, RemoteOK
<1>6. \A q \in Path : Here(q)' <=> Here(q)
    BY <1>1 DEF Here
<1>7. p \in Folders => Here(p) /\ There(p)'
    BY <1>1, <1>2, <1>5 DEF ToWalk, FolderOK, Here, There
<1>8. /\ Uploaded(p).state = "sync" /\ Uploaded(p).exists = res[p].exists
    BY DEF Uploaded, RunOK, ResOK, Resources
<1>9. DiskInv'
    BY <1>1 DEF TreeInv, DiskInv, OnDisk, Here, Closed
<1>10. ServerInv'
    <2>1. There(p)' => remote'[p].etag # NoETag
        BY <1>5 DEF EnvOK, NoETag
    <2>2. There(p)' => There(p) \/ FolderThere(p)
        BY <1>3, <1>4
    <2>3. There(p) /\ ~There(p)' => p \in Files
        BY <1>2, <1>7
    <2> QED
        BY <1>5, <2>1, <2>2, <2>3, ServerChange DEF TreeInv
<1>11. KnownInv' /\ WalkInv' /\ pc' = pc
    <2> DEFINE r == Uploaded(p)
    <2>1. Returns(p, r)
        BY <1>1 DEF Returns
    <2>2. OthersStay(p)
        BY <1>5, <1>6 DEF OthersStay, There
    <2>3. Opens(p, r) /\ (p \in Folders /\ Here(p) => Here(p)')
        BY <1>6, <1>7 DEF Opens
    <2>4. r.state = "sync" /\ r.exists = res[p].exists
        BY <1>8
    <2> HIDE DEF r
    <2>5. res[p].state # "unknown" /\ KnownInv
        BY <1>1 DEF TreeInv
    <2> QED
        BY <1>1, <1>2, <2>1, <2>2, <2>3, <2>4, <2>5, ReturnWalks
<1>12. pc = "syncing"
    BY <1>1 DEF Visits
<1> QED
    BY <1>3, <1>9, <1>10, <1>11, <1>12 DEF TreeInv

\* Nothing but the index changes, if that.
LEMMA TreeAlone ==
    ASSUME EnvOK, RunOK, TreeInv, NEW p \in Path,
           LeaveReadOnly(p) \/ SkipRemote(p) \/ BothDeleted(p) \/ AlreadySync(p)
    PROVE  TreeInv'
<1>1. Visits(p) /\ UNCHANGED <<local, remote>> /\ pc = "syncing"
    BY DEF LeaveReadOnly, SkipRemote, Skips, BothDeleted, AlreadySync, Self, Visits
<1>2. /\ WalkInv /\ ToWalk(p)
      /\ (p \in Folders => FolderOK(res[p]))
    BY <1>1, FolderToWalk DEF RunOK, TreeInv
<1>3. PICK rec, links : Return(p, res[p], rec, links)
    BY DEF LeaveReadOnly, SkipRemote, BothDeleted, AlreadySync
<1>4. res[p].state \in {"local_new", "local_changed", "remote_new", "remote_changed",
                        "both_deleted", "sync"}
    BY DEF LeaveReadOnly, SkipRemote, Skips, BothDeleted, AlreadySync, Self
<1>5. \A q \in Path : (Here(q)' <=> Here(q)) /\ (There(q)' <=> There(q))
    BY <1>1 DEF Here, There
<1>6. ASSUME p \in Folders, Known(p) # {}
      PROVE  /\ res[p].etag # NoETag \/ res[p].state = "sync" => There(p)
             /\ \/ Here(p)
                \/ res[p].state = "remote_new" /\ opt \in {"no-remote-new", "upload-only"}
    <2>1. res[p].etag # NoETag \/ res[p].state = "sync" => There(p)
        BY <1>2, <1>6 DEF ToWalk
    <2>2. res[p].state # "both_deleted"
        <3>1. PICK q \in Known(p) : TRUE
            BY <1>6
        <3>2. q \in Path /\ Parent[q] = p /\ res[q].state # "unknown" /\ p # Root
            BY ParentType DEF Known, Children
        <3>3. Opened(res[p])
            BY <3>2 DEF TreeInv, KnownInv
        <3> QED
            BY <1>2, <1>6, <3>3 DEF Opened, FolderOK
    <2>3. CASE res[p].state = "remote_new"
        BY <2>1, <2>3 DEF LeaveReadOnly, SkipRemote, Skips, BothDeleted, AlreadySync, Self
    <2>4. CASE res[p].state \in {"local_new", "sync"}
        BY <1>2, <1>6, <2>1, <2>4 DEF ToWalk, FolderOK
    <2>5. res[p].state \in {"remote_new", "local_new", "sync"}
        BY <1>2, <1>4, <1>6, <2>2 DEF FolderOK
    <2> QED
        BY <2>3, <2>4, <2>5
<1>7. KnownInv' /\ WalkInv' /\ pc' = pc
    <2> DEFINE r == res[p]
    <2>1. KnownInv /\ WalkInv /\ r = res[p] /\ r.state \notin {"local_deleted", "remote_deleted"}
        BY <1>2, <1>4 DEF TreeInv
    <2>2. Returns(p, r) /\ OthersStay(p) /\ (p \in Folders /\ Here(p) => Here(p)')
        BY <1>3, <1>5 DEF Returns, OthersStay
    <2>3. Opens(p, r)
        BY <1>5, <1>6 DEF Opens
    <2> HIDE DEF r
    <2> QED
        BY <1>1, <2>1, <2>2, <2>3, ReturnWalks
<1>8. DiskInv' /\ ServerInv'
    BY <1>1 DEF TreeInv, DiskInv, ServerInv, OnDisk, OnServer, Here, There, Closed
<1> QED
    BY <1>1, <1>7, <1>8 DEF TreeInv

LEMMA TreeDelete ==
    ASSUME EnvOK, RunOK, TreeInv, NEW p \in Path, DeleteRemote(p) \/ DeleteLocal(p)
    PROVE  TreeInv'
<1>1. /\ Visits(p) /\ Return(p, res[p], Forgotten(p), linked \ {p}) /\ pc = "syncing"
      /\ res[p].state \in {"local_deleted", "remote_deleted"}
    BY DEF DeleteRemote, DeleteLocal, Self, Visits
<1>2. /\ res' = res /\ agenda' = Rest(p) /\ opt' = opt /\ pc' = pc
    BY <1>1 DEF Return, RunOK, ResOK
<1>3. DiskInv' /\ \A q \in Path \ Below(p) : Here(q)' <=> Here(q)
    <2>1. CASE DeleteRemote(p)
        BY <2>1 DEF DeleteRemote, TreeInv, DiskInv, OnDisk, Here, Closed
    <2>2. CASE DeleteLocal(p)
        <3> DEFINE f == [q \in Path |-> IF q \in Below(p) THEN NoFile ELSE local[q]]
        <3>1. \A q \in Path : f[q] \in LocalFile
            BY NoneType DEF EnvOK, LocalOK
        <3>2. local' \in Touched(f, {Parent[p]})
            BY <2>2 DEF DeleteLocal
        <3>3. \A q \in Path : f[q].data = IF q \in Below(p) THEN Nothing ELSE local[q].data
            BY NoneType
        <3> HIDE DEF f
        <3>4. \A q \in Path : local'[q].data = f[q].data
            BY <3>1, <3>2, TouchedData
        <3>5. \A q \in Path : Here(q)' <=> Here(q) /\ q \notin Below(p)
            BY <3>3, <3>4 DEF Here
        <3> QED
            BY <3>5, DiskCut DEF TreeInv
    <2> QED
        BY <2>1, <2>2
<1>4. ServerInv' /\ \A q \in Path \ Below(p) : There(q)' <=> There(q)
    <2>1. CASE DeleteRemote(p)
        BY <2>1, ServerCut DEF DeleteRemote, TreeInv
    <2>2. CASE DeleteLocal(p)
        BY <2>2 DEF DeleteLocal, TreeInv, ServerInv, OnServer, There, Closed
    <2> QED
        BY <2>1, <2>2
<1>5. WalkInv'
    BY <1>1, <1>2, <1>3, <1>4, LeafKept DEF RunOK, TreeInv
<1>6. KnownInv'
    BY <1>2 DEF TreeInv, KnownInv
<1> QED
    BY <1>1, <1>2, <1>3, <1>4, <1>5, <1>6 DEF TreeInv

\* Whatever is downloaded goes to a folder that is there.
LEMMA FolderOfDownload ==
    ASSUME NEW p, ToWalk(p), Parent[p] # Root => Walked(Parent[p]), ~Skips(p),
           Self(p, "remote_new") \/ Self(p, "remote_changed")
    PROVE  FolderHere(p)
<1>1. CASE Self(p, "remote_changed")
    BY <1>1 DEF ToWalk, Self
<1>2. CASE Self(p, "remote_new")
    <2>1. opt \notin {"no-remote-new", "upload-only"}
        BY <1>2 DEF Skips
    <2> QED
        BY <2>1 DEF Walked, FolderHere
<1> QED
    BY <1>1, <1>2

LEMMA TreeDownload ==
    ASSUME EnvOK, RunOK, TreeInv, NEW p \in Path, Download(p)
    PROVE  TreeInv'
<1> DEFINE r == [res[p] EXCEPT !.state = "sync"]
           f == [local EXCEPT ![p] = [data |-> remote[p].data, ctime |-> 2]]
<1>1. /\ Visits(p) /\ UNCHANGED remote /\ pc = "syncing" /\ ~Skips(p)
      /\ Return(p, r, Recorded(p, r, 2), linked \cup {p})
      /\ Self(p, "remote_new") \/ Self(p, "remote_changed")
    BY DEF Download, Self, Visits
<1>2. /\ WalkInv /\ ToWalk(p) /\ (Parent[p] # Root => Walked(Parent[p]))
      /\ (p \in Folders => FolderOK(res[p])) /\ (p \notin Folders => p \in Files)
    BY <1>1, FolderToWalk DEF RunOK, TreeInv
<1>3. /\ r.state = "sync" /\ r.exists = res[p].exists
      /\ res[p].state \in {"remote_new", "remote_changed"}
    BY <1>1 DEF RunOK, ResOK, Resources, Self
<1>4. \A q \in Path : local'[q].data = IF q = p THEN remote[p].data ELSE local[q].data
    <2>1. \A q \in Path : f[q] \in LocalFile
                          /\ f[q].data = IF q = p THEN remote[p].data ELSE local[q].data
        BY DEF EnvOK, LocalOK, RemoteOK, Entry, LocalFile, Times
    <2>2. PICK dirs : local' \in Touched(f, dirs)
        BY DEF Download
    <2> HIDE DEF f
    <2> QED
        BY <2>1, <2>2, TouchedData
<1> HIDE DEF r, f
<1>5. /\ \A q \in Path \ {p} : Here(q)' <=> Here(q)
      /\ \A q \in Path : There(q)' <=> There(q)
    BY <1>1, <1>4 DEF Here, There
<1>6. p \in Folders => There(p) /\ Here(p)'
    <2>1. p \in Folders => There(p)
        BY <1>2, <1>3 DEF ToWalk, FolderOK
    <2> QED
        BY <1>4, <2>1 DEF Here, There
<1>7. FolderHere(p)
    BY <1>1, <1>2, FolderOfDownload
<1>8. DiskInv'
    BY <1>2, <1>5, <1>6, <1>7, DiskChange DEF TreeInv
<1>9. ServerInv'
    BY <1>1 DEF TreeInv, ServerInv, OnServer, There, Closed
<1>10. KnownInv' /\ WalkInv' /\ pc' = pc
    <2>1. Returns(p, r) /\ OthersStay(p)
        BY <1>1, <1>5 DEF Returns, OthersStay
    <2>2. Opens(p, r) /\ (p \in Folders /\ Here(p) => Here(p)')
        BY <1>5, <1>6 DEF Opens
    <2>3. res[p].state # "unknown" /\ KnownInv
        BY <1>3 DEF TreeInv
    <2> QED
        BY <1>1, <1>2, <1>3, <2>1, <2>2, <2>3, ReturnWalks
<1> QED
    BY <1>1, <1>8, <1>9, <1>10 DEF TreeInv

\* The request to move m to p, by a run that goes on or dies of it.
LEMMA TreeServerMoves ==
    ASSUME EnvOK, RunOK, TreeInv, NEW p \in Path, Visits(p), NEW m \in Origins(p),
           res[p].state = "local_new", ServerMoves(p, m)
    PROVE  /\ ServerInv' /\ p \in Files /\ m \in Files /\ p # m
           /\ \A q \in Path \ {p, m} : There(q)' <=> There(q)
<1>1. p \in Files /\ m \in Files /\ p # m
    <2>1. res[m].state # "local_new"
        BY DEF Origins
    <2> QED
        BY <2>1, OriginsType
<1>2. FolderKnown(p) => FolderThere(p)
    <2>1. Parent[p] # Root => Walked(Parent[p])
        BY FolderToWalk DEF RunOK, TreeInv
    <2> QED
        BY <2>1 DEF FolderKnown, FolderThere, Walked
<1>3. CASE ~There(m)
    <2>1. remote' = remote
        BY <1>3 DEF ServerMoves
    <2> QED
        BY <1>1, <2>1 DEF TreeInv, ServerInv, OnServer, There, Closed
<1>4. CASE There(m) /\ FolderKnown(p)
    <2>1. remote' = [remote EXCEPT ![p] = remote[m], ![m] = NoEntry]
        BY <1>4 DEF ServerMoves
    <2>2. ServerInv'
        BY <1>1, <1>2, <1>4, <2>1, ServerMove DEF TreeInv, EnvOK
    <2> QED
        BY <1>1, <2>1, <2>2 DEF EnvOK, RemoteOK, There
<1>5. CASE There(m) /\ ~FolderKnown(p)
    <2>1. remote' = [remote EXCEPT ![m] = NoEntry]
        BY <1>5 DEF ServerMoves
    <2>2. ServerInv'
        BY <1>1, <2>1, ServerGone DEF TreeInv, EnvOK
    <2> QED
        BY <1>1, <2>1, <2>2 DEF EnvOK, RemoteOK, There
<1> QED
    BY <1>3, <1>4, <1>5

LEMMA TreeMove ==
    ASSUME EnvOK, RunOK, TreeInv, NEW p \in Path, NEW m \in Path,
           MoveRemote(p, m) \/ MoveLocal(p, m)
    PROVE  TreeInv'
<1>1. /\ Visits(p) /\ m \in Origins(p) /\ pc = "syncing"
      /\ res[p].state \in {"local_new", "remote_new"}
      /\ res[m].state \in {"local_deleted", "remote_deleted"}
    BY DEF MoveRemote, MoveLocal, Visits, Origins
<1>2. p \in Files /\ m \in Files /\ p # m
    BY <1>1, OriginsType
<1>3. PICK t : Moved(p, m, t)
    BY DEF MoveRemote, MoveLocal
<1>4. /\ \A q \in Path \ {p, m} : res'[q] = res[q]
      /\ res'[p].state = "sync" /\ res'[p].exists = res[p].exists
      /\ res'[m].state = "both_deleted" /\ res'[m].exists = res[m].exists
      /\ agenda' = Rest(p) /\ opt' = opt /\ pc' = pc
    <2> DEFINE to == [res[p] EXCEPT !.state = "sync", !.mtime = res[m].mtime,
                                    !.md5 = GetMD5(res[p], local[p].data)]
    <2>1. /\ res' = [res EXCEPT ![p] = to, ![m].state = "both_deleted"]
          /\ agenda' = Rest(p) /\ opt' = opt /\ pc' = pc
        BY <1>3 DEF Moved
    <2>2. to.state = "sync" /\ to.exists = res[p].exists
        BY DEF RunOK, ResOK, Resources
    <2> HIDE DEF to
    <2>3. res[m] \in Resources
        BY DEF RunOK, ResOK
    <2> QED
        BY <1>2, <2>1, <2>2, <2>3 DEF RunOK, ResOK, Resources
<1>5. DiskInv' /\ \A q \in Path \ {p, m} : Here(q)' <=> Here(q)
    <2>1. CASE MoveRemote(p, m)
        BY <2>1 DEF MoveRemote, TreeInv, DiskInv, OnDisk, Here, Closed
    <2>2. CASE MoveLocal(p, m)
        <3> DEFINE f == [local EXCEPT ![p] = [data |-> local[m].data, ctime |-> 2],
                                      ![m] = NoFile]
        <3>1. /\ \A q \in Path : f[q] \in LocalFile
              /\ \A q \in Path \ {p, m} : f[q].data = local[q].data
              /\ f[p].data = local[m].data /\ f[m].data = Nothing
            BY <1>2, NoneType DEF EnvOK, LocalOK, LocalFile, Times
        <3>2. PICK dirs : local' \in Touched(f, dirs)
            BY <2>2 DEF MoveLocal
        <3> HIDE DEF f
        <3>3. \A q \in Path : local'[q].data = f[q].data
            BY <3>1, <3>2, TouchedData
        <3>4. OnDisk' = (OnDisk \cup {p}) \ {m}
            BY <1>2, <2>2, <3>1, <3>3 DEF MoveLocal, OnDisk, Here
        <3>5. Closed(OnDisk \cup {p}) /\ OnDisk \cup {p} \in SUBSET Path
            BY <2>2, ParentType, ClosedAdd DEF MoveLocal, FolderHere, OnDisk, TreeInv, DiskInv
        <3>6. DiskInv'
            BY <1>2, <3>4, <3>5, ClosedWithout DEF DiskInv
        <3> QED
            BY <3>1, <3>3, <3>6 DEF Here
    <2> QED
        BY <2>1, <2>2
<1>6. ServerInv' /\ \A q \in Path \ {p, m} : There(q)' <=> There(q)
    <2>1. CASE MoveRemote(p, m)
        BY <1>1, <2>1, TreeServerMoves DEF MoveRemote
    <2>2. CASE MoveLocal(p, m)
        BY <2>2 DEF MoveLocal, TreeInv, ServerInv, OnServer, There, Closed
    <2> QED
        BY <2>1, <2>2
<1>7. WalkInv'
    <2>1. p \in Below(p)
        BY BelowIs
    <2>2. \A q \in Path \ Below(p) :
                \/ q \in Files /\ res'[q].state = "both_deleted"
                \/ /\ res'[q] = res[q]
                   /\ There(q)' <=> There(q)
                   /\ Here(q)' <=> Here(q)
        BY <1>2, <1>4, <1>5, <1>6, <2>1
    <2> QED
        BY <1>1, <1>4, <2>2, LeafKept DEF RunOK, TreeInv
<1>8. KnownInv'
    <2>1. \A q \in Path : \/ res'[q] = res[q]
                          \/ /\ res'[q].exists = res[q].exists /\ res[q].state # "unknown"
                             /\ \/ res'[q].state = "sync"
                                \/ res'[q].state = "both_deleted" /\ q \in Files
        BY <1>1, <1>2, <1>4
    <2> QED
        BY <2>1, KnownKept DEF TreeInv
<1> QED
    BY <1>1, <1>4, <1>5, <1>6, <1>7, <1>8 DEF TreeInv

\* A step that fails: of the disk, at most the file is cut short.
LEMMA TreeCaught ==
    ASSUME EnvOK, RunOK, TreeInv, NEW p \in Path,
           \/ RefusedByServer(p) \/ \E m \in Path : MoveLocalRefused(p, m)
           \/ HttpError(p)
    PROVE  TreeInv'
<1>1. Visits(p) /\ Caught(p) /\ UNCHANGED remote /\ pc = "syncing"
    BY DEF RefusedByServer, MoveLocalRefused, HttpError, Self, Visits
<1>2. /\ WalkInv /\ ToWalk(p) /\ (Parent[p] # Root => Walked(Parent[p]))
    BY <1>1, FolderToWalk DEF RunOK, TreeInv
<1>3. /\ res' = res /\ agenda' = Rest(p) /\ opt' = opt /\ pc' = pc
    BY <1>1 DEF Caught
<1>4. \/ local' = local
      \/ /\ \A q \in Path \ {p} : Here(q)' <=> Here(q)
         /\ p \in Files /\ FolderHere(p)
    <2>1. CASE local' = local
        BY <2>1
    <2>2. CASE local' # local
        <3> DEFINE f == [local EXCEPT ![p] = [data |-> Truncated, ctime |-> 2]]
        <3>1. /\ Self(p, "remote_new") \/ Self(p, "remote_changed")
              /\ ~Skips(p) /\ p \in Files
              /\ \E dirs : local' \in Touched(f, dirs)
            BY <2>2 DEF RefusedByServer, MoveLocalRefused, HttpError
        <3>2. \A q \in Path : f[q] \in LocalFile /\ (q # p => f[q].data = local[q].data)
            BY Names DEF EnvOK, LocalOK, LocalFile, Times
        <3> HIDE DEF f
        <3>3. \A q \in Path : local'[q].data = f[q].data
            BY <3>1, <3>2, TouchedData
        <3>4. FolderHere(p)
            BY <1>2, <3>1, FolderOfDownload
        <3> QED
            BY <3>1, <3>2, <3>3, <3>4 DEF Here
    <2> QED
        BY <2>1, <2>2
<1>5. DiskInv'
    <2>1. CASE local' = local
        BY <2>1 DEF TreeInv, DiskInv, OnDisk, Here, Closed
    <2>2. CASE local' # local
        BY <1>4, <2>2, DiskChange DEF TreeInv
    <2> QED
        BY <2>1, <2>2
<1>6. ServerInv'
    BY <1>1 DEF TreeInv, ServerInv, OnServer, There, Closed
<1>7. WalkInv'
    <2>1. p \in Below(p)
        BY BelowIs
    <2>2. \A q \in Path \ Below(p) : (There(q)' <=> There(q)) /\ (Here(q)' <=> Here(q))
        BY <1>1, <1>4, <2>1 DEF There, Here
    <2> QED
        BY <1>1, <1>3, <2>2, LeafKept DEF RunOK, TreeInv
<1>8. KnownInv'
    BY <1>3 DEF TreeInv, KnownInv
<1> QED
    BY <1>1, <1>3, <1>5, <1>6, <1>7, <1>8 DEF TreeInv

\* The end of the process.
LEMMA TreeEnd ==
    ASSUME EnvOK, RunOK, TreeInv, SaveState \/ Abort \/ \E p \in Path : Dies(p)
    PROVE  TreeInv'
<1>1. PICK rec \in {st, index} : ExitWith(rec)
    BY DEF SaveState, Abort, Dies
<1>2. DiskInv'
    <2>1. \A q \in Path : local'[q].data = local[q].data
        BY <1>1 DEF ExitWith, EnvOK, LocalOK, LocalFile
    <2> QED
        BY <2>1 DEF TreeInv, DiskInv, OnDisk, Here, Closed
<1>3. ServerInv'
    <2>1. CASE remote' = remote
        BY <2>1 DEF TreeInv, ServerInv, OnServer, There, Closed
    <2>2. ASSUME NEW p \in Path, NEW m \in Path, MoveCrashes(p, m), ServerMoves(p, m)
          PROVE  ServerInv'
        BY <2>2, TreeServerMoves DEF MoveCrashes
    <2> QED
        BY <2>1, <2>2 DEF SaveState, Abort, Dies
<1>4. KnownInv'
    <2>1. /\ \A q \in Path : res'[q] = NewResource
          /\ NewResource.state = "unknown" /\ NewResource.exists = FALSE
        BY <1>1 DEF ExitWith, NewResource
    <2> QED
        BY <2>1, Names DEF KnownInv, FolderOK
<1>5. pc' = "idle"
    BY <1>1 DEF ExitWith
<1> QED
    BY <1>2, <1>3, <1>4, <1>5 DEF TreeInv

LEMMA TreeInit == Init => TreeInv
<1> SUFFICES ASSUME Init PROVE TreeInv
    OBVIOUS
<1>1. DiskInv
    <2>1. OnDisk = {}
        BY NoneType DEF Init, OnDisk, Here
    <2> QED
        BY <2>1 DEF DiskInv, Closed
<1>2. ServerInv
    <2>1. \A p \in Path : remote[p].data # Nothing => remote[p] # NoEntry
        BY NoneType
    <2>2. ASSUME NEW p \in Path, There(p)
          PROVE  remote[p].etag = 1 /\ (Parent[p] # Root => There(Parent[p]))
        <3>1. remote \in [Path -> {NoEntry} \cup [data: Content \cup {Dir}, mtime: {1}, etag: {1}]]
            BY DEF Init, Drives
        <3>2. \A q \in Path : remote[q] # NoEntry => remote[q].data # Nothing
            BY <3>1, ContentAssumption, Names
        <3>3. Parent[p] # Root => remote[Parent[p]] # NoEntry
            BY <2>1, <2>2, ParentType DEF Init, Drives, There
        <3> QED
            BY <2>1, <2>2, <3>1, <3>2, <3>3, ParentType DEF There
    <2> QED
        BY <2>2, ParentType DEF ServerInv, OnServer, Closed, NoETag
<1>3. KnownInv
    <2>1. /\ \A q \in Path : res[q] = NewResource
          /\ NewResource.state = "unknown" /\ NewResource.exists = FALSE
        BY DEF Init, NewResource
    <2> QED
        BY <2>1, Names DEF KnownInv, FolderOK
<1> QED
    BY <1>1, <1>2, <1>3 DEF TreeInv, Init

LEMMA TreeNext ==
    ASSUME EnvOK, RunOK, TreeInv, Next
    PROVE  TreeInv'
<1>1. CASE Environment
    <2>1. pc = "idle" /\ UNCHANGED <<pc, res>>
        BY <1>1 DEF Environment, LocalWrite, RemoteWrite, LocalDelete, RemoteTrash, LocalMove,
            RemoteMove, Acts, run
    <2>2. KnownInv'
        BY <2>1 DEF TreeInv, KnownInv
    <2> QED
        BY <1>1, <2>1, <2>2, TreeEnvironment DEF TreeInv
<1>2. ASSUME NEW o \in Options, Scan(o) PROVE TreeInv'
    <2>1. KnownInv' /\ ScannedInv' /\ UNCHANGED <<local, remote>> /\ pc' = "scanned"
        BY <1>2, TreeScan DEF TreeInv, Scan, env
    <2> QED
        BY <2>1 DEF TreeInv, DiskInv, ServerInv, OnDisk, OnServer, Here, There, Closed
<1>3. ASSUME NEW p \in Path, List(p) PROVE TreeInv'
    <2>1. UNCHANGED <<local, remote, pc>> /\ pc = "scanned"
        BY <1>3 DEF List, env
    <2>2. KnownInv' /\ ScannedInv'
        BY <1>3, <2>1, TreeList DEF TreeInv
    <2> QED
        BY <2>1, <2>2 DEF TreeInv, DiskInv, ServerInv, OnDisk, OnServer, Here, There, Closed
<1>4. CASE StartSync
    <2>1. UNCHANGED <<local, remote>> /\ pc = "scanned" /\ pc' = "syncing"
        BY <1>4 DEF StartSync, env
    <2>2. KnownInv' /\ WalkInv'
        BY <1>4, <2>1, TreeStart DEF TreeInv
    <2> QED
        BY <2>1, <2>2 DEF TreeInv, DiskInv, ServerInv, OnDisk, OnServer, Here, There, Closed
<1>5. ASSUME NEW p \in Path, SyncSelf(p) PROVE TreeInv'
    BY <1>5, TreeUpload, TreeAlone, TreeDelete, TreeDownload, TreeMove, TreeCaught DEF SyncSelf
<1>6. ASSUME NEW p \in Path, HttpError(p) PROVE TreeInv'
    BY <1>6, TreeCaught
<1>7. CASE SaveState \/ Abort \/ \E p \in Path : Dies(p)
    BY <1>7, TreeEnd
<1> QED
    BY <1>1, <1>2, <1>3, <1>4, <1>5, <1>6, <1>7 DEF Next, RunStep, Failure

LEMMA TreeStep == TypeOK /\ TreeInv /\ [Next]_vars => TreeInv'
<1> SUFFICES ASSUME TypeOK, TreeInv, [Next]_vars PROVE TreeInv'
    OBVIOUS
<1>1. CASE Next
    BY <1>1, Halves, TreeNext
<1>2. CASE UNCHANGED vars
    BY <1>2 DEF vars, TreeInv, DiskInv, ServerInv, KnownInv, ScannedInv, WalkInv, OnDisk, OnServer,
        Here, There, Closed, ScannedOK, FolderHere, Apart, Queued, Pending, ToWalk, Walked
<1> QED
    BY <1>1, <1>2

\* Grive makes a file or folder on the server only where there is none, and in a folder
\* that is there, whatever order the listing came in (State.cc:183), and whatever was
\* refused, skipped or moved on the way to it (Resource.cc:466).
THEOREM CreatesMissing == Spec => CreatesOnlyMissing
<1>1. Init => TypeOK /\ TreeInv
    BY TypeInit, TreeInit
<1>2. TypeOK /\ TreeInv /\ [Next]_vars => (TypeOK /\ TreeInv)'
    BY TypeNext, TreeStep
<1>3. TypeOK /\ TreeInv /\ [Next]_vars
      => [\A p \in Path : Create(p) => ~There(p) /\ FolderThere(p)]_vars
    <2> SUFFICES ASSUME TypeOK, TreeInv, NEW p \in Path, Create(p)
                 PROVE  ~There(p) /\ FolderThere(p)
        OBVIOUS
    <2> QED
        BY Halves, TreeUpload
<1> QED
    BY <1>1, <1>2, <1>3, PTL DEF Spec, CreatesOnlyMissing

-----------------------------------------------------------------------------
(* What records and verdicts say of the contents on the disk.              *)

\* A file that is not newer than its record is what the record says.
Current(q, rec) ==
    Here(q) /\ rec.md5 # Nothing /\ local[q].ctime <= rec.ctime => local[q].data = rec.md5

\* The record on disk was made before this run, and the one in memory too unless
\* the file is in sync by now; a verdict that leaves the file as it is knows it.
RecordsInv(q) ==
    /\ index[q].ctime <= 0 /\ Current(q, index[q])
    /\ st[q].ctime <= 1 \/ res[q].state = "sync"
    /\ Current(q, st[q])
    /\ ~res[q].bad
    /\ /\ Here(q) /\ res[q].md5 # Nothing
       /\ res[q].state \in {"sync", "local_new", "remote_deleted"}
       => local[q].data = res[q].md5

\* What is listed, or still to be fetched, is what the server has.
Fetches(q) ==
    res[q].state \in {"remote_new", "remote_changed"} => res[q].md5 = remote[q].data

\* Where a file or folder is to be trashed, everything is as the index has it.
Saved(q) ==
    res[q].state = "remote_deleted" =>
        \A x \in Below(q) \cap Files : Here(x) => local[x].data = index[x].md5

WorkInv ==
    /\ \A q \in Files : RecordsInv(q)
    /\ pc = "idle" => \A q \in Path : res[q].state = "unknown"
    /\ pc # "syncing" => \A q \in Files : st[q].ctime <= 0
    /\ pc = "scanned" => /\ \A q \in Files : res[q].etag # NoETag => res[q].md5 = remote[q].data
                         /\ \A q \in Path : Saved(q)
    /\ pc = "syncing" => \A q \in Pending : Saved(q) /\ (q \in Files => Fetches(q))

\* A file that the step leaves alone, unless it goes, and its record with it.
LEMMA RecordsKept ==
    ASSUME NEW q \in Files, RecordsInv(q), index'[q] = index[q],
           local'[q] = local[q] \/ local'[q].data = Nothing,
           st'[q] = st[q] \/ st'[q] = NoRecord,
           \/ res'[q] = res[q]
           \/ res'[q].state = "both_deleted" /\ res[q].state # "sync" /\ res'[q].bad = res[q].bad
    PROVE  RecordsInv(q)'
<1>1. NoRecord.md5 = Nothing /\ NoRecord.ctime <= 1
    BY DEF NoRecord, NoTime
<1>2. Here(q)' => Here(q) /\ local'[q] = local[q]
    BY DEF Here
<1>3. Current(q, index[q])'
    BY <1>2 DEF RecordsInv, Current
<1>4. Current(q, st[q])'
    BY <1>1, <1>2 DEF RecordsInv, Current
<1> QED
    BY <1>1, <1>2, <1>3, <1>4 DEF RecordsInv

\* Once SyncSelf is through with p, nothing that follows has p below it.
LEMMA PendingApart ==
    ASSUME agenda \in Seq(SUBSET Path), Apart, NEW p, Visits(p),
           agenda' = Rest(p) \/ agenda' = Walk(p) \o Rest(p)
    PROVE  \A q \in Pending' : q \in Pending /\ q \in Path /\ p \notin Below(q)
<1>1. /\ Queued' \subseteq Known(p) \cup (Queued \ {p}) /\ p \in Queued
      /\ Pending' \subseteq Pending \ {p}
      /\ agenda' = Rest(p) => Pending' \cap Below(p) = {}
    <2>1. p \in Queued /\ p \in Path
        BY ItemsRest, QueuedType DEF Apart, Queued
    <2> QED
        BY <2>1, AfterLeaf, AfterWalk, BelowIs
<1>2. Queued \subseteq Path /\ Pending \subseteq Path /\ p \in Path
    BY <1>1, QueuedType
<1>3. Pending' = UNION {Below(z) : z \in Queued'}
    BY DEF Pending, Below
<1>4. ASSUME NEW q \in Pending', p \in Below(q) PROVE FALSE
    <2>1. q \in Path /\ q # p /\ q \in Ancestors[p]
        BY <1>1, <1>2, <1>4, BelowIs
    <2>2. PICK z \in Queued' : q \in Below(z)
        BY <1>3
    <2>3. z \in Path
        BY <1>1, <1>2, <2>2 DEF Known, Children
    <2>4. z = q \/ z \in Ancestors[q]
        BY <2>1, <2>2, <2>3, BelowIs
    <2>5. z \in Ancestors[p]
        BY <1>2, <2>1, <2>4, AncestorsTransitive
    <2>6. CASE z \in Queued
        BY <1>1, <2>5, <2>6 DEF Apart
    <2>7. CASE z \in Known(p)
        <3>1. Parent[z] = p /\ Parent[z] # Root
            BY <1>2, <2>7, TreeAssumption DEF Known, Children
        <3>2. p \in Ancestors[z]
            BY <2>3, <3>1, AncestorsStep
        <3> QED
            BY <1>2, <2>3, <2>5, <3>2, AncestorsTransitive, AncestorsIrreflexive
    <2> QED
        BY <1>1, <2>2, <2>6, <2>7
<1> QED
    BY <1>1, <1>2, <1>4

\* SyncSelf is through with p. Of the other files none has changed, but some may have
\* gone or been found to have moved.
LEMMA WorkKept ==
    ASSUME agenda \in Seq(SUBSET Path), Apart, WorkInv, pc = "syncing", NEW p, Visits(p),
           agenda' = Rest(p) \/ agenda' = Walk(p) \o Rest(p),
           pc' = pc, index' = index,
           p \in Files => RecordsInv(p)',
           \A q \in Files \ {p} :
               /\ local'[q] = local[q] \/ local'[q].data = Nothing
               /\ st'[q] = st[q] \/ st'[q] = NoRecord,
           \A q \in Path \ {p} :
               \/ res'[q] = res[q] /\ (q \in Pending' => remote'[q] = remote[q])
               \/ /\ res'[q].state = "both_deleted" /\ res[q].state # "sync"
                  /\ res'[q].bad = res[q].bad
    PROVE  WorkInv'
<1>1. \A q \in Pending' : q \in Pending /\ q \in Path /\ p \notin Below(q) /\ q # p
    <2>1. \A q \in Pending' : q \in Pending /\ q \in Path /\ p \notin Below(q)
        BY PendingApart
    <2> QED
        BY <2>1, BelowIs
<1>2. ASSUME NEW q \in Files PROVE RecordsInv(q)'
    <2>1. CASE q = p
        BY <2>1
    <2>2. CASE q # p
        <3>1. RecordsInv(q)
            BY DEF WorkInv
        <3> QED
            BY <2>2, <3>1, RecordsKept, Names
    <2> QED
        BY <2>1, <2>2
<1>3. ASSUME NEW q \in Pending' PROVE Saved(q)' /\ (q \in Files => Fetches(q)')
    <2>1. q \in Path \ {p} /\ Saved(q) /\ (q \in Files => Fetches(q)) /\ p \notin Below(q)
        BY <1>1 DEF WorkInv
    <2>2. ASSUME NEW x \in Below(q) \cap Files, Here(x)' PROVE Here(x) /\ local'[x] = local[x]
        BY <2>1, <2>2 DEF Here
    <2>3. Below(q)' = Below(q)
        BY DEF Below
    <2> QED
        BY <2>1, <2>2, <2>3, <1>3 DEF Saved, Fetches
<1> QED
    BY <1>2, <1>3 DEF WorkInv

\* The record of a file that is in sync now.
LEMMA RecordsReturn ==
    ASSUME RunOK, NEW p \in Files, NEW r \in Resources, NEW t, NEW links \in SUBSET Path,
           Return(p, r, Recorded(p, r, t), links),
           RecordsInv(p), r.state = "sync", ~r.bad,
           local'[p] = local[p] \/ local'[p].ctime = 2,
           Here(p)' /\ r.md5 # Nothing => local'[p].data = r.md5
    PROVE  RecordsInv(p)'
<1>1. p \in Path /\ p \notin Folders
    BY Names
<1>2. res'[p] = r /\ index' = index
    BY <1>1 DEF Return, RunOK, ResOK
<1>3. st'[p].md5 = r.md5
    <2>1. Recorded(p, r, t) = [st EXCEPT ![p] = SetIndex(@, r, t)]
        BY <1>1 DEF Recorded
    <2>2. st' = [Recorded(p, r, t) EXCEPT ![p] = SetSrvTime(@, r)] \/ st' = Recorded(p, r, t)
        BY DEF Return
    <2>3. /\ SetIndex(st[p], r, t).md5 = r.md5
          /\ SetSrvTime(SetIndex(st[p], r, t), r).md5 = r.md5
        BY <1>1 DEF SetSrvTime, SetIndex, RunOK, RecordsOK, Records
    <2> QED
        BY <1>1, <2>1, <2>2, <2>3 DEF RunOK, RecordsOK
<1>4. Current(p, index[p])'
    <2>1. CASE local'[p] = local[p]
        BY <1>2, <2>1 DEF RecordsInv, Current, Here
    <2>2. CASE local'[p].ctime = 2
        <3>1. index[p].ctime \in Int /\ index[p].ctime <= 0
            BY <1>1 DEF RecordsInv, RunOK, RecordsOK, Records, NoTime
        <3>2. ~(2 <= index[p].ctime)
            BY <3>1
        <3> QED
            BY <1>2, <2>2, <3>2 DEF Current
    <2> QED
        BY <2>1, <2>2
<1>5. Current(p, st[p])'
    BY <1>3 DEF Current
<1> QED
    BY <1>2, <1>4, <1>5 DEF RecordsInv

\* What is known of p when the walk has come to it.
LEMMA WorkToWalk ==
    ASSUME agenda \in Seq(SUBSET Path), TreeInv, WorkInv, NEW p, Visits(p)
    PROVE  /\ pc = "syncing" /\ Apart /\ p \in Path /\ Saved(p)
           /\ p \in Files => Fetches(p) /\ RecordsInv(p)
<1>1. pc = "syncing" /\ Apart
    BY DEF Visits, TreeInv, WalkInv
<1>2. p \in Queued /\ p \in Path /\ p \in Pending
    BY <1>1, ItemsRest, QueuedType DEF Apart, Queued
<1> QED
    BY <1>1, <1>2 DEF WorkInv

\* SyncSelf writes no record but that of p.
LEMMA OthersRecorded ==
    ASSUME RunOK, NEW p \in Path, NEW r, NEW t, NEW links,
           \/ Return(p, r, Recorded(p, r, t), links)
           \/ Return(p, r, st, links)
    PROVE  \A q \in Path \ {p} : st'[q] = st[q] /\ res'[q] = res[q]
<1>1. \A q \in Path \ {p} : Recorded(p, r, t)[q] = st[q]
    BY DEF Recorded, RunOK, RecordsOK
<1>2. PICK rec \in {Recorded(p, r, t), st} : Return(p, r, rec, links)
    OBVIOUS
<1>3. \A q \in Path \ {p} : rec[q] = st[q]
    BY <1>1, <1>2
<1>4. \A q \in Path \ {p} : res'[q] = res[q]
    BY <1>2 DEF Return, RunOK, ResOK
<1>5. \A q \in Path \ {p} : [rec EXCEPT ![p] = SetSrvTime(@, r)][q] = st[q]
    <2>1. DOMAIN rec = Path
        BY <1>2 DEF Recorded, RunOK, RecordsOK
    <2> QED
        BY <1>3, <2>1
<1>6. st' = rec \/ st' = [rec EXCEPT ![p] = SetSrvTime(@, r)]
    BY <1>2 DEF Return
<1> QED
    BY <1>3, <1>4, <1>5, <1>6

-----------------------------------------------------------------------------
(* The steps of the walk.                                                  *)

LEMMA WorkUpload ==
    ASSUME EnvOK, RunOK, TreeInv, WorkInv, NEW p \in Path, Create(p) \/ EditContent(p)
    PROVE  WorkInv'
<1> DEFINE r == Uploaded(p)
<1>1. /\ Visits(p) /\ Stored(p, local[p].data) /\ UNCHANGED local
      /\ Return(p, r, Recorded(p, r, res[p].ctime), linked)
    BY DEF Create, EditContent, Self
<1>2. /\ r.state = "sync" /\ r.bad = res[p].bad
      /\ p \in Files => r.md5 = local[p].data
    BY Names DEF Uploaded, RunOK, ResOK, Resources
<1>3. r \in Resources
    BY UploadedType
<1>4. pc = "syncing" /\ Apart /\ (p \in Files => RecordsInv(p))
    BY <1>1, WorkToWalk DEF RunOK
<1> HIDE DEF r
<1>5. p \in Files => RecordsInv(p)'
    BY <1>1, <1>2, <1>3, <1>4, RecordsReturn DEF RunOK, RecordsInv
<1>6. /\ agenda' = Rest(p) \/ agenda' = Walk(p) \o Rest(p)
      /\ pc' = pc /\ index' = index
      /\ \A q \in Path \ {p} : st'[q] = st[q] /\ res'[q] = res[q] /\ remote'[q] = remote[q]
    <2>1. \A q \in Path \ {p} : st'[q] = st[q] /\ res'[q] = res[q]
        BY <1>1, OthersRecorded DEF RunOK
    <2> QED
        BY <1>1, <2>1 DEF Return, Stored, EnvOK, RemoteOK
<1> QED
    BY <1>1, <1>4, <1>5, <1>6, WorkKept, Names DEF RunOK

\* A folder whose content changes gets a new ctime, but no file does.
LEMMA FileNotTouched ==
    ASSUME NEW f, NEW dirs, NEW g \in Touched(f, dirs),
           \A d \in dirs : \E p \in Path : d = Parent[p]
    PROVE  \A x \in Files : g[x] = f[x]
<1>1. PICK T : g = Stamped(f, T, 3) /\ T \subseteq dirs \cap Path
    BY DEF Touched
<1>2. \A x \in Files : x \in Path /\ x \notin T
    BY <1>1, ParentType, Names
<1> QED
    BY <1>1, <1>2 DEF Stamped

\* SyncSelf returns for p, and has recorded nothing or erased records.
LEMMA WorkReturn ==
    ASSUME EnvOK, RunOK, TreeInv, WorkInv, NEW p \in Path, Visits(p),
           NEW rec, NEW links, Return(p, res[p], rec, links),
           \A q \in Files : local'[q] = local[q] \/ local'[q].data = Nothing,
           \A q \in Path : rec[q] = st[q] \/ rec[q] = NoRecord,
           rec = st \/ p \notin links, DOMAIN rec = Path,
           \A q \in Path : remote'[q] = remote[q] \/ q \in Below(p),
           remote' = remote \/ agenda' = Rest(p)
    PROVE  WorkInv'
<1>1. pc = "syncing" /\ Apart /\ (p \in Files => RecordsInv(p))
    BY WorkToWalk DEF RunOK
<1>2. /\ agenda' = Rest(p) \/ agenda' = Walk(p) \o Rest(p)
      /\ pc' = pc /\ index' = index
    BY DEF Return
<1>3. res' = res
    BY DEF Return, RunOK, ResOK
<1>4. \A q \in Path \ {p} : st'[q] = st[q] \/ st'[q] = NoRecord
    BY DEF Return
<1>5. ASSUME p \in Files PROVE RecordsInv(p)'
    <2>1. local'[p] = local[p] \/ local'[p].data = Nothing
        BY <1>5
    <2>2. CASE p \notin links
        <3>1. st'[p] = st[p] \/ st'[p] = NoRecord
            BY <2>2 DEF Return
        <3> QED
            BY <1>1, <1>2, <1>3, <1>5, <2>1, <3>1, RecordsKept
    <2>3. CASE rec = st
        <3>1. /\ st'[p].md5 = st[p].md5 /\ st'[p].ctime = st[p].ctime
            BY <2>3 DEF Return, SetSrvTime, RunOK, RecordsOK, Records
        <3>2. Here(p)' => Here(p) /\ local'[p] = local[p]
            BY <2>1 DEF Here
        <3>3. Current(p, index[p])' /\ Current(p, st[p])'
            BY <1>1, <1>2, <1>5, <3>1, <3>2 DEF RecordsInv, Current
        <3> QED
            BY <1>1, <1>2, <1>3, <1>5, <3>1, <3>2, <3>3 DEF RecordsInv
    <2> QED
        BY <2>2, <2>3
<1>6. \A q \in Path \ {p} : q \in Pending' => remote'[q] = remote[q]
    <2>1. agenda' = Rest(p) => Pending' \cap Below(p) = {}
        BY <1>1, AfterLeaf DEF RunOK
    <2> QED
        BY <2>1
<1> QED
    BY <1>1, <1>2, <1>3, <1>4, <1>5, <1>6, WorkKept, Names DEF RunOK

LEMMA WorkAlone ==
    ASSUME EnvOK, RunOK, TreeInv, WorkInv, NEW p \in Path,
           LeaveReadOnly(p) \/ SkipRemote(p) \/ BothDeleted(p) \/ AlreadySync(p)
    PROVE  WorkInv'
<1>1. Visits(p) /\ UNCHANGED <<local, remote>>
    BY DEF LeaveReadOnly, SkipRemote, BothDeleted, AlreadySync, Skips, Self
<1>2. CASE LeaveReadOnly(p) \/ SkipRemote(p)
    <2>1. Return(p, res[p], st, linked) /\ DOMAIN st = Path
        BY <1>2 DEF LeaveReadOnly, SkipRemote, RunOK, RecordsOK
    <2> QED
        BY <1>1, <2>1, WorkReturn
<1>3. CASE BothDeleted(p)
    <2>1. Return(p, res[p], Forgotten(p), linked \ {p})
        BY <1>3 DEF BothDeleted
    <2>2. /\ DOMAIN Forgotten(p) = Path
          /\ \A q \in Path : Forgotten(p)[q] = st[q] \/ Forgotten(p)[q] = NoRecord
        BY DEF Forgotten
    <2> QED
        BY <1>1, <2>1, <2>2, WorkReturn
<1>4. CASE AlreadySync(p)
    <2>1. /\ Return(p, res[p], Recorded(p, res[p], res[p].ctime), linked \cup {p})
          /\ res[p].state = "sync" /\ res[p] \in Resources /\ linked \cup {p} \in SUBSET Path
        BY <1>4 DEF AlreadySync, Self, RunOK, ResOK
    <2>2. pc = "syncing" /\ Apart /\ (p \in Files => RecordsInv(p))
        BY <1>1, WorkToWalk DEF RunOK
    <2>3. ASSUME p \in Files PROVE RecordsInv(p)'
        <3>1. Here(p)' /\ res[p].md5 # Nothing => local'[p].data = res[p].md5
            BY <1>1, <2>1, <2>2, <2>3 DEF RecordsInv, Here
        <3>2. ~res[p].bad /\ local'[p] = local[p]
            BY <1>1, <2>2, <2>3 DEF RecordsInv
        <3> QED
            BY <2>1, <2>2, <2>3, <3>1, <3>2, RecordsReturn
    <2>4. /\ agenda' = Rest(p) \/ agenda' = Walk(p) \o Rest(p)
          /\ pc' = pc /\ index' = index
          /\ \A q \in Path \ {p} : st'[q] = st[q] /\ res'[q] = res[q]
        <3>1. \A q \in Path \ {p} : st'[q] = st[q] /\ res'[q] = res[q]
            BY <2>1, OthersRecorded
        <3> QED
            BY <2>1, <3>1 DEF Return
    <2> QED
        BY <1>1, <2>2, <2>3, <2>4, WorkKept, Names DEF RunOK
<1> QED
    BY <1>2, <1>3, <1>4

\* Trashed on the server, or on the disk with all below it.
LEMMA WorkDelete ==
    ASSUME EnvOK, RunOK, TreeInv, WorkInv, NEW p \in Path, DeleteRemote(p) \/ DeleteLocal(p)
    PROVE  WorkInv'
<1>1. /\ Visits(p) /\ Return(p, res[p], Forgotten(p), linked \ {p})
      /\ res[p].state \in {"local_deleted", "remote_deleted"}
    BY DEF DeleteRemote, DeleteLocal, Self
<1>2. /\ DOMAIN Forgotten(p) = Path
      /\ \A q \in Path : Forgotten(p)[q] = st[q] \/ Forgotten(p)[q] = NoRecord
    BY DEF Forgotten
<1>3. agenda' = Rest(p)
    BY <1>1 DEF Return
<1>4. CASE DeleteRemote(p)
    <2>1. local' = local /\ \A q \in Path : remote'[q] = remote[q] \/ q \in Below(p)
        BY <1>4 DEF DeleteRemote
    <2> QED
        BY <1>1, <1>2, <1>3, <2>1, WorkReturn
<1>5. CASE DeleteLocal(p)
    <2> DEFINE f == [q \in Path |-> IF q \in Below(p) THEN NoFile ELSE local[q]]
    <2>1. local' \in Touched(f, {Parent[p]}) /\ remote' = remote
        BY <1>5 DEF DeleteLocal
    <2>2. \A q \in Files : f[q] = local[q] \/ f[q].data = Nothing
        BY Names DEF NoFile
    <2> HIDE DEF f
    <2>3. \A q \in Files : local'[q] = f[q]
        BY <2>1, FileNotTouched
    <2> QED
        BY <1>1, <1>2, <1>3, <2>1, <2>2, <2>3, WorkReturn
<1> QED
    BY <1>4, <1>5

LEMMA WorkDownload ==
    ASSUME EnvOK, RunOK, TreeInv, WorkInv, NEW p \in Path, Download(p)
    PROVE  WorkInv'
<1> DEFINE r == [res[p] EXCEPT !.state = "sync"]
           f == [local EXCEPT ![p] = [data |-> remote[p].data, ctime |-> 2]]
<1>1. /\ Visits(p) /\ remote' = remote
      /\ Return(p, r, Recorded(p, r, 2), linked \cup {p})
      /\ res[p].state \in {"remote_new", "remote_changed"}
      /\ local' \in Touched(f, IF Here(p) THEN {} ELSE {Parent[p]})
    BY DEF Download, Self
<1>2. pc = "syncing" /\ Apart /\ (p \in Files => Fetches(p) /\ RecordsInv(p))
    BY <1>1, WorkToWalk DEF RunOK
<1>3. /\ r \in Resources /\ r.state = "sync" /\ r.bad = res[p].bad /\ r.md5 = res[p].md5
    BY DEF RunOK, ResOK, Resources, States
<1>4. /\ \A q \in Files \ {p} : f[q] = local[q]
      /\ f[p].data = remote[p].data /\ f[p].ctime = 2
    BY Names DEF EnvOK, LocalOK
<1> HIDE DEF r, f
<1>5. \A q \in Files : local'[q] = f[q]
    BY <1>1, FileNotTouched
<1>6. ASSUME p \in Files PROVE RecordsInv(p)'
    <2>1. local'[p].data = r.md5 /\ local'[p].ctime = 2
        BY <1>1, <1>2, <1>3, <1>4, <1>5, <1>6 DEF Fetches
    <2>2. ~r.bad /\ linked \cup {p} \in SUBSET Path
        BY <1>2, <1>3, <1>6 DEF RecordsInv, RunOK
    <2> QED
        BY <1>1, <1>2, <1>3, <1>6, <2>1, <2>2, RecordsReturn
<1>7. /\ agenda' = Rest(p) \/ agenda' = Walk(p) \o Rest(p)
      /\ pc' = pc /\ index' = index
      /\ \A q \in Path \ {p} : st'[q] = st[q] /\ res'[q] = res[q]
    <2>1. \A q \in Path \ {p} : st'[q] = st[q] /\ res'[q] = res[q]
        BY <1>1, OthersRecorded
    <2> QED
        BY <1>1, <2>1 DEF Return
<1> QED
    BY <1>1, <1>2, <1>4, <1>5, <1>6, <1>7, WorkKept, Names DEF RunOK

\* The file is where it was, or the one that was moved, and has its checksum.
LEMMA WorkMove ==
    ASSUME EnvOK, RunOK, TreeInv, WorkInv, NEW p \in Path, NEW m \in Path,
           MoveRemote(p, m) \/ MoveLocal(p, m)
    PROVE  WorkInv'
<1> DEFINE md5 == GetMD5(res[p], local[p].data)
           to  == [res[p] EXCEPT !.state = "sync", !.mtime = res[m].mtime, !.md5 = md5]
           g   == [local EXCEPT ![p] = [data |-> local[m].data, ctime |-> 2], ![m] = NoFile]
<1>1. /\ Visits(p) /\ m \in Origins(p)
      /\ res[p].state \in {"local_new", "remote_new"}
    BY DEF MoveRemote, MoveLocal
<1>2. p \in Files /\ m \in Files /\ p # m
    <2>1. res[m].state \in {"local_deleted", "remote_deleted"}
        BY <1>1 DEF Origins
    <2> QED
        BY <1>1, <2>1, OriginsType
<1>3. pc = "syncing" /\ Apart /\ Fetches(p) /\ RecordsInv(p) /\ RecordsInv(m)
    BY <1>1, <1>2, WorkToWalk DEF RunOK, WorkInv
<1>4. md5 # Nothing /\ md5 \in Checksums /\ res[m].md5 = md5
      /\ res[m].state = (IF res[p].state = "local_new" THEN "local_deleted" ELSE "remote_deleted")
    <2>1. md5 \in Checksums
        BY GetMD5Type DEF RunOK, ResOK
    <2> QED
        BY <1>1, <2>1 DEF Origins, FindByMD5
<1>5. /\ to.state = "sync" /\ to.md5 = md5 /\ to.bad = res[p].bad
    BY <1>4 DEF RunOK, ResOK, Resources
<1>6. PICK t : Moved(p, m, t) /\ t \in {res[p].ctime, 2}
    BY DEF MoveRemote, MoveLocal
<1>7. /\ res' = [res EXCEPT ![p] = to, ![m].state = "both_deleted"]
      /\ st' = [Forgotten(m) EXCEPT ![p] = SetSrvTime(Recorded(p, to, t)[p], to)]
      /\ agenda' = Rest(p) /\ pc' = pc /\ index' = index
    BY <1>6 DEF Moved
\* What is on the disk.
<1>8. /\ \A q \in Files \ {p} : local'[q] = local[q] \/ local'[q].data = Nothing
      /\ local'[p] = local[p] \/ local'[p].ctime = 2
      /\ Here(p)' => local'[p].data = md5
    <2>1. CASE MoveRemote(p, m)
        <3>1. local' = local /\ res[p].state = "local_new"
            BY <2>1 DEF MoveRemote
        <3>2. Here(p) => local[p].data = md5
            BY <1>3, <1>4, <3>1 DEF RecordsInv, GetMD5, MD5
        <3> QED
            BY <3>1, <3>2 DEF Here
    <2>2. CASE MoveLocal(p, m)
        <3>1. /\ local' \in Touched(g, {Parent[p], Parent[m]}) /\ Here(m)
              /\ res[p].state = "remote_new"
            BY <2>2 DEF MoveLocal
        <3>2. /\ \A q \in Files \ {p, m} : g[q] = local[q]
              /\ g[m].data = Nothing /\ g[p].data = local[m].data /\ g[p].ctime = 2
            BY <1>2, Names, NoneType DEF EnvOK, LocalOK
        <3> HIDE DEF g
        <3>3. \A q \in Files : local'[q] = g[q]
            BY <3>1, FileNotTouched
        <3>4. local[m].data = md5
            <4>1. res[m].md5 # Nothing /\ res[m].state = "remote_deleted"
                BY <1>4, <3>1
            <4>2. local[m].data = res[m].md5
                BY <1>3, <3>1, <4>1 DEF RecordsInv
            <4> QED
                BY <1>4, <4>2
        <3> QED
            BY <1>2, <3>2, <3>3, <3>4
    <2> QED
        BY <2>1, <2>2
<1> HIDE DEF md5, to, g
<1>9. /\ st'[p].md5 = md5 /\ res'[p] = to
      /\ \A q \in Path \ {p} : st'[q] = st[q] \/ st'[q] = NoRecord
      /\ \A q \in Path \ {p, m} : res'[q] = res[q]
      /\ res'[m].state = "both_deleted" /\ res'[m].bad = res[m].bad
    <2>1. Recorded(p, to, t)[p] = SetIndex(st[p], to, t)
        BY <1>2, Names DEF Recorded, RunOK, RecordsOK
    <2>2. SetSrvTime(SetIndex(st[p], to, t), to).md5 = to.md5
        BY DEF SetSrvTime, SetIndex, RunOK, RecordsOK, Records
    <2>3. /\ DOMAIN Forgotten(m) = Path
          /\ \A q \in Path : Forgotten(m)[q] = st[q] \/ Forgotten(m)[q] = NoRecord
        BY DEF Forgotten
    <2>4. st'[p].md5 = md5
        BY <1>5, <1>7, <2>1, <2>2, <2>3
    <2>5. \A q \in Path \ {p} : st'[q] = Forgotten(m)[q]
        BY <1>7, <2>3
    <2>6. res[m] \in Resources
        BY DEF RunOK, ResOK
    <2> QED
        BY <1>2, <1>7, <2>3, <2>4, <2>5, <2>6 DEF RunOK, ResOK, Resources
<1>10. RecordsInv(p)'
    <2>1. Current(p, st[p])'
        BY <1>8, <1>9 DEF Current
    <2>2. Current(p, index[p])'
        <3>1. index[p].ctime \in Int /\ index[p].ctime <= 0
            BY <1>2, <1>3 DEF RecordsInv, RunOK, RecordsOK, Records, NoTime
        <3>2. ~(2 <= index[p].ctime)
            BY <3>1
        <3> QED
            BY <1>3, <1>7, <1>8, <3>2 DEF RecordsInv, Current, Here
    <2> QED
        BY <1>3, <1>5, <1>7, <1>8, <1>9, <2>1, <2>2 DEF RecordsInv
<1>11. \A q \in Path \ {p, m} : remote'[q] = remote[q]
    BY DEF MoveRemote, MoveLocal, ServerMoves, EnvOK, RemoteOK
<1>12. res[m].state # "sync"
    BY <1>4
<1> QED
    BY <1>1, <1>2, <1>3, <1>7, <1>8, <1>9, <1>10, <1>11, <1>12, WorkKept, Names DEF RunOK

\* A download that is cut short leaves a file newer than its record.
LEMMA WorkCaught ==
    ASSUME EnvOK, RunOK, TreeInv, WorkInv, NEW p \in Path,
           \/ RefusedByServer(p) \/ \E m \in Path : MoveLocalRefused(p, m)
           \/ HttpError(p)
    PROVE  WorkInv'
<1>1. Visits(p) /\ Caught(p) /\ UNCHANGED remote
    BY DEF RefusedByServer, MoveLocalRefused, HttpError, Self, Visits
<1>2. pc = "syncing" /\ Apart /\ (p \in Files => RecordsInv(p))
    BY <1>1, WorkToWalk DEF RunOK
<1>3. UNCHANGED <<index, st, res, pc>> /\ agenda' = Rest(p)
    BY <1>1 DEF Caught
<1>4. \/ local' = local
      \/ /\ p \in Files /\ res[p].state \in {"remote_new", "remote_changed"}
         /\ \A q \in Files \ {p} : local'[q] = local[q]
         /\ local'[p].ctime = 2
    <2>1. CASE local' = local
        BY <2>1
    <2>2. CASE local' # local
        <3> DEFINE f == [local EXCEPT ![p] = [data |-> Truncated, ctime |-> 2]]
        <3>1. /\ Self(p, "remote_new") \/ Self(p, "remote_changed")
              /\ p \in Files
              /\ local' \in Touched(f, IF Here(p) THEN {} ELSE {Parent[p]})
            BY <2>2 DEF RefusedByServer, MoveLocalRefused, HttpError
        <3>2. f[p].ctime = 2 /\ \A q \in Files \ {p} : f[q] = local[q]
            BY <3>1, Names DEF EnvOK, LocalOK
        <3> HIDE DEF f
        <3>3. \A q \in Files : local'[q] = f[q]
            BY <3>1, FileNotTouched
        <3> QED
            BY <3>1, <3>2, <3>3 DEF Self
    <2> QED
        BY <2>1, <2>2
<1>5. ASSUME p \in Files PROVE RecordsInv(p)'
    <2>1. CASE local' = local
        BY <1>2, <1>3, <1>5, <2>1, RecordsKept
    <2>2. CASE /\ res[p].state \in {"remote_new", "remote_changed"}
               /\ local'[p].ctime = 2
        <3>1. /\ index[p].ctime \in Int /\ index[p].ctime <= 0
              /\ st[p].ctime \in Int /\ st[p].ctime <= 1
            BY <1>2, <1>5, <2>2, Names DEF RecordsInv, RunOK, RecordsOK, Records, NoTime
        <3>2. ~(2 <= index[p].ctime) /\ ~(2 <= st[p].ctime)
            BY <3>1
        <3>3. Current(p, index[p])' /\ Current(p, st[p])'
            BY <1>3, <2>2, <3>2 DEF Current
        <3> QED
            BY <1>2, <1>3, <1>5, <2>2, <3>3 DEF RecordsInv
    <2> QED
        BY <1>4, <2>1, <2>2
<1> QED
    BY <1>1, <1>2, <1>3, <1>4, <1>5, WorkKept, Names DEF RunOK

-----------------------------------------------------------------------------
(* The other steps.                                                        *)

\* What the user changes is newer than its record, or not there.
LEMMA WorkEnvironment ==
    ASSUME EnvOK, RunOK, WorkInv, Environment
    PROVE  WorkInv'
<1>1. pc = "idle" /\ UNCHANGED <<index, pc, st, res>>
    BY DEF Environment, LocalWrite, RemoteWrite, LocalDelete, RemoteTrash, LocalMove,
        RemoteMove, Acts, run
<1>2. ASSUME NEW q \in Files
      PROVE  local'[q] = local[q] \/ local'[q].data = Nothing \/ local'[q].ctime = 1
    <2>1. q \in Path /\ \A x \in Path : Parent[x] # q
        BY ParentType, Names
    <2>2. ASSUME NEW p \in Path, NEW c, LocalWrite(p, c)
          PROVE  local'[q] = local[q] \/ local'[q].ctime = 1
        <3> DEFINE dirs == {p} \cup (IF Here(p) THEN {} ELSE {Parent[p]})
                   f == [local EXCEPT ![p].data = c]
        <3>1. local' = Stamped(f, dirs, 1) /\ (q = p => q \in dirs) /\ (q # p => q \notin dirs)
            BY <2>1, <2>2 DEF LocalWrite
        <3>2. q # p => f[q] = local[q]
            BY DEF EnvOK, LocalOK
        <3>3. DOMAIN f[q] = {"data", "ctime"}
            BY <2>1 DEF EnvOK, LocalOK, LocalFile
        <3> HIDE DEF f, dirs
        <3> QED
            BY <2>1, <3>1, <3>2, <3>3 DEF Stamped
    <2>3. ASSUME NEW p \in Path, LocalDelete(p)
          PROVE  local'[q] = local[q] \/ local'[q].data = Nothing
        BY <2>1, <2>3, NoneType DEF LocalDelete, Stamped
    <2>4. ASSUME NEW p \in Files, NEW t \in Files, LocalMove(p, t)
          PROVE  local'[q] = local[q] \/ local'[q].data = Nothing \/ local'[q].ctime = 1
        <3> DEFINE f == [local EXCEPT ![t].data = local[p].data, ![p] = NoFile]
        <3>1. local' = Stamped(f, {t, Parent[p], Parent[t]}, 1)
            BY <2>4 DEF LocalMove
        <3>2. /\ q # t /\ q # p => f[q] = local[q]
              /\ q = p => f[q].data = Nothing
              /\ f[q] \in LocalFile
            BY <2>1, <2>4, Names, NoneType DEF EnvOK, LocalOK, LocalFile
        <3>3. p \in Path /\ t \in Path
            BY Names
        <3> HIDE DEF f
        <3> QED
            BY <2>1, <3>1, <3>2, <3>3 DEF Stamped, LocalFile
    <2>5. CASE local' = local
        BY <2>5
    <2> QED
        BY <2>2, <2>3, <2>4, <2>5 DEF Environment, RemoteWrite, RemoteTrash, RemoteMove
<1>3. ASSUME NEW q \in Files PROVE RecordsInv(q)'
    <2>1. q \in Path /\ RecordsInv(q) /\ res[q].state = "unknown" /\ st[q].ctime <= 0
        BY <1>1, Names DEF WorkInv
    <2>2. index[q].ctime \in Int /\ index[q].ctime <= 0 /\ st[q].ctime \in Int
        BY <2>1 DEF RecordsInv, RunOK, RecordsOK, Records, NoTime
    <2>3. ~(1 <= index[q].ctime) /\ ~(1 <= st[q].ctime) /\ st[q].ctime <= 1
        BY <2>1, <2>2
    <2>4. Current(q, index[q])' /\ Current(q, st[q])'
        BY <1>1, <1>2, <2>1, <2>3 DEF RecordsInv, Current, Here
    <2> QED
        BY <1>1, <2>1, <2>3, <2>4 DEF RecordsInv
<1> QED
    BY <1>1, <1>3 DEF WorkInv

\* What the scan makes of a file.
LEMMA FileScanned ==
    ASSUME NEW q \in Files, local[q].data \in Checksums, Here(q), NEW r \in Records,
           Current(q, r)
    PROVE  LET s == FromLocal(local[q], r)
           IN  /\ s.state = "remote_deleted" => local[q].data = r.md5
               /\ s.md5 # Nothing => local[q].data = s.md5
               /\ ~s.bad /\ s.state \in {"local_new", "remote_deleted"}
<1>1. MD5(local[q].data) = local[q].data
    BY DEF MD5, Checksums, Here
<1>2. NotTouched(local[q], r) => local[q].data = r.md5
    BY DEF NotTouched, Current
<1>3. FromLocal(local[q], r).md5 # Nothing => local[q].data = FromLocal(local[q], r).md5
    BY <1>1, <1>2 DEF FromLocal
<1>4. FromLocal(local[q], r).state = "remote_deleted" => local[q].data = r.md5
    BY <1>1, <1>2 DEF FromLocal, IsChanged
<1> QED
    BY <1>3, <1>4 DEF FromLocal

LEMMA WorkScan ==
    ASSUME EnvOK, RunOK, WorkInv, NEW o, Scan(o)
    PROVE  WorkInv'
<1> DEFINE rec == [p \in Path |-> Forgetful(o, index[p])]
<1>1. /\ res' = [p \in Path |-> IF Here(p) THEN ScannedInTree(p, rec)
                                ELSE IF Leftover(p) THEN FromDeleted(rec[p])
                                ELSE NewResource]
      /\ st' = [p \in Path |-> IF Here(p) THEN Item(rec[p])
                               ELSE IF Leftover(p) THEN rec[p] ELSE index[p]]
      /\ UNCHANGED <<local, remote, index>> /\ pc' = "scanned"
    BY DEF Scan, env
<1>2. ASSUME NEW q \in Path
      PROVE  /\ Item(rec[q]) \in Records /\ rec[q] \in Records
             /\ Item(rec[q]).md5 = index[q].md5 /\ Item(rec[q]).ctime = index[q].ctime
             /\ rec[q].md5 = index[q].md5 /\ rec[q].ctime = index[q].ctime
    BY DEF Item, Forgetful, RunOK, RecordsOK, Records
<1> HIDE DEF rec
<1>3. ASSUME NEW q \in Files, Here(q)
      PROVE  LET s == ScannedAlone(q, Item(rec[q]))
             IN  /\ s.state = "remote_deleted" => local[q].data = index[q].md5
                 /\ s.md5 # Nothing => local[q].data = s.md5
                 /\ ~s.bad /\ s.state \in {"local_new", "remote_deleted"}
    <2>1. q \in Path /\ q \notin Folders /\ local[q].data \in Checksums
        BY Names DEF EnvOK, LocalOK, LocalFile
    <2>2. Current(q, Item(rec[q]))
        BY <1>2, <2>1 DEF WorkInv, RecordsInv, Current
    <2> QED
        BY <1>2, <1>3, <2>1, <2>2, FileScanned DEF ScannedAlone
<1>4. ASSUME NEW q \in Path, Here(q)
      PROVE  /\ res'[q].md5 = ScannedAlone(q, Item(rec[q])).md5
             /\ res'[q].bad = ScannedAlone(q, Item(rec[q])).bad
             /\ res'[q].etag = NoETag
             /\ res'[q].state = "remote_deleted" =>
                    \A x \in Below(q) : Here(x) => ScannedAlone(x, Item(rec[x])).state # "local_new"
    <2> DEFINE s == ScannedAlone(q, Item(rec[q]))
               changed(x) == Here(x) /\ ScannedAlone(x, Item(rec[x])).state = "local_new"
               state == IF \E x \in Below(q) : changed(x) THEN "local_new" ELSE s.state
    <2>1. res'[q] = [s EXCEPT !.state = state]
        BY <1>1, <1>4 DEF ScannedInTree
    <2>2. DOMAIN s = {"state", "exists", "bad", "md5", "size", "ctime", "mtime", "etag"}
          /\ s.etag = NoETag
        BY DEF ScannedAlone, FromLocal, FolderFromLocal, NewResource
    <2>3. state = "remote_deleted" => \A x \in Below(q) : ~changed(x)
        OBVIOUS
    <2> HIDE DEF s, state
    <2>4. /\ res'[q].md5 = s.md5 /\ res'[q].bad = s.bad
          /\ res'[q].etag = NoETag /\ res'[q].state = state
        BY <2>1, <2>2
    <2> QED
        BY <2>3, <2>4 DEF s
<1>5. ASSUME NEW q \in Path, ~Here(q)
      PROVE  ~res'[q].bad /\ res'[q].etag = NoETag /\ res'[q].state \in {"unknown", "both_deleted"}
    BY <1>1, <1>5 DEF FromDeleted, NewResource
<1>6. ASSUME NEW q \in Path
      PROVE  st'[q].md5 = index[q].md5 /\ st'[q].ctime = index[q].ctime
    BY <1>1, <1>2
<1>7. ASSUME NEW q \in Files PROVE RecordsInv(q)' /\ st'[q].ctime <= 0
    <2>1. q \in Path /\ RecordsInv(q)
        BY Names DEF WorkInv
    <2>2. Current(q, index[q])' /\ Current(q, st[q])'
        BY <1>1, <1>6, <2>1 DEF RecordsInv, Current, Here
    <2>3. index'[q].ctime <= 0 /\ st'[q].ctime <= 0 /\ st'[q].ctime <= 1
        <3>1. index[q].ctime \in Int
            BY <2>1 DEF RunOK, RecordsOK, Records, NoTime
        <3> QED
            BY <1>1, <1>6, <2>1, <3>1 DEF RecordsInv
    <2>4. CASE Here(q)
        BY <1>1, <1>3, <1>4, <2>1, <2>2, <2>3, <2>4 DEF RecordsInv
    <2>5. CASE ~Here(q)
        BY <1>1, <1>5, <2>1, <2>2, <2>3, <2>5 DEF RecordsInv, Here
    <2> QED
        BY <2>3, <2>4, <2>5
<1>8. ASSUME NEW q \in Path PROVE Saved(q)'
    <2>1. SUFFICES ASSUME res'[q].state = "remote_deleted", NEW x \in Below(q) \cap Files, Here(x)
                   PROVE  local[x].data = index[x].md5
        BY <1>1 DEF Saved, Here, Below
    <2>2. Here(q)
        BY <1>5, <2>1
    <2>3. ScannedAlone(x, Item(rec[x])).state # "local_new"
        BY <1>4, <2>1, <2>2
    <2> QED
        BY <1>3, <2>1, <2>3
<1>9. \A q \in Path : res'[q].etag = NoETag
    BY <1>4, <1>5
<1> QED
    BY <1>1, <1>7, <1>8, <1>9, Names DEF WorkInv

\* A file that the listing leaves in sync has the checksum that is listed.
LEMMA SyncIsSame ==
    ASSUME NEW r \in Resources, NEW e, NEW s, NEW d \in Checksums,
           RemoteState(r, e, s, d) = "sync", r.exists, ~r.bad,
           r.state \in {"local_new", "remote_deleted"},
           r.md5 # Nothing => d = r.md5, e.data # Nothing
    PROVE  d = e.data
<1>1. s \notin Recursive
    BY DEF RemoteState, Recursive
<1>2. ~DiffersFrom(r, e, d)
    BY <1>1 DEF RemoteState
<1>3. e.data = GetMD5(r, d)
    BY <1>2 DEF DiffersFrom
<1> QED
    BY <1>3 DEF GetMD5, MD5

LEMMA WorkList ==
    ASSUME EnvOK, RunOK, TreeInv, TreeInv', WorkInv, NEW p \in Path, List(p)
    PROVE  WorkInv'
<1>1. /\ pc = "scanned" /\ pc' = "scanned" /\ UNCHANGED <<local, remote, index, st>>
      /\ p \in unlisted /\ ScannedInv /\ ScannedInv'
    BY DEF List, env, TreeInv
<1>2. There(p) /\ remote[p].etag # NoETag /\ res[p].state \notin Listed
    BY <1>1 DEF ScannedInv, ScannedOK, TreeInv, ServerInv, OnServer
\* What becomes of p.
<1>3. /\ res'[p].bad = res[p].bad /\ res'[p].state \in Listed
      /\ p \in Files => res'[p].md5 = remote[p].data /\ res'[p].etag = remote[p].etag
    <2>1. CASE p \in Folders
        <3>1. res'[p] = FromRemoteFolder(res[p], remote[p])
            BY <2>1 DEF List, SetState
        <3> QED
            BY <2>1, <3>1, Names DEF FromRemoteFolder, RunOK, ResOK, Resources, Listed
    <2>2. CASE p \notin Folders
        <3>1. res'[p] = FromRemote(res[p], remote[p], StateOfFolder(p), local[p].data)
            BY <2>2 DEF List, RunOK, ResOK
        <3>2. /\ res'[p].bad = res[p].bad /\ res'[p].md5 = remote[p].data
              /\ res'[p].etag = remote[p].etag
            BY <3>1 DEF FromRemote, RunOK, ResOK, Resources
        <3>3. res'[p].state \in Listed
            BY <1>1, <1>2, <3>2 DEF ScannedInv, ScannedOK
        <3> QED
            BY <3>2, <3>3
    <2> QED
        BY <2>1, <2>2
\* What becomes of the others: those below a folder that is not there.
<1>4. ASSUME NEW q \in Path \ {p}
      PROVE  /\ res'[q].bad = res[q].bad /\ res'[q].md5 = res[q].md5 /\ res'[q].etag = res[q].etag
             /\ res'[q].state = res[q].state \/ res'[q].state \in {"remote_new", "local_deleted"}
    <2>1. res[q] \in Resources
        BY DEF RunOK, ResOK
    <2>2. CASE p \in Folders
        <3> DEFINE r == FromRemoteFolder(res[p], remote[p])
        <3>1. ~r.exists => r.state \in {"remote_new", "local_deleted"}
            BY DEF FromRemoteFolder, RunOK, ResOK, Resources
        <3>2. \/ res'[q] = res[q]
              \/ ~r.exists /\ res'[q] = [res[q] EXCEPT !.state = r.state]
            BY <2>2 DEF List, SetState
        <3> HIDE DEF r
        <3> QED
            BY <2>1, <3>1, <3>2 DEF Resources
    <2>3. CASE p \notin Folders
        BY <2>3 DEF List, RunOK, ResOK
    <2> QED
        BY <2>2, <2>3
<1>5. ASSUME NEW q \in Files PROVE RecordsInv(q)'
    <2>1. /\ q \in Path /\ RecordsInv(q) /\ st[q].ctime <= 0 /\ st[q].ctime \in Int
        BY <1>1, Names DEF WorkInv, RunOK, RecordsOK, Records, NoTime
    <2>2. Current(q, index[q])' /\ Current(q, st[q])' /\ st'[q].ctime <= 1
        BY <1>1, <2>1 DEF RecordsInv, Current, Here
    <2>3. CASE q = p
        <3>1. ASSUME Here(p), res'[p].state = "sync" PROVE local[p].data = res'[p].md5
            <4>1. res'[p] = FromRemote(res[p], remote[p], StateOfFolder(p), local[p].data)
                BY <2>3, Names DEF List, RunOK, ResOK
            <4>2. RemoteState(res[p], remote[p], StateOfFolder(p), local[p].data) = "sync"
                BY <3>1, <4>1 DEF FromRemote, RunOK, ResOK, Resources
            <4>3. /\ res[p].exists /\ ~res[p].bad
                  /\ res[p].state \in {"local_new", "remote_deleted"}
                <5>1. ScannedOK(p) /\ res[p].state \in States
                    BY <1>1 DEF ScannedInv, RunOK, ResOK, Resources
                <5> QED
                    BY <1>2, <2>1, <2>3, <3>1, <5>1 DEF ScannedOK, States, Listed, RecordsInv
            <4>4. res[p].md5 # Nothing => local[p].data = res[p].md5
                BY <2>1, <2>3, <3>1, <4>3 DEF RecordsInv
            <4>5. local[p].data \in Checksums /\ res[p] \in Resources /\ remote[p].data # Nothing
                BY <1>2, <2>3, Names DEF EnvOK, LocalOK, LocalFile, RunOK, ResOK, There
            <4>6. local[p].data = remote[p].data
                BY <4>2, <4>3, <4>4, <4>5, SyncIsSame
            <4> QED
                BY <1>3, <2>3, <4>6
        <3> QED
            BY <1>1, <1>3, <2>1, <2>2, <2>3, <3>1 DEF RecordsInv, Here, Listed
    <2>4. CASE q # p
        BY <1>1, <1>4, <2>1, <2>2, <2>4 DEF RecordsInv, Here
    <2> QED
        BY <2>3, <2>4
<1>6. ASSUME NEW q \in Path PROVE Saved(q)'
    <2>1. res'[q].state = "remote_deleted" => q # p /\ res[q].state = "remote_deleted"
        BY <1>3, <1>4 DEF Listed
    <2>2. Saved(q)
        BY <1>1 DEF WorkInv
    <2> QED
        BY <1>1, <2>1, <2>2 DEF Saved, Here, Below
<1>7. ASSUME NEW q \in Files, res'[q].etag # NoETag PROVE res'[q].md5 = remote'[q].data
    BY <1>1, <1>3, <1>4, <1>7, Names DEF WorkInv
<1> QED
    BY <1>1, <1>5, <1>6, <1>7 DEF WorkInv

LEMMA WorkStart ==
    ASSUME EnvOK, RunOK, TreeInv, TreeInv', WorkInv, StartSync
    PROVE  WorkInv'
<1>1. /\ pc = "scanned" /\ pc' = "syncing" /\ UNCHANGED <<local, remote, index, st, res>>
      /\ ScannedInv
    BY DEF StartSync, env, TreeInv
<1>2. Pending' \subseteq Path
    <2>1. agenda' \in Seq(SUBSET Path)
        BY WalkType DEF StartSync
    <2>2. Queued' \subseteq Path
        BY <2>1, ItemsOf DEF Queued
    <2>3. Pending' = UNION {Below(q) : q \in Queued'}
        BY DEF Pending, Below
    <2> QED
        BY <2>2, <2>3, BelowIs
<1>3. ASSUME NEW q \in Files PROVE RecordsInv(q)' /\ Fetches(q)'
    <2>1. q \in Path /\ RecordsInv(q) /\ ScannedOK(q)
        BY <1>1, Names DEF WorkInv, ScannedInv
    <2>2. res[q].etag # NoETag => res[q].md5 = remote[q].data
        BY <1>1 DEF WorkInv
    <2>3. Fetches(q)
        BY <2>1, <2>2 DEF ScannedOK, Listed, Fetches
    <2> QED
        BY <1>1, <2>1, <2>3 DEF RecordsInv, Current, Here, Fetches
<1>4. ASSUME NEW q \in Path PROVE Saved(q)'
    <2>1. Saved(q)
        BY <1>1 DEF WorkInv
    <2> QED
        BY <1>1, <2>1 DEF Saved, Here, Below
<1> QED
    BY <1>1, <1>2, <1>3, <1>4 DEF WorkInv

\* ctimes are made relative to the next run.
LEMMA WorkEnd ==
    ASSUME EnvOK, RunOK, WorkInv, SaveState \/ Abort \/ \E p \in Path : Dies(p)
    PROVE  WorkInv'
<1>1. PICK rec \in {st, index} : ExitWith(rec)
    BY DEF SaveState, Abort, Dies
<1>2. /\ pc' = "idle" /\ \A q \in Path : st'[q] = NoRecord /\ res'[q] = NewResource
      /\ NoRecord.ctime = -1 /\ NoRecord.md5 = Nothing
      /\ NewResource.state = "unknown" /\ ~NewResource.bad
    BY <1>1 DEF ExitWith, NoRecord, NewResource, NoTime
<1>3. ASSUME NEW q \in Files PROVE RecordsInv(q)'
    <2> DEFINE late == Here(q) /\ local[q].ctime > rec[q].ctime
    <2>1. /\ q \in Path /\ rec[q] \in Records /\ local[q] \in LocalFile
          /\ Current(q, rec[q])
        BY <1>1, Names DEF WorkInv, RecordsInv, RunOK, RecordsOK, EnvOK, LocalOK
    <2>2. /\ index'[q].md5 = rec[q].md5
          /\ index'[q].ctime = (IF rec[q].ctime = NoTime THEN NoTime ELSE 0)
        BY <1>1, <2>1 DEF ExitWith, Records
    <2>3. /\ local'[q].data = local[q].data
          /\ local'[q].ctime = (IF late THEN 1 ELSE 0)
        BY <1>1, <2>1 DEF ExitWith, LocalFile
    <2>4. local[q].ctime \in Int /\ rec[q].ctime \in Int
        BY <2>1 DEF LocalFile, Times, Records, NoTime
    <2>5. Current(q, index[q])'
        <3>1. SUFFICES ASSUME Here(q), rec[q].md5 # Nothing, local'[q].ctime <= index'[q].ctime
                       PROVE  local[q].data = rec[q].md5
            BY <2>2, <2>3 DEF Current, Here
        <3>2. local[q].ctime <= rec[q].ctime
            BY <2>2, <2>3, <2>4, <3>1 DEF NoTime
        <3> QED
            BY <2>1, <3>1, <3>2 DEF Current
    <2>6. index'[q].ctime <= 0 /\ st'[q].ctime <= 1
        BY <1>2, <2>1, <2>2 DEF NoTime
    <2> QED
        BY <1>2, <2>1, <2>5, <2>6 DEF RecordsInv, Current
<1>4. \A q \in Files : st'[q].ctime <= 0
    BY <1>2, Names
<1> QED
    BY <1>2, <1>3, <1>4 DEF WorkInv

LEMMA WorkInit == Init => WorkInv
<1> SUFFICES ASSUME Init PROVE WorkInv
    OBVIOUS
<1>1. /\ pc = "idle"
      /\ \A q \in Path : local[q] = NoFile /\ index[q] = NoRecord /\ st[q] = NoRecord
                         /\ res[q] = NewResource
    BY DEF Init
<1>2. /\ NoRecord.ctime = -1 /\ NoRecord.md5 = Nothing /\ NoFile.data = Nothing
      /\ NewResource.state = "unknown" /\ ~NewResource.bad
    BY DEF NoRecord, NewResource, NoTime, NoFile
<1>3. ASSUME NEW q \in Files PROVE RecordsInv(q) /\ st[q].ctime <= 0
    BY <1>1, <1>2, Names DEF RecordsInv, Current, Here
<1> QED
    BY <1>1, <1>2, <1>3 DEF WorkInv

LEMMA WorkNext ==
    ASSUME EnvOK, RunOK, TreeInv, TreeInv', WorkInv, Next
    PROVE  WorkInv'
<1>1. CASE Environment
    BY <1>1, WorkEnvironment
<1>2. ASSUME NEW o \in Options, Scan(o) PROVE WorkInv'
    BY <1>2, WorkScan
<1>3. ASSUME NEW p \in Path, List(p) PROVE WorkInv'
    BY <1>3, WorkList
<1>4. CASE StartSync
    BY <1>4, WorkStart
<1>5. ASSUME NEW p \in Path, SyncSelf(p) PROVE WorkInv'
    BY <1>5, WorkUpload, WorkAlone, WorkDelete, WorkDownload, WorkMove, WorkCaught DEF SyncSelf
<1>6. ASSUME NEW p \in Path, HttpError(p) PROVE WorkInv'
    BY <1>6, WorkCaught
<1>7. CASE SaveState \/ Abort \/ \E p \in Path : Dies(p)
    BY <1>7, WorkEnd
<1> QED
    BY <1>1, <1>2, <1>3, <1>4, <1>5, <1>6, <1>7 DEF Next, RunStep, Failure

\* The whole invariant.
Inv == TypeOK /\ TreeInv /\ WorkInv

LEMMA InvNext == Inv /\ [Next]_vars => Inv'
<1> SUFFICES ASSUME Inv, [Next]_vars PROVE WorkInv'
    BY TypeNext, TreeStep DEF Inv
<1>1. CASE Next
    BY <1>1, Halves, TreeStep, WorkNext DEF Inv
<1>2. CASE UNCHANGED vars
    BY <1>2 DEF Inv, vars, WorkInv, RecordsInv, Current, Fetches, Saved, Here, Pending, Queued,
        Below
<1> QED
    BY <1>1, <1>2

\* A folder that goes to .trash takes no work along that is not in the index, however
\* deep it is: a change anywhere below makes its parents local_new (Resource.cc:318).
THEOREM TrashesSaved == Spec => TrashesNoLocalWork
<1>1. Init => Inv
    BY TypeInit, TreeInit, WorkInit DEF Inv
<1>2. Inv => \A p \in Path : DeleteLocal(p) =>
          \A q \in Below(p) \cap Files : Here(q) => local[q].data = index[q].md5
    <2> SUFFICES ASSUME Inv, NEW p \in Path, DeleteLocal(p)
                 PROVE  \A q \in Below(p) \cap Files : Here(q) => local[q].data = index[q].md5
        OBVIOUS
    <2>1. Visits(p) /\ res[p].state = "remote_deleted"
        BY DEF DeleteLocal, Self
    <2>2. Saved(p)
        BY <2>1, Halves, WorkToWalk DEF Inv, RunOK
    <2> QED
        BY <2>1, <2>2 DEF Saved
<1> QED
    BY <1>1, <1>2, InvNext, PTL DEF Spec, TrashesNoLocalWork

-----------------------------------------------------------------------------
(* As long as the user is quiet.                                           *)

\* What the verdict on q will read or write back is still there.
Backed(q) ==
    /\ res[q].state \in {"local_new", "local_changed", "sync"} => Here(q)
    /\ res[q].state \in {"remote_new", "remote_changed"} => There(q)

\* A name that is not on the disk has no server time until it is listed.
Timeless(q) ==
    /\ q \in unlisted /\ ~res[q].exists => res[q].mtime = 0
    /\ res[q].state = "sync" => res[q].exists

\* There is no record of what is not on the disk, and so nothing looks as if the user
\* had deleted it.
QuietInv ==
    /\ left.user <= MaxUser
    /\ \A q \in Path : There(q) => remote[q].mtime > 0
    /\ left.user = MaxUser =>
        /\ pc = "idle" => \A q \in Path : index[q].present => Here(q)
        /\ pc # "idle" => \A q \in Path : /\ st[q].present => Here(q)
                                          /\ res[q].state # "local_deleted"
        /\ pc = "scanned" => \A q \in Path : Timeless(q)
        /\ pc = "syncing" => \A q \in Pending : Backed(q)

\* SyncSelf is through with p: what is still to be walked has lost nothing.
LEMMA QuietKept ==
    ASSUME agenda \in Seq(SUBSET Path), Apart, QuietInv, pc = "syncing", NEW p, Visits(p),
           agenda' = Rest(p) \/ agenda' = Walk(p) \o Rest(p),
           pc' = pc, left' = left,
           \A q \in Path : There(q)' => remote'[q].mtime > 0,
           left.user = MaxUser =>
               /\ st'[p].present => Here(p)'
               /\ res'[p].state # "local_deleted"
               /\ \A q \in Path \ {p} :
                    /\ st'[q].present => st[q].present /\ (Here(q) => Here(q)')
                    /\ \/ /\ res'[q] = res[q]
                          /\ q \in Pending' => /\ Here(q) => Here(q)'
                                               /\ There(q) => There(q)'
                       \/ res'[q].state = "both_deleted"
    PROVE  QuietInv'
<1>1. \A q \in Pending' : q \in Pending /\ q \in Path \ {p}
    <2>1. \A q \in Pending' : q \in Pending /\ q \in Path /\ p \notin Below(q)
        BY PendingApart
    <2> QED
        BY <2>1, BelowIs
<1>2. ASSUME left.user = MaxUser
      PROVE  /\ \A q \in Path : (st'[q].present => Here(q)') /\ res'[q].state # "local_deleted"
             /\ \A q \in Pending' : Backed(q)'
    <2>1. \A q \in Path : (st[q].present => Here(q)) /\ res[q].state # "local_deleted"
        BY <1>2 DEF QuietInv
    <2>2. ASSUME NEW q \in Pending' PROVE Backed(q)'
        <3>1. Backed(q) /\ q \in Path \ {p}
            BY <1>1, <1>2, <2>2 DEF QuietInv
        <3> QED
            BY <1>2, <2>2, <3>1 DEF Backed
    <2>3. ASSUME NEW q \in Path
          PROVE  (st'[q].present => Here(q)') /\ res'[q].state # "local_deleted"
        BY <1>2, <2>1
    <2> QED
        BY <2>2, <2>3
<1> QED
    BY <1>2 DEF QuietInv

\* What is known of p when the walk has come to it.
LEMMA QuietToWalk ==
    ASSUME agenda \in Seq(SUBSET Path), TreeInv, QuietInv, NEW p, Visits(p)
    PROVE  /\ pc = "syncing" /\ Apart /\ p \in Path
           /\ left.user = MaxUser =>
                /\ Backed(p) /\ res[p].state # "local_deleted"
                /\ st[p].present => Here(p)
<1>1. pc = "syncing" /\ Apart
    BY DEF Visits, TreeInv, WalkInv
<1>2. p \in Queued /\ p \in Path /\ p \in Pending
    BY <1>1, ItemsRest, QueuedType DEF Apart, Queued
<1> QED
    BY <1>1, <1>2 DEF QuietInv

\* SyncSelf returns, and the records of the others stay or go.
LEMMA QuietReturn ==
    ASSUME EnvOK, RunOK, TreeInv, QuietInv, NEW p \in Path, Visits(p),
           NEW r, NEW rec, NEW links, Return(p, r, rec, links),
           r.state # "local_deleted",
           DOMAIN rec = Path, p \in links => rec[p] \in Records,
           \A q \in Path \ {p} : rec[q] = st[q] \/ rec[q] = NoRecord,
           \A q \in Path \ {p} :
                Here(q) => Here(q)' \/ (agenda' = Rest(p) /\ q \in Below(p) /\ rec[q] = NoRecord),
           \A q \in Path : There(q)' => remote'[q].mtime > 0,
           \A q \in Path \ {p} : There(q) => There(q)',
           left.user = MaxUser /\ rec[p].present => Here(p)'
    PROVE  QuietInv'
<1>1. pc = "syncing" /\ Apart
    BY QuietToWalk DEF RunOK
<1>2. /\ agenda' = Rest(p) \/ agenda' = Walk(p) \o Rest(p)
      /\ pc' = pc /\ left' = left
      /\ res' = [res EXCEPT ![p] = r]
      /\ st' = IF p \in links THEN [rec EXCEPT ![p] = SetSrvTime(@, r)] ELSE rec
    BY DEF Return
<1>3. res'[p] = r /\ \A q \in Path \ {p} : res'[q] = res[q]
    BY <1>2 DEF RunOK, ResOK
<1>4. st'[p].present = rec[p].present /\ \A q \in Path \ {p} : st'[q] = rec[q]
    BY <1>2 DEF SetSrvTime, Records
<1>5. ~NoRecord.present
    BY DEF NoRecord
<1>6. agenda' = Rest(p) => Pending' \cap Below(p) = {}
    BY <1>1, AfterLeaf DEF RunOK
<1>7. ASSUME NEW q \in Path \ {p}
      PROVE  /\ st'[q].present => st[q].present /\ (Here(q) => Here(q)')
             /\ q \in Pending' => (Here(q) => Here(q)') /\ (There(q) => There(q)')
    BY <1>4, <1>5, <1>6
<1> QED
    BY <1>1, <1>2, <1>3, <1>4, <1>7, QuietKept DEF RunOK

\* The record that is written, and the ones that are erased.
LEMMA RecordedIs ==
    ASSUME RunOK, NEW p \in Path, NEW r \in Resources, NEW t \in Nat
    PROVE  /\ DOMAIN Recorded(p, r, t) = Path /\ Recorded(p, r, t)[p] \in Records
           /\ \A q \in Path \ {p} : Recorded(p, r, t)[q] = st[q]
           /\ DOMAIN Forgotten(p) = Path /\ Forgotten(p)[p] = NoRecord
           /\ \A q \in Path : Forgotten(p)[q] = st[q] \/ Forgotten(p)[q] = NoRecord
           /\ \A q \in Below(p) \cap Path : Forgotten(p)[q] = NoRecord
           /\ ~NoRecord.present
<1>1. RecordsOK(Recorded(p, r, t))
    BY RecordedType DEF RunOK
<1>2. \A q \in Path \ {p} : Recorded(p, r, t)[q] = st[q]
    BY DEF Recorded, RunOK, RecordsOK
<1>3. p \in Below(p)
    BY BelowIs
<1> QED
    BY <1>1, <1>2, <1>3 DEF RecordsOK, Forgotten, NoRecord

LEMMA QuietUpload ==
    ASSUME EnvOK, RunOK, TreeInv, QuietInv, NEW p \in Path, Create(p) \/ EditContent(p)
    PROVE  QuietInv'
<1> DEFINE r == Uploaded(p)
<1>1. /\ Visits(p) /\ Stored(p, local[p].data) /\ UNCHANGED local
      /\ Return(p, r, Recorded(p, r, res[p].ctime), linked)
      /\ res[p].state \in {"local_new", "local_changed"}
    BY DEF Create, EditContent, Self
<1>2. r \in Resources /\ r.state = "sync" /\ res[p].ctime \in Nat
    BY UploadedType DEF Uploaded, RunOK, ResOK, Resources
<1> HIDE DEF r
<1>3. left.user = MaxUser => Here(p)'
    BY <1>1, QuietToWalk DEF RunOK, Backed, Here
<1>4. /\ \A q \in Path \ {p} : remote'[q] = remote[q] /\ (Here(q) => Here(q)')
      /\ remote'[p].mtime > 0
    BY <1>1 DEF Stored, EnvOK, RemoteOK, Here
<1>5. /\ \A q \in Path : There(q)' => remote'[q].mtime > 0
      /\ \A q \in Path \ {p} : There(q) => There(q)'
    BY <1>4 DEF QuietInv, There
<1> QED
    BY <1>1, <1>2, <1>3, <1>4, <1>5, RecordedIs, QuietReturn

LEMMA QuietAlone ==
    ASSUME EnvOK, RunOK, TreeInv, QuietInv, NEW p \in Path,
           LeaveReadOnly(p) \/ SkipRemote(p) \/ BothDeleted(p) \/ AlreadySync(p)
    PROVE  QuietInv'
<1>1. /\ Visits(p) /\ UNCHANGED <<local, remote>>
      /\ res[p].state # "local_deleted"
    BY DEF LeaveReadOnly, SkipRemote, BothDeleted, AlreadySync, Skips, Self
<1>2. /\ \A q \in Path : (Here(q)' <=> Here(q)) /\ (There(q)' <=> There(q))
      /\ \A q \in Path : There(q)' => remote'[q].mtime > 0
    BY <1>1 DEF Here, There, QuietInv
<1>3. res[p] \in Resources /\ res[p].ctime \in Nat
    BY DEF RunOK, ResOK, Resources
<1>4. left.user = MaxUser => Backed(p) /\ (st[p].present => Here(p))
    BY <1>1, QuietToWalk DEF RunOK
<1>5. CASE LeaveReadOnly(p) \/ SkipRemote(p)
    <2>1. Return(p, res[p], st, linked) /\ DOMAIN st = Path /\ st[p] \in Records
        BY <1>5 DEF LeaveReadOnly, SkipRemote, RunOK, RecordsOK
    <2>2. left.user = MaxUser /\ st[p].present => Here(p)'
        BY <1>2, <1>4
    <2>3. \A q \in Path \ {p} : st[q] = st[q] \/ st[q] = NoRecord
        OBVIOUS
    <2> QED
        BY <1>1, <1>2, <2>1, <2>2, <2>3, QuietReturn
<1>6. CASE BothDeleted(p)
    <2>1. Return(p, res[p], Forgotten(p), linked \ {p})
        BY <1>6 DEF BothDeleted
    <2> QED
        BY <1>1, <1>2, <1>3, <2>1, RecordedIs, QuietReturn
<1>7. CASE AlreadySync(p)
    <2>1. /\ Return(p, res[p], Recorded(p, res[p], res[p].ctime), linked \cup {p})
          /\ res[p].state = "sync"
        BY <1>7 DEF AlreadySync, Self
    <2>2. left.user = MaxUser => Here(p)
        BY <1>4, <2>1 DEF Backed
    <2> QED
        BY <1>1, <1>2, <1>3, <2>1, <2>2, RecordedIs, QuietReturn
<1> QED
    BY <1>5, <1>6, <1>7

\* Nothing is trashed on the server but by a user who is not quiet any more.
LEMMA QuietDelete ==
    ASSUME EnvOK, RunOK, TreeInv, QuietInv, NEW p \in Path, DeleteRemote(p) \/ DeleteLocal(p)
    PROVE  QuietInv'
<1>1. /\ Visits(p) /\ Return(p, res[p], Forgotten(p), linked \ {p})
      /\ res[p].state \in {"local_deleted", "remote_deleted"}
      /\ agenda' = Rest(p)
    BY DEF DeleteRemote, DeleteLocal, Self, Return
<1>2. res[p] \in Resources /\ 0 \in Nat
    BY DEF RunOK, ResOK
<1>3. CASE DeleteRemote(p)
    <2>1. left.user # MaxUser
        BY <1>1, <1>3, QuietToWalk DEF RunOK, DeleteRemote, Self
    <2>2. remote' = [q \in Path |-> IF q \in Below(p) THEN NoEntry ELSE remote[q]]
        BY <1>3 DEF DeleteRemote
    <2>3. \A q \in Path : There(q)' => remote'[q].mtime > 0
        BY <2>2, NoneType DEF QuietInv, There
    <2>4. /\ agenda \in Seq(SUBSET Path) /\ Apart /\ pc = "syncing"
          /\ pc' = pc /\ left' = left
        BY <1>1, QuietToWalk DEF RunOK, Return
    <2> QED
        BY <1>1, <2>1, <2>3, <2>4, QuietKept
<1>4. CASE DeleteLocal(p)
    <2> DEFINE f == [q \in Path |-> IF q \in Below(p) THEN NoFile ELSE local[q]]
    <2>1. /\ local' \in Touched(f, {Parent[p]}) /\ remote' = remote
          /\ res[p].state # "local_deleted"
        BY <1>4 DEF DeleteLocal, Self
    <2>2. \A q \in Path : f[q] \in LocalFile /\ (q \in Below(p) \/ f[q] = local[q])
        BY NoneType DEF EnvOK, LocalOK
    <2> HIDE DEF f
    <2>3. \A q \in Path : local'[q].data = f[q].data
        BY <2>1, <2>2, TouchedData
    <2>4. \A q \in Path : Here(q) => Here(q)' \/ q \in Below(p)
        BY <2>2, <2>3 DEF Here
    <2>5. \A q \in Path : There(q)' <=> There(q)
        BY <2>1 DEF There
    <2>6. \A q \in Path : There(q)' => remote'[q].mtime > 0
        BY <2>1, <2>5 DEF QuietInv
    <2> QED
        BY <1>1, <1>2, <2>1, <2>4, <2>5, <2>6, RecordedIs, QuietReturn
<1> QED
    BY <1>3, <1>4

LEMMA QuietDownload ==
    ASSUME EnvOK, RunOK, TreeInv, QuietInv, NEW p \in Path, Download(p)
    PROVE  QuietInv'
<1> DEFINE r == [res[p] EXCEPT !.state = "sync"]
           f == [local EXCEPT ![p] = [data |-> remote[p].data, ctime |-> 2]]
<1>1. /\ Visits(p) /\ remote' = remote
      /\ Return(p, r, Recorded(p, r, 2), linked \cup {p})
      /\ res[p].state \in {"remote_new", "remote_changed"}
      /\ local' \in Touched(f, IF Here(p) THEN {} ELSE {Parent[p]})
    BY DEF Download, Self
<1>2. r \in Resources /\ r.state = "sync"
    BY DEF RunOK, ResOK, Resources, States
<1>3. /\ \A q \in Path : f[q] \in LocalFile
      /\ \A q \in Path \ {p} : f[q] = local[q]
      /\ f[p].data = remote[p].data
    BY DEF EnvOK, LocalOK, RemoteOK, LocalFile, Entry, Times
<1> HIDE DEF r, f
<1>4. \A q \in Path : local'[q].data = f[q].data
    BY <1>1, <1>3, TouchedData
<1>5. left.user = MaxUser => Here(p)'
    <2>1. left.user = MaxUser => There(p)
        BY <1>1, QuietToWalk DEF RunOK, Backed
    <2> QED
        BY <1>3, <1>4, <2>1 DEF Here, There
<1>6. \A q \in Path \ {p} : Here(q) => Here(q)'
    BY <1>3, <1>4 DEF Here
<1>7. \A q \in Path : (There(q)' <=> There(q)) /\ (There(q)' => remote'[q].mtime > 0)
    BY <1>1 DEF There, QuietInv
<1> QED
    BY <1>1, <1>2, <1>5, <1>6, <1>7, RecordedIs, QuietReturn

LEMMA QuietCaught ==
    ASSUME EnvOK, RunOK, TreeInv, QuietInv, NEW p \in Path,
           \/ RefusedByServer(p) \/ \E m \in Path : MoveLocalRefused(p, m)
           \/ HttpError(p)
    PROVE  QuietInv'
<1>1. Visits(p) /\ Caught(p) /\ UNCHANGED remote
    BY DEF RefusedByServer, MoveLocalRefused, HttpError, Self, Visits
<1>2. UNCHANGED <<st, res, pc, left>> /\ agenda' = Rest(p)
    BY <1>1 DEF Caught
<1>3. \A q \in Path : Here(q) => Here(q)'
    <2>1. CASE local' = local
        BY <2>1 DEF Here
    <2>2. CASE local' # local
        <3> DEFINE f == [local EXCEPT ![p] = [data |-> Truncated, ctime |-> 2]]
        <3>1. \E dirs : local' \in Touched(f, dirs)
            BY <2>2 DEF RefusedByServer, MoveLocalRefused, HttpError
        <3>2. /\ \A q \in Path : f[q] \in LocalFile /\ (q # p => f[q].data = local[q].data)
              /\ f[p].data # Nothing
            BY Names, ContentAssumption DEF EnvOK, LocalOK, LocalFile, Times
        <3> HIDE DEF f
        <3>3. \A q \in Path : local'[q].data = f[q].data
            BY <3>1, <3>2, TouchedData
        <3> QED
            BY <3>2, <3>3 DEF Here
    <2> QED
        BY <2>1, <2>2
<1>4. \A q \in Path : (There(q)' <=> There(q)) /\ (There(q)' => remote'[q].mtime > 0)
    BY <1>1 DEF There, QuietInv
<1>5. /\ agenda \in Seq(SUBSET Path) /\ Apart /\ pc = "syncing"
      /\ left.user = MaxUser => /\ res[p].state # "local_deleted"
                                /\ st[p].present => Here(p)
    BY <1>1, QuietToWalk DEF RunOK
<1> QED
    BY <1>1, <1>2, <1>3, <1>4, <1>5, QuietKept

LEMMA QuietMove ==
    ASSUME EnvOK, RunOK, TreeInv, QuietInv, NEW p \in Path, NEW m \in Path,
           MoveRemote(p, m) \/ MoveLocal(p, m)
    PROVE  QuietInv'
<1>1. /\ Visits(p) /\ m \in Origins(p)
      /\ res[p].state \in {"local_new", "remote_new"}
      /\ res[m].state = IF res[p].state = "local_new" THEN "local_deleted" ELSE "remote_deleted"
    BY DEF MoveRemote, MoveLocal, Origins
<1>2. p \in Files /\ m \in Files /\ p # m
    <2>1. res[m].state \in {"local_deleted", "remote_deleted"}
        BY <1>1
    <2> QED
        BY <1>1, <2>1, OriginsType
<1>3. /\ agenda \in Seq(SUBSET Path) /\ Apart /\ pc = "syncing"
    BY <1>1, QuietToWalk DEF RunOK
<1>4. PICK t : Moved(p, m, t)
    BY DEF MoveRemote, MoveLocal
<1>5. agenda' = Rest(p) /\ pc' = pc /\ left' = left
    BY <1>4 DEF Moved
<1>6. CASE MoveRemote(p, m)
    <2>1. left.user # MaxUser
        BY <1>1, <1>6 DEF QuietInv, MoveRemote, Visits
    <2>2. \A q \in Path : There(q)' => remote'[q].mtime > 0
        <3>1. \A q \in Path : /\ remote[q].data # Nothing => remote[q].mtime > 0
                              /\ \/ remote'[q] \in {remote[q], NoEntry}
                                 \/ remote'[q] = remote[m]
            BY <1>6 DEF MoveRemote, ServerMoves, QuietInv, There, EnvOK, RemoteOK
        <3> QED
            BY <3>1, NoneType DEF There
    <2> QED
        BY <1>1, <1>3, <1>5, <2>1, <2>2, QuietKept
<1>7. CASE MoveLocal(p, m)
    <2> DEFINE to == [res[p] EXCEPT !.state = "sync", !.mtime = res[m].mtime,
                                    !.md5 = GetMD5(res[p], local[p].data)]
               f  == [local EXCEPT ![p] = [data |-> local[m].data, ctime |-> 2], ![m] = NoFile]
    <2>1. /\ res' = [res EXCEPT ![p] = to, ![m].state = "both_deleted"]
          /\ \E rec : st' = [Forgotten(m) EXCEPT ![p] = rec]
        BY <1>4 DEF Moved
    <2>2. to.state = "sync" /\ res[m] \in Resources
        BY DEF RunOK, ResOK, Resources
    <2>3. /\ local' \in Touched(f, {Parent[p], Parent[m]}) /\ Here(m) /\ remote' = remote
        BY <1>7 DEF MoveLocal
    <2>4. /\ \A q \in Path : f[q] \in LocalFile
          /\ \A q \in Path \ {p, m} : f[q] = local[q]
          /\ f[p].data = local[m].data
        BY <1>2, NoneType DEF EnvOK, LocalOK, LocalFile, Times
    <2> HIDE DEF to, f
    <2>5. \A q \in Path : local'[q].data = f[q].data
        BY <2>3, <2>4, TouchedData
    <2>6. Here(p)' /\ \A q \in Path \ {p, m} : Here(q) => Here(q)'
        BY <2>3, <2>4, <2>5 DEF Here
    <2>7. /\ res'[p].state = "sync" /\ res'[m].state = "both_deleted"
          /\ \A q \in Path \ {p, m} : res'[q] = res[q]
        BY <1>2, <2>1, <2>2 DEF RunOK, ResOK, Resources
    <2>8. /\ \A q \in Path \ {p} : st'[q] = st[q] \/ st'[q] = NoRecord
          /\ st'[m] = NoRecord /\ ~NoRecord.present
        <3>1. /\ DOMAIN Forgotten(m) = Path /\ Forgotten(m)[m] = NoRecord /\ ~NoRecord.present
              /\ \A q \in Path : Forgotten(m)[q] = st[q] \/ Forgotten(m)[q] = NoRecord
            BY <2>2, RecordedIs
        <3> QED
            BY <1>2, <2>1, <3>1
    <2>9. \A q \in Path : (There(q)' <=> There(q)) /\ (There(q)' => remote'[q].mtime > 0)
        BY <2>3 DEF There, QuietInv
    <2>10. \A q \in Path \ {p} :
                    /\ st'[q].present => st[q].present /\ (Here(q) => Here(q)')
                    /\ \/ /\ res'[q] = res[q]
                          /\ q \in Pending' => /\ Here(q) => Here(q)'
                                               /\ There(q) => There(q)'
                       \/ res'[q].state = "both_deleted"
        BY <2>6, <2>7, <2>8, <2>9
    <2> QED
        BY <1>1, <1>3, <1>5, <2>6, <2>7, <2>9, <2>10, QuietKept
<1> QED
    BY <1>6, <1>7

LEMMA QuietEnvironment ==
    ASSUME EnvOK, RunOK, QuietInv, Environment
    PROVE  QuietInv'
<1>1. pc = "idle" /\ UNCHANGED <<index, pc>>
    BY DEF Environment, LocalWrite, RemoteWrite, LocalDelete, RemoteTrash, LocalMove,
        RemoteMove, Acts, run
<1>2. ASSUME NEW who \in {"user", "others"}, Acts(who)
      PROVE  /\ left'.user <= MaxUser
             /\ left'.user = MaxUser => left.user = MaxUser /\ who # "user"
    <2>1. left.user \in Nat /\ left.others \in Nat /\ MaxUser \in Nat
        BY TreeAssumption DEF EnvOK
    <2>2. left.user <= MaxUser /\ left[who] > 0 /\ left' = [left EXCEPT ![who] = @ - 1]
        BY <1>2 DEF Acts, QuietInv
    <2>3. CASE who = "user"
        BY <2>1, <2>2, <2>3 DEF EnvOK
    <2>4. CASE who = "others"
        BY <2>1, <2>2, <2>4 DEF EnvOK
    <2> QED
        BY <2>3, <2>4
<1>3. CASE Acts("user") /\ UNCHANGED remote
    BY <1>1, <1>2, <1>3 DEF QuietInv, There
<1>4. ASSUME Acts("others"), UNCHANGED local,
             \A q \in Path : There(q)' => remote'[q].mtime > 0
      PROVE  QuietInv'
    BY <1>1, <1>2, <1>4 DEF QuietInv, Here
<1>5. ASSUME NEW p \in Path, NEW c, RemoteWrite(p, c) PROVE QuietInv'
    <2>1. /\ \A q \in Path \ {p} : remote'[q] = remote[q]
          /\ remote'[p].mtime > 0
        BY <1>5 DEF RemoteWrite, EnvOK, RemoteOK
    <2>2. \A q \in Path : There(q)' => remote'[q].mtime > 0
        BY <2>1 DEF QuietInv, There
    <2> QED
        BY <1>4, <1>5, <2>2 DEF RemoteWrite
<1>6. ASSUME NEW p \in Path, RemoteTrash(p) PROVE QuietInv'
    <2>1. \A q \in Path : There(q)' => remote'[q].mtime > 0
        BY <1>6, NoneType DEF RemoteTrash, QuietInv, There
    <2> QED
        BY <1>4, <1>6, <2>1 DEF RemoteTrash
<1>7. ASSUME NEW p \in Files, NEW m \in Files, RemoteMove(p, m) PROVE QuietInv'
    <2>1. \A q \in Path : remote'[q] \in {remote[q], remote[p], NoEntry}
        BY <1>7 DEF RemoteMove, EnvOK, RemoteOK
    <2>2. \A q \in Path : There(q)' => remote'[q].mtime > 0
        BY <2>1, NoneType, Names DEF QuietInv, There
    <2> QED
        BY <1>4, <1>7, <2>2 DEF RemoteMove
<1> QED
    BY <1>3, <1>5, <1>6, <1>7 DEF Environment, LocalWrite, LocalDelete, LocalMove

\* Every record has its file, and so the scan has nothing left over.
LEMMA QuietScan ==
    ASSUME EnvOK, RunOK, QuietInv, NEW o, Scan(o)
    PROVE  QuietInv'
<1> DEFINE rec == [p \in Path |-> Forgetful(o, index[p])]
<1>1. /\ res' = [p \in Path |-> IF Here(p) THEN ScannedInTree(p, rec)
                                ELSE IF Leftover(p) THEN FromDeleted(rec[p])
                                ELSE NewResource]
      /\ st' = [p \in Path |-> IF Here(p) THEN Item(rec[p])
                               ELSE IF Leftover(p) THEN rec[p] ELSE index[p]]
      /\ UNCHANGED <<local, remote, left>> /\ pc = "idle" /\ pc' = "scanned"
    BY DEF Scan, env
<1> HIDE DEF rec
<1>2. \A q \in Path : There(q)' => remote'[q].mtime > 0
    BY <1>1 DEF QuietInv, There
<1>3. ASSUME left.user = MaxUser, NEW q \in Path
      PROVE  /\ st'[q].present => Here(q)
             /\ res'[q].state # "local_deleted" /\ Timeless(q)'
    <2>1. index[q].present => Here(q)
        BY <1>1, <1>3 DEF QuietInv
    <2>2. CASE Here(q)
        <3>1. res'[q] = ScannedInTree(q, rec)
            BY <1>1, <2>2
        <3>2. res'[q].exists /\ res'[q].state \in {"local_new", "remote_deleted"}
            BY <3>1, ScannedIs
        <3> QED
            BY <2>2, <3>2 DEF Timeless
    <2>3. CASE ~Here(q)
        <3>1. res'[q] = NewResource /\ st'[q] = index[q]
            BY <1>1, <2>1, <2>3 DEF Leftover
        <3> QED
            BY <2>1, <3>1 DEF NewResource, Timeless
    <2> QED
        BY <2>2, <2>3
<1> QED
    BY <1>1, <1>2, <1>3 DEF QuietInv, Here

\* What the server lists is newer than nothing at all.
LEMMA QuietList ==
    ASSUME EnvOK, RunOK, TreeInv, WorkInv, QuietInv, NEW p \in Path, List(p)
    PROVE  QuietInv'
<1>1. /\ pc = "scanned" /\ pc' = "scanned" /\ UNCHANGED <<local, remote, left, st>>
      /\ p \in unlisted /\ unlisted' = unlisted \ {p} /\ ScannedInv /\ FolderKnown(p)
    BY DEF List, env, TreeInv
<1>2. \A q \in Path : There(q)' => remote'[q].mtime > 0
    BY <1>1 DEF QuietInv, There
<1>3. SUFFICES ASSUME left.user = MaxUser
               PROVE  \A q \in Path : res'[q].state # "local_deleted" /\ Timeless(q)'
    BY <1>1, <1>2 DEF QuietInv, Here
<1>4. \A q \in Path : res[q].state # "local_deleted" /\ Timeless(q)
    BY <1>1, <1>3 DEF QuietInv
<1>5. There(p) /\ remote[p].mtime > 0 /\ ScannedOK(p) /\ res[p].etag = NoETag
    BY <1>1 DEF ScannedInv, ScannedOK, QuietInv
<1>6. ~res[p].exists => remote[p].mtime > res[p].mtime
    BY <1>1, <1>4, <1>5 DEF Timeless
<1>7. CASE p \in Folders
    <2> DEFINE r == FromRemoteFolder(res[p], remote[p])
    <2>1. /\ r.exists = res[p].exists
          /\ r.exists => r.state = "sync"
          /\ ~r.exists => r.state = "remote_new"
        BY <1>6 DEF FromRemoteFolder, RunOK, ResOK, Resources
    <2>2. res' = SetState(p, r)
        BY <1>7 DEF List
    <2> HIDE DEF r
    <2>3. ASSUME NEW q \in Path PROVE res'[q].state # "local_deleted" /\ Timeless(q)'
        <3>1. CASE q = p
            <4>1. res'[q] = r
                BY <2>2, <3>1 DEF SetState
            <4> QED
                BY <1>1, <2>1, <3>1, <4>1 DEF Timeless
        <3>2. CASE q # p
            <4>1. \/ res'[q] = res[q]
                  \/ res'[q] = [res[q] EXCEPT !.state = r.state] /\ ~r.exists
                BY <2>2, <3>2 DEF SetState
            <4>2. CASE res'[q] = res[q]
                BY <1>1, <1>4, <4>2 DEF Timeless
            <4>3. CASE res'[q] = [res[q] EXCEPT !.state = r.state] /\ ~r.exists
                <5>1. /\ res'[q].state = "remote_new"
                      /\ res'[q].exists = res[q].exists /\ res'[q].mtime = res[q].mtime
                    BY <2>1, <4>3 DEF RunOK, ResOK, Resources
                <5> QED
                    BY <1>1, <1>4, <5>1 DEF Timeless
            <4> QED
                BY <4>1, <4>2, <4>3
        <3> QED
            BY <3>1, <3>2
    <2> QED
        BY <2>3
<1>8. CASE p \notin Folders
    <2> DEFINE s == StateOfFolder(p)
               t == RemoteState(res[p], remote[p], s, local[p].data)
    <2>1. s \in {"sync", "remote_new"}
        <3>1. CASE Parent[p] = Root
            BY <3>1 DEF StateOfFolder
        <3>2. CASE Parent[p] # Root
            <4>1. Parent[p] \in Path /\ Parent[p] \in Folders
                BY <3>2, ParentType
            <4>2. ScannedOK(Parent[p]) /\ res[Parent[p]].etag # NoETag
                BY <1>1, <3>2, <4>1 DEF ScannedInv, FolderKnown
            <4>3. FolderOK(res[Parent[p]]) /\ res[Parent[p]].state # "local_deleted"
                BY <1>4, <4>1 DEF TreeInv, KnownInv
            <4> QED
                BY <3>2, <4>2, <4>3 DEF ScannedOK, FolderOK, Listed, StateOfFolder
        <3> QED
            BY <3>1, <3>2
    <2>2. res' = [res EXCEPT ![p] = FromRemote(@, remote[p], s, local[p].data)]
        BY <1>8 DEF List
    <2> HIDE DEF s
    <2>3. /\ res'[p] = FromRemote(res[p], remote[p], s, local[p].data)
          /\ \A q \in Path \ {p} : res'[q] = res[q]
        BY <2>2 DEF RunOK, ResOK
    <2>4. res'[p].state = t /\ res'[p].exists = res[p].exists
        BY <2>3 DEF FromRemote, RunOK, ResOK, Resources
    <2>5. ~res[p].bad
        BY <1>8, Names DEF WorkInv, RecordsInv
    <2>6. t # "local_deleted" /\ (t = "sync" => res[p].exists)
        <3>1. CASE s = "remote_new"
            BY <3>1 DEF RemoteState, Recursive
        <3>2. CASE s = "sync" /\ ~res[p].exists
            BY <1>6, <2>5, <3>2 DEF RemoteState, Recursive
        <3>3. CASE s = "sync" /\ res[p].exists
            <4>1. t \in {"sync", "remote_changed", "local_changed", res[p].state}
                BY <2>5, <3>3 DEF RemoteState, Recursive
            <4> QED
                BY <1>4, <3>3, <4>1
        <3> QED
            BY <2>1, <3>1, <3>2, <3>3
    <2> HIDE DEF t
    <2>7. ASSUME NEW q \in Path PROVE res'[q].state # "local_deleted" /\ Timeless(q)'
        <3>1. CASE q = p
            BY <1>1, <2>4, <2>6, <3>1 DEF Timeless
        <3>2. CASE q # p
            BY <1>1, <1>4, <2>3, <3>2 DEF Timeless
        <3> QED
            BY <3>1, <3>2
    <2> QED
        BY <2>7
<1> QED
    BY <1>7, <1>8

LEMMA QuietStart ==
    ASSUME EnvOK, RunOK, TreeInv, QuietInv, StartSync
    PROVE  QuietInv'
<1>1. /\ pc = "scanned" /\ pc' = "syncing" /\ UNCHANGED <<local, remote, left, st, res>>
      /\ ScannedInv
    BY DEF StartSync, env, TreeInv
<1>2. Pending' \subseteq Path
    <2>1. agenda' \in Seq(SUBSET Path)
        BY WalkType DEF StartSync
    <2>2. Queued' \subseteq Path
        BY <2>1, ItemsOf DEF Queued
    <2>3. Pending' = UNION {Below(q) : q \in Queued'}
        BY DEF Pending, Below
    <2> QED
        BY <2>2, <2>3, BelowIs
<1>3. ASSUME left.user = MaxUser, NEW q \in Path PROVE Backed(q)'
    <2>1. Timeless(q) /\ ScannedOK(q)
        BY <1>1, <1>3 DEF QuietInv, ScannedInv
    <2>2. Backed(q)
        BY <2>1 DEF Timeless, ScannedOK, Listed, Backed
    <2> QED
        BY <1>1, <2>2 DEF Backed, Here, There
<1> QED
    BY <1>1, <1>2, <1>3 DEF QuietInv, Here, There

LEMMA QuietSave ==
    ASSUME EnvOK, RunOK, QuietInv, SaveState
    PROVE  QuietInv'
<1>1. /\ pc = "syncing" /\ pc' = "idle" /\ UNCHANGED <<remote, left>> /\ ExitWith(st)
    BY DEF SaveState, ExitWith
<1>2. ASSUME NEW q \in Path
      PROVE  local'[q].data = local[q].data /\ index'[q].present = st[q].present
    <2>1. local[q] \in LocalFile /\ st[q] \in Records
        BY DEF EnvOK, LocalOK, RunOK, RecordsOK
    <2> QED
        BY <1>1, <2>1 DEF ExitWith, LocalFile, Records
<1> QED
    BY <1>1, <1>2 DEF QuietInv, Here, There

LEMMA QuietInit == Init => QuietInv
<1> SUFFICES ASSUME Init PROVE QuietInv
    OBVIOUS
<1>1. /\ left.user = MaxUser /\ MaxUser <= MaxUser /\ pc = "idle"
      /\ \A q \in Path : index[q] = NoRecord
    BY TreeAssumption DEF Init
<1>2. \A q \in Path : There(q) => remote[q].mtime = 1
    BY NoneType DEF Init, Drives, There
<1> QED
    BY <1>1, <1>2 DEF QuietInv, NoRecord

\* A run that ends without saving leaves records of what it has deleted.
LEMMA QuietNext ==
    ASSUME EnvOK, RunOK, TreeInv, WorkInv, QuietInv, Next,
           left.user = MaxUser /\ pc # "idle" /\ pc' = "idle" => SaveState
    PROVE  QuietInv'
<1>1. CASE Environment
    BY <1>1, QuietEnvironment
<1>2. ASSUME NEW o \in Options, Scan(o) PROVE QuietInv'
    BY <1>2, QuietScan
<1>3. ASSUME NEW p \in Path, List(p) PROVE QuietInv'
    BY <1>3, QuietList
<1>4. CASE StartSync
    BY <1>4, QuietStart
<1>5. ASSUME NEW p \in Path, SyncSelf(p) PROVE QuietInv'
    BY <1>5, QuietUpload, QuietAlone, QuietDelete, QuietDownload, QuietMove, QuietCaught
        DEF SyncSelf
<1>6. ASSUME NEW p \in Path, HttpError(p) PROVE QuietInv'
    BY <1>6, QuietCaught
<1>7. CASE SaveState
    BY <1>7, QuietSave
<1>8. ASSUME Abort \/ \E p \in Path : Dies(p) PROVE QuietInv'
    <2>1. pc # "idle" /\ pc' = "idle" /\ left' = left
        BY <1>8 DEF Abort, Dies, CreateAsserts, MoveCrashes, Self, Visits, ExitWith
    <2>2. CASE left.user = MaxUser
        BY <1>7, <2>1, <2>2
    <2>3. CASE left.user # MaxUser
        <3>1. \A q \in Path : There(q)' => remote'[q].mtime > 0
            <4>1. \A q \in Path : \/ remote'[q] \in {remote[q], NoEntry}
                                  \/ \E m \in Path : remote'[q] = remote[m]
                BY <1>8 DEF Abort, Dies, ServerMoves, EnvOK, RemoteOK
            <4> QED
                BY <4>1, NoneType DEF QuietInv, There
        <3> QED
            BY <2>1, <2>3, <3>1 DEF QuietInv
    <2> QED
        BY <2>2, <2>3
<1> QED
    BY <1>1, <1>2, <1>3, <1>4, <1>5, <1>6, <1>7, <1>8 DEF Next, RunStep, Failure

LEMMA QuietStutter == ASSUME QuietInv, UNCHANGED vars PROVE QuietInv'
BY DEF vars, QuietInv, There, Here, Timeless, Backed, Pending, Queued, Below

LEMMA QuietKeepsRemote ==
    ASSUME EnvOK, RunOK, TreeInv, QuietInv, left.user = MaxUser, NEW p \in Path
    PROVE  ~DeleteRemote(p)
BY QuietToWalk DEF DeleteRemote, Self, RunOK

\* No run is killed, and none dies of an assertion or of a NULL pointer.
RunsSave == [][pc # "idle" /\ pc' = "idle" => SaveState]_vars

\* Grive trashes nothing on the server as long as the user does nothing, whatever the
\* other clients do and whatever is refused (Resource.cc:560), if every run gets to
\* the end and saves what it has done (State.cc:412).
THEOREM SavedRunsKeepRemote == Spec /\ RunsSave => RemoteKept
<1>1. Init => Inv /\ QuietInv
    BY TypeInit, TreeInit, WorkInit, QuietInit DEF Inv
<1>2. Inv /\ QuietInv /\ [Next]_vars /\ [pc # "idle" /\ pc' = "idle" => SaveState]_vars
      => (Inv /\ QuietInv)'
    <2> SUFFICES ASSUME Inv, QuietInv, [Next]_vars,
                        [pc # "idle" /\ pc' = "idle" => SaveState]_vars
                 PROVE  QuietInv'
        BY InvNext
    <2>1. CASE UNCHANGED vars
        BY <2>1, QuietStutter
    <2>2. CASE Next /\ ~UNCHANGED vars
        BY <2>2, QuietNext, Halves DEF Inv
    <2> QED
        BY <2>1, <2>2
<1>3. Inv /\ QuietInv => (left.user = MaxUser => \A p \in Path : ~DeleteRemote(p))
    BY QuietKeepsRemote, Halves DEF Inv
<1> QED
    BY <1>1, <1>2, <1>3, PTL DEF Spec, RunsSave, RemoteKept

-----------------------------------------------------------------------------
(* Where no folder is read-only, none is walked before it is in sync.      *)

\* A name that is new on the disk is in a folder that is new or in sync, and the walk
\* comes to it when the folder is in sync.
NewInNew(q) ==
    res[q].state = "local_new" => StateOfFolder(q) \in {"local_new", "sync"}

FolderInv ==
    /\ pc = "scanned" => \A q \in Path : NewInNew(q)
    /\ pc = "syncing" =>
        /\ \A q \in Pending : NewInNew(q)
        /\ \A q \in Queued : res[q].state = "local_new" => StateOfFolder(q) = "sync"

\* SyncSelf is through with p, and goes on with its children only once p is in sync.
LEMMA FolderKept ==
    ASSUME agenda \in Seq(SUBSET Path), Apart, FolderInv, pc = "syncing", NEW p, Visits(p),
           \/ agenda' = Rest(p)
           \/ /\ agenda' = Walk(p) \o Rest(p)
              /\ res[p].state \in {"local_new", "sync"} => res'[p].state = "sync",
           pc' = pc,
           \A q \in Path \ {p} : \/ res'[q] = res[q]
                                 \/ q \in Files /\ res'[q].state = "both_deleted"
    PROVE  FolderInv'
<1>1. /\ p \in Path /\ p \in Queued /\ p \in Pending
      /\ \A q \in Pending' : q \in Pending /\ q \in Path /\ q # p
      /\ agenda' = Rest(p) => Pending' \cap Below(p) = {} /\ Queued' = Queued \ {p}
      /\ agenda' = Walk(p) \o Rest(p) => Queued' = Known(p) \cup (Queued \ {p})
    <2>1. p \in Queued /\ p \in Path /\ p \in Pending
        BY ItemsRest, QueuedType DEF Apart, Queued
    <2>2. \A q \in Pending' : q \in Pending /\ q \in Path /\ p \notin Below(q)
        BY PendingApart
    <2> QED
        BY <2>1, <2>2, BelowIs, AfterLeaf, AfterWalk
<1>2. /\ \A q \in Path : q \in Pending => NewInNew(q)
      /\ \A q \in Queued : res[q].state = "local_new" => StateOfFolder(q) = "sync"
    BY DEF FolderInv
\* What is in another folder.
<1>3. ASSUME NEW q \in Path \ {p}, Parent[q] # p, res'[q].state = "local_new"
      PROVE  res[q].state = "local_new" /\ StateOfFolder(q)' = StateOfFolder(q)
    <2>1. Parent[q] # Root => Parent[q] \in Path \ {p} /\ Parent[q] \notin Files
        BY <1>3, ParentType, Names
    <2> QED
        BY <1>3, <2>1 DEF StateOfFolder
\* What is in p.
<1>4. ASSUME NEW q \in Pending', Parent[q] = p, res'[q].state = "local_new"
      PROVE  StateOfFolder(q)' = "sync"
    <2>1. q \in Path /\ q # p /\ q \in Pending /\ p # Root /\ p \in Ancestors[q]
        BY <1>1, <1>4, TreeAssumption, AncestorsClosed
    <2>2. q \in Below(p)
        BY <1>1, <2>1, BelowIs
    <2>3. agenda' = Walk(p) \o Rest(p)
        BY <1>1, <1>4, <2>2
    <2>4. res[q].state = "local_new"
        BY <1>4, <2>1
    <2>5. StateOfFolder(q) \in {"local_new", "sync"}
        BY <1>2, <2>1, <2>4 DEF NewInNew
    <2>6. res[p].state \in {"local_new", "sync"}
        BY <1>4, <2>1, <2>5 DEF StateOfFolder
    <2>7. CASE agenda' = Rest(p)
        BY <1>1, <1>4, <2>2, <2>7
    <2>8. CASE res'[p].state = "sync"
        BY <1>4, <2>1, <2>8 DEF StateOfFolder
    <2> QED
        BY <2>6, <2>7, <2>8
<1>5. ASSUME NEW q \in Pending' PROVE NewInNew(q)'
    <2>1. CASE Parent[q] = p
        BY <1>4, <2>1 DEF NewInNew
    <2>2. CASE Parent[q] # p
        BY <1>1, <1>2, <1>3, <2>2 DEF NewInNew
    <2> QED
        BY <2>1, <2>2
<1>6. ASSUME NEW q \in Queued', res'[q].state = "local_new" PROVE StateOfFolder(q)' = "sync"
    <2>1. Queued' \subseteq Path
        BY <1>1, QueuedType DEF Known, Children
    <2>2. q \in Pending'
        <3>1. q \in Below(q)
            BY <1>6, <2>1, BelowIs
        <3>2. Pending' = UNION {Below(z) : z \in Queued'}
            BY DEF Pending, Below
        <3> QED
            BY <1>6, <3>1, <3>2
    <2>3. CASE Parent[q] = p
        BY <1>4, <1>6, <2>2, <2>3
    <2>4. CASE Parent[q] # p
        <3>1. q \in Queued /\ q \in Path \ {p}
            BY <1>1, <1>6, <2>2, <2>4 DEF Known, Children
        <3> QED
            BY <1>2, <1>3, <1>6, <2>4, <3>1
    <2> QED
        BY <2>3, <2>4
<1> QED
    BY <1>5, <1>6 DEF FolderInv

LEMMA FolderSelf ==
    ASSUME ReadOnly = {}, RunOK, TreeInv, FolderInv, NEW p \in Path,
           SyncSelf(p) \/ HttpError(p)
    PROVE  FolderInv'
<1>1. Visits(p) /\ pc = "syncing"
    BY DEF SyncSelf, HttpError, Create, LeaveReadOnly, EditContent, DeleteRemote,
        RefusedByServer, SkipRemote, Skips, Download, DeleteLocal, BothDeleted, AlreadySync,
        MoveRemote, MoveLocal, MoveLocalRefused, Self, Visits
<1>2. agenda \in Seq(SUBSET Path) /\ Apart
    BY <1>1 DEF RunOK, TreeInv, WalkInv
\* SyncSelf returns, with the folder in sync or its verdict as it was.
<1>3. ASSUME NEW r, NEW rec, NEW links, Return(p, r, rec, links),
             res[p].state \in {"local_new", "sync"} => r.state = "sync"
      PROVE  FolderInv'
    <2>1. /\ pc' = pc /\ res'[p] = r /\ \A q \in Path \ {p} : res'[q] = res[q]
          /\ agenda' = Rest(p) \/ agenda' = Walk(p) \o Rest(p)
        BY <1>3 DEF Return, RunOK, ResOK
    <2> QED
        BY <1>1, <1>2, <1>3, <2>1, FolderKept
<1>4. ASSUME Caught(p) PROVE FolderInv'
    <2>1. pc' = pc /\ res' = res /\ agenda' = Rest(p)
        BY <1>4 DEF Caught
    <2> QED
        BY <1>1, <1>2, <2>1, FolderKept
<1>5. CASE Create(p) \/ EditContent(p)
    <2>1. /\ Uploaded(p).state = "sync"
          /\ Return(p, Uploaded(p), Recorded(p, Uploaded(p), res[p].ctime), linked)
        BY <1>5, UploadedType DEF Create, EditContent, RunOK, ResOK, Resources, Uploaded
    <2> QED
        BY <1>3, <2>1
<1>6. CASE LeaveReadOnly(p)
    BY <1>6 DEF LeaveReadOnly, Locked
<1>7. CASE DeleteRemote(p) \/ SkipRemote(p) \/ DeleteLocal(p) \/ BothDeleted(p) \/ AlreadySync(p)
    <2>1. res[p].state # "local_new"
        BY <1>7 DEF DeleteRemote, SkipRemote, Skips, DeleteLocal, BothDeleted, AlreadySync, Self
    <2>2. \E rec, links : Return(p, res[p], rec, links)
        BY <1>7 DEF DeleteRemote, SkipRemote, DeleteLocal, BothDeleted, AlreadySync
    <2> QED
        BY <1>3, <2>1, <2>2
<1>8. CASE Download(p)
    <2>1. [res[p] EXCEPT !.state = "sync"].state = "sync"
        BY DEF RunOK, ResOK, Resources
    <2>2. \E rec, links : Return(p, [res[p] EXCEPT !.state = "sync"], rec, links)
        BY <1>8 DEF Download
    <2> QED
        BY <1>3, <2>1, <2>2
<1>9. CASE RefusedByServer(p) \/ HttpError(p) \/ \E m \in Path : MoveLocalRefused(p, m)
    BY <1>4, <1>9 DEF RefusedByServer, HttpError, MoveLocalRefused
<1>10. ASSUME NEW m \in Path, MoveRemote(p, m) \/ MoveLocal(p, m) PROVE FolderInv'
    <2>1. m \in Files /\ p # m
        <3>1. m \in Origins(p) /\ res[p].state \in {"local_new", "remote_new"}
            BY <1>10 DEF MoveRemote, MoveLocal
        <3>2. res[m].state \in {"local_deleted", "remote_deleted"}
            BY <3>1 DEF Origins
        <3> QED
            BY <3>1, <3>2, OriginsType
    <2>2. PICK t : Moved(p, m, t)
        BY <1>10 DEF MoveRemote, MoveLocal
    <2>3. /\ pc' = pc /\ agenda' = Rest(p)
          /\ \E to : res' = [res EXCEPT ![p] = to, ![m].state = "both_deleted"]
        BY <2>2 DEF Moved
    <2>4. /\ \A q \in Path \ {p, m} : res'[q] = res[q]
          /\ res'[m].state = "both_deleted"
        BY <2>1, <2>3 DEF RunOK, ResOK, Resources
    <2> QED
        BY <1>1, <1>2, <2>1, <2>3, <2>4, FolderKept
<1> QED
    BY <1>5, <1>6, <1>7, <1>8, <1>9, <1>10 DEF SyncSelf

\* A change anywhere below a folder makes it new.
LEMMA FolderScan ==
    ASSUME TreeInv, NEW o, Scan(o)
    PROVE  FolderInv'
<1> DEFINE rec == [p \in Path |-> Forgetful(o, index[p])]
           changed(x) == Here(x) /\ ScannedAlone(x, Item(rec[x])).state = "local_new"
<1>1. /\ res' = [p \in Path |-> IF Here(p) THEN ScannedInTree(p, rec)
                                ELSE IF Leftover(p) THEN FromDeleted(rec[p])
                                ELSE NewResource]
      /\ pc' = "scanned"
    BY DEF Scan
<1> HIDE DEF rec
<1>2. ASSUME NEW q \in Path, Here(q)
      PROVE  /\ res'[q].state = "local_new" => \E x \in Below(q) : changed(x)
             /\ (\E x \in Below(q) : changed(x)) => res'[q].state = "local_new"
    <2> DEFINE r == ScannedAlone(q, Item(rec[q]))
               s == IF \E x \in Below(q) : changed(x) THEN "local_new" ELSE r.state
    <2>1. res'[q] = [r EXCEPT !.state = s]
        BY <1>1, <1>2 DEF ScannedInTree
    <2>2. [r EXCEPT !.state = s].state = s
        BY DEF ScannedAlone, FolderFromLocal, FromLocal, NewResource
    <2>3. q \in Below(q)
        BY BelowIs
    <2>4. r.state = "local_new" => changed(q)
        BY <1>2
    <2> HIDE DEF r
    <2> QED
        BY <2>1, <2>2, <2>3, <2>4
<1>3. ASSUME NEW q \in Path, ~Here(q) PROVE res'[q].state # "local_new"
    BY <1>1, <1>3 DEF FromDeleted, NewResource
<1>4. ASSUME NEW q \in Path PROVE NewInNew(q)'
    <2>1. SUFFICES ASSUME res'[q].state = "local_new"
                   PROVE  StateOfFolder(q)' \in {"local_new", "sync"}
        BY DEF NewInNew
    <2>2. CASE Parent[q] = Root
        BY <2>2 DEF StateOfFolder
    <2>3. CASE Parent[q] # Root
        <3>1. Here(q) /\ Parent[q] \in Path
            BY <1>3, <2>1, <2>3, ParentType
        <3>2. Here(Parent[q])
            BY <2>3, <3>1 DEF TreeInv, DiskInv, Closed, OnDisk
        <3>3. PICK x \in Below(q) : changed(x)
            BY <1>2, <2>1, <3>1
        <3>4. x \in Below(Parent[q])
            <4>1. x \in Path /\ q \in {x} \cup Ancestors[x] /\ Parent[q] \in Ancestors[q]
                BY <2>3, <3>1, <3>3, BelowIs, AncestorsClosed
            <4>2. Parent[q] \in Ancestors[x]
                BY <3>1, <4>1, AncestorsTransitive
            <4> QED
                BY <3>1, <4>1, <4>2, BelowIs
        <3>5. res'[Parent[q]].state = "local_new"
            BY <1>2, <3>1, <3>2, <3>3, <3>4
        <3> QED
            BY <2>3, <3>5 DEF StateOfFolder
    <2> QED
        BY <2>2, <2>3
<1> QED
    BY <1>1, <1>4 DEF FolderInv

\* The listing makes nothing new on the disk, and a folder that is there in sync.
LEMMA FolderList ==
    ASSUME EnvOK, RunOK, TreeInv, TreeInv', FolderInv, NEW p \in Path, List(p)
    PROVE  FolderInv'
<1>1. /\ pc = "scanned" /\ pc' = "scanned" /\ UNCHANGED local
      /\ p \in unlisted /\ ScannedInv /\ ScannedInv'
    BY DEF List, env, TreeInv
<1>2. There(p)' /\ p \notin unlisted'
    BY <1>1 DEF List, env, ScannedInv, ScannedOK, There
<1>3. res'[p].state \in Listed
    BY <1>1, <1>2 DEF ScannedInv, ScannedOK
<1>4. ASSUME NEW q \in Path \ {p}
      PROVE  \/ res'[q] = res[q]
             \/ /\ p \in Folders /\ q \in Below(p) /\ ~Here(p)
                /\ res'[q].state \in {"remote_new", "local_deleted"}
    <2>1. CASE p \in Folders
        <3> DEFINE r == FromRemoteFolder(res[p], remote[p])
        <3>1. /\ r.exists = res[p].exists
              /\ ~r.exists => r.state \in {"remote_new", "local_deleted"}
            BY DEF FromRemoteFolder, RunOK, ResOK, Resources
        <3>2. \/ res'[q] = res[q]
              \/ q \in Below(p) /\ ~r.exists /\ res'[q] = [res[q] EXCEPT !.state = r.state]
            BY <2>1 DEF List, SetState
        <3> HIDE DEF r
        <3>3. res[p].exists <=> Here(p)
            BY <1>1 DEF ScannedInv, ScannedOK
        <3>4. res[q] \in Resources
            BY DEF RunOK, ResOK
        <3> QED
            BY <2>1, <3>1, <3>2, <3>3, <3>4 DEF Resources
    <2>2. CASE p \notin Folders
        BY <2>2 DEF List, RunOK, ResOK
    <2> QED
        BY <2>1, <2>2
<1>5. ASSUME NEW q \in Path PROVE NewInNew(q)'
    <2>1. SUFFICES ASSUME res'[q].state = "local_new", Parent[q] # Root
                   PROVE  res'[Parent[q]].state \in {"local_new", "sync"}
        BY DEF NewInNew, StateOfFolder
    <2>2. Parent[q] \in Path /\ Parent[q] \in Folders
        BY <2>1, ParentType
    <2>3. q # p /\ res[q].state = "local_new"
        BY <1>3, <1>4, <2>1 DEF Listed
    <2>4. res[Parent[q]].state \in {"local_new", "sync"}
        BY <1>1, <2>1, <2>3 DEF FolderInv, NewInNew, StateOfFolder
    <2>5. Here(q) /\ Here(Parent[q])
        <3>1. ScannedOK(q)
            BY <1>1 DEF ScannedInv
        <3>2. Here(q)
            BY <2>3, <3>1 DEF ScannedOK
        <3> QED
            BY <2>1, <2>2, <3>2 DEF TreeInv, DiskInv, Closed, OnDisk
    <2>6. CASE Parent[q] = p
        <3>1. ScannedOK(p)' /\ FolderOK(res[p])'
            BY <1>1, <2>2, <2>6 DEF ScannedInv, TreeInv, KnownInv
        <3>2. Here(p)'
            BY <1>1, <2>5, <2>6 DEF Here
        <3> QED
            BY <1>3, <2>6, <3>1, <3>2 DEF ScannedOK, FolderOK, Listed
    <2>7. CASE Parent[q] # p
        <3>1. CASE res'[Parent[q]] = res[Parent[q]]
            BY <2>4, <3>1
        <3>2. CASE Parent[q] \in Below(p) /\ ~Here(p)
            <4>1. p \in Ancestors[Parent[q]]
                BY <2>2, <2>7, <3>2, BelowIs
            <4>2. p \in OnDisk
                BY <2>2, <2>5, <4>1, AncestorsWithin DEF TreeInv, DiskInv, OnDisk
            <4> QED
                BY <3>2, <4>2 DEF OnDisk
        <3> QED
            BY <1>4, <2>2, <2>7, <3>1, <3>2
    <2> QED
        BY <2>6, <2>7
<1> QED
    BY <1>1, <1>5 DEF FolderInv

LEMMA FolderStart ==
    ASSUME FolderInv, StartSync
    PROVE  FolderInv'
<1>1. pc = "scanned" /\ pc' = "syncing" /\ res' = res /\ agenda' = Walk(Root)
    BY DEF StartSync
<1>2. \A q \in Path : NewInNew(q)'
    BY <1>1 DEF FolderInv, NewInNew, StateOfFolder
<1>3. \A q \in Queued' : q \in Path /\ Parent[q] = Root
    BY <1>1, ItemsWalk DEF Queued, Known, Children
<1>4. Pending' \subseteq Path
    <2>1. Pending' = UNION {Below(q) : q \in Queued'}
        BY DEF Pending, Below
    <2> QED
        BY <1>3, <2>1, BelowIs
<1>5. \A q \in Queued' : StateOfFolder(q)' = "sync"
    BY <1>3 DEF StateOfFolder
<1> QED
    BY <1>1, <1>2, <1>4, <1>5 DEF FolderInv

LEMMA FolderNext ==
    ASSUME ReadOnly = {}, EnvOK, RunOK, TreeInv, TreeInv', FolderInv, [Next]_vars
    PROVE  FolderInv'
<1>1. CASE Environment
    BY <1>1 DEF Environment, LocalWrite, RemoteWrite, LocalDelete, RemoteTrash, LocalMove,
        RemoteMove, Acts, run, FolderInv
<1>2. ASSUME NEW o \in Options, Scan(o) PROVE FolderInv'
    BY <1>2, FolderScan
<1>3. ASSUME NEW p \in Path, List(p) PROVE FolderInv'
    BY <1>3, FolderList
<1>4. CASE StartSync
    BY <1>4, FolderStart
<1>5. ASSUME NEW p \in Path, SyncSelf(p) \/ HttpError(p) PROVE FolderInv'
    BY <1>5, FolderSelf
<1>6. CASE SaveState \/ Abort \/ \E p \in Path : Dies(p)
    BY <1>6 DEF SaveState, Abort, Dies, ExitWith, FolderInv
<1>7. CASE UNCHANGED vars
    BY <1>7 DEF vars, FolderInv, NewInNew, StateOfFolder, Pending, Queued, Below
<1> QED
    BY <1>1, <1>2, <1>3, <1>4, <1>5, <1>6, <1>7 DEF Next, RunStep, Failure

\* Without a read-only folder Create never finds its folder out of sync.
LEMMA NoCreateAsserts ==
    ASSUME RunOK, TreeInv, FolderInv, NEW p \in Path
    PROVE  ~CreateAsserts(p)
<1> SUFFICES ASSUME CreateAsserts(p) PROVE FALSE
    OBVIOUS
<1>1. Visits(p) /\ pc = "syncing" /\ res[p].state = "local_new" /\ StateOfFolder(p) # "sync"
    BY DEF CreateAsserts, Self, Visits
<1>2. p \in Queued
    BY <1>1, ItemsRest DEF RunOK, TreeInv, WalkInv, Apart
<1> QED
    BY <1>1, <1>2 DEF FolderInv

\* A change makes all its folders new, and the children of a folder that could not be
\* made are not walked.
LEMMA FolderInSync ==
    ASSUME ReadOnly = {}
    PROVE  Spec => []FolderIsSync
<1>1. Init => TypeOK /\ TreeInv /\ FolderInv
    BY TypeInit, TreeInit DEF Init, FolderInv
<1>2. TypeOK /\ TreeInv /\ FolderInv /\ [Next]_vars => (TypeOK /\ TreeInv /\ FolderInv)'
    <2> SUFFICES ASSUME TypeOK, TreeInv, FolderInv, [Next]_vars
                 PROVE  TypeOK' /\ TreeInv' /\ FolderInv'
        OBVIOUS
    <2>1. TypeOK' /\ EnvOK /\ RunOK
        BY TypeNext, Halves
    <2>2. TreeInv'
        BY <2>1, TreeStep
    <2> QED
        BY <2>1, <2>2, FolderNext
<1>3. TypeOK /\ TreeInv /\ FolderInv => FolderIsSync
    BY NoCreateAsserts, Halves DEF FolderIsSync
<1> QED
    BY <1>1, <1>2, <1>3, PTL DEF Spec

\* Syncer2::Create never finds its folder out of sync (Syncer2.cc:79) where no folder is
\* read-only, whatever fails.
THEOREM CreateFindsItsFolder == Spec => []FoldersFirst
<1>1. CASE ReadOnly = {}
    <2>1. FolderIsSync => FoldersFirst
        BY DEF FoldersFirst
    <2>2. Spec => []FolderIsSync
        BY <1>1, FolderInSync
    <2> QED
        BY <2>1, <2>2, PTL
<1>2. CASE ReadOnly # {}
    <2>1. FoldersFirst
        BY <1>2 DEF FoldersFirst
    <2> QED
        BY <2>1, PTL
<1> QED
    BY <1>1, <1>2

LEMMA QuietRunsLive ==
    ASSUME RunOK, TreeInv, FolderInv, QuietInv, left.user = MaxUser, NEW p \in Path
    PROVE  ~Dies(p)
<1>1. ASSUME NEW m \in Path, MoveCrashes(p, m) PROVE FALSE
    <2>1. pc = "syncing" /\ res[m].state = "local_deleted"
        BY <1>1 DEF MoveCrashes, Visits, Origins
    <2> QED
        BY <2>1 DEF QuietInv
<1> QED
    BY <1>1, NoCreateAsserts DEF Dies

\* The same without a word about runs: where no folder is read-only and nothing kills
\* grive, a run that follows no change of the user's gets to the end by itself.
THEOREM QuietUserKeepsRemote ==
    ASSUME ReadOnly = {}, "abort" \notin Faults
    PROVE  Spec => RemoteKept
<1>1. Init => Inv /\ QuietInv /\ FolderInv
    BY TypeInit, TreeInit, WorkInit, QuietInit DEF Inv, Init, FolderInv
<1>2. Inv /\ QuietInv /\ FolderInv /\ [Next]_vars => (Inv /\ QuietInv /\ FolderInv)'
    <2> SUFFICES ASSUME Inv, QuietInv, FolderInv, [Next]_vars
                 PROVE  Inv' /\ QuietInv' /\ FolderInv'
        OBVIOUS
    <2>1. Inv' /\ EnvOK /\ RunOK /\ TreeInv /\ WorkInv /\ TreeInv'
        BY InvNext, Halves DEF Inv
    <2>2. FolderInv'
        BY <2>1, FolderNext
    <2>3. CASE Next
        <3>1. left.user = MaxUser /\ pc # "idle" /\ pc' = "idle" => SaveState
            <4>1. SUFFICES ASSUME left.user = MaxUser, pc # "idle", pc' = "idle" PROVE SaveState
                OBVIOUS
            <4>2. ~Abort /\ \A p \in Path : ~Dies(p)
                BY <2>1, <4>1, QuietRunsLive DEF Abort, Fault
            <4>3. /\ ~Environment /\ ~StartSync
                  /\ \A o : ~Scan(o)
                  /\ \A p \in Path : ~List(p)
                BY <4>1 DEF Environment, LocalWrite, RemoteWrite, LocalDelete, RemoteTrash,
                    LocalMove, RemoteMove, Acts, StartSync, Scan, List
            <4>4. \A p \in Path : ~SyncSelf(p) /\ ~HttpError(p)
                <5>1. ASSUME NEW p \in Path, SyncSelf(p) \/ HttpError(p) PROVE pc' = pc
                    BY <5>1 DEF SyncSelf, HttpError, Create, LeaveReadOnly, EditContent,
                        DeleteRemote, RefusedByServer, SkipRemote, Download, DeleteLocal,
                        BothDeleted, AlreadySync, MoveRemote, MoveLocal, MoveLocalRefused,
                        Return, Caught, Moved
                <5> QED
                    BY <4>1, <5>1
            <4> QED
                BY <2>3, <4>2, <4>3, <4>4 DEF Next, RunStep, Failure
        <3> QED
            BY <2>1, <2>2, <2>3, <3>1, QuietNext
    <2>4. CASE UNCHANGED vars
        BY <2>1, <2>2, <2>4, QuietStutter
    <2> QED
        BY <2>3, <2>4
<1>3. Inv /\ QuietInv => (left.user = MaxUser => \A p \in Path : ~DeleteRemote(p))
    BY QuietKeepsRemote, Halves DEF Inv
<1> QED
    BY <1>1, <1>2, <1>3, PTL DEF Spec, RemoteKept
=============================================================================
