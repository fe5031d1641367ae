------------------------------ MODULE TreeSync ------------------------------
(***************************************************************************)
(* A directory tree through any number of runs of grive: the Resource      *)
(* objects of a run, the nested index they point into, the listing whose   *)
(* entries come in any order, the walk of the tree in the order of m_child *)
(* and the detection of moved files (CheckRename).                         *)
(*                                                                         *)
(* The user and the other clients act between two runs only, and every     *)
(* change they make has a second of its own: what happens within a run,    *)
(* and the clocks, are in FileSync. Times are those of one run, then: 0 is *)
(* what .grive_state has for the path, 1 is later but before the run, 2 is *)
(* within the run and 3 is later than the run has recorded.                *)
(*                                                                         *)
(* A name is that of a folder or of a file for good.                       *)
(***************************************************************************)
EXTENDS Resource, Sequences

CONSTANTS
    Path,       \* the names, each in one place of the tree
    Root,       \* the root folder, which is always in sync
    Parent,     \* Parent[p]: the folder of p
    Folders,    \* the names that are folders
    ReadOnly,   \* the folders of others that are shared with the user to read
    Dir,        \* what a folder has for content
    Options,    \* the ways grive is started
    Faults,     \* the kinds of failure
    MaxFaults,  \* how many failures happen at most
    MaxUser,    \* how many changes the user makes
    MaxOthers   \* how many changes the other clients make

\* A set of names in which the folder of each is, too.
Closed(S) == \A p \in S : Parent[p] \in S \cup {Root}

\* The folders that p is in: the smallest such set that has the folder of p.
Ancestors[p \in Path] ==
    {q \in Path : \A S \in SUBSET Path : Closed(S) /\ Parent[p] \in S \cup {Root} => q \in S}

ASSUME TreeAssumption ==
    /\ Root \notin Path
    /\ Parent \in [Path -> Folders \cup {Root}]
    /\ ReadOnly \subseteq Folders /\ Folders \subseteq Path
    /\ \A S \in SUBSET Path : S # {} => \E p \in S : Parent[p] \notin S
    /\ Dir \notin Checksums \cup {Special}
    /\ Options \subseteq {"normal", "force", "upload-only", "no-remote-new"}
    /\ Faults \subseteq {"abort", "httpError"}
    /\ {MaxFaults, MaxUser, MaxOthers} \subseteq Nat

VARIABLES
    local,     \* what is on the disk: [data, ctime] of every path
    remote,    \* what the server lists: [data, mtime, etag] of every path
    rev,       \* the number of versions the server has made
    left,      \* how many changes the user and the other clients may still make
    index,     \* .grive_state on disk
    pc,        \* where the run is
    opt,       \* how it was started
    st,        \* m_st, the index in memory
    linked,    \* the resources whose m_json points into it
    res,       \* the Resource objects; one in state "unknown" does not exist
    unlisted,  \* the entries of the listing that are still to come, or that
               \* wait for their folder in m_unresolved
    agenda,    \* what is still to be walked: groups of siblings, innermost first
    faults     \* how many failures there have been

env  == <<local, remote, rev, left>>
run  == <<index, pc, opt, st, linked, res, unlisted, agenda>>
vars == <<local, remote, rev, left, index, pc, opt, st, linked, res, unlisted, agenda, faults>>

Files   == Path \ Folders
Below(p) == {p} \cup {q \in Path : p \in Ancestors[q]}
Children(d) == {q \in Path : Parent[q] = d}

NoFile  == [data |-> Nothing, ctime |-> 0]
NoEntry == [data |-> Nothing, mtime |-> 0, etag |-> NoETag]
Times   == 0..3

\* No file has the content of a folder, and no folder a checksum: nothing but a file
\* is ever found to have been moved.
KindsKept ==
    /\ \A p \in Files : local[p].data # Dir /\ remote[p].data # Dir
    /\ \A p \in Folders : index[p].md5 = Nothing /\ st[p].md5 = Nothing /\ res[p].md5 = Nothing

TypeOK ==
    /\ local \in [Path -> [data: Checksums \cup {Dir}, ctime: Times]]
    /\ remote \in [Path -> [data: Checksums \cup {Dir}, mtime: Nat, etag: Nat]]
    /\ rev \in Nat
    /\ left \in [{"user", "others"} -> Nat]
    /\ index \in [Path -> Records] /\ st \in [Path -> Records]
    /\ pc \in {"idle", "scanned", "syncing"}
    /\ opt \in {"normal", "force", "upload-only", "no-remote-new"}
    /\ linked \subseteq Path
    /\ res \in [Path -> Resources]
    /\ unlisted \subseteq Path
    /\ agenda \in Seq(SUBSET Path)
    /\ faults \in 0..MaxFaults
    /\ KindsKept

\* What is in a read-only folder can neither be written nor trashed; the folder
\* itself, shared with the user, stays where it is.
Locked(p) == Parent[p] \in ReadOnly
Shared    == {d \in ReadOnly : ~Locked(d)}

\* What the Drive may hold before the first run: files in folders.
Contents(p) == IF p \in Folders THEN {Dir} ELSE Content
Drives ==
    {drive \in [Path -> {NoEntry} \cup [data: Content \cup {Dir}, mtime: {1}, etag: {1}]] :
        /\ \A p \in Path : drive[p] # NoEntry =>
            /\ drive[p].data \in Contents(p)
            /\ Parent[p] \in Path => drive[Parent[p]] # NoEntry
        /\ \A p \in Shared : drive[p] # NoEntry}

Init ==
    /\ local = [p \in Path |-> NoFile]
    /\ remote \in Drives
    /\ rev = 1
    /\ left = [user |-> MaxUser, others |-> MaxOthers]
    /\ index = [p \in Path |-> NoRecord] /\ st = index
    /\ pc = "idle"
    /\ opt = "normal"
    /\ linked = {}
    /\ res = [p \in Path |-> NewResource]
    /\ unlisted = {}
    /\ agenda = <<>>
    /\ faults = 0

Here(p)  == local[p].data # Nothing
There(p) == remote[p].data # Nothing

\* The folder of p is there to put something in.
FolderHere(p)  == IF Parent[p] = Root THEN TRUE ELSE Here(Parent[p])
FolderThere(p) == IF Parent[p] = Root THEN TRUE ELSE There(Parent[p])

\* A directory whose content changes gets a new ctime.
Stamped(f, dirs, t) ==
    [q \in Path |-> IF q \in dirs THEN [f[q] EXCEPT !.ctime = t] ELSE f[q]]

-----------------------------------------------------------------------------
(* The user and the other clients, between two runs.                       *)

Acts(who) ==
    /\ pc = "idle"
    /\ left[who] > 0
    /\ left' = [left EXCEPT ![who] = @ - 1]

LocalWrite(p, c) ==
    /\ Acts("user")
    /\ FolderHere(p)
    /\ p \in Folders => ~Here(p)
    /\ local' = Stamped([local EXCEPT ![p].data = c],
                        {p} \cup (IF Here(p) THEN {} ELSE {Parent[p]}), 1)
    /\ UNCHANGED <<remote, rev, run, faults>>

LocalDelete(p) ==
    /\ Acts("user")
    /\ Here(p) /\ p \notin Shared
    /\ local' = [q \in Path |-> IF q \in Below(p) THEN NoFile
                                ELSE Stamped(local, {Parent[p]}, 1)[q]]
    /\ UNCHANGED <<remote, rev, run, faults>>

LocalMove(p, q) ==
    /\ Acts("user")
    /\ Here(p) /\ ~Here(q) /\ FolderHere(q)
    /\ local' = Stamped([local EXCEPT ![q].data = local[p].data, ![p] = NoFile],
                        {q, Parent[p], Parent[q]}, 1)
    /\ UNCHANGED <<remote, rev, run, faults>>

RemoteWrite(p, c) ==
    /\ Acts("others")
    /\ FolderThere(p)
    /\ p \in Folders => ~There(p)
    /\ remote' = [remote EXCEPT ![p] = [data |-> c, mtime |-> rev + 1, etag |-> rev + 1]]
    /\ rev' = rev + 1
    /\ UNCHANGED <<local, run, faults>>

\* What is in a folder goes to the trash with it.
RemoteTrash(p) ==
    /\ Acts("others")
    /\ There(p) /\ p \notin Shared
    /\ remote' = [q \in Path |-> IF q \in Below(p) THEN NoEntry ELSE remote[q]]
    /\ UNCHANGED <<local, rev, run, faults>>

\* A move keeps the file and its modification time.
RemoteMove(p, q) ==
    /\ Acts("others")
    /\ There(p) /\ ~There(q) /\ FolderThere(q)
    /\ remote' = [remote EXCEPT ![q] = remote[p], ![p] = NoEntry]
    /\ UNCHANGED <<local, rev, run, faults>>

Environment ==
    \/ \E p \in Path : \E c \in Contents(p) : LocalWrite(p, c) \/ RemoteWrite(p, c)
    \/ \E p \in Path : LocalDelete(p) \/ RemoteTrash(p)
    \/ \E p, q \in Files : LocalMove(p, q) \/ RemoteMove(p, q)

-----------------------------------------------------------------------------
(* The scan of the local directory.                                        *)

Forgetful(o, rec) == IF o = "force" THEN [rec EXCEPT !.srv = 0] ELSE rec

\* Mutant: the ctime of the record is taken over, be it there or not.
FolderFromRecord(f, rec) ==
    [NewResource EXCEPT
        !.state  = IF f.ctime <= rec.ctime THEN "remote_deleted" ELSE "local_new",
        !.exists = TRUE,
        !.ctime  = rec.ctime,
        !.mtime  = rec.srv]

\* FromLocal of a folder: only its ctime counts.
FolderFromLocal(f, rec) ==
    [NewResource EXCEPT
        !.state  = IF f.ctime <= rec.ctime THEN "remote_deleted" ELSE "local_new",
        !.exists = TRUE,
        !.ctime  = f.ctime,
        !.mtime  = rec.srv]

ScannedAlone(p, rec) ==
    IF p \in Folders THEN FolderFromLocal(local[p], rec) ELSE FromLocal(local[p], rec)

\* Mutant: only the folder that a changed file is in is kept.
KeepsOneFolder(p, rec) ==
    LET changed(q) == Here(q) /\ ScannedAlone(q, Item(rec[q])).state = "local_new"
    IN  [ScannedAlone(p, Item(rec[p])) EXCEPT
            !.state = IF \E q \in {p} \cup Children(p) : changed(q) THEN "local_new" ELSE @]

\* A change anywhere below a folder keeps the folder: its parents are local_new.
ScannedInTree(p, rec) ==
    LET changed(q) == Here(q) /\ ScannedAlone(q, Item(rec[q])).state = "local_new"
    IN  [ScannedAlone(p, Item(rec[p])) EXCEPT
            !.state = IF \E q \in Below(p) : changed(q) THEN "local_new" ELSE @]

\* A record without a file, in a folder that is there. What the index has below
\* a folder that has gone is not looked at.
Leftover(p) == ~Here(p) /\ FolderHere(p) /\ index[p].present

Scan(o) ==
    /\ pc = "idle"
    /\ pc' = "scanned"
    /\ opt' = o
    /\ LET rec == [p \in Path |-> Forgetful(o, index[p])]
       IN  /\ st' = [p \in Path |-> IF Here(p) THEN Item(rec[p])
                                    ELSE IF Leftover(p) THEN rec[p] ELSE index[p]]
           /\ res' = [p \in Path |-> IF Here(p) THEN ScannedInTree(p, rec)
                                     ELSE IF Leftover(p) THEN FromDeleted(rec[p])
                                     ELSE NewResource]
    /\ linked' = {p \in Path : Here(p) \/ Leftover(p)}
    /\ unlisted' = {p \in Path : There(p)}
    /\ UNCHANGED <<env, index, agenda, faults>>

-----------------------------------------------------------------------------
(* The listing of the server.                                              *)

\* Mutant: the comparison of the times is turned round.
OlderIsNew(r, entry) ==
    [r EXCEPT !.state = IF r.exists THEN "sync"
                        ELSE IF entry.mtime < r.mtime THEN "remote_new"
                        ELSE "local_deleted",
              !.md5 = Nothing, !.etag = entry.etag, !.mtime = entry.mtime]

\* FromRemoteFolder: whatever the state of its own folder.
FromRemoteFolder(r, entry) ==
    [r EXCEPT !.state = IF r.exists THEN "sync"
                        ELSE IF entry.mtime > r.mtime THEN "remote_new"
                        ELSE "local_deleted",
              !.md5 = Nothing, !.etag = entry.etag, !.mtime = entry.mtime]

\* The resource of the folder of p has the href that the entry of p names.
FolderKnown(p) == IF Parent[p] = Root THEN TRUE ELSE res[Parent[p]].etag # NoETag

StateOfFolder(p) == IF Parent[p] = Root THEN "sync" ELSE res[Parent[p]].state

\* SetState of a folder that is not on the disk, and of all that is below it.
SetState(p, r) ==
    [q \in Path |-> IF q = p THEN r
                    ELSE IF q \in Below(p) /\ ~r.exists /\ res[q].state # "unknown"
                    THEN [res[q] EXCEPT !.state = r.state] ELSE res[q]]

\* Mutant: an entry that comes before its folder is given up.
ListOnce(p) ==
    /\ pc = "scanned"
    /\ p \in unlisted
    /\ res' = IF ~FolderKnown(p) THEN res
              ELSE IF p \in Folders THEN SetState(p, FromRemoteFolder(res[p], remote[p]))
              ELSE [res EXCEPT ![p] =
                     FromRemote(@, remote[p], StateOfFolder(p), local[p].data)]
    /\ unlisted' = unlisted \ {p}
    /\ UNCHANGED <<env, index, pc, opt, st, linked, agenda, faults>>

\* The next entry whose folder is known, be it from the feed or m_unresolved.
List(p) ==
    /\ pc = "scanned"
    /\ p \in unlisted
    /\ FolderKnown(p)
    /\ res' = IF p \in Folders THEN SetState(p, FromRemoteFolder(res[p], remote[p]))
              ELSE [res EXCEPT ![p] =
                     FromRemote(@, remote[p], StateOfFolder(p), local[p].data)]
    /\ unlisted' = unlisted \ {p}
    /\ UNCHANGED <<env, index, pc, opt, st, linked, agenda, faults>>

-----------------------------------------------------------------------------
(* The walk: Sync of a resource, then of its children.                     *)

\* A group of siblings, unless there are none.
Group(g) == IF g = {} THEN <<>> ELSE <<g>>

\* Mutant: what only the index has is left out.
WalkWithoutGone(d) ==
    LET known == {q \in Children(d) : res[q].state # "unknown"}
        here  == {q \in known : res[q].exists}
        gone  == {q \in known \ here : Leftover(q)}
    IN  Group(here) \o Group(known \ (here \cup gone))

\* m_child has what the directory holds, then what the index has left, then what
\* only the server has; in which order within each group is not for us to say.
Walk(d) ==
    LET known == {q \in Children(d) : res[q].state # "unknown"}
        here  == {q \in known : res[q].exists}
        gone  == {q \in known \ here : Leftover(q)}
    IN  Group(here) \o Group(gone) \o Group(known \ (here \cup gone))

Rest(p) == IF Head(agenda) = {p} THEN Tail(agenda)
           ELSE <<Head(agenda) \ {p}>> \o Tail(agenda)

StartSync ==
    /\ pc = "scanned"
    /\ \A p \in unlisted : ~FolderKnown(p)
    /\ pc' = "syncing"
    /\ agenda' = Walk(Root)
    /\ unlisted' = {}
    /\ UNCHANGED <<env, index, opt, st, linked, res, faults>>

Visits(p) == pc = "syncing" /\ agenda # <<>> /\ p \in Head(agenda)

\* The searches of the tree; nothing has the empty checksum.
FindByMD5(md5)   == {m \in Path : res[m].md5 = md5 /\ md5 # Nothing}
FindBySize(size) == {m \in Path : res[m].size = size}

\* A new file is compared with the resources that have gone on the same side, and
\* one that is new on this side only if the size is that of one of them.
Origins(p) ==
    LET new  == res[p].state
        lost == {m \in Path : res[m].state = IF new = "local_new" THEN "local_deleted"
                                                                  ELSE "remote_deleted"}
    IN  IF /\ p \in Files
           /\ \/ new = "local_new" /\ FindBySize(res[p].size) \cap lost # {}
              \/ new = "remote_new"
        THEN FindByMD5(GetMD5(res[p], local[p].data)) \cap lost ELSE {}

\* SyncSelf of p, which is no move, gets to the case of the state.
Self(p, state) == Visits(p) /\ Origins(p) = {} /\ res[p].state = state

\* SyncSelf has returned: the server time is stored in the record the resource
\* has by then, and the children follow unless the folder is gone.
Return(p, r, rec, links) ==
    /\ res' = [res EXCEPT ![p] = r]
    /\ st' = IF p \in links THEN [rec EXCEPT ![p] = SetSrvTime(@, r)] ELSE rec
    /\ linked' = links
    /\ agenda' = IF r.state \in {"local_deleted", "remote_deleted"} THEN Rest(p)
                 ELSE Walk(p) \o Rest(p)
    /\ UNCHANGED <<left, index, pc, opt, unlisted, faults>>

\* Mutant: the children are walked all the same.
CaughtThenWalk(p) ==
    /\ agenda' = Walk(p) \o Rest(p)
    /\ UNCHANGED <<left, index, pc, opt, st, linked, res, unlisted>>

\* An exception that Sync catches: neither the record nor the children.
Caught(p) ==
    /\ agenda' = Rest(p)
    /\ UNCHANGED <<left, index, pc, opt, st, linked, res, unlisted>>

\* SetIndex, with the ctime of the scan or that of now, and DeleteIndex: a folder
\* takes what is below it along.
Recorded(p, r, ctime) ==
    [st EXCEPT ![p] = IF p \in Folders THEN [Item(@) EXCEPT !.ctime = ctime]
                      ELSE SetIndex(@, r, ctime)]
Forgotten(p) == [q \in Path |-> IF q \in Below(p) THEN NoRecord ELSE st[q]]

\* Grive itself changes the content of a directory: within the second that the
\* record of the directory has, or later.
Touched(f, dirs) == {Stamped(f, T, 3) : T \in SUBSET (dirs \cap Path)}

\* Parents that a resource can be recorded in: SetIndex and DeleteIndex go
\* through the m_json of the parent.
InIndex(p) == Parent[p] = Root \/ Parent[p] \in linked

Stored(p, c) ==
    /\ remote' = [remote EXCEPT ![p] = [data |-> c, mtime |-> rev + 1, etag |-> rev + 1]]
    /\ rev' = rev + 1

Uploaded(p) == [res[p] EXCEPT !.state = "sync", !.etag = rev + 1, !.mtime = rev + 1,
                              !.md5 = IF p \in Folders THEN Nothing ELSE local[p].data]

\* Create: a folder before what is in it.
Create(p) ==
    /\ Self(p, "local_new")
    /\ StateOfFolder(p) = "sync"
    /\ ~Locked(p)
    /\ Stored(p, local[p].data)
    /\ Return(p, Uploaded(p), Recorded(p, Uploaded(p), res[p].ctime), linked)
    /\ UNCHANGED local

\* Create and EditContent answer false for what is read-only.
LeaveReadOnly(p) ==
    /\ \/ Self(p, "local_new") /\ StateOfFolder(p) = "sync"
       \/ Self(p, "local_changed")
    /\ Locked(p)
    /\ Return(p, res[p], st, linked)
    /\ UNCHANGED <<local, remote, rev>>

EditContent(p) ==
    /\ Self(p, "local_changed")
    /\ ~Locked(p)
    /\ Stored(p, local[p].data)
    /\ Return(p, Uploaded(p), Recorded(p, Uploaded(p), res[p].ctime), linked)
    /\ UNCHANGED local

DeleteRemote(p) ==
    /\ Self(p, "local_deleted")
    /\ ~Locked(p)
    /\ remote' = [q \in Path |-> IF q \in Below(p) THEN NoEntry ELSE remote[q]]
    /\ Return(p, res[p], Forgotten(p), linked \ {p})
    /\ UNCHANGED <<local, rev>>

Skips(p) == \/ Self(p, "remote_new") /\ opt \in {"no-remote-new", "upload-only"}
            \/ Self(p, "remote_changed") /\ opt = "upload-only"

SkipRemote(p) ==
    /\ Skips(p)
    /\ Return(p, res[p], st, linked)
    /\ UNCHANGED <<local, remote, rev>>

\* A folder is made, a file downloaded; its ctime is read again for the record.
Download(p) ==
    /\ Self(p, "remote_new") \/ Self(p, "remote_changed")
    /\ ~Skips(p)
    /\ local' \in Touched([local EXCEPT ![p] = [data |-> remote[p].data, ctime |-> 2]],
                          IF Here(p) THEN {} ELSE {Parent[p]})
    /\ LET r == [res[p] EXCEPT !.state = "sync"]
       IN  Return(p, r, Recorded(p, r, 2), linked \cup {p})
    /\ UNCHANGED <<remote, rev>>

\* DeleteLocal moves the file, or the folder with all that is in it, to .trash.
DeleteLocal(p) ==
    /\ Self(p, "remote_deleted")
    /\ Here(p)
    /\ local' \in Touched([q \in Path |-> IF q \in Below(p) THEN NoFile ELSE local[q]],
                          {Parent[p]})
    /\ Return(p, res[p], Forgotten(p), linked \ {p})
    /\ UNCHANGED <<remote, rev>>

BothDeleted(p) ==
    /\ Self(p, "both_deleted")
    /\ Return(p, res[p], Forgotten(p), linked \ {p})
    /\ UNCHANGED <<local, remote, rev>>

AlreadySync(p) ==
    /\ Self(p, "sync")
    /\ Return(p, res[p], Recorded(p, res[p], res[p].ctime), linked \cup {p})
    /\ UNCHANGED <<local, remote, rev>>

-----------------------------------------------------------------------------
(* CheckRename: p is where the file m has been moved to.                   *)

\* The record of m goes, the one of p gets the server time of m.
Moved(p, m, ctime) ==
    LET to == [res[p] EXCEPT !.state = "sync", !.mtime = res[m].mtime,
                             !.md5 = GetMD5(res[p], local[p].data)]
    IN  /\ res' = [res EXCEPT ![p] = to, ![m].state = "both_deleted"]
        /\ st' = [Forgotten(m) EXCEPT ![p] = SetSrvTime(Recorded(p, to, ctime)[p], to)]
        /\ linked' = (linked \cup {p}) \ {m}
        /\ agenda' = Rest(p)
        /\ UNCHANGED <<left, index, pc, opt, unlisted, faults>>

\* The request of Syncer2::Move. A file that is in the trash by now stays there, and
\* one that is moved to a folder without an ID is in no folder at all.
ServerMoves(p, m) ==
    remote' = IF ~There(m) THEN remote
              ELSE IF FolderKnown(p) THEN [remote EXCEPT ![p] = remote[m], ![m] = NoEntry]
              ELSE [remote EXCEPT ![m] = NoEntry]

MoveRemote(p, m) ==
    /\ Visits(p) /\ m \in Origins(p)
    /\ res[p].state = "local_new"
    /\ ~Locked(p) /\ ~Locked(m)
    /\ InIndex(m)
    /\ ServerMoves(p, m)
    /\ Moved(p, m, res[p].ctime)
    /\ UNCHANGED <<local, rev>>

MoveLocal(p, m) ==
    /\ Visits(p) /\ m \in Origins(p)
    /\ res[p].state = "remote_new"
    /\ Here(m) /\ FolderHere(p)
    /\ local' \in Touched([local EXCEPT ![p] = [data |-> local[m].data, ctime |-> 2],
                                        ![m] = NoFile], {Parent[p], Parent[m]})
    /\ Moved(p, m, 2)
    /\ UNCHANGED <<remote, rev>>

\* rename() fails: m is in .trash already, or there is no folder to move it to.
MoveLocalRefused(p, m) ==
    /\ Visits(p) /\ m \in Origins(p)
    /\ res[p].state = "remote_new"
    /\ ~Here(m) \/ ~FolderHere(p)
    /\ Caught(p)
    /\ UNCHANGED <<local, remote, rev, faults>>

\* The server refuses to trash or to move what is in a read-only folder.
RefusedByServer(p) ==
    /\ \/ Self(p, "local_deleted") /\ Locked(p)
       \/ /\ Visits(p) /\ res[p].state = "local_new"
          /\ \E m \in Origins(p) : Locked(p) \/ Locked(m)
    /\ Caught(p)
    /\ UNCHANGED <<local, remote, rev, faults>>

-----------------------------------------------------------------------------
(* The end of a run.                                                       *)

\* The next run reads the index that is on disk then, rec.
ExitWith(rec) ==
    /\ index' = [p \in Path |-> [rec[p] EXCEPT !.ctime = IF @ = NoTime THEN NoTime ELSE 0]]
    /\ local' = [p \in Path |->
                   [local[p] EXCEPT !.ctime = IF Here(p) /\ @ > rec[p].ctime THEN 1 ELSE 0]]
    /\ pc' = "idle"
    /\ opt' = "normal"
    /\ st' = [p \in Path |-> NoRecord]
    /\ linked' = {}
    /\ res' = [p \in Path |-> NewResource]
    /\ unlisted' = {}
    /\ agenda' = <<>>

SaveState ==
    /\ pc = "syncing" /\ agenda = <<>>
    /\ ExitWith(st)
    /\ UNCHANGED <<remote, rev, left, faults>>

\* Create asserts that the folder is in sync.
CreateAsserts(p) == Self(p, "local_new") /\ StateOfFolder(p) # "sync"

\* DeleteIndex goes through a m_json that is NULL: the folder of m was deleted,
\* and its record with it, earlier in this run.
MoveCrashes(p, m) ==
    /\ Visits(p) /\ m \in Origins(p)
    /\ res[p].state = "local_new"
    /\ ~Locked(p) /\ ~Locked(m) /\ ~InIndex(m)

\* The process dies of it, with the file moved in the second case.
Dies(p) ==
    /\ \/ CreateAsserts(p) /\ UNCHANGED remote
       \/ \E m \in Path : MoveCrashes(p, m) /\ ServerMoves(p, m)
    /\ ExitWith(index)
    /\ UNCHANGED <<rev, left, faults>>

Fault(kind) == kind \in Faults /\ faults < MaxFaults /\ faults' = faults + 1

Abort ==
    /\ pc # "idle"
    /\ Fault("abort")
    /\ ExitWith(index)
    /\ UNCHANGED <<remote, rev, left>>

\* A request fails; a download has emptied the file by then.
HttpError(p) ==
    /\ Fault("httpError")
    /\ \/ /\ \/ Self(p, "local_new") /\ StateOfFolder(p) = "sync" /\ ~Locked(p)
             \/ Self(p, "local_changed") /\ ~Locked(p)
             \/ Self(p, "local_deleted")
             \/ Visits(p) /\ Origins(p) # {} /\ res[p].state = "local_new"
          /\ UNCHANGED local
       \/ /\ Self(p, "remote_new") \/ Self(p, "remote_changed")
          /\ ~Skips(p) /\ p \in Files
          /\ local' \in Touched([local EXCEPT ![p] = [data |-> Truncated, ctime |-> 2]],
                                IF Here(p) THEN {} ELSE {Parent[p]})
    /\ Caught(p)
    /\ UNCHANGED <<remote, rev>>

-----------------------------------------------------------------------------
SyncSelf(p) ==
    \/ Create(p) \/ LeaveReadOnly(p) \/ EditContent(p) \/ DeleteRemote(p)
    \/ RefusedByServer(p) \/ SkipRemote(p) \/ Download(p) \/ DeleteLocal(p)
    \/ BothDeleted(p) \/ AlreadySync(p)
    \/ \E m \in Path : MoveRemote(p, m) \/ MoveLocal(p, m) \/ MoveLocalRefused(p, m)

RunStep ==
    \/ \E o \in Options : Scan(o)
    \/ \E p \in Path : List(p) \/ SyncSelf(p) \/ Dies(p)
    \/ StartSync \/ SaveState

Failure == Abort \/ \E p \in Path : HttpError(p)

Next == Environment \/ RunStep \/ Failure

Spec == Init /\ [][Next]_vars
FairSpec == Spec /\ WF_vars(RunStep)
-----------------------------------------------------------------------------
(* Properties.                                                             *)

\* What Syncer2::Create asserts of the folder (Syncer2.cc:79), be it read-only or not.
FolderIsSync == \A p \in Path : ~CreateAsserts(p)

\* Where no folder is read-only, Create finds its folder in sync, so that the assertion
\* of Syncer2.cc:79 never fails: a change makes all the folders above it new, and where
\* one of them fails to be made, what is in it is not walked.
FoldersFirst == ReadOnly = {} => FolderIsSync

\* Grive makes a file or folder on the server only where there is none, and in a
\* folder that is there: the whole listing was matched with the tree, whatever
\* order it came in, before anything was called new; and nothing is made in a folder
\* that was refused, trashed or could not be made, be it that it is not walked or that
\* the run ends there (State.cc:183-212, Resource.cc:466-472).
CreatesOnlyMissing == [][\A p \in Path : Create(p) => ~There(p) /\ FolderThere(p)]_vars

\* A folder that goes to .trash takes no unsaved work along, however deep it is:
\* every file below it is one that the index knows with this content.
TrashesNoLocalWork ==
    [][\A p \in Path : DeleteLocal(p) =>
        \A q \in Below(p) \cap Files : Here(q) => local[q].data = index[q].md5]_vars

\* Grive trashes nothing on the server as long as the user does nothing, whatever
\* the other clients move, replace or delete.
RemoteKept == [][left.user = MaxUser => \A p \in Path : ~DeleteRemote(p)]_vars

\* Grive removes nothing from the disk as long as no other client does anything:
\* whatever the user moves, edits or deletes, the rest stays.
LocalKept == [][left.others = MaxOthers => \A p \in Path : ~DeleteLocal(p)]_vars

Agreed == \A p \in Path : local[p].data = remote[p].data

\* Once the user and the other clients have stopped, the disk and the server come
\* to hold the same tree, and stay that way.
Converges == <>[]Agreed
=============================================================================
