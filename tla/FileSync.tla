------------------------------ MODULE FileSync ------------------------------
(***************************************************************************)
(* One file, kept in the root folder, through any number of runs of grive: *)
(* the local file, the file on the server, and the record of the file in   *)
(* .grive_state.  Two other actors work on the same file: the user, on the *)
(* local disk, and other clients of the same Drive.                        *)
(*                                                                         *)
(* A run is the sequence Scan, List, one or more steps that bring the file *)
(* in sync, BeginSave, EndSave.  The user and the other clients act        *)
(* between any two of them; Races says in which of the windows where grive *)
(* takes no precaution they do.                                            *)
(*                                                                         *)
(* The two clocks are the local one, that sets ctime, and the server's,    *)
(* that sets the modification time; grive never compares one with the      *)
(* other.  A clock moves when it is read to stamp a change.                *)
(***************************************************************************)
EXTENDS Resource

CONSTANTS
    Options,    \* the ways grive is started
    Races,      \* the windows in which somebody else may act
    Faults,     \* the kinds of failure
    MaxFaults,  \* how many failures happen at most
    MaxClock,   \* the user stops editing when the local clock reaches it
    MaxRev,     \* the other clients stop when the server has made this many
                \* versions
    Editable,   \* what the server may say of the file: that grive may write it
    Blocks      \* whether the user may put a special file under the name

AllOptions == {"normal", "force", "upload-only", "no-remote-new", "dry-run"}

AllRaces ==
    {"sameSecond",       \* two changes within one second of a clock
     "scanToTransfer",   \* the user, between the scan and the transfer
     "downloadToIndex",  \* the user, between the download and stat()
     "listToDownload"}   \* another client, between the listing and the download

AllFaults ==
    {"abort",        \* the process dies or an exception ends it: nothing saved
     "httpError",    \* a request fails on its way to the server
     "lostReply"}    \* the server has done it, the reply is lost

ASSUME FileSyncAssumption ==
    /\ Options \subseteq AllOptions
    /\ Races \subseteq AllRaces
    /\ Faults \subseteq AllFaults
    /\ {MaxFaults, MaxClock, MaxRev} \subseteq Nat
    /\ Editable \subseteq BOOLEAN /\ Blocks \in BOOLEAN

VARIABLES
    file,     \* the local file: [data, ctime]
    remote,   \* what the server lists under the name: [data, mtime, etag]
    lclock,   \* the second of the last local change
    rclock,   \* the second of the last change on the server
    rev,      \* the number of versions the server has made
    index,    \* the record in .grive_state on disk
    pc,       \* where the run is
    opt,      \* how the run was started
    st,       \* the record in memory: m_st, as far as this file goes
    res,      \* the Resource object of the file
    faults,   \* how many failures there have been
    base      \* history: the last version that both sides had, as uploaded,
              \* downloaded or found equal by grive, [data, etag], and the
              \* one that was passed over since, by -n or -u or because the
              \* local file could not be read, passed

env  == <<file, remote, lclock, rclock, rev>>
run  == <<index, pc, opt, st, res>>
vars == <<file, remote, lclock, rclock, rev, index, pc, opt, st, res, faults, base>>

NoFile  == [data |-> Nothing, ctime |-> 0]
NoEntry == [data |-> Nothing, mtime |-> 0, etag |-> NoETag]
NoBase  == [data |-> Nothing, etag |-> NoETag, passed |-> NoETag]

Files   == [data: Checksums \cup {Special}, ctime: Nat]
Entries == [data: Checksums, mtime: Nat, etag: Nat]
Bases   == [data: Checksums, etag: Nat, passed: Nat]

Steps == {"idle", "scanned", "listed", "downloading", "downloaded", "indexed", "saving"}

TypeOK ==
    /\ file \in Files
    /\ remote \in Entries
    /\ lclock \in Nat /\ rclock \in Nat /\ rev \in Nat
    /\ index \in Records
    /\ pc \in Steps
    /\ opt \in AllOptions
    /\ st \in Records
    /\ res \in Resources
    /\ faults \in 0..MaxFaults
    /\ base \in Bases

Init ==
    /\ file = NoFile
    /\ remote = NoEntry
    /\ lclock = 0 /\ rclock = 0 /\ rev = 0
    /\ index = NoRecord
    /\ pc = "idle"
    /\ opt = "normal"
    /\ st = NoRecord
    /\ res = NewResource
    /\ faults = 0
    /\ base = NoBase

\* The second that stamps the next change.
Later(clock) == IF "sameSecond" \in Races THEN {clock, clock + 1} ELSE {clock + 1}

-----------------------------------------------------------------------------
(* The user and the other clients.                                         *)

UserMayAct ==
    \/ pc \in {"idle", "indexed", "saving"}
    \/ pc \in {"scanned", "listed"} /\ "scanToTransfer" \in Races
    \/ pc = "downloaded" /\ "downloadToIndex" \in Races

LocalChange(d) ==
    /\ UserMayAct
    /\ lclock < MaxClock
    /\ \E t \in Later(lclock) :
        /\ t > 0
        /\ lclock' = t
        /\ file' = [data |-> d, ctime |-> t]
    /\ UNCHANGED <<remote, rclock, rev, run, faults, base>>

LocalWrite == \E c \in Content : LocalChange(c)

\* The name is taken by something grive cannot read. Between two runs only:
\* opening a FIFO for reading would block the upload.
LocalBlock == Blocks /\ pc = "idle" /\ LocalChange(Special)

LocalDelete ==
    /\ UserMayAct
    /\ lclock < MaxClock
    /\ file.data # Nothing
    /\ file' = NoFile
    /\ UNCHANGED <<remote, lclock, rclock, rev, run, faults, base>>

ToDownload == pc \in {"listed", "downloading"} /\ res.state \in {"remote_new", "remote_changed"}
ToCreate   == pc = "listed" /\ res.state = "local_new"

\* A second file of the same name, made while grive is about to create one,
\* is outside this module: the server has at most one file of the name.
RemoteWrite ==
    /\ rev < MaxRev
    /\ ToDownload => "listToDownload" \in Races
    /\ ~ToCreate
    /\ \E c \in Content, t \in Later(rclock) :
        /\ t > 0
        /\ remote' = [data |-> c, mtime |-> t, etag |-> rev + 1]
        /\ rclock' = t
    /\ rev' = rev + 1
    /\ UNCHANGED <<file, lclock, run, faults, base>>

RemoteTrash ==
    /\ rev <= MaxRev
    /\ remote.data # Nothing
    /\ remote' = NoEntry
    /\ UNCHANGED <<file, lclock, rclock, rev, run, faults, base>>

Environment == LocalWrite \/ LocalBlock \/ LocalDelete \/ RemoteWrite \/ RemoteTrash

-----------------------------------------------------------------------------
(* Detecting changes.                                                      *)

\* Mutant: -f is not looked at.
KnownUnforced(o) == index

\* The record as it is looked at: -f forgets the server time.
Known(o) == IF o = "force" THEN [index EXCEPT !.srv = 0] ELSE index

\* A new process reads .grive_state and scans the directory.
Scan(o) ==
    /\ pc = "idle"
    /\ opt' = o
    /\ \/ /\ file.data \in Data
          /\ st' = Item(Known(o))
          /\ res' = FromLocal(file, Item(Known(o)))
       \/ /\ file.data = Special
          /\ st' = Item(Known(o))
          /\ \E ctime \in {0, file.ctime} : res' = FromInaccessible(ctime)
       \/ /\ file.data = Nothing
          /\ st' = Known(o)
          /\ res' = IF index.present THEN FromDeleted(Known(o)) ELSE NewResource
    /\ pc' = "scanned"
    /\ UNCHANGED <<env, index, faults, base>>

\* The file list of the server is read and compared.
List ==
    /\ pc = "scanned"
    /\ pc' = "listed"
    /\ res' = IF remote.data = Nothing THEN res
              ELSE FromRemote(res, remote, "sync", file.data)
    /\ base' = IF res.exists /\ res'.state = "sync"
               THEN [data |-> remote.data, etag |-> remote.etag, passed |-> NoETag] ELSE base
    /\ UNCHANGED <<env, index, opt, st, faults>>

-----------------------------------------------------------------------------
(* Bringing the file in sync: SyncSelf, by m_state.                        *)

Self(state) == pc = "listed" /\ opt # "dry-run" /\ res.state = state

\* SyncSelf returns: r is the resource, rec its record before "srv_time".
Synced(r, rec) == pc' = "indexed" /\ res' = r /\ st' = SetSrvTime(rec, r)

\* Mutant: the server time is stored before the exception is handled.
CaughtStamped == pc' = "indexed" /\ st' = SetSrvTime(st, res) /\ UNCHANGED res

\* Sync catches what SyncSelf threw: the record stays as it is.
Caught == pc' = "indexed" /\ UNCHANGED <<res, st>>

ForgottenKept == st     \* mutant: the record stays in the tree
Forgotten == NoRecord   \* DeleteIndex

\* local_new and local_changed: Create and EditContent.
ToUpload == Self("local_new") \/ (Self("local_changed") /\ TRUE \in Editable)

\* Mutant: uploads without If-Match.
IfMatchLeftOut == NoETag

\* The version that a request is about.
IfMatch == res.etag

\* The server takes a POST, and a PUT whose If-Match is the current version.
Accepts == IF res.etag = NoETag THEN remote.data = Nothing
           ELSE remote.data # Nothing /\ IfMatch \in {remote.etag, NoETag}

\* What the server does with the content it reads from the local file.
ServerStores(t) ==
    /\ remote' = [data |-> file.data, mtime |-> t, etag |-> rev + 1]
    /\ rclock' = t
    /\ rev' = rev + 1
    /\ base' = [data |-> file.data, etag |-> rev + 1, passed |-> NoETag]
    /\ UNCHANGED <<file, lclock>>

\* Mutant: the time stays the one that was listed.
UploadedUntimed(t) == [res EXCEPT !.state = "sync", !.md5 = file.data, !.etag = rev + 1]

\* The resource after the answer: AssignIDs and SetServerTime.
Uploaded(t) == [res EXCEPT !.state = "sync", !.md5 = file.data,
                           !.etag = rev + 1, !.mtime = t]

Upload ==
    /\ ToUpload
    /\ file.data \in Data
    /\ Accepts
    /\ \E t \in Later(rclock) :
        /\ t > 0
        /\ ServerStores(t)
        /\ Synced(Uploaded(t), SetIndex(st, Uploaded(t), res.ctime))
    /\ UNCHANGED <<index, opt, faults>>

\* The file has gone, or If-Match fails.
UploadRefused ==
    /\ ToUpload
    /\ file.data \notin Data \/ ~Accepts
    /\ Caught
    /\ UNCHANGED <<env, index, opt, faults, base>>

\* EditContent answers false for a file that is read-only on the server.
SkipReadOnly ==
    /\ Self("local_changed") /\ FALSE \in Editable
    /\ Synced(res, st)
    /\ UNCHANGED <<env, index, opt, faults, base>>

ServerTrashes ==
    /\ remote' = NoEntry
    /\ base' = NoBase
    /\ UNCHANGED <<file, lclock, rclock, rev>>

\* Mutant: trashes without If-Match.
DeleteRemoteAlways ==
    /\ Self("local_deleted")
    /\ ServerTrashes
    /\ Synced(res, Forgotten)
    /\ UNCHANGED <<index, opt, faults>>

DeleteRemote ==
    /\ Self("local_deleted")
    /\ remote.etag = res.etag
    /\ ServerTrashes
    /\ Synced(res, Forgotten)
    /\ UNCHANGED <<index, opt, faults>>

DeleteRemoteRefused ==
    /\ Self("local_deleted")
    /\ remote.etag # res.etag
    /\ Caught
    /\ UNCHANGED <<env, index, opt, faults, base>>

Skips == \/ Self("remote_new") /\ opt \in {"no-remote-new", "upload-only"}
         \/ Self("remote_changed") /\ opt = "upload-only"

SkipRemote ==
    /\ Skips
    /\ Synced(res, st)
    /\ base' = [base EXCEPT !.passed = res.etag]
    /\ UNCHANGED <<env, index, opt, faults>>

\* The local file is opened for writing, which empties it, before the request.
DownloadStart ==
    /\ Self("remote_new") \/ Self("remote_changed")
    /\ ~Skips
    /\ \E t \in Later(lclock) :
        /\ t > 0
        /\ file' = [data |-> Truncated, ctime |-> t]
        /\ lclock' = t
    /\ pc' = "downloading"
    /\ UNCHANGED <<remote, rclock, rev, index, opt, st, res, faults, base>>

\* The server sends its current content; SetFileTime changes the ctime again.
Download ==
    /\ pc = "downloading"
    /\ remote.data # Nothing
    /\ \E t \in Later(lclock) :
        /\ t > 0
        /\ file' = [data |-> remote.data, ctime |-> t]
        /\ lclock' = t
    /\ base' = [data |-> remote.data, etag |-> remote.etag, passed |-> NoETag]
    /\ pc' = "downloaded"
    /\ UNCHANGED <<remote, rclock, rev, index, opt, st, res, faults>>

DownloadRefused ==
    /\ pc = "downloading"
    /\ remote.data = Nothing
    /\ Caught
    /\ UNCHANGED <<env, index, opt, faults, base>>

\* SetIndex(true): the ctime of the file as it is now, the checksum as listed.
StoreIndex ==
    /\ pc = "downloaded"
    /\ file.data # Nothing
    /\ LET r == [res EXCEPT !.state = "sync", !.ctime = file.ctime]
       IN  Synced(r, SetIndex(st, r, file.ctime))
    /\ UNCHANGED <<env, index, opt, faults, base>>

\* DeleteLocal moves the file to .trash.
DeleteLocal ==
    /\ Self("remote_deleted")
    /\ file.data # Nothing
    /\ file' = NoFile
    /\ base' = NoBase
    /\ Synced(res, Forgotten)
    /\ UNCHANGED <<remote, lclock, rclock, rev, index, opt, faults>>

\* There is nothing to rename any more.
DeleteLocalRefused ==
    /\ Self("remote_deleted")
    /\ file.data = Nothing
    /\ Caught
    /\ UNCHANGED <<env, index, opt, faults, base>>

BothDeleted ==
    /\ Self("both_deleted")
    /\ Synced(res, Forgotten)
    /\ base' = NoBase
    /\ UNCHANGED <<env, index, opt, faults>>

\* Mutant: SetIndex(true), the ctime is read again.
AlreadySyncRestat ==
    /\ Self("sync")
    /\ Synced(res, SetIndex(st, res, file.ctime))
    /\ base' = [base EXCEPT !.passed = IF res.bad THEN res.etag ELSE @]
    /\ UNCHANGED <<env, index, opt, faults>>

AlreadySync ==
    /\ Self("sync")
    /\ Synced(res, SetIndex(st, res, res.ctime))
    /\ base' = [base EXCEPT !.passed = IF res.bad THEN res.etag ELSE @]
    /\ UNCHANGED <<env, index, opt, faults>>

\* No Resource object was made: there is no file, no record and no entry.
NothingToSync ==
    /\ Self("unknown")
    /\ Caught
    /\ UNCHANGED <<env, index, opt, faults, base>>

-----------------------------------------------------------------------------
(* The end of a run.                                                       *)

Exit == pc' = "idle" /\ st' = NoRecord /\ res' = NewResource

\* Every run but a dry one opens .grive_state for writing, which empties it.
\* (The change stamp was asked for before; nothing reads it.)
BeginSave ==
    /\ pc = "indexed"
    /\ pc' = "saving"
    /\ index' = NoRecord
    /\ UNCHANGED <<env, opt, st, res, faults, base>>

EndSave ==
    /\ pc = "saving"
    /\ index' = st
    /\ Exit
    /\ UNCHANGED <<env, opt, faults, base>>

DryRun ==
    /\ pc = "listed" /\ opt = "dry-run"
    /\ Exit
    /\ UNCHANGED <<env, index, opt, faults, base>>

\* stat() after a download fails with os::Error, which nothing catches.
StoreIndexAborts ==
    /\ pc = "downloaded"
    /\ file.data = Nothing
    /\ Exit
    /\ UNCHANGED <<env, index, opt, faults, base>>

-----------------------------------------------------------------------------
(* Failures.                                                               *)

Fault(kind) == kind \in Faults /\ faults < MaxFaults /\ faults' = faults + 1

\* The process is killed, or an exception leaves Main: a failed listing or
\* token refresh, a malformed answer. In the middle of SaveState the record
\* on disk is gone.
Abort ==
    /\ pc # "idle"
    /\ Fault("abort")
    /\ Exit
    /\ UNCHANGED <<env, index, opt, base>>

\* A request that fails with http::Error and changed nothing.
HttpError ==
    /\ ToUpload \/ Self("local_deleted") \/ pc = "downloading"
    /\ Fault("httpError")
    /\ Caught
    /\ UNCHANGED <<env, index, opt, base>>

\* The server has stored the upload or trashed the file; grive sees an error.
LostReply ==
    /\ Fault("lostReply")
    /\ \/ /\ ToUpload /\ file.data \in Data /\ Accepts
          /\ \E t \in Later(rclock) : t > 0 /\ ServerStores(t)
       \/ /\ Self("local_deleted") /\ remote.etag = res.etag
          /\ ServerTrashes
    /\ Caught
    /\ UNCHANGED <<index, opt>>

-----------------------------------------------------------------------------
Transfer ==
    \/ Upload \/ UploadRefused \/ SkipReadOnly
    \/ DeleteRemote \/ DeleteRemoteRefused
    \/ SkipRemote \/ DownloadStart \/ Download \/ DownloadRefused \/ StoreIndex
    \/ DeleteLocal \/ DeleteLocalRefused \/ BothDeleted \/ AlreadySync
    \/ NothingToSync

RunStep ==
    \/ \E o \in Options : Scan(o)
    \/ List \/ Transfer \/ BeginSave \/ EndSave \/ DryRun \/ StoreIndexAborts

Failure == Abort \/ HttpError \/ LostReply

Next == Environment \/ RunStep \/ Failure

Spec == Init /\ [][Next]_vars

\* The timer starts a run again and again, and a run that does not fail goes on.
FairSpec == Spec /\ WF_vars(RunStep)

-----------------------------------------------------------------------------
(* Properties.                                                             *)

\* What the scan concludes from the ctime alone, without reading the file.
CacheValid(rec) ==
    NotTouched(file, rec) /\ file.data \in Data => rec.md5 = file.data

\* Whenever the status change time of the file says that it was not touched
\* since its record was made, the checksum in the record is that of the file:
\* the scan may skip reading it (Resource.cc:289), on disk as in memory.
CacheSound == CacheValid(index) /\ (pc = "indexed" => CacheValid(st))

\* The file is still the one that was scanned.
AsScanned == file.data \in Data /\ file.ctime <= res.ctime

\* What a run relies on from one step to the next, and why CacheSound holds: no
\* ctime is ahead of the clock; what the scan noted is true of the file as long
\* as it was not touched again; what was listed is what is downloaded.
CacheInv ==
    /\ CacheValid(index) /\ CacheValid(st)
    /\ file.ctime <= lclock /\ index.ctime <= lclock
    /\ st.ctime <= lclock /\ res.ctime <= lclock
    /\ pc = "scanned" =>
        /\ res.state \in {"unknown", "sync", "local_new", "remote_deleted", "both_deleted"}
        /\ res.state = "sync" => res.bad
        /\ AsScanned => /\ res.exists /\ ~res.bad
                        /\ res.size = SizeOf(file.data)
                        /\ res.md5 \in {Nothing, file.data}
    /\ pc = "listed" /\ res.state = "sync" /\ AsScanned => res.md5 = file.data
    /\ pc = "downloading" => res.state \in {"remote_new", "remote_changed"}
    /\ ToDownload /\ remote.data # Nothing => remote.data = res.md5
    /\ pc = "downloaded" => file.data = res.md5

\* A file that is found "already in sync" is the same on both sides, and one
\* that will be transferred is not: the verdict, reached from cached sizes,
\* times and checksums (FromRemoteFile), is the one a full comparison gives
\* (of a file that is still as it was scanned).
VerdictSound ==
    [][List /\ file.data \in Data /\ file.ctime = res.ctime /\ remote.data # Nothing =>
        (res'.state = "sync") = (file.data = remote.data)]_vars

\* The server has a version, with another content, that came after the last
\* agreement.
Diverged == remote.etag # base.etag /\ remote.data # base.data

\* The steps of grive that change the server, whether it learns of it or not.
Stores  == (Upload \/ LostReply) /\ remote'.data # Nothing
Trashes == (DeleteRemote \/ LostReply) /\ remote'.data = Nothing

\* An upload replaces only the version that the local file was last in
\* agreement with: what another client has made since is never overwritten
\* unseen (If-Match, and mtime against srv_time), unless an earlier run has noted
\* the time of just this version and passed it over.
OverwritesOnlyBase ==
    [][Stores /\ remote.data # Nothing => ~Diverged \/ remote.etag = base.passed]_vars

\* Only local work is uploaded: the content differs from what both sides last
\* agreed on.
UploadsOnlyLocalChanges == [][Stores => file.data # base.data]_vars

\* A file is put in the trash of the Drive only if the version that goes had
\* been in the local directory.
TrashesOnlyBase ==
    [][Trashes => ~Diverged]_vars

\* A file goes to the local .trash only if nobody changed it since both sides
\* agreed (unless the user writes it after the scan).
DeletesOnlyBase == [][DeleteLocal => file.data = base.data]_vars

\* The local file has content that the server has not, and that is not what both
\* sides last agreed on.
Unsaved == file.data \in Content \ {base.data, remote.data}

\* A download destroys the only copy of a local edit only in a conflict: the
\* version that was listed is not the one the edit started from.
EditLostOnlyInConflict ==
    [][DownloadStart /\ Unsaved => res.etag # base.etag]_vars

\* With -f a version on the server is never replaced (main.cc: "Force grive to
\* always download a file from Google Drive").
ForceNeverOverwrites ==
    [][Stores /\ opt = "force" => remote.data = Nothing]_vars

\* What an interrupted download left behind never replaces a version on the
\* server.
PartialReplacesNothing ==
    [][Stores /\ remote.data # Nothing => file.data # Truncated]_vars

\* Between the scan and the end of SyncSelf.
AtWork == pc \in {"scanned", "listed", "downloading", "downloaded"}

\* As long as nobody acts in the middle of a run and no run is interrupted or told
\* to leave something undone, the clocks, sizes, checksums and records of the code
\* amount to keeping two copies of a file in step by the version they last had in
\* common (TwoCopies): no step of a run does anything else to either of them.
Copies == INSTANCE TwoCopies WITH
    Part   <- Truncated,
    here   <- file.data,
    there  <- [data |-> remote.data, id |-> remote.etag],
    common <- [data |-> base.data, id |-> base.etag],
    seen   <- res.etag,
    made   <- rev,
    busy   <- AtWork
KeepsTwoCopies == Copies!Spec

\* Both sides hold the same file, and the record on disk says so.
Agreed ==
    /\ file.data = remote.data
    /\ file.data # Nothing => index.md5 = file.data /\ index.srv = remote.mtime
    /\ file.data = Nothing => ~index.present

\* Once users and other clients stop, and failures stop, both sides agree for
\* good and runs only confirm it.
Converges == <>[](file.data = remote.data) /\ []<>(pc = "idle" /\ Agreed)
=============================================================================
