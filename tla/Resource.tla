------------------------------ MODULE Resource ------------------------------
(***************************************************************************)
(* The decisions of class gr::Resource (libgrive/src/base/Resource.cc) for *)
(* one file: what the scan of the local directory and the listing of the   *)
(* server make of the file's index record, and what is written back to it. *)
(* Pure operators on records; the steps of a run are in FileSync.          *)
(*                                                                         *)
(* A checksum is the content it is the checksum of (MD5 is taken to be     *)
(* injective); Nothing stands for the empty checksum, for a file that does *)
(* not exist and for a server that does not list it.                       *)
(***************************************************************************)
EXTENDS Integers

CONSTANTS
    Content,    \* what users and other clients write into the file
    Size,       \* Size[c]: the length of content c, what stat() reports
    Nothing,    \* no file, no entry, no checksum
    Truncated,  \* what an unfinished download leaves in the local file
    Special     \* a name that is there but cannot be synchronised: a dangling
                \* symlink, an unreadable file, a socket, a FIFO

ASSUME ContentAssumption ==
    /\ Size \in [Content -> Nat]
    /\ Nothing \notin Content \cup {Truncated, Special}
    /\ Truncated \notin Content \cup {Special}
    /\ Special \notin Content

Data      == Content \cup {Truncated}
Checksums == Data \cup {Nothing}

SizeOf(d) == IF d \in Content THEN Size[d] ELSE 0

\* crypt::MD5::Get answers the empty string for a file it cannot open.
MD5(d) == IF d \in Data THEN d ELSE Nothing

States == {"sync", "local_new", "local_changed", "local_deleted", "remote_new",
           "remote_changed", "remote_deleted", "both_deleted", "unknown"}

NoTime == -1    \* a record without the field "ctime": older than every ctime
NoETag == 0     \* an empty entity tag, and with it an empty resource ID

-----------------------------------------------------------------------------
\* The record of the file in .grive_state. A missing "srv_time" reads as 0.
Records == [present: BOOLEAN, ctime: Nat \cup {NoTime}, md5: Checksums,
            size: Nat, srv: Nat]

NoRecord == [present |-> FALSE, ctime |-> NoTime, md5 |-> Nothing,
             size |-> 0, srv |-> 0]

\* Val::Item: the record, made empty when the tree has none of that name.
Item(rec) == [rec EXCEPT !.present = TRUE]

\* The attributes of a Resource object during a run.
Resources == [state: States, exists: BOOLEAN, bad: BOOLEAN, md5: Checksums,
              size: Nat, ctime: Nat, mtime: Nat, etag: Nat]

NewResource == [state |-> "unknown", exists |-> FALSE, bad |-> FALSE,
                md5 |-> Nothing, size |-> 0, ctime |-> 0, mtime |-> 0,
                etag |-> NoETag]

\* GetMD5: the known checksum, else that of the file as it is now.
GetMD5(res, onDisk) ==
    IF res.md5 = Nothing /\ res.exists THEN MD5(onDisk) ELSE res.md5

-----------------------------------------------------------------------------
(* The local scan. file is [data, ctime]; rec is the file's record.        *)

\* The status change time says that the file was not touched since.
NotTouched(file, rec) == file.ctime <= rec.ctime /\ rec.md5 # Nothing

\* The checksum is read only when the sizes do not already tell.
NeedsMD5(file, rec) == rec.md5 # Nothing /\ SizeOf(file.data) = rec.size

\* Mutant: a newer ctime is a change, the checksum is not compared.
IsChangedByTime(file, rec) == ~NotTouched(file, rec)

IsChanged(file, rec) ==
    /\ ~NotTouched(file, rec)
    /\ NeedsMD5(file, rec) => MD5(file.data) # rec.md5

FromLocal(file, rec) ==
    [state  |-> IF IsChanged(file, rec) THEN "local_new" ELSE "remote_deleted",
     exists |-> TRUE,
     bad    |-> FALSE,
     md5    |-> IF NotTouched(file, rec) THEN rec.md5
                ELSE IF NeedsMD5(file, rec) THEN MD5(file.data) ELSE Nothing,
     size   |-> SizeOf(file.data),
     ctime  |-> file.ctime,
     mtime  |-> rec.srv,
     etag   |-> NoETag]

\* The early returns of FromLocal: ctime is set for a socket or a FIFO, and
\* left at zero when stat() itself fails.
FromInaccessible(ctime) ==
    [NewResource EXCEPT !.state = "sync", !.bad = TRUE, !.ctime = ctime]

\* Mutant: "ctime" is read without asking whether the record has it.
FromDeletedUnchecked(rec) ==
    [NewResource EXCEPT !.state = "both_deleted", !.ctime = rec.ctime,
                        !.md5 = rec.md5, !.size = rec.size, !.mtime = rec.srv]

\* A record without a local file.
FromDeleted(rec) ==
    [NewResource EXCEPT !.state = "both_deleted",
                        !.ctime = IF rec.ctime = NoTime THEN 0 ELSE rec.ctime,
                        !.md5   = rec.md5,
                        !.size  = rec.size,
                        !.mtime = rec.srv]

-----------------------------------------------------------------------------
(* The listing. entry is [data, mtime, etag] of a file the server lists.   *)

Recursive == {"remote_new", "remote_deleted", "local_new", "local_deleted"}

\* Mutant: the checksums are left out.
DiffersBySize(res, entry, onDisk) == SizeOf(entry.data) # res.size

DiffersFrom(res, entry, onDisk) ==
    SizeOf(entry.data) # res.size \/ entry.data # GetMD5(res, onDisk)

\* m_state after FromRemoteFile, for a file whose parent is in state parent.
RemoteState(res, entry, parent, onDisk) ==
    CASE parent \in Recursive -> parent
      [] parent \notin Recursive /\ res.bad -> "sync"
      [] parent \notin Recursive /\ ~res.bad /\ ~res.exists ->
            IF entry.mtime > res.mtime \/ entry.data # res.md5
            THEN "remote_new" ELSE "local_deleted"
      [] OTHER ->
            IF ~DiffersFrom(res, entry, onDisk) THEN "sync"
            ELSE IF entry.mtime > res.mtime THEN "remote_changed"
            ELSE IF res.state \in {"local_new", "remote_deleted"}
                 THEN "local_changed"
            ELSE res.state

\* FromRemoteFile takes the size over only where it will download.
RemoteSize(res, entry, parent, onDisk) ==
    IF /\ parent \notin Recursive
       /\ RemoteState(res, entry, parent, onDisk) \in {"remote_new", "remote_changed"}
    THEN SizeOf(entry.data) ELSE res.size

\* FromRemote: FromRemoteFile, then AssignIDs and the server time.
FromRemote(res, entry, parent, onDisk) ==
    [res EXCEPT !.state = RemoteState(res, entry, parent, onDisk),
                !.size  = RemoteSize(res, entry, parent, onDisk),
                !.md5   = entry.data,
                !.etag  = entry.etag,
                !.mtime = entry.mtime]

-----------------------------------------------------------------------------
(* Writing the record back.                                                *)

\* SetIndex, with the ctime of the resource or of a second stat().
SetIndex(rec, res, ctime) ==
    [rec EXCEPT !.present = TRUE, !.ctime = ctime, !.md5 = res.md5,
                !.size = res.size]

\* The end of SyncSelf: the server time, whatever happened to the file.
SetSrvTime(rec, res) == IF rec.present THEN [rec EXCEPT !.srv = res.mtime] ELSE rec
=============================================================================
