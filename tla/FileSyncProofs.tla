--------------------------- MODULE FileSyncProofs ---------------------------
(***************************************************************************)
(* Theorems about FileSync, for every value of its constants.              *)
(***************************************************************************)
EXTENDS FileSync, TLAPS

-----------------------------------------------------------------------------
(* Types.                                                                  *)

\* The length of a content is a number.
LEMMA SizeType == ASSUME NEW d PROVE SizeOf(d) \in Nat
BY ContentAssumption DEF SizeOf

\* The scan of a regular file makes a resource.
LEMMA FromLocalType ==
    ASSUME NEW f \in Files, f.data \in Data, NEW r \in Records
    PROVE  FromLocal(f, r) \in Resources
<1>1. MD5(f.data) \in Checksums
    BY DEF MD5, Checksums
<1>2. SizeOf(f.data) \in Nat
    BY SizeType
<1> DEFINE state == IF IsChanged(f, r) THEN "local_new" ELSE "remote_deleted"
           md5   == IF NotTouched(f, r) THEN r.md5
                    ELSE IF NeedsMD5(f, r) THEN MD5(f.data) ELSE Nothing
<1>3. state \in States
    BY DEF States
<1>4. md5 \in Checksums
    BY <1>1 DEF Records, Checksums
<1> HIDE DEF state, md5
<1>5. f.ctime \in Nat /\ r.srv \in Nat
    BY DEF Files, Records
<1>6. FromLocal(f, r) = [state |-> state, exists |-> TRUE, bad |-> FALSE, md5 |-> md5,
                         size |-> SizeOf(f.data), ctime |-> f.ctime,
                         mtime |-> r.srv, etag |-> NoETag]
    BY DEF FromLocal, state, md5
<1> QED
    BY <1>2, <1>3, <1>4, <1>5, <1>6 DEF Resources, NoETag

\* A record without a file makes a resource.
LEMMA FromDeletedType ==
    ASSUME NEW r \in Records
    PROVE  FromDeleted(r) \in Resources
BY DEF FromDeleted, NewResource, Records, Resources, States, NoETag, NoTime, Checksums

\* The comparison with a listed file makes a resource, whatever the file holds.
LEMMA FromRemoteType ==
    ASSUME NEW r \in Resources, NEW e \in Entries, NEW d
    PROVE  FromRemote(r, e, "sync", d) \in Resources
<1>1. RemoteState(r, e, "sync", d) \in States
    BY DEF RemoteState, Recursive, States, Resources
<1>2. RemoteSize(r, e, "sync", d) \in Nat
    BY SizeType DEF RemoteSize, Resources
<1> QED
    BY <1>1, <1>2 DEF FromRemote, Resources, Entries

\* Writing a record back leaves a record.
LEMMA SetIndexType ==
    ASSUME NEW rec \in Records, NEW r \in Resources, NEW t \in Nat
    PROVE  SetSrvTime(SetIndex(rec, r, t), r) \in Records
BY DEF SetIndex, SetSrvTime, Records, Resources

\* Storing the server time leaves a record.
LEMMA SetSrvTimeType ==
    ASSUME NEW rec \in Records, NEW r \in Resources
    PROVE  SetSrvTime(rec, r) \in Records
BY DEF SetSrvTime, Records, Resources

\* The values that stand for an absent file, entry, record or resource.
LEMMA NoneType ==
    /\ NoFile \in Files /\ NoEntry \in Entries /\ NoBase \in Bases
    /\ NoRecord \in Records /\ NewResource \in Resources
BY DEF NoFile, NoEntry, NoBase, NoRecord, NewResource, Files, Entries, Bases,
       Records, Resources, Checksums, States, NoETag, NoTime

\* A clock that is read shows a second, not before the last one.
LEMMA LaterType ==
    ASSUME NEW clock \in Nat, NEW t \in Later(clock)
    PROVE  t \in Nat /\ t >= clock /\ ("sameSecond" \notin Races => t > clock)
BY DEF Later

-----------------------------------------------------------------------------
(* Type correctness.                                                       *)

\* The state before the first run is well typed.
LEMMA TypeInit == Init => TypeOK
BY NoneType, FileSyncAssumption DEF Init, TypeOK, Steps, AllOptions

\* The user, the other clients and the failures keep the types.
LEMMA TypeEnvironment == TypeOK /\ Environment => TypeOK'
<1> SUFFICES ASSUME TypeOK, Environment PROVE TypeOK'
    OBVIOUS
<1> USE DEF TypeOK, Files, Entries
<1>1. ASSUME NEW d \in Checksums \cup {Special}, LocalChange(d) PROVE TypeOK'
    <2>1. PICK t \in Later(lclock) : lclock' = t /\ file' = [data |-> d, ctime |-> t]
        BY <1>1 DEF LocalChange
    <2>2. t \in Nat
        BY LaterType
    <2> QED
        BY <1>1, <2>1, <2>2 DEF LocalChange, run
<1>2. CASE LocalWrite
    BY <1>1, <1>2 DEF LocalWrite, Checksums, Data
<1>3. CASE LocalBlock
    BY <1>1, <1>3 DEF LocalBlock
<1>4. CASE LocalDelete
    BY <1>4, NoneType DEF LocalDelete, run
<1>5. CASE RemoteWrite
    <2>1. PICK c \in Content, t \in Later(rclock) :
            remote' = [data |-> c, mtime |-> t, etag |-> rev + 1] /\ rclock' = t
        BY <1>5 DEF RemoteWrite
    <2>2. t \in Nat
        BY LaterType
    <2> QED
        BY <1>5, <2>1, <2>2 DEF RemoteWrite, run, Checksums, Data
<1>6. CASE RemoteTrash
    BY <1>6, NoneType DEF RemoteTrash, run
<1> QED
    BY <1>2, <1>3, <1>4, <1>5, <1>6 DEF Environment

\* What the server stores and what a run ends with is typed.
LEMMA TypeServerStores ==
    ASSUME TypeOK, NEW t \in Nat, ServerStores(t), file.data \in Data
    PROVE  /\ remote' \in Entries /\ base' \in Bases /\ rclock' \in Nat /\ rev' \in Nat
           /\ file' \in Files /\ lclock' \in Nat
BY DEF TypeOK, ServerStores, Entries, Bases, Checksums, NoETag

\* The end of SyncSelf leaves a typed resource and record.
LEMMA TypeSynced ==
    ASSUME TypeOK, NEW r \in Resources, NEW rec \in Records, Synced(r, rec)
    PROVE  pc' \in Steps /\ res' \in Resources /\ st' \in Records
BY SetSrvTimeType DEF Synced, Steps

\* An exception that Sync catches leaves a typed resource and record.
LEMMA TypeCaught ==
    ASSUME TypeOK, Caught
    PROVE  pc' \in Steps /\ res' \in Resources /\ st' \in Records
BY DEF TypeOK, Caught, Steps

\* The end of the process leaves a typed resource and record.
LEMMA TypeExit == Exit => pc' \in Steps /\ res' \in Resources /\ st' \in Records
BY NoneType DEF Exit, Steps

\* Crashes, failed requests and lost replies keep the types.
LEMMA TypeFailure == TypeOK /\ Failure => TypeOK'
<1> SUFFICES ASSUME TypeOK, Failure PROVE TypeOK'
    OBVIOUS
<1>1. ASSUME NEW kind, Fault(kind) PROVE faults' \in 0..MaxFaults
    BY <1>1, FileSyncAssumption DEF TypeOK, Fault
<1>2. CASE Abort
    BY <1>1, <1>2, TypeExit DEF TypeOK, Abort, env
<1>3. CASE HttpError
    BY <1>1, <1>3, TypeCaught DEF TypeOK, HttpError, env
<1>4. CASE LostReply
    <2>1. faults' \in 0..MaxFaults /\ pc' \in Steps /\ res' \in Resources /\ st' \in Records
        BY <1>1, <1>4, TypeCaught DEF LostReply
    <2>2. /\ remote' \in Entries /\ base' \in Bases /\ rclock' \in Nat /\ rev' \in Nat
          /\ file' \in Files /\ lclock' \in Nat
        <3>1. ASSUME file.data \in Data, NEW t \in Later(rclock), ServerStores(t)
              PROVE <2>2!:
            BY <3>1, TypeServerStores, LaterType DEF TypeOK
        <3>2. ASSUME ServerTrashes PROVE <2>2!:
            BY <3>2, NoneType DEF TypeOK, ServerTrashes
        <3> QED
            BY <1>4, <3>1, <3>2 DEF LostReply
    <2> QED
        BY <1>4, <2>1, <2>2 DEF TypeOK, LostReply
<1> QED
    BY <1>2, <1>3, <1>4 DEF Failure

\* The record that a run starts from, and the changed resource of an upload.
LEMMA KnownType ==
    ASSUME TypeOK, NEW o
    PROVE  Known(o) \in Records /\ Item(Known(o)) \in Records
BY DEF TypeOK, Known, Item, Records

\* FromLocal and FromDeleted keep the types, also of a record that has no "ctime".
LEMMA TypeScan == ASSUME TypeOK, NEW o \in Options, Scan(o) PROVE TypeOK'
<1>1. st' \in Records
    BY KnownType DEF Scan
<1>2. res' \in Resources
    <2>1. CASE file.data \in Data /\ res' = FromLocal(file, Item(Known(o)))
        BY <2>1, KnownType, FromLocalType DEF TypeOK
    <2>2. CASE \E ctime \in {0, file.ctime} : res' = FromInaccessible(ctime)
        BY <2>2, NoneType DEF TypeOK, Files, FromInaccessible, NewResource, Resources,
            States, Checksums, NoETag
    <2>3. CASE res' = IF index.present THEN FromDeleted(Known(o)) ELSE NewResource
        BY <2>3, KnownType, FromDeletedType, NoneType DEF TypeOK
    <2> QED
        BY <2>1, <2>2, <2>3 DEF Scan
<1>3. opt' \in AllOptions
    BY FileSyncAssumption DEF Scan
<1> QED
    BY <1>1, <1>2, <1>3 DEF TypeOK, Scan, env, Steps

\* FromRemote keeps the types.
LEMMA TypeList == ASSUME TypeOK, List PROVE TypeOK'
<1>1. res' \in Resources
    BY FromRemoteType DEF TypeOK, List
<1>2. base' \in Bases
    BY DEF TypeOK, List, Entries, Bases, NoETag
<1> QED
    BY <1>1, <1>2 DEF TypeOK, List, env, Steps

\* Create and EditContent keep the types, on the server as in memory.
LEMMA TypeUpload == ASSUME TypeOK, Upload PROVE TypeOK'
<1>1. PICK t \in Later(rclock) :
        /\ ServerStores(t)
        /\ Synced(Uploaded(t), SetIndex(st, Uploaded(t), res.ctime))
    BY DEF Upload
<1>2. t \in Nat
    BY LaterType DEF TypeOK
<1> DEFINE r == Uploaded(t)
<1>3. r \in Resources
    <2>1. /\ res \in Resources /\ file.data \in Checksums /\ rev + 1 \in Nat
        BY DEF TypeOK, Upload, Checksums
    <2> QED
        BY <1>2, <2>1 DEF Uploaded, Resources, States
<1>4. SetIndex(st, r, res.ctime) \in Records
    BY <1>3 DEF TypeOK, SetIndex, Records, Resources
<1> HIDE DEF r
<1>5. pc' \in Steps /\ res' \in Resources /\ st' \in Records
    BY <1>1, <1>3, <1>4, TypeSynced DEF r
<1>6. /\ remote' \in Entries /\ base' \in Bases /\ rclock' \in Nat /\ rev' \in Nat
      /\ file' \in Files /\ lclock' \in Nat
    BY <1>1, <1>2, TypeServerStores DEF Upload
<1> QED
    BY <1>5, <1>6 DEF TypeOK, Upload

\* Every case of SyncSelf keeps the types.
LEMMA TypeTransfer == ASSUME TypeOK, Transfer PROVE TypeOK'
<1>1. CASE Upload
    BY <1>1, TypeUpload
<1>2. CASE UploadRefused \/ DeleteRemoteRefused \/ DownloadRefused \/ DeleteLocalRefused \/ NothingToSync
    BY <1>2, TypeCaught DEF TypeOK, env, UploadRefused, DeleteRemoteRefused,
        DownloadRefused, DeleteLocalRefused, NothingToSync
<1>3. CASE SkipReadOnly \/ SkipRemote
    <2>1. Synced(res, st)
        BY <1>3 DEF SkipReadOnly, SkipRemote
    <2>2. base' \in Bases
        BY <1>3 DEF TypeOK, SkipReadOnly, SkipRemote, Bases, Resources
    <2> QED
        BY <1>3, <2>1, <2>2, TypeSynced DEF TypeOK, env, SkipReadOnly, SkipRemote
<1>4. CASE DeleteRemote
    BY <1>4, TypeSynced, NoneType DEF TypeOK, DeleteRemote, ServerTrashes, Forgotten
<1>5. CASE DownloadStart \/ Download
    <2>1. PICK t \in Later(lclock), d \in Checksums :
            file' = [data |-> d, ctime |-> t] /\ lclock' = t
        BY <1>5 DEF DownloadStart, Download, TypeOK, Entries, Checksums, Data
    <2>2. t \in Nat
        BY LaterType DEF TypeOK
    <2>3. file' \in Files /\ lclock' \in Nat
        BY <2>1, <2>2 DEF Files
    <2>4. base' \in Bases
        BY <1>5 DEF TypeOK, DownloadStart, Download, Entries, Bases, NoETag
    <2> QED
        BY <1>5, <2>3, <2>4 DEF TypeOK, DownloadStart, Download, Steps
<1>6. CASE StoreIndex
    <2> DEFINE r == [res EXCEPT !.state = "sync", !.ctime = file.ctime]
    <2>1. r \in Resources
        BY DEF TypeOK, Resources, Files, States
    <2>2. SetIndex(st, r, file.ctime) \in Records
        BY <2>1 DEF TypeOK, SetIndex, Records, Resources, Files
    <2>3. Synced(r, SetIndex(st, r, file.ctime))
        BY <1>6 DEF StoreIndex
    <2> HIDE DEF r
    <2> QED
        BY <1>6, <2>1, <2>2, <2>3, TypeSynced DEF TypeOK, env, StoreIndex
<1>7. CASE DeleteLocal
    BY <1>7, TypeSynced, NoneType DEF TypeOK, DeleteLocal, Forgotten
<1>8. CASE BothDeleted
    BY <1>8, TypeSynced, NoneType DEF TypeOK, env, BothDeleted, Forgotten
<1>9. CASE AlreadySync
    <2>1. SetIndex(st, res, res.ctime) \in Records
        BY DEF TypeOK, SetIndex, Records, Resources
    <2>2. base' \in Bases
        BY <1>9 DEF TypeOK, AlreadySync, Bases, Resources
    <2> QED
        BY <1>9, <2>1, <2>2, TypeSynced DEF TypeOK, env, AlreadySync
<1> QED
    BY <1>1, <1>2, <1>3, <1>4, <1>5, <1>6, <1>7, <1>8, <1>9 DEF Transfer

\* A step that changes nothing keeps the types.
LEMMA TypeStutter == ASSUME TypeOK, UNCHANGED vars PROVE TypeOK'
BY DEF TypeOK, vars

\* Every step keeps the types.
LEMMA TypeNext == TypeOK /\ [Next]_vars => TypeOK'
<1> SUFFICES ASSUME TypeOK, [Next]_vars PROVE TypeOK'
    OBVIOUS
<1>1. CASE BeginSave
    BY <1>1, NoneType DEF TypeOK, BeginSave, env, Steps
<1>2. CASE EndSave \/ DryRun \/ StoreIndexAborts
    BY <1>2, TypeExit DEF TypeOK, EndSave, DryRun, StoreIndexAborts, env
<1> QED
    BY <1>1, <1>2, TypeEnvironment, TypeScan, TypeList, TypeTransfer, TypeFailure,
        TypeStutter DEF Next, RunStep

\* Every state of every behaviour is well typed: no record without a number
\* where the code reads one, whatever is missing from .grive_state.
THEOREM TypeCorrect == Spec => []TypeOK
BY TypeInit, TypeNext, PTL DEF Spec

-----------------------------------------------------------------------------
(* The cache of checksums. It is sound as long as no two changes fall into *)
(* one second, nobody replaces the version that was listed before it is    *)
(* downloaded, and the user leaves the file alone between the download and *)
(* the stat() that follows.                                                *)

Careful == Races \subseteq {"scanToTransfer"}

\* With those races excluded every change has a second of its own.
LEMMA CarefulLater ==
    ASSUME Careful, NEW clock \in Nat, NEW t \in Later(clock)
    PROVE  t \in Nat /\ t > clock
BY DEF Careful, Later

\* Before the first run there is no record that could be wrong.
LEMMA CacheInit == Init => CacheInv
BY DEF Init, CacheInv, CacheValid, NotTouched, AsScanned, ToDownload, NoFile, NoEntry,
       NoRecord, NewResource, NoTime

\* A file that has just been changed is younger than every record.
LEMMA ChangedIsYounger ==
    ASSUME TypeOK, CacheInv, Careful, NEW t \in Later(lclock), NEW d,
           lclock' = t, file' = [data |-> d, ctime |-> t],
           UNCHANGED <<index, st, res>>
    PROVE  /\ CacheValid(index)' /\ CacheValid(st)'
           /\ file'.ctime <= lclock' /\ index'.ctime <= lclock'
           /\ st'.ctime <= lclock' /\ res'.ctime <= lclock'
           /\ ~AsScanned'
<1>1. t \in Nat /\ t > lclock
    BY CarefulLater DEF TypeOK
<1>2. /\ index.ctime \in Int /\ st.ctime \in Int /\ res.ctime \in Int /\ lclock \in Int
      /\ index.ctime <= lclock /\ st.ctime <= lclock /\ res.ctime <= lclock
    BY DEF TypeOK, CacheInv, Records, Resources, NoTime
<1>3. file'.ctime = t /\ lclock' = t
    OBVIOUS
<1>4. ~(t <= index.ctime) /\ ~(t <= st.ctime) /\ ~(t <= res.ctime)
    BY <1>1, <1>2
<1>5. index.ctime <= t /\ st.ctime <= t /\ res.ctime <= t /\ t <= t
    BY <1>1, <1>2
<1> QED
    BY <1>3, <1>4, <1>5 DEF CacheValid, NotTouched, AsScanned

\* The user and the other clients keep the cache sound: each change has a later
\* ctime than every record, and nobody replaces a version that is being fetched.
LEMMA CacheEnvironment == ASSUME TypeOK, CacheInv, Careful, Environment PROVE CacheInv'
<1>1. ASSUME NEW d, LocalChange(d) PROVE CacheInv'
    <2>1. PICK t \in Later(lclock) : lclock' = t /\ file' = [data |-> d, ctime |-> t]
        BY <1>1 DEF LocalChange
    <2>2. pc \notin {"downloaded", "downloading"}
        BY <1>1 DEF LocalChange, UserMayAct, Careful
    <2>3. UNCHANGED <<index, st, res, pc, remote>>
        BY <1>1 DEF LocalChange, run
    <2> QED
        BY <2>1, <2>2, <2>3, ChangedIsYounger DEF CacheInv, ToDownload
<1>2. CASE LocalDelete
    <2>1. file'.data \notin Data /\ file'.ctime = 0
        BY <1>2, ContentAssumption DEF LocalDelete, NoFile, Data
    <2>2. pc # "downloaded"
        BY <1>2 DEF LocalDelete, UserMayAct, Careful
    <2>3. UNCHANGED <<index, st, res, pc, remote, lclock>>
        BY <1>2 DEF LocalDelete, run
    <2>4. 0 <= lclock
        BY DEF TypeOK
    <2> QED
        BY <2>1, <2>2, <2>3, <2>4 DEF CacheInv, CacheValid, AsScanned, NotTouched, ToDownload
<1>3. CASE RemoteWrite
    <2>1. ~ToDownload
        BY <1>3 DEF RemoteWrite, Careful
    <2>2. UNCHANGED <<file, lclock, index, st, res, pc>>
        BY <1>3 DEF RemoteWrite, run
    <2> QED
        BY <2>1, <2>2 DEF CacheInv, CacheValid, AsScanned, NotTouched, ToDownload
<1>4. CASE RemoteTrash
    <2>1. UNCHANGED <<file, lclock, index, st, res, pc>> /\ remote'.data = Nothing
        BY <1>4 DEF RemoteTrash, run, NoEntry
    <2> QED
        BY <2>1 DEF CacheInv, CacheValid, AsScanned, NotTouched, ToDownload
<1> QED
    BY <1>1, <1>2, <1>3, <1>4 DEF Environment, LocalWrite, LocalBlock

\* The scan notes what is true of the file.
LEMMA CacheScan == ASSUME TypeOK, CacheInv, NEW o \in Options, Scan(o) PROVE CacheInv'
<1> DEFINE rec == Item(Known(o))
<1>1. /\ st'.md5 = index.md5 /\ st'.ctime = index.ctime
    BY DEF Scan, Item, Known, TypeOK, Records
<1>2. /\ rec.md5 = index.md5 /\ rec.ctime = index.ctime
    BY DEF Item, Known, TypeOK, Records
<1>3. CacheValid(index)' /\ CacheValid(st)'
    BY <1>1 DEF Scan, env, CacheInv, CacheValid, NotTouched
<1>4. /\ res'.ctime <= lclock
      /\ res'.state \in {"unknown", "sync", "local_new", "remote_deleted", "both_deleted"}
      /\ res'.state = "sync" => res'.bad
      /\ AsScanned' => /\ res'.exists /\ ~res'.bad
                       /\ res'.size = SizeOf(file.data)
                       /\ res'.md5 \in {Nothing, file.data}
    <2>1. CASE file.data \in Data /\ res' = FromLocal(file, rec)
        <3>1. res'.md5 \in {Nothing, file.data}
            BY <2>1, <1>2 DEF FromLocal, MD5, CacheInv, CacheValid, NotTouched
        <3> QED
            BY <2>1, <3>1 DEF FromLocal, CacheInv
    <2>2. CASE file.data = Special /\ \E ctime \in {0, file.ctime} : res' = FromInaccessible(ctime)
        <3>1. ~AsScanned'
            BY <2>2, ContentAssumption DEF AsScanned, Data, Scan, env
        <3>2. res'.state = "sync" /\ res'.bad /\ res'.ctime \in {0, file.ctime}
            BY <2>2 DEF FromInaccessible, NewResource
        <3> QED
            BY <3>1, <3>2 DEF CacheInv, TypeOK
    <2>3. CASE file.data = Nothing /\ res' = IF index.present THEN FromDeleted(Known(o)) ELSE NewResource
        <3>1. ~AsScanned'
            BY <2>3, ContentAssumption DEF AsScanned, Data, Scan, env
        <3>2. /\ res'.state \in {"unknown", "both_deleted"}
              /\ res'.ctime \in {0, index.ctime}
            BY <2>3 DEF FromDeleted, NewResource, Known, TypeOK, Records
        <3> QED
            BY <3>1, <3>2 DEF CacheInv, TypeOK
    <2> QED
        BY <2>1, <2>2, <2>3 DEF Scan
<1> QED
    BY <1>1, <1>3, <1>4 DEF Scan, env, CacheInv, ToDownload

\* The verdict on a file that is still as it was scanned is right.
LEMMA VerdictRight ==
    ASSUME TypeOK, CacheInv, pc = "scanned", AsScanned, remote.data # Nothing
    PROVE  (RemoteState(res, remote, "sync", file.data) = "sync") = (file.data = remote.data)
<1>1. res.exists /\ ~res.bad /\ res.size = SizeOf(file.data) /\ res.md5 \in {Nothing, file.data}
    BY DEF CacheInv
<1>2. GetMD5(res, file.data) = file.data
    BY <1>1 DEF GetMD5, MD5, AsScanned
<1>3. DiffersFrom(res, remote, file.data) = (file.data # remote.data)
    BY <1>1, <1>2 DEF DiffersFrom
<1>4. res.state # "sync"
    BY <1>1 DEF CacheInv
<1>5. RemoteState(res, remote, "sync", file.data) =
        IF ~DiffersFrom(res, remote, file.data) THEN "sync"
        ELSE IF remote.mtime > res.mtime THEN "remote_changed"
        ELSE IF res.state \in {"local_new", "remote_deleted"} THEN "local_changed"
        ELSE res.state
    BY <1>1 DEF RemoteState, Recursive
<1> QED
    BY <1>3, <1>4, <1>5

\* FromRemote keeps the cache sound: it says "sync" of equal checksums only.
LEMMA CacheList == ASSUME TypeOK, CacheInv, List PROVE CacheInv'
<1>1. UNCHANGED <<file, remote, lclock, index, st>> /\ pc = "scanned" /\ pc' = "listed"
    BY DEF List, env
<1>2. CASE remote.data = Nothing
    <2>1. res' = res
        BY <1>2 DEF List
    <2>2. res.state = "sync" => ~AsScanned
        BY <1>1 DEF CacheInv
    <2> QED
        BY <1>1, <1>2, <2>1, <2>2 DEF CacheInv, CacheValid, NotTouched, AsScanned, ToDownload
<1>3. CASE remote.data # Nothing
    <2>1. res' = FromRemote(res, remote, "sync", file.data)
        BY <1>3 DEF List
    <2>2. /\ res'.md5 = remote.data /\ res'.ctime = res.ctime
          /\ res'.state = RemoteState(res, remote, "sync", file.data)
        BY <2>1 DEF FromRemote, TypeOK, Resources
    <2>3. res'.state = "sync" /\ AsScanned' => res'.md5 = file.data
        BY <1>1, <1>3, <2>2, VerdictRight DEF AsScanned
    <2> QED
        BY <1>1, <2>2, <2>3 DEF CacheInv, CacheValid, NotTouched, AsScanned, ToDownload
<1> QED
    BY <1>2, <1>3

\* The record that a run leaves, when it is no longer about to transfer.
LEMMA CacheIndexed ==
    ASSUME TypeOK, CacheInv, pc' \in {"idle", "indexed", "saving"},
           UNCHANGED <<file, lclock>>,
           index' \in {index, st, NoRecord},
           st'.ctime <= lclock, res'.ctime <= lclock, CacheValid(st')
    PROVE  CacheInv'
<1>1. index'.ctime <= lclock /\ CacheValid(index')
    BY DEF CacheInv, CacheValid, NotTouched, NoRecord, NoTime, TypeOK
<1> QED
    BY <1>1 DEF CacheInv, CacheValid, NotTouched, ToDownload

\* SyncSelf returns with the record rec of resource r.
LEMMA CacheSynced ==
    ASSUME TypeOK, CacheInv, NEW r \in Resources, NEW rec \in Records, Synced(r, rec),
           UNCHANGED <<file, lclock, index>>,
           r.ctime <= lclock, rec.ctime <= lclock, CacheValid(rec)
    PROVE  CacheInv'
<1>1. st'.ctime = rec.ctime /\ st'.md5 = rec.md5 /\ res' = r /\ pc' = "indexed"
    BY DEF Synced, SetSrvTime, Records
<1> QED
    BY <1>1, CacheIndexed DEF CacheValid, NotTouched

\* SetIndex writes the checksum of the resource with the given ctime.
LEMMA SetIndexFields ==
    ASSUME NEW rec \in Records, NEW r \in Resources, NEW t \in Nat
    PROVE  /\ SetIndex(rec, r, t) \in Records
           /\ SetIndex(rec, r, t).ctime = t /\ SetIndex(rec, r, t).md5 = r.md5
BY DEF SetIndex, Records, Resources

\* After an upload the record has the checksum of what was sent and the ctime of
\* the scan, so an edit in between is still seen.
LEMMA CacheUpload == ASSUME TypeOK, CacheInv, Upload PROVE CacheInv'
<1>1. PICK t \in Later(rclock) :
        /\ ServerStores(t)
        /\ Synced(Uploaded(t), SetIndex(st, Uploaded(t), res.ctime))
    BY DEF Upload
<1> DEFINE r == Uploaded(t)
<1>2. r \in Resources
    <2>1. res \in Resources /\ file.data \in Checksums /\ rev + 1 \in Nat /\ t \in Nat
        BY LaterType DEF TypeOK, Upload, Checksums
    <2> QED
        BY <2>1 DEF Uploaded, Resources, States
<1>3. r.ctime = res.ctime /\ r.md5 = file.data /\ res.ctime \in Nat
    BY DEF Uploaded, TypeOK, Resources
<1>4. UNCHANGED <<file, lclock, index>>
    BY <1>1 DEF Upload, ServerStores
<1>5. Synced(r, SetIndex(st, r, res.ctime))
    BY <1>1
<1> HIDE DEF r
<1>6. /\ SetIndex(st, r, res.ctime) \in Records
      /\ SetIndex(st, r, res.ctime).ctime = res.ctime
      /\ SetIndex(st, r, res.ctime).md5 = file.data
    BY <1>2, <1>3, SetIndexFields DEF TypeOK
<1>7. CacheValid(SetIndex(st, r, res.ctime))
    BY <1>6 DEF CacheValid
<1> QED
    BY <1>2, <1>3, <1>4, <1>5, <1>6, <1>7, CacheSynced DEF CacheInv

\* The checksum that was listed is that of the content that was downloaded.
LEMMA CacheStoreIndex == ASSUME TypeOK, CacheInv, StoreIndex PROVE CacheInv'
<1> DEFINE r == [res EXCEPT !.state = "sync", !.ctime = file.ctime]
<1>1. r \in Resources
    BY DEF TypeOK, Resources, Files, States
<1>2. r.ctime = file.ctime /\ r.md5 = file.data /\ file.ctime \in Nat
    BY DEF TypeOK, Resources, Files, StoreIndex, CacheInv
<1>3. Synced(r, SetIndex(st, r, file.ctime)) /\ UNCHANGED <<file, lclock, index>>
    BY DEF StoreIndex, env
<1> HIDE DEF r
<1>4. /\ SetIndex(st, r, file.ctime) \in Records
      /\ SetIndex(st, r, file.ctime).ctime = file.ctime
      /\ SetIndex(st, r, file.ctime).md5 = file.data
    BY <1>1, <1>2, SetIndexFields DEF TypeOK
<1>5. CacheValid(SetIndex(st, r, file.ctime))
    BY <1>4 DEF CacheValid
<1> QED
    BY <1>1, <1>2, <1>3, <1>4, <1>5, CacheSynced DEF CacheInv

\* A file found in sync has the checksum that was listed, at the ctime of the scan.
LEMMA CacheAlreadySync == ASSUME TypeOK, CacheInv, AlreadySync PROVE CacheInv'
<1>1. /\ SetIndex(st, res, res.ctime) \in Records
      /\ SetIndex(st, res, res.ctime).ctime = res.ctime
      /\ SetIndex(st, res, res.ctime).md5 = res.md5
    BY SetIndexFields DEF TypeOK, Resources
<1>2. AsScanned => res.md5 = file.data
    BY DEF CacheInv, AlreadySync, Self
<1>3. CacheValid(SetIndex(st, res, res.ctime))
    BY <1>1, <1>2 DEF CacheValid, NotTouched, AsScanned
<1> QED
    BY <1>1, <1>3, CacheSynced DEF AlreadySync, env, CacheInv, TypeOK

\* Where no record is written, or it is dropped.
LEMMA CacheCaught ==
    ASSUME TypeOK, CacheInv, Caught, UNCHANGED <<file, lclock, index>> PROVE CacheInv'
BY CacheIndexed DEF Caught, CacheInv

\* A record that is deleted is not wrong about any file.
LEMMA CacheForgotten ==
    ASSUME TypeOK, CacheInv, Synced(res, Forgotten), UNCHANGED <<lclock, index>>,
           file' = file \/ file' = NoFile
    PROVE  CacheInv'
<1>1. st' = NoRecord /\ res' = res /\ pc' = "indexed"
    BY DEF Synced, Forgotten, SetSrvTime, NoRecord
<1>2. CASE file' = file
    BY <1>1, <1>2, CacheIndexed DEF CacheInv, CacheValid, NotTouched, NoRecord, NoTime, TypeOK
<1>3. CASE file' = NoFile
    <2>1. file'.data \notin Data /\ file'.ctime = 0
        BY <1>3, ContentAssumption DEF NoFile, Data
    <2> QED
        BY <1>1, <2>1 DEF CacheInv, CacheValid, NotTouched, AsScanned, ToDownload, NoRecord,
            NoTime, TypeOK
<1> QED
    BY <1>2, <1>3

\* A download puts the listed content under a later ctime; SetIndex records both.
LEMMA CacheDownload ==
    ASSUME TypeOK, CacheInv, Careful, DownloadStart \/ Download PROVE CacheInv'
<1>1. PICK t \in Later(lclock) :
        file' = [data |-> file'.data, ctime |-> t] /\ lclock' = t
    BY DEF DownloadStart, Download
<1>2. UNCHANGED <<index, st, res, remote>>
    BY DEF DownloadStart, Download
<1>3. /\ CacheValid(index)' /\ CacheValid(st)'
      /\ file'.ctime <= lclock' /\ index'.ctime <= lclock'
      /\ st'.ctime <= lclock' /\ res'.ctime <= lclock'
    BY <1>1, <1>2, ChangedIsYounger
<1>4. CASE DownloadStart
    <2>1. pc = "listed" /\ pc' = "downloading" /\ res.state \in {"remote_new", "remote_changed"}
        BY <1>4 DEF DownloadStart, Self
    <2> QED
        BY <1>2, <1>3, <2>1 DEF CacheInv, ToDownload
<1>5. CASE Download
    <2>1. pc = "downloading" /\ pc' = "downloaded" /\ file'.data = remote.data
          /\ remote.data # Nothing
        BY <1>5 DEF Download
    <2>2. remote.data = res.md5
        BY <2>1 DEF CacheInv, ToDownload
    <2> QED
        BY <1>2, <1>3, <2>1, <2>2 DEF CacheInv, ToDownload
<1> QED
    BY <1>4, <1>5

\* Every case of SyncSelf keeps the cache sound.
LEMMA CacheTransfer == ASSUME TypeOK, CacheInv, Careful, Transfer PROVE CacheInv'
<1>1. CASE Upload
    BY <1>1, CacheUpload
<1>2. CASE UploadRefused \/ DeleteRemoteRefused \/ DownloadRefused \/ DeleteLocalRefused \/ NothingToSync
    BY <1>2, CacheCaught DEF env, UploadRefused, DeleteRemoteRefused,
        DownloadRefused, DeleteLocalRefused, NothingToSync
<1>3. CASE SkipReadOnly \/ SkipRemote
    <2>1. Synced(res, st) /\ UNCHANGED <<file, lclock, index>>
        BY <1>3 DEF SkipReadOnly, SkipRemote, env
    <2> QED
        BY <2>1, CacheSynced DEF TypeOK, CacheInv
<1>4. CASE DeleteRemote
    BY <1>4, CacheForgotten DEF DeleteRemote, ServerTrashes
<1>5. CASE DownloadStart \/ Download
    BY <1>5, CacheDownload
<1>6. CASE StoreIndex
    BY <1>6, CacheStoreIndex
<1>7. CASE DeleteLocal
    BY <1>7, CacheForgotten DEF DeleteLocal
<1>8. CASE BothDeleted
    BY <1>8, CacheForgotten DEF BothDeleted, env
<1>9. CASE AlreadySync
    BY <1>9, CacheAlreadySync
<1> QED
    BY <1>1, <1>2, <1>3, <1>4, <1>5, <1>6, <1>7, <1>8, <1>9 DEF Transfer

\* A process that ends leaves what is on disk, which was sound.
LEMMA CacheExit ==
    ASSUME TypeOK, CacheInv, Exit, UNCHANGED <<file, lclock>>,
           index' \in {index, st, NoRecord}
    PROVE  CacheInv'
<1>1. st' = NoRecord /\ res' = NewResource /\ pc' = "idle"
    BY DEF Exit
<1>2. st'.ctime <= lclock /\ res'.ctime <= lclock /\ CacheValid(st')
    BY <1>1 DEF NoRecord, NewResource, NoTime, TypeOK, CacheValid, NotTouched
<1> QED
    BY <1>1, <1>2, CacheIndexed

\* Crashes, failed requests and lost replies keep the cache sound.
LEMMA CacheFailure == ASSUME TypeOK, CacheInv, Failure PROVE CacheInv'
<1>1. CASE Abort
    BY <1>1, CacheExit DEF Abort, env
<1>2. CASE HttpError
    BY <1>2, CacheCaught DEF HttpError, env
<1>3. CASE LostReply
    BY <1>3, CacheCaught DEF LostReply, ServerStores, ServerTrashes
<1> QED
    BY <1>1, <1>2, <1>3 DEF Failure

\* A step that changes nothing keeps the cache sound.
LEMMA CacheStutter == ASSUME CacheInv, UNCHANGED vars PROVE CacheInv'
BY DEF CacheInv, vars, CacheValid, NotTouched, AsScanned, ToDownload

\* Every step keeps the cache sound when the three windows are closed.
LEMMA CacheNext == ASSUME Careful PROVE TypeOK /\ CacheInv /\ [Next]_vars => CacheInv'
<1> SUFFICES ASSUME TypeOK, CacheInv, [Next]_vars PROVE CacheInv'
    OBVIOUS
<1>1. CASE BeginSave
    BY <1>1, CacheIndexed DEF BeginSave, env, CacheInv
<1>2. CASE EndSave \/ DryRun \/ StoreIndexAborts
    BY <1>2, CacheExit DEF EndSave, DryRun, StoreIndexAborts, env
<1> QED
    BY <1>1, <1>2, CacheEnvironment, CacheScan, CacheList, CacheTransfer, CacheFailure,
        CacheStutter DEF Next, RunStep

\* The inductive invariant of the cache.
THEOREM CacheCorrect == ASSUME Careful PROVE Spec => []CacheInv
<1>1. TypeOK /\ CacheInv /\ [Next]_vars => CacheInv'
    BY CacheNext
<1> QED
    BY CacheInit, TypeCorrect, <1>1, PTL DEF Spec

\* The scan may trust the status change time: whatever the options, the edits,
\* the failures and the crashes, a file whose ctime is not newer than its record
\* has the checksum that the record says.
THEOREM CacheIsSound == ASSUME Careful PROVE Spec => []CacheSound
<1>1. CacheInv => CacheSound
    BY DEF CacheInv, CacheSound
<1> QED
    BY CacheCorrect, <1>1, PTL

\* "Already in sync" is said of a file if and only if both sides hold the same.
THEOREM VerdictIsSound == ASSUME Careful PROVE Spec => VerdictSound
<1>1. TypeOK /\ CacheInv /\ [Next]_vars =>
        [List /\ file.data \in Data /\ file.ctime = res.ctime /\ remote.data # Nothing =>
            (res'.state = "sync") = (file.data = remote.data)]_vars
    <2> SUFFICES ASSUME TypeOK, CacheInv, List, file.data \in Data,
                        file.ctime = res.ctime, remote.data # Nothing
                 PROVE  (res'.state = "sync") = (file.data = remote.data)
        OBVIOUS
    <2>1. AsScanned /\ pc = "scanned"
        BY DEF AsScanned, List, TypeOK, Files
    <2>2. res'.state = RemoteState(res, remote, "sync", file.data)
        BY DEF List, FromRemote, TypeOK, Resources
    <2> QED
        BY <2>1, <2>2, VerdictRight
<1> QED
    BY CacheCorrect, TypeCorrect, <1>1, PTL DEF Spec, VerdictSound
-----------------------------------------------------------------------------
(* Versions. The server's clock gives each version a second of its own, so *)
(* that the time in a record tells which versions the record knows of.     *)

OneASecond == "sameSecond" \notin Races

\* A version that is not younger than what a record knows is the one both sides
\* last had, or one that was passed over.
Seen(rec) ==
    remote.data # Nothing /\ remote.mtime <= rec.srv =>
        remote.etag \in {base.etag, base.passed}

\* The run has read the listing and has not dealt with the file yet.
Working == pc \in {"listed", "downloading", "downloaded"}

\* The server still has the version that was listed.
IsListed == remote.data # Nothing /\ remote.etag = res.etag

\* The server has one that no record and no listing knows.
IsNewer == remote.mtime > index.srv /\ remote.mtime > st.srv /\ remote.mtime > res.mtime

\* Entity tags and times grow with the versions.
VersionBounds ==
    /\ remote.etag <= rev /\ res.etag <= rev
    /\ remote.mtime <= rclock /\ res.mtime <= rclock
    /\ index.srv <= rclock /\ st.srv <= rclock
    /\ IF remote.data = Nothing THEN remote.etag = NoETag
       ELSE remote.mtime > 0 /\ remote.etag # NoETag

\* What the scan makes of the file: nothing is known of the server yet, except for
\* the time in the record.
ScanInv ==
    pc = "scanned" =>
        /\ res.etag = NoETag
        /\ res.mtime <= index.srv
        /\ res.state \in IF res.exists THEN {"local_new", "remote_deleted"}
                         ELSE IF res.bad THEN {"sync"} ELSE {"unknown", "both_deleted"}
        /\ res.exists => ~res.bad

\* What a run knows of the version that it has listed, until it is replaced.
ListInv ==
    /\ Working /\ remote.data # Nothing =>
        IF IsListed THEN remote.mtime = res.mtime ELSE IsNewer
    /\ pc = "listed" =>
        /\ res.state \in {"local_new", "remote_deleted", "both_deleted", "unknown"} =>
            res.etag = NoETag
        /\ res.state = "local_deleted" => res.etag # NoETag
        /\ IsListed /\ res.state \in {"local_changed", "local_deleted"} =>
            remote.etag \in {base.etag, base.passed}
        /\ IsListed /\ res.state = "sync" => res.bad \/ remote.etag = base.etag
    /\ pc = "downloaded" /\ IsListed => remote.etag = base.etag

VersionInv == VersionBounds /\ Seen(index) /\ Seen(st) /\ ScanInv /\ ListInv

\* Nothing is known of any version before the first run.
LEMMA VersionInit == Init => VersionInv
BY DEF Init, VersionInv, VersionBounds, Seen, ScanInv, ListInv, Working, NoEntry, NoRecord,
       NewResource, NoETag

\* The numbers that the invariant compares.
LEMMA VersionTypes ==
    ASSUME TypeOK
    PROVE  /\ rev \in Nat /\ rclock \in Nat
           /\ remote.etag \in Nat /\ remote.mtime \in Nat
           /\ res.etag \in Nat /\ res.mtime \in Nat
           /\ index.srv \in Nat /\ st.srv \in Nat
           /\ base.etag \in Nat /\ base.passed \in Nat
BY DEF TypeOK, Entries, Resources, Records, Bases

\* The server's clock has moved on when it makes a version.
LEMMA OneASecondLater ==
    ASSUME OneASecond, NEW clock \in Nat, NEW t \in Later(clock)
    PROVE  t \in Nat /\ t > clock
BY DEF OneASecond, Later

\* A version that has just been made is younger than all that is known.
LEMMA MadeIsNewer ==
    ASSUME TypeOK, VersionInv, OneASecond, NEW t \in Later(rclock), NEW d, d # Nothing,
           remote' = [data |-> d, mtime |-> t, etag |-> rev + 1],
           rclock' = t, rev' = rev + 1, UNCHANGED <<index, st, res>>
    PROVE  VersionBounds' /\ IsNewer' /\ ~IsListed' /\ Seen(index)' /\ Seen(st)'
<1>1. t \in Nat /\ t > rclock
    BY OneASecondLater, VersionTypes
<1>2. remote'.mtime = t /\ remote'.etag = rev + 1 /\ remote'.data = d
    OBVIOUS
<1>3. /\ index.srv <= rclock /\ st.srv <= rclock /\ res.mtime <= rclock /\ res.etag <= rev
    BY DEF VersionInv, VersionBounds
<1>4. IsNewer' /\ ~IsListed'
    BY <1>1, <1>2, <1>3, VersionTypes DEF IsNewer, IsListed
<1>5. VersionBounds'
    BY <1>1, <1>2, <1>3, VersionTypes DEF VersionBounds, NoETag
<1>6. ~(t <= index.srv) /\ ~(t <= st.srv)
    BY <1>1, <1>3, VersionTypes
<1> QED
    BY <1>2, <1>4, <1>5, <1>6 DEF Seen

\* A file that has gone from the server has no version to be wrong about.
LEMMA TrashedIsSeen ==
    ASSUME TypeOK, VersionInv, remote' = NoEntry,
           UNCHANGED <<rclock, rev, index, st, res>>
    PROVE  VersionBounds' /\ ~IsListed' /\ Seen(index)' /\ Seen(st)' /\ remote'.data = Nothing
BY VersionTypes DEF VersionInv, VersionBounds, NoEntry, NoETag, IsListed, Seen

\* Users and other clients: what they make is newer than all a run knows.
LEMMA VersionEnvironment ==
    ASSUME TypeOK, VersionInv, OneASecond, Environment PROVE VersionInv'
<1>1. CASE LocalWrite \/ LocalBlock \/ LocalDelete
    <2>1. UNCHANGED <<remote, rclock, rev, run, base>>
        BY <1>1 DEF LocalWrite, LocalBlock, LocalDelete, LocalChange
    <2> QED
        BY <2>1 DEF run, VersionInv, VersionBounds, Seen, ScanInv, ListInv, Working,
            IsListed, IsNewer
<1>2. CASE RemoteWrite
    <2>1. PICK c \in Content, t \in Later(rclock) :
            remote' = [data |-> c, mtime |-> t, etag |-> rev + 1] /\ rclock' = t
        BY <1>2 DEF RemoteWrite
    <2>2. rev' = rev + 1 /\ UNCHANGED <<index, pc, st, res, base>>
        BY <1>2 DEF RemoteWrite, run
    <2>3. VersionBounds' /\ IsNewer' /\ ~IsListed' /\ Seen(index)' /\ Seen(st)'
        BY <2>1, <2>2, MadeIsNewer, ContentAssumption
    <2> QED
        BY <2>2, <2>3 DEF VersionInv, ScanInv, ListInv
<1>3. CASE RemoteTrash
    <2>1. remote' = NoEntry /\ UNCHANGED <<rclock, rev, index, st, res, pc>>
        BY <1>3 DEF RemoteTrash, run
    <2>2. VersionBounds' /\ ~IsListed' /\ Seen(index)' /\ Seen(st)' /\ remote'.data = Nothing
        BY <2>1, TrashedIsSeen
    <2> QED
        BY <2>1, <2>2 DEF VersionInv, ScanInv, ListInv
<1> QED
    BY <1>1, <1>2, <1>3 DEF Environment

\* The scan takes the time from the record, or none at all with -f.
LEMMA ScanKnowsTheTime ==
    ASSUME TypeOK, NEW o \in Options, Scan(o)
    PROVE  ScanInv' /\ res'.mtime <= index.srv /\ res'.etag = NoETag /\ st'.srv \in {0, index.srv}
<1>1. index' = index /\ pc' = "scanned"
    BY DEF Scan
<1>2. Known(o) \in Records /\ Known(o).srv \in {0, index.srv}
    BY DEF Known, TypeOK, Records
<1>3. st' \in {Known(o), Item(Known(o))}
    BY DEF Scan
<1>4. st'.srv \in {0, index.srv}
    BY <1>2, <1>3 DEF Item, Records
<1>5. /\ res'.etag = NoETag /\ res'.mtime \in {0, index.srv}
      /\ res'.state \in IF res'.exists THEN {"local_new", "remote_deleted"}
                        ELSE IF res'.bad THEN {"sync"} ELSE {"unknown", "both_deleted"}
      /\ res'.exists => ~res'.bad
    <2>1. CASE file.data \in Data /\ res' = FromLocal(file, Item(Known(o)))
        BY <1>2, <2>1 DEF FromLocal, Item, Records
    <2>2. CASE \E ctime \in {0, file.ctime} : res' = FromInaccessible(ctime)
        BY <2>2 DEF FromInaccessible, NewResource
    <2>3. CASE res' = IF index.present THEN FromDeleted(Known(o)) ELSE NewResource
        BY <1>2, <2>3 DEF FromDeleted, NewResource
    <2> QED
        BY <2>1, <2>2, <2>3 DEF Scan
<1> QED
    BY <1>1, <1>4, <1>5, VersionTypes DEF ScanInv

\* So it knows of no version that the record does not know of.
LEMMA VersionScan ==
    ASSUME TypeOK, VersionInv, NEW o \in Options, Scan(o) PROVE VersionInv'
<1>1. UNCHANGED <<remote, rclock, rev, index, base>> /\ pc' = "scanned"
    BY DEF Scan, env
<1>2. ScanInv' /\ res'.mtime <= index.srv /\ res'.etag = NoETag /\ st'.srv \in {0, index.srv}
    BY ScanKnowsTheTime
<1>3. res'.mtime \in Nat
    BY TypeScan, VersionTypes DEF TypeOK, Resources
<1>4. VersionBounds'
    BY <1>1, <1>2, <1>3, VersionTypes DEF VersionInv, VersionBounds, NoETag
<1>5. Seen(index)' /\ Seen(st)'
    BY <1>1, <1>2, VersionTypes DEF VersionInv, VersionBounds, Seen
<1>6. ListInv'
    BY <1>1 DEF ListInv, Working
<1> QED
    BY <1>2, <1>4, <1>5, <1>6 DEF VersionInv

\* A listed version not younger than the record is one the record knows.
LEMMA VersionList == ASSUME TypeOK, VersionInv, List PROVE VersionInv'
<1>1. UNCHANGED <<remote, rclock, rev, index, st>> /\ pc = "scanned" /\ pc' = "listed"
    BY DEF List, env
<1>2. ScanInv'
    BY <1>1 DEF ScanInv
<1>3. CASE remote.data = Nothing
    <2>1. res' = res
        BY <1>3 DEF List
    <2>2. Seen(index)' /\ Seen(st)'
        BY <1>1, <1>3 DEF Seen
    <2>3. ListInv'
        BY <1>1, <1>3, <2>1 DEF VersionInv, ScanInv, ListInv, IsListed
    <2> QED
        BY <1>1, <1>2, <2>1, <2>2, <2>3 DEF VersionInv, VersionBounds
<1>4. CASE remote.data # Nothing
    <2>1. res' = FromRemote(res, remote, "sync", file.data)
        BY <1>4 DEF List
    <2>2. /\ res'.etag = remote.etag /\ res'.mtime = remote.mtime
          /\ res'.exists = res.exists /\ res'.bad = res.bad
          /\ res'.state = RemoteState(res, remote, "sync", file.data)
        BY <2>1 DEF FromRemote, TypeOK, Resources
    <2>3. base' = IF res.exists /\ res'.state = "sync"
                  THEN [data |-> remote.data, etag |-> remote.etag, passed |-> NoETag] ELSE base
        BY DEF List
    <2>4. Seen(index)' /\ Seen(st)'
        BY <1>1, <2>3 DEF VersionInv, Seen
    <2>5. /\ res'.state \in {"sync", "remote_new", "remote_changed", "local_changed", "local_deleted"}
          /\ res'.state \in {"local_changed", "local_deleted"} => remote.mtime <= res.mtime
          /\ res'.state = "sync" => res.bad \/ res.exists
        BY <1>1, <2>2, VersionTypes DEF VersionInv, ScanInv, RemoteState, Recursive
    <2>6. res'.state \in {"local_changed", "local_deleted"} =>
            remote.etag \in {base.etag, base.passed}
        BY <1>1, <1>4, <2>5, VersionTypes DEF VersionInv, ScanInv, Seen
    <2>7. ListInv'
        BY <1>1, <1>4, <2>2, <2>3, <2>5, <2>6 DEF VersionInv, VersionBounds, ListInv, IsListed
    <2>8. VersionBounds'
        BY <1>1, <2>2 DEF VersionInv, VersionBounds
    <2> QED
        BY <1>2, <2>4, <2>7, <2>8 DEF VersionInv
<1> QED
    BY <1>3, <1>4

\* Once a run has dealt with the file, what remains is what the records know.
LEMMA VersionSettled ==
    ASSUME VersionBounds', Seen(index)', Seen(st)',
           pc' \in {"idle", "indexed", "saving"}
    PROVE  VersionInv'
BY DEF VersionInv, ScanInv, ListInv, Working

\* SyncSelf returns: the record gets the time of the listing, and the listed version
\* is the base or was passed over, if the server still has it.
LEMMA VersionSynced ==
    ASSUME TypeOK, VersionInv, Working, NEW r \in Resources, NEW rec \in Records,
           Synced(r, rec), r.mtime = res.mtime, r.etag = res.etag, rec.srv = st.srv,
           UNCHANGED <<remote, rclock, rev, index>>,
           IsListed => remote.etag \in {base'.etag, base'.passed}
    PROVE  VersionInv'
<1>1. pc' = "indexed" /\ res' = r /\ st'.srv \in {st.srv, res.mtime}
    BY DEF Synced, SetSrvTime, Records
<1>2. VersionBounds'
    BY <1>1 DEF VersionInv, VersionBounds
<1>3. remote.data # Nothing /\ ~IsListed => IsNewer
    BY DEF VersionInv, ListInv
<1>4. Seen(index)' /\ Seen(st)'
    BY <1>1, <1>3, VersionTypes DEF Seen, IsNewer, VersionInv, ListInv
<1> QED
    BY <1>1, <1>2, <1>4, VersionSettled

\* Sync catches an exception: the records stay.
LEMMA VersionCaught ==
    ASSUME TypeOK, VersionInv, Caught, UNCHANGED <<remote, rclock, rev, index, base>>
    PROVE  VersionInv'
<1>1. pc' = "indexed" /\ UNCHANGED <<res, st>>
    BY DEF Caught
<1> QED
    BY <1>1, VersionSettled DEF VersionInv, VersionBounds, Seen

\* The version that grive has made is the one both sides have.
LEMMA StoredIsSeen ==
    ASSUME TypeOK, VersionInv, OneASecond, NEW t \in Later(rclock), t > 0, ServerStores(t),
           file.data \in Data
    PROVE  /\ t \in Nat /\ remote'.mtime = t /\ remote'.etag = rev + 1
           /\ rclock' = t /\ rev' = rev + 1 /\ t > rclock
           /\ \A rec : Seen(rec)'
<1>1. t \in Nat /\ t > rclock
    BY OneASecondLater, VersionTypes
<1>2. /\ remote' = [data |-> file.data, mtime |-> t, etag |-> rev + 1]
      /\ base' = [data |-> file.data, etag |-> rev + 1, passed |-> NoETag]
      /\ rclock' = t /\ rev' = rev + 1
    BY DEF ServerStores
<1>3. remote'.etag = base'.etag
    BY <1>2
<1> QED
    BY <1>1, <1>2, <1>3 DEF Seen

\* The record of an upload has the time of the version it made.
LEMMA VersionUpload == ASSUME TypeOK, VersionInv, OneASecond, Upload PROVE VersionInv'
<1>1. PICK t \in Later(rclock) :
        /\ t > 0 /\ ServerStores(t)
        /\ Synced(Uploaded(t), SetIndex(st, Uploaded(t), res.ctime))
    BY DEF Upload
<1>2. /\ t \in Nat /\ remote'.mtime = t /\ remote'.etag = rev + 1
      /\ rclock' = t /\ rev' = rev + 1 /\ t > rclock /\ remote'.data = file.data
    BY <1>1, StoredIsSeen DEF Upload, ServerStores
<1>3. Seen(index)' /\ Seen(st)'
    BY <1>1, StoredIsSeen DEF Upload, Seen
<1>4. /\ pc' = "indexed" /\ res' = Uploaded(t) /\ index' = index
      /\ st' = SetSrvTime(SetIndex(st, Uploaded(t), res.ctime), Uploaded(t))
    BY <1>1 DEF Upload, Synced
<1>5. Uploaded(t).mtime = t /\ Uploaded(t).etag = rev + 1
    BY DEF Uploaded, TypeOK, Resources
<1>6. st'.srv \in {st.srv, t}
    BY <1>4, <1>5 DEF SetSrvTime, SetIndex, TypeOK, Records
<1>7. VersionBounds'
    <2>1. /\ remote'.etag <= rev' /\ res'.etag <= rev'
          /\ remote'.mtime <= rclock' /\ res'.mtime <= rclock'
        BY <1>2, <1>4, <1>5, VersionTypes
    <2>2. index'.srv <= rclock' /\ st'.srv <= rclock'
        BY <1>2, <1>4, <1>6, VersionTypes DEF VersionInv, VersionBounds
    <2>3. remote'.mtime > 0 /\ remote'.etag # NoETag
        BY <1>1, <1>2, VersionTypes DEF NoETag
    <2>4. remote'.data # Nothing
        BY <1>2, ContentAssumption DEF Upload, Data
    <2> QED
        BY <2>1, <2>2, <2>3, <2>4 DEF VersionBounds
<1> QED
    BY <1>3, <1>4, <1>7, VersionSettled

\* What no listing had is not younger than a record, or is newer than all of them.
LEMMA UnlistedIsSeen ==
    ASSUME TypeOK, VersionInv, Working, res.etag = NoETag,
           UNCHANGED <<remote, rclock, rev, index, res>>, st' = NoRecord
    PROVE  VersionBounds' /\ Seen(index)' /\ Seen(st)'
<1>1. remote.data # Nothing => ~IsListed /\ remote.mtime > 0
    BY DEF VersionInv, VersionBounds, IsListed
<1>2. remote.data # Nothing => IsNewer
    BY <1>1 DEF VersionInv, ListInv
<1>3. st'.srv = 0
    BY DEF NoRecord
<1> QED
    BY <1>1, <1>2, <1>3, VersionTypes DEF VersionInv, VersionBounds, IsNewer, Seen

\* The end of a process leaves a record that was there before.
LEMMA VersionExit ==
    ASSUME TypeOK, VersionInv, Exit, UNCHANGED <<remote, rclock, rev, base>>,
           index' \in {index, st}
    PROVE  VersionInv'
<1>1. pc' = "idle" /\ st'.srv = 0 /\ res'.mtime = 0 /\ res'.etag = 0
    BY DEF Exit, NoRecord, NewResource, NoETag
<1>2. VersionBounds'
    BY <1>1, VersionTypes DEF VersionInv, VersionBounds
<1>3. Seen(index)' /\ Seen(st)'
    BY <1>1, VersionTypes DEF VersionInv, VersionBounds, Seen
<1> QED
    BY <1>1, <1>2, <1>3, VersionSettled

\* Every case of SyncSelf writes the time of a version that is the base, or is
\* passed over, or was not listed.
LEMMA VersionTransfer == ASSUME TypeOK, VersionInv, OneASecond, Transfer PROVE VersionInv'
<1>1. CASE Upload
    BY <1>1, VersionUpload
<1>2. CASE UploadRefused \/ DeleteRemoteRefused \/ DownloadRefused \/ DeleteLocalRefused \/ NothingToSync
    BY <1>2, VersionCaught DEF env, UploadRefused, DeleteRemoteRefused,
        DownloadRefused, DeleteLocalRefused, NothingToSync
<1>3. CASE SkipReadOnly
    <2>1. /\ pc = "listed" /\ res.state = "local_changed" /\ Synced(res, st)
          /\ UNCHANGED <<remote, rclock, rev, index, base>>
        BY <1>3 DEF SkipReadOnly, Self, env
    <2>2. IsListed => remote.etag \in {base'.etag, base'.passed}
        BY <2>1 DEF VersionInv, ListInv
    <2> QED
        BY <2>1, <2>2, VersionSynced DEF Working, TypeOK
<1>4. CASE SkipRemote
    <2>1. /\ pc = "listed" /\ Synced(res, st) /\ base' = [base EXCEPT !.passed = res.etag]
          /\ UNCHANGED <<remote, rclock, rev, index>>
        BY <1>4 DEF SkipRemote, Skips, Self, env
    <2>2. IsListed => remote.etag \in {base'.etag, base'.passed}
        BY <2>1 DEF IsListed, TypeOK, Bases
    <2> QED
        BY <2>1, <2>2, VersionSynced DEF Working, TypeOK
<1>5. CASE DeleteRemote
    <2>1. /\ remote' = NoEntry /\ UNCHANGED <<rclock, rev, index>>
          /\ st' = NoRecord /\ res' = res /\ pc' = "indexed"
        BY <1>5 DEF DeleteRemote, ServerTrashes, Synced, Forgotten, SetSrvTime, NoRecord
    <2>2. VersionBounds'
        BY <2>1, VersionTypes DEF VersionInv, VersionBounds, NoEntry, NoETag, NoRecord
    <2>3. Seen(index)' /\ Seen(st)'
        BY <2>1 DEF Seen, NoEntry
    <2> QED
        BY <2>1, <2>2, <2>3, VersionSettled
<1>6. CASE DownloadStart
    <2>1. /\ pc = "listed" /\ pc' = "downloading"
          /\ UNCHANGED <<remote, rclock, rev, index, st, res, base>>
        BY <1>6 DEF DownloadStart, Self
    <2> QED
        BY <2>1 DEF VersionInv, VersionBounds, Seen, ScanInv, ListInv, Working, IsListed, IsNewer
<1>7. CASE Download
    <2>1. /\ pc = "downloading" /\ pc' = "downloaded" /\ base'.etag = remote.etag
          /\ UNCHANGED <<remote, rclock, rev, index, st, res>>
        BY <1>7 DEF Download
    <2> QED
        BY <2>1 DEF VersionInv, VersionBounds, Seen, ScanInv, ListInv, Working, IsListed, IsNewer
<1>8. CASE StoreIndex
    <2> DEFINE r == [res EXCEPT !.state = "sync", !.ctime = file.ctime]
    <2>1. /\ pc = "downloaded" /\ Synced(r, SetIndex(st, r, file.ctime))
          /\ UNCHANGED <<remote, rclock, rev, index, base>>
        BY <1>8 DEF StoreIndex, env
    <2>2. r \in Resources /\ r.mtime = res.mtime /\ r.etag = res.etag
        BY DEF TypeOK, Resources, Files, States
    <2>3. SetIndex(st, r, file.ctime) \in Records /\ SetIndex(st, r, file.ctime).srv = st.srv
        BY <2>2 DEF TypeOK, SetIndex, Records, Resources, Files
    <2>4. IsListed => remote.etag \in {base'.etag, base'.passed}
        BY <2>1 DEF VersionInv, ListInv
    <2> HIDE DEF r
    <2> QED
        BY <2>1, <2>2, <2>3, <2>4, VersionSynced DEF Working
<1>9. CASE DeleteLocal \/ BothDeleted
    <2>1. /\ pc = "listed" /\ res.state \in {"remote_deleted", "both_deleted"}
          /\ UNCHANGED <<remote, rclock, rev, index>>
          /\ st' = NoRecord /\ res' = res /\ pc' = "indexed"
        BY <1>9 DEF DeleteLocal, BothDeleted, Self, Synced, Forgotten, SetSrvTime, NoRecord, env
    <2>2. res.etag = NoETag
        BY <2>1 DEF VersionInv, ListInv
    <2> QED
        BY <2>1, <2>2, UnlistedIsSeen, VersionSettled DEF Working
<1>10. CASE AlreadySync
    <2>1. /\ pc = "listed" /\ res.state = "sync" /\ Synced(res, SetIndex(st, res, res.ctime))
          /\ base' = [base EXCEPT !.passed = IF res.bad THEN res.etag ELSE @]
          /\ UNCHANGED <<remote, rclock, rev, index>>
        BY <1>10 DEF AlreadySync, Self, env
    <2>2. /\ SetIndex(st, res, res.ctime) \in Records
          /\ SetIndex(st, res, res.ctime).srv = st.srv
        BY DEF TypeOK, SetIndex, Records, Resources
    <2>3. IsListed => remote.etag \in {base'.etag, base'.passed}
        BY <2>1 DEF VersionInv, ListInv, IsListed, TypeOK, Bases
    <2> QED
        BY <2>1, <2>2, <2>3, VersionSynced DEF Working, TypeOK
<1> QED
    BY <1>1, <1>2, <1>3, <1>4, <1>5, <1>6, <1>7, <1>8, <1>9, <1>10 DEF Transfer

\* Crashes, failed requests and lost replies: what the server has stored without
\* grive knowing is still what both sides have.
LEMMA VersionFailure == ASSUME TypeOK, VersionInv, OneASecond, Failure PROVE VersionInv'
<1>1. CASE Abort
    BY <1>1, VersionExit DEF Abort, env
<1>2. CASE HttpError
    BY <1>2, VersionCaught DEF HttpError, env
<1>3. ASSUME LostReply, NEW t \in Later(rclock), t > 0, ServerStores(t), file.data \in Data
      PROVE VersionInv'
    <2>1. pc' = "indexed" /\ UNCHANGED <<res, st, index>>
        BY <1>3 DEF LostReply, Caught
    <2>2. Seen(index)' /\ Seen(st)'
        BY <1>3, StoredIsSeen
    <2>3. VersionBounds'
        <3>1. /\ t \in Nat /\ remote'.mtime = t /\ remote'.etag = rev + 1
              /\ rclock' = t /\ rev' = rev + 1 /\ t > rclock
            BY <1>3, StoredIsSeen
        <3>2. remote'.data # Nothing
            BY <1>3, ContentAssumption DEF ServerStores, Data
        <3> QED
            BY <1>3, <2>1, <3>1, <3>2, VersionTypes DEF VersionInv, VersionBounds, NoETag
    <2> QED
        BY <2>1, <2>2, <2>3, VersionSettled
<1>4. ASSUME LostReply, ServerTrashes PROVE VersionInv'
    <2>1. pc' = "indexed" /\ UNCHANGED <<res, st, index, rclock, rev>> /\ remote' = NoEntry
        BY <1>4 DEF LostReply, Caught, ServerTrashes
    <2> QED
        BY <2>1, TrashedIsSeen, VersionSettled
<1> QED
    BY <1>1, <1>2, <1>3, <1>4 DEF Failure, LostReply

\* Every step keeps what the records know of the versions.
LEMMA VersionNext == ASSUME OneASecond PROVE TypeOK /\ VersionInv /\ [Next]_vars => VersionInv'
<1> SUFFICES ASSUME TypeOK, VersionInv, [Next]_vars PROVE VersionInv'
    OBVIOUS
<1>1. CASE BeginSave
    <2>1. /\ pc' = "saving" /\ index'.srv = 0
          /\ UNCHANGED <<remote, rclock, rev, st, res, base>>
        BY <1>1 DEF BeginSave, env, NoRecord
    <2> QED
        BY <2>1, VersionTypes, VersionSettled DEF VersionInv, VersionBounds, Seen
<1>2. CASE EndSave \/ DryRun \/ StoreIndexAborts
    BY <1>2, VersionExit DEF EndSave, DryRun, StoreIndexAborts, env
<1>3. CASE UNCHANGED vars
    BY <1>3 DEF vars, VersionInv, VersionBounds, Seen, ScanInv, ListInv, Working, IsListed,
        IsNewer
<1> QED
    BY <1>1, <1>2, <1>3, VersionEnvironment, VersionScan, VersionList, VersionTransfer,
        VersionFailure DEF Next, RunStep

\* Whatever the options, edits, crashes and lost replies, a record knows of no
\* version but the one both sides last had and one that was passed over.
LEMMA VersionCorrect == ASSUME OneASecond PROVE Spec => []VersionInv
<1>1. TypeOK /\ VersionInv /\ [Next]_vars => VersionInv'
    BY VersionNext
<1> QED
    BY VersionInit, TypeCorrect, <1>1, PTL DEF Spec

\* An upload is for the version that both sides last had, or that was passed over:
\* what another client has made since is refused by the server.
LEMMA StoresOverKnown ==
    ASSUME TypeOK, VersionInv, Stores, remote.data # Nothing
    PROVE  /\ pc = "listed" /\ res.state = "local_changed" /\ IsListed
           /\ remote.etag \in {base.etag, base.passed}
<1>1. (ToUpload /\ Accepts) \/ remote' = NoEntry
    BY DEF Stores, Upload, LostReply, ServerTrashes
<1>2. ToUpload /\ Accepts
    BY <1>1 DEF Stores, NoEntry
<1>3. pc = "listed" /\ res.state \in {"local_new", "local_changed"} /\ res.etag # NoETag
    BY <1>2 DEF ToUpload, Self, Accepts
<1>4. res.state = "local_changed" /\ remote.etag = res.etag
    BY <1>2, <1>3 DEF VersionInv, ListInv, Accepts, IfMatch
<1> QED
    BY <1>3, <1>4 DEF VersionInv, ListInv, IsListed

\* No upload overwrites a version that both sides have not had, unless a run was told
\* to pass it over, for any options, crashes, lost replies and interleavings with the
\* user and other clients, if no two versions are made within one second.
THEOREM UploadsReplaceTheBase == ASSUME OneASecond PROVE Spec => OverwritesOnlyBase
<1>1. TypeOK /\ VersionInv /\ [Next]_vars =>
        [Stores /\ remote.data # Nothing => ~Diverged \/ remote.etag = base.passed]_vars
    BY StoresOverKnown DEF Diverged
<1> QED
    BY VersionCorrect, TypeCorrect, <1>1, PTL DEF Spec, OverwritesOnlyBase
-----------------------------------------------------------------------------
(* What goes to the trash of the Drive. A run that is told to pass a version *)
(* over, or cannot read the local file, notes the time of a version that was *)
(* never here; without that, a record speaks of what both sides had.         *)

NothingPassed == Options \cap {"upload-only", "no-remote-new"} = {} /\ ~Blocks

PassedInv ==
    /\ base.passed = NoETag
    /\ file.data # Special /\ ~res.bad
    /\ opt \notin {"upload-only", "no-remote-new"}

\* No step passes a version over when no option and no special file makes it.
LEMMA PassedNext ==
    ASSUME NothingPassed PROVE TypeOK /\ PassedInv /\ [Next]_vars => PassedInv'
<1> SUFFICES ASSUME TypeOK, PassedInv, [Next]_vars PROVE PassedInv'
    OBVIOUS
<1> USE DEF PassedInv
<1>1. CASE Environment
    <2>1. UNCHANGED <<res, opt, base>>
        BY <1>1 DEF Environment, LocalWrite, LocalBlock, LocalChange, LocalDelete,
            RemoteWrite, RemoteTrash, run
    <2>2. file'.data # Special
        BY <1>1, ContentAssumption DEF NothingPassed, Environment, LocalWrite, LocalBlock,
            LocalChange, LocalDelete, RemoteWrite, RemoteTrash, NoFile
    <2> QED
        BY <2>1, <2>2
<1>2. ASSUME NEW o \in Options, Scan(o) PROVE PassedInv'
    <2>1. file.data \in Data \cup {Nothing} /\ opt' = o /\ UNCHANGED <<file, base>>
        BY <1>2 DEF Scan, env, TypeOK, Files, Checksums
    <2>2. ~res'.bad
        <3>1. CASE res' = FromLocal(file, Item(Known(o)))
            BY <3>1 DEF FromLocal
        <3>2. CASE res' = IF index.present THEN FromDeleted(Known(o)) ELSE NewResource
            BY <3>2 DEF FromDeleted, NewResource
        <3> QED
            BY <1>2, <3>1, <3>2 DEF Scan
    <2> QED
        BY <2>1, <2>2 DEF NothingPassed
<1>3. CASE List
    BY <1>3 DEF List, FromRemote, TypeOK, Resources, env
<1>4. CASE Transfer
    <2>1. opt' = opt
        BY <1>4 DEF Transfer, Upload, UploadRefused, SkipReadOnly, DeleteRemote,
            DeleteRemoteRefused, SkipRemote, DownloadStart, Download, DownloadRefused,
            StoreIndex, DeleteLocal, DeleteLocalRefused, BothDeleted, AlreadySync, NothingToSync
    <2>2. /\ base'.passed = NoETag
          /\ file' = file \/ file'.data \in {Truncated, remote.data, Nothing}
        <3>1. CASE Upload \/ DeleteRemote \/ DownloadStart \/ Download \/ DeleteLocal
            BY <3>1 DEF Upload, DeleteRemote, DownloadStart, Download, DeleteLocal,
                ServerStores, ServerTrashes, NoBase, NoFile
        <3>2. CASE SkipReadOnly \/ StoreIndex
            BY <3>2 DEF SkipReadOnly, StoreIndex, env
        <3>3. CASE BothDeleted
            BY <3>3 DEF BothDeleted, NoBase, env
        <3>4. CASE SkipRemote
            BY <3>4 DEF SkipRemote, Skips
        <3>5. CASE AlreadySync
            BY <3>5 DEF AlreadySync, env, TypeOK, Bases
        <3>6. CASE UploadRefused \/ DeleteRemoteRefused \/ DownloadRefused
                   \/ DeleteLocalRefused \/ NothingToSync
            BY <3>6 DEF UploadRefused, DeleteRemoteRefused, DownloadRefused,
                DeleteLocalRefused, NothingToSync, env
        <3> QED
            BY <1>4, <3>1, <3>2, <3>3, <3>4, <3>5, <3>6 DEF Transfer
    <2>3. file'.data # Special
        BY <2>2, ContentAssumption DEF TypeOK, Entries, Checksums, Data
    <2>4. ~res'.bad
        BY <1>4 DEF Transfer, Upload, UploadRefused, SkipReadOnly, DeleteRemote,
            DeleteRemoteRefused, SkipRemote, DownloadStart, Download, DownloadRefused,
            StoreIndex, DeleteLocal, DeleteLocalRefused, BothDeleted, AlreadySync,
            NothingToSync, Synced, Caught, Uploaded, TypeOK, Resources
    <2> QED
        BY <2>1, <2>2, <2>3, <2>4
<1>5. CASE BeginSave \/ EndSave \/ DryRun \/ StoreIndexAborts \/ Failure
    BY <1>5 DEF BeginSave, EndSave, DryRun, StoreIndexAborts, Failure, Abort, HttpError,
        LostReply, Exit, Caught, ServerStores, ServerTrashes, NoBase, NewResource, env
<1>6. CASE UNCHANGED vars
    BY <1>6 DEF vars
<1> QED
    BY <1>1, <1>2, <1>3, <1>4, <1>5, <1>6 DEF Next, RunStep

\* Nothing is passed over in any reachable state.
LEMMA PassedCorrect == ASSUME NothingPassed PROVE Spec => []PassedInv
<1>1. Init => PassedInv
    BY ContentAssumption DEF Init, PassedInv, NoBase, NoFile, NewResource
<1>2. TypeOK /\ PassedInv /\ [Next]_vars => PassedInv'
    BY PassedNext
<1> QED
    BY TypeCorrect, <1>1, <1>2, PTL DEF Spec

\* What grive puts in the trash was listed, and the server still has it.
LEMMA TrashedWasListed ==
    ASSUME TypeOK, VersionInv, Trashes
    PROVE  pc = "listed" /\ res.state = "local_deleted" /\ IsListed /\ remote.data # Nothing
<1>1. Self("local_deleted") /\ remote.etag = res.etag
    BY ContentAssumption DEF Trashes, DeleteRemote, LostReply, ServerStores, Data
<1> QED
    BY <1>1 DEF VersionInv, VersionBounds, ListInv, IsListed, Self

\* It is a version both sides last had or one that was passed over.
LEMMA TrashesKnown ==
    ASSUME TypeOK, VersionInv, Trashes
    PROVE  remote.etag \in {base.etag, base.passed}
BY TrashedWasListed DEF VersionInv, ListInv

\* A file is put in the trash of the Drive only if its version had been in the local
\* directory, through crashes, lost replies and races, unless a run was told to pass
\* a version over.
THEOREM TrashesTheBase == ASSUME OneASecond, NothingPassed PROVE Spec => TrashesOnlyBase
<1>1. TypeOK /\ VersionInv /\ PassedInv /\ [Next]_vars => [Trashes => ~Diverged]_vars
    <2> SUFFICES ASSUME TypeOK, VersionInv, PassedInv, Trashes PROVE ~Diverged
        OBVIOUS
    <2>1. remote.data # Nothing
        BY TrashedWasListed
    <2> QED
        BY <2>1, TrashesKnown DEF VersionInv, VersionBounds, PassedInv, Diverged
<1> QED
    BY VersionCorrect, PassedCorrect, TypeCorrect, <1>1, PTL DEF Spec, TrashesOnlyBase
-----------------------------------------------------------------------------
(* With -f. The time in the record counts as none, so that a version on the *)
(* server always looks newer than the local file.                           *)

ForceInv ==
    /\ remote.data # Nothing => remote.mtime > 0
    /\ ScanInv
    /\ pc = "scanned" /\ opt = "force" => res.mtime = 0
    /\ pc = "listed" /\ res.state = "local_new" => res.etag = NoETag
    /\ pc = "listed" /\ opt = "force" => res.state # "local_changed"

\* No step lets a file look changed only here when grive was started with -f.
LEMMA ForceNext == TypeOK /\ ForceInv /\ [Next]_vars => ForceInv'
<1> SUFFICES ASSUME TypeOK, ForceInv, [Next]_vars PROVE ForceInv'
    OBVIOUS
<1>1. CASE Environment
    <2>1. UNCHANGED <<index, pc, opt, res>>
        BY <1>1 DEF Environment, LocalWrite, LocalBlock, LocalChange, LocalDelete,
            RemoteWrite, RemoteTrash, run
    <2>2. remote'.data # Nothing => remote'.mtime > 0
        BY <1>1 DEF ForceInv, Environment, LocalWrite, LocalBlock, LocalChange, LocalDelete,
            RemoteWrite, RemoteTrash, NoEntry
    <2> QED
        BY <2>1, <2>2 DEF ForceInv, ScanInv
<1>2. ASSUME NEW o \in Options, Scan(o) PROVE ForceInv'
    <2>1. opt' = o /\ pc' = "scanned" /\ UNCHANGED <<remote, index>>
        BY <1>2 DEF Scan, env
    <2>2. ScanInv'
        BY <1>2, ScanKnowsTheTime
    <2>3. opt' = "force" => res'.mtime = 0
        <3>1. o = "force" => Known(o).srv = 0
            BY DEF Known, TypeOK, Records
        <3>2. res'.mtime \in {0, Known(o).srv}
            <4>1. CASE file.data \in Data /\ res' = FromLocal(file, Item(Known(o)))
                BY <4>1, KnownType DEF FromLocal, Item, Records
            <4>2. CASE \E ctime \in {0, file.ctime} : res' = FromInaccessible(ctime)
                BY <4>2 DEF FromInaccessible, NewResource
            <4>3. CASE res' = IF index.present THEN FromDeleted(Known(o)) ELSE NewResource
                BY <4>3, KnownType DEF FromDeleted, NewResource
            <4> QED
                BY <1>2, <4>1, <4>2, <4>3 DEF Scan
        <3> QED
            BY <2>1, <3>1, <3>2
    <2> QED
        BY <2>1, <2>2, <2>3 DEF ForceInv
<1>3. CASE List
    <2>1. pc = "scanned" /\ pc' = "listed" /\ UNCHANGED <<remote, opt>>
        BY <1>3 DEF List, env
    <2>2. CASE remote.data = Nothing
        <3>1. res' = res
            BY <1>3, <2>2 DEF List
        <3> QED
            BY <2>1, <2>2, <3>1 DEF ForceInv, ScanInv
    <2>3. CASE remote.data # Nothing
        <3>1. res'.state = RemoteState(res, remote, "sync", file.data)
            BY <1>3, <2>3 DEF List, FromRemote, TypeOK, Resources
        <3>2. res'.state # "local_new"
            BY <2>1, <3>1 DEF ForceInv, ScanInv, RemoteState, Recursive
        <3>3. res'.state = "local_changed" => remote.mtime <= res.mtime
            BY <2>1, <3>1, VersionTypes DEF ForceInv, ScanInv, RemoteState, Recursive
        <3>4. opt' = "force" => res'.state # "local_changed"
            BY <2>1, <2>3, <3>3, VersionTypes DEF ForceInv
        <3> QED
            BY <2>1, <3>2, <3>4 DEF ForceInv, ScanInv
    <2> QED
        BY <2>2, <2>3
<1>4. CASE Transfer \/ BeginSave \/ EndSave \/ DryRun \/ StoreIndexAborts \/ Failure
    <2>1. pc' \notin {"scanned", "listed"}
        BY <1>4 DEF Transfer, Upload, UploadRefused, SkipReadOnly, DeleteRemote,
            DeleteRemoteRefused, SkipRemote, DownloadStart, Download, DownloadRefused,
            StoreIndex, DeleteLocal, DeleteLocalRefused, BothDeleted, AlreadySync,
            NothingToSync, BeginSave, EndSave, DryRun, StoreIndexAborts, Failure, Abort,
            HttpError, LostReply, Synced, Caught, Exit
    <2>2. remote' \in {remote, NoEntry} \/ \E t : t > 0 /\ ServerStores(t)
        BY <1>4 DEF Transfer, Upload, UploadRefused, SkipReadOnly, DeleteRemote,
            DeleteRemoteRefused, SkipRemote, DownloadStart, Download, DownloadRefused,
            StoreIndex, DeleteLocal, DeleteLocalRefused, BothDeleted, AlreadySync,
            NothingToSync, BeginSave, EndSave, DryRun, StoreIndexAborts, Failure, Abort,
            HttpError, LostReply, ServerTrashes, env
    <2>3. remote'.data # Nothing => remote'.mtime > 0
        BY <2>2 DEF ForceInv, ServerStores, NoEntry
    <2> QED
        BY <2>1, <2>3 DEF ForceInv, ScanInv
<1>5. CASE UNCHANGED vars
    BY <1>5 DEF vars, ForceInv, ScanInv
<1> QED
    BY <1>1, <1>2, <1>3, <1>4, <1>5 DEF Next, RunStep

\* "Force grive to always download a file from Google Drive": started with -f grive
\* replaces no version on the server, whatever else happens, with no window closed.
THEOREM ForceOverwritesNothing == Spec => ForceNeverOverwrites
<1>1. Init => ForceInv
    BY DEF Init, ForceInv, ScanInv, NoEntry
<1>2. TypeOK /\ ForceInv /\ [Next]_vars => ForceInv'
    BY ForceNext
<1>3. TypeOK /\ ForceInv /\ [Next]_vars =>
        [Stores /\ opt = "force" => remote.data = Nothing]_vars
    <2> SUFFICES ASSUME ForceInv, Stores, opt = "force" PROVE remote.data = Nothing
        OBVIOUS
    <2>1. ToUpload /\ Accepts
        BY DEF Stores, Upload, LostReply, ServerTrashes, NoEntry
    <2> QED
        BY <2>1 DEF ToUpload, Self, Accepts, ForceInv
<1> QED
    BY TypeCorrect, <1>1, <1>2, <1>3, PTL DEF Spec, ForceNeverOverwrites
-----------------------------------------------------------------------------
(* Contents. With nothing passed over, a record that knows the time of the *)
(* version on the server has its checksum.                                 *)

Held(rec) == remote.data # Nothing /\ remote.mtime <= rec.srv => remote.data = rec.md5

\* A record that is not there knows nothing.
Whole(rec) == rec.present \/ (rec.md5 = Nothing /\ rec.srv = 0)

HeldInv ==
    /\ Held(index) /\ Held(st)
    /\ Whole(index) /\ Whole(st)
    /\ pc \in {"scanned", "listed"} => st.md5 = index.md5
    /\ pc = "scanned" /\ ~res.exists => res.md5 = index.md5
    /\ Working /\ IsListed => remote.data = res.md5
    /\ pc = "listed" /\ IsListed /\ res.state = "local_changed" => remote.data = st.md5


\* What the user and the other clients do leaves the records right.
LEMMA HeldEnvironment ==
    ASSUME TypeOK, VersionInv, HeldInv, OneASecond, Environment PROVE HeldInv'
<1>1. CASE LocalWrite \/ LocalBlock \/ LocalDelete
    <2>1. UNCHANGED <<remote, run, base>>
        BY <1>1 DEF LocalWrite, LocalBlock, LocalDelete, LocalChange
    <2> QED
        BY <2>1 DEF run, HeldInv, Held, Whole, Working, IsListed
<1>2. CASE RemoteWrite \/ RemoteTrash
    <2>1. UNCHANGED <<index, pc, st, res>>
        BY <1>2 DEF RemoteWrite, RemoteTrash, run
    <2>2. ~IsListed' /\ Held(index)' /\ Held(st)'
        <3>1. CASE RemoteWrite
            <4>1. PICK c \in Content, t \in Later(rclock) :
                    remote' = [data |-> c, mtime |-> t, etag |-> rev + 1] /\ rclock' = t
                BY <3>1 DEF RemoteWrite
            <4>2. rev' = rev + 1
                BY <3>1 DEF RemoteWrite
            <4>3. VersionBounds' /\ IsNewer' /\ ~IsListed'
                BY <2>1, <4>1, <4>2, MadeIsNewer, ContentAssumption
            <4>4. t \in Nat
                BY LaterType, VersionTypes
            <4> QED
                BY <2>1, <4>1, <4>3, <4>4, VersionTypes DEF IsNewer, Held
        <3>2. CASE RemoteTrash
            BY <3>2 DEF RemoteTrash, NoEntry, IsListed, Held
        <3> QED
            BY <1>2, <3>1, <3>2
    <2> QED
        BY <2>1, <2>2 DEF HeldInv, Whole
<1> QED
    BY <1>1, <1>2 DEF Environment

\* The scan starts from the record, of which -f drops the time only.
LEMMA HeldScan ==
    ASSUME TypeOK, VersionInv, HeldInv, PassedInv, NEW o \in Options, Scan(o) PROVE HeldInv'
<1>1. UNCHANGED <<remote, index>> /\ pc' = "scanned"
    BY DEF Scan, env
<1>2. /\ Known(o) \in Records /\ Known(o).md5 = index.md5
      /\ Known(o).srv \in {0, index.srv} /\ Known(o).present = index.present
    BY DEF Known, TypeOK, Records
<1>3. st' \in {Known(o), Item(Known(o))}
    BY DEF Scan
<1>4. st'.srv \in {0, index.srv} /\ st'.md5 = index.md5
    BY <1>2, <1>3 DEF Item, Records
<1>5. Held(index)' /\ Held(st)'
    BY <1>1, <1>4, VersionTypes DEF VersionInv, VersionBounds, HeldInv, Held
<1>6. Whole(index)' /\ Whole(st)'
    BY <1>1, <1>2, <1>3 DEF Item, Records, HeldInv, Whole
<1>7. ~res'.exists => res'.md5 = index.md5
    <2>1. CASE file.data \in Data
        BY <2>1, ContentAssumption DEF Scan, FromLocal, Data
    <2>2. CASE file.data = Nothing
        <3>1. res' = IF index.present THEN FromDeleted(Known(o)) ELSE NewResource
            BY <2>2, ContentAssumption DEF Scan, Data
        <3>2. ~index.present => index.md5 = Nothing
            BY DEF HeldInv, Whole
        <3> QED
            BY <1>2, <3>1, <3>2 DEF FromDeleted, NewResource
    <2> QED
        BY <2>1, <2>2 DEF PassedInv, TypeOK, Files, Checksums
<1> QED
    BY <1>1, <1>4, <1>5, <1>6, <1>7 DEF HeldInv, Working

\* What is listed gives its checksum to the resource.
LEMMA HeldList == ASSUME TypeOK, VersionInv, HeldInv, List PROVE HeldInv'
<1>1. UNCHANGED <<remote, index, st>> /\ pc = "scanned" /\ pc' = "listed"
    BY DEF List, env
<1>2. Held(index)' /\ Held(st)' /\ Whole(index)' /\ Whole(st)' /\ st'.md5 = index'.md5
    BY <1>1 DEF HeldInv, Held, Whole
<1>3. CASE remote.data = Nothing
    BY <1>1, <1>2, <1>3 DEF HeldInv, IsListed
<1>4. CASE remote.data # Nothing
    <2>1. res' = FromRemote(res, remote, "sync", file.data)
        BY <1>4 DEF List
    <2>2. res'.md5 = remote.data /\ res'.state = RemoteState(res, remote, "sync", file.data)
        BY <2>1 DEF FromRemote, TypeOK, Resources
    <2>3. res'.state = "local_changed" => remote.mtime <= res.mtime
        BY <1>1, <2>2, VersionTypes DEF VersionInv, ScanInv, RemoteState, Recursive
    <2>4. res'.state = "local_changed" => remote.mtime <= index.srv
        BY <1>1, <2>3, VersionTypes DEF VersionInv, ScanInv
    <2>5. res'.state = "local_changed" => remote.data = st.md5
        BY <1>1, <1>4, <2>4 DEF HeldInv, Held
    <2> QED
        BY <1>1, <1>2, <2>2, <2>5 DEF HeldInv
<1> QED
    BY <1>3, <1>4

\* Once a run has dealt with the file only the records count.
LEMMA HeldSettled ==
    ASSUME Held(index)', Held(st)', Whole(index)', Whole(st)',
           pc' \in {"idle", "indexed", "saving"}
    PROVE  HeldInv'
BY DEF HeldInv, Working

\* SyncSelf returns with a record of what was listed.
LEMMA HeldSynced ==
    ASSUME TypeOK, VersionInv, HeldInv, Working, NEW r \in Resources, NEW rec \in Records,
           Synced(r, rec), r.mtime = res.mtime, rec.srv = st.srv,
           IsListed => remote.data = rec.md5, Whole(rec),
           UNCHANGED <<remote, index>>
    PROVE  HeldInv'
<1>1. pc' = "indexed" /\ st' = SetSrvTime(rec, r)
    BY DEF Synced
<1>2. /\ st'.srv \in {st.srv, res.mtime} /\ st'.md5 = rec.md5 /\ st'.present = rec.present
      /\ ~rec.present => st' = rec
    BY <1>1 DEF SetSrvTime, Records
<1>3. remote.data # Nothing /\ ~IsListed => IsNewer
    BY DEF VersionInv, ListInv
<1>4. Held(st)'
    BY <1>2, <1>3, VersionTypes DEF Held, IsNewer
<1>5. Held(index)' /\ Whole(index)' /\ Whole(st)'
    BY <1>2 DEF HeldInv, Held, Whole
<1> QED
    BY <1>1, <1>4, <1>5, HeldSettled

\* An exception that Sync catches leaves the records.
LEMMA HeldCaught ==
    ASSUME HeldInv, Caught, UNCHANGED <<remote, index>> PROVE HeldInv'
<1>1. pc' = "indexed" /\ UNCHANGED <<st, res>>
    BY DEF Caught
<1> QED
    BY <1>1, HeldSettled DEF HeldInv, Held, Whole

\* What is gone from the server is held by every record.
LEMMA HeldTrashed ==
    ASSUME HeldInv, remote' = NoEntry, index' = index, st' \in {st, NoRecord},
           pc' = "indexed"
    PROVE  HeldInv'
<1>1. Held(index)' /\ Held(st)'
    BY DEF NoEntry, Held
<1>2. Whole(index)' /\ Whole(st)'
    BY DEF HeldInv, Whole, NoRecord
<1> QED
    BY <1>1, <1>2, HeldSettled

\* A version that grive has made is newer than the records that were there.
LEMMA HeldStored ==
    ASSUME TypeOK, VersionInv, OneASecond, NEW t \in Later(rclock), ServerStores(t),
           NEW rec \in Records, rec.srv <= rclock
    PROVE  ~(remote'.mtime <= rec.srv)
<1>1. t \in Nat /\ t > rclock /\ remote'.mtime = t
    BY OneASecondLater, VersionTypes DEF ServerStores
<1>2. rec.srv \in Nat
    BY DEF Records
<1> QED
    BY <1>1, <1>2, VersionTypes

\* An upload leaves a record of what it sent.
LEMMA HeldUpload == ASSUME TypeOK, VersionInv, HeldInv, OneASecond, Upload PROVE HeldInv'
<1>1. PICK t \in Later(rclock) :
        ServerStores(t) /\ Synced(Uploaded(t), SetIndex(st, Uploaded(t), res.ctime))
    BY DEF Upload
<1>2. remote'.data = file.data /\ index' = index
    BY <1>1 DEF ServerStores, Upload
<1>3. pc' = "indexed" /\ st'.md5 = file.data /\ st'.present
    BY <1>1 DEF Synced, SetSrvTime, SetIndex, Uploaded, TypeOK, Records, Resources
<1>4. Held(index)'
    BY <1>1, <1>2, HeldStored DEF Held, TypeOK, VersionInv, VersionBounds
<1>5. Held(st)' /\ Whole(index)' /\ Whole(st)'
    BY <1>2, <1>3 DEF Held, Whole, HeldInv
<1> QED
    BY <1>3, <1>4, <1>5, HeldSettled

\* Every case of SyncSelf leaves the records right.
LEMMA HeldTransfer ==
    ASSUME TypeOK, VersionInv, HeldInv, PassedInv, OneASecond, Transfer PROVE HeldInv'
<1>1. CASE Upload
    BY <1>1, HeldUpload
<1>2. CASE UploadRefused \/ DeleteRemoteRefused \/ DownloadRefused \/ DeleteLocalRefused \/ NothingToSync
    BY <1>2, HeldCaught DEF env, UploadRefused, DeleteRemoteRefused,
        DownloadRefused, DeleteLocalRefused, NothingToSync
<1>3. CASE SkipReadOnly
    <2>1. /\ pc = "listed" /\ res.state = "local_changed" /\ Synced(res, st)
          /\ UNCHANGED <<remote, index>>
        BY <1>3 DEF SkipReadOnly, Self, env
    <2>2. (IsListed => remote.data = st.md5) /\ Whole(st)
        BY <2>1 DEF HeldInv
    <2> QED
        BY <2>1, <2>2, HeldSynced DEF Working, TypeOK
<1>4. CASE SkipRemote
    BY <1>4 DEF SkipRemote, Skips, PassedInv
<1>5. CASE DeleteRemote
    BY <1>5, HeldTrashed DEF DeleteRemote, ServerTrashes, Synced, Forgotten, SetSrvTime, NoRecord
<1>6. CASE DownloadStart \/ Download
    <2>1. /\ pc \in {"listed", "downloading"} /\ pc' \in {"downloading", "downloaded"}
          /\ UNCHANGED <<remote, index, st, res>>
        BY <1>6 DEF DownloadStart, Download, Self
    <2> QED
        BY <2>1 DEF HeldInv, Held, Whole, Working, IsListed
<1>7. CASE StoreIndex
    <2> DEFINE r == [res EXCEPT !.state = "sync", !.ctime = file.ctime]
    <2>1. /\ pc = "downloaded" /\ Synced(r, SetIndex(st, r, file.ctime))
          /\ UNCHANGED <<remote, index>>
        BY <1>7 DEF StoreIndex, env
    <2>2. r \in Resources /\ r.mtime = res.mtime /\ r.md5 = res.md5
        BY DEF TypeOK, Resources, Files, States
    <2>3. /\ SetIndex(st, r, file.ctime) \in Records /\ SetIndex(st, r, file.ctime).srv = st.srv
          /\ SetIndex(st, r, file.ctime).md5 = res.md5 /\ SetIndex(st, r, file.ctime).present
        BY <2>2 DEF TypeOK, SetIndex, Records, Resources, Files
    <2>4. IsListed => remote.data = res.md5
        BY <2>1 DEF HeldInv, Working
    <2> HIDE DEF r
    <2> QED
        BY <2>1, <2>2, <2>3, <2>4, HeldSynced DEF Working, Whole
<1>8. CASE DeleteLocal \/ BothDeleted
    <2>1. UNCHANGED <<remote, index>> /\ st' = NoRecord /\ pc' = "indexed"
        BY <1>8 DEF DeleteLocal, BothDeleted, Synced, Forgotten, SetSrvTime, NoRecord, env
    <2>2. Held(st)' /\ Whole(st)'
        BY <2>1, VersionTypes DEF VersionInv, VersionBounds, Held, Whole, NoRecord
    <2> QED
        BY <2>1, <2>2, HeldSettled DEF HeldInv, Held, Whole
<1>9. CASE AlreadySync
    <2>1. /\ pc = "listed" /\ Synced(res, SetIndex(st, res, res.ctime))
          /\ UNCHANGED <<remote, index>>
        BY <1>9 DEF AlreadySync, Self, env
    <2>2. /\ SetIndex(st, res, res.ctime) \in Records /\ SetIndex(st, res, res.ctime).srv = st.srv
          /\ SetIndex(st, res, res.ctime).md5 = res.md5 /\ SetIndex(st, res, res.ctime).present
        BY DEF TypeOK, SetIndex, Records, Resources
    <2>3. IsListed => remote.data = res.md5
        BY <2>1 DEF HeldInv, Working
    <2> QED
        BY <2>1, <2>2, <2>3, HeldSynced DEF Working, TypeOK, Whole
<1> QED
    BY <1>1, <1>2, <1>3, <1>4, <1>5, <1>6, <1>7, <1>8, <1>9 DEF Transfer

\* Failures leave the records, and what is stored without grive knowing is newer.
LEMMA HeldFailure == ASSUME TypeOK, VersionInv, HeldInv, OneASecond, Failure PROVE HeldInv'
<1>1. CASE Abort
    <2>1. UNCHANGED <<remote, index>> /\ pc' = "idle" /\ st' = NoRecord
        BY <1>1 DEF Abort, Exit, env
    <2>2. Held(st)' /\ Whole(st)'
        BY <2>1, VersionTypes DEF VersionInv, VersionBounds, Held, Whole, NoRecord
    <2> QED
        BY <2>1, <2>2, HeldSettled DEF HeldInv, Held, Whole
<1>2. CASE HttpError
    BY <1>2, HeldCaught DEF HttpError, env
<1>3. ASSUME LostReply, NEW t \in Later(rclock), ServerStores(t) PROVE HeldInv'
    <2>1. pc' = "indexed" /\ UNCHANGED <<st, index>>
        BY <1>3 DEF LostReply, Caught
    <2>2. Held(index)' /\ Held(st)'
        BY <1>3, <2>1, HeldStored DEF Held, TypeOK, VersionInv, VersionBounds
    <2> QED
        BY <2>1, <2>2, HeldSettled DEF HeldInv, Whole
<1>4. ASSUME LostReply, ServerTrashes PROVE HeldInv'
    BY <1>4, HeldTrashed DEF LostReply, Caught, ServerTrashes
<1> QED
    BY <1>1, <1>2, <1>3, <1>4 DEF Failure, LostReply

\* Every step leaves the records right about the contents.
LEMMA HeldNext ==
    ASSUME OneASecond
    PROVE  TypeOK /\ VersionInv /\ PassedInv /\ HeldInv /\ [Next]_vars => HeldInv'
<1> SUFFICES ASSUME TypeOK, VersionInv, PassedInv, HeldInv, [Next]_vars PROVE HeldInv'
    OBVIOUS
<1>1. CASE BeginSave \/ EndSave \/ DryRun \/ StoreIndexAborts
    <2>1. /\ remote' = remote /\ pc' \in {"saving", "idle"}
          /\ index' \in {index, st, NoRecord} /\ st' \in {st, NoRecord}
        BY <1>1 DEF BeginSave, EndSave, DryRun, StoreIndexAborts, Exit, env
    <2>2. Held(index)' /\ Held(st)' /\ Whole(index)' /\ Whole(st)'
        BY <2>1, VersionTypes DEF VersionInv, VersionBounds, HeldInv, Held, Whole, NoRecord
    <2> QED
        BY <2>1, <2>2, HeldSettled
<1>2. CASE UNCHANGED vars
    BY <1>2 DEF vars, HeldInv, Held, Whole, Working, IsListed
<1> QED
    BY <1>1, <1>2, HeldEnvironment, HeldScan, HeldList, HeldTransfer, HeldFailure
        DEF Next, RunStep

\* A record that knows of the version on the server has its checksum.
LEMMA HeldCorrect == ASSUME OneASecond, NothingPassed PROVE Spec => []HeldInv
<1>1. Init => HeldInv
    BY DEF Init, HeldInv, Held, Whole, Working, NoEntry, NoRecord
<1>2. TypeOK /\ VersionInv /\ PassedInv /\ HeldInv /\ [Next]_vars => HeldInv'
    BY HeldNext
<1> QED
    BY VersionCorrect, PassedCorrect, TypeCorrect, <1>1, <1>2, PTL DEF Spec
-----------------------------------------------------------------------------
(* What an interrupted download leaves. As long as it lies there, the time *)
(* of the version that was to be fetched is in no record, so that the next *)
(* run fetches it again.                                                   *)

Unforced == "force" \notin Options

Partial(rec) ==
    file.data = Truncated /\ remote.data \notin {Nothing, Truncated} => remote.mtime > rec.srv

PartialInv ==
    /\ Partial(index) /\ Partial(st)
    /\ opt # "force"
    /\ pc \in {"scanned", "listed"} /\ file.data = Truncated => AsScanned
    /\ pc = "scanned" => res.mtime = index.srv /\ st.srv = index.srv
    /\ pc = "listed" /\ IsListed /\ res.state = "local_changed" => file.data # Truncated
    /\ ToDownload /\ remote.data # Nothing =>
        remote.mtime > index.srv /\ remote.mtime > st.srv

\* Where no window but that of the user is open, no two changes share a second.
LEMMA CarefulSeconds == Careful => OneASecond
BY DEF Careful, OneASecond

\* Nobody but grive cuts a file off.
LEMMA PartialEnvironment ==
    ASSUME TypeOK, VersionInv, PartialInv, OneASecond, Environment PROVE PartialInv'
<1>1. CASE LocalWrite \/ LocalBlock \/ LocalDelete
    <2>1. UNCHANGED <<remote, run, base>>
        BY <1>1 DEF LocalWrite, LocalBlock, LocalDelete, LocalChange
    <2>2. file'.data # Truncated
        BY <1>1, ContentAssumption DEF LocalWrite, LocalBlock, LocalDelete, LocalChange, NoFile
    <2> QED
        BY <2>1, <2>2 DEF run, PartialInv, Partial, IsListed, ToDownload
<1>2. CASE RemoteWrite
    <2>1. PICK c \in Content, t \in Later(rclock) :
            remote' = [data |-> c, mtime |-> t, etag |-> rev + 1] /\ rclock' = t
        BY <1>2 DEF RemoteWrite
    <2>2. rev' = rev + 1 /\ UNCHANGED <<file, index, pc, opt, st, res>>
        BY <1>2 DEF RemoteWrite, run
    <2>3. IsNewer' /\ ~IsListed'
        BY <2>1, <2>2, MadeIsNewer, ContentAssumption
    <2> QED
        BY <2>2, <2>3 DEF PartialInv, Partial, IsNewer, AsScanned, ToDownload
<1>3. CASE RemoteTrash
    <2>1. remote' = NoEntry /\ UNCHANGED <<file, index, pc, opt, st, res>>
        BY <1>3 DEF RemoteTrash, run
    <2> QED
        BY <2>1 DEF PartialInv, Partial, NoEntry, IsListed, AsScanned, ToDownload
<1> QED
    BY <1>1, <1>2, <1>3 DEF Environment

\* Without -f the scan takes the time from the record.
LEMMA PartialScan ==
    ASSUME TypeOK, HeldInv, PassedInv, PartialInv, Unforced, NEW o \in Options, Scan(o)
    PROVE  PartialInv'
<1>1. UNCHANGED <<file, remote, index>> /\ pc' = "scanned" /\ opt' = o /\ o # "force"
    BY DEF Scan, env, Unforced
<1>2. Known(o) = index
    BY <1>1 DEF Known
<1>3. st' \in {index, Item(index)}
    BY <1>2 DEF Scan
<1>4. st'.srv = index.srv
    BY <1>3 DEF Item, TypeOK, Records
<1>5. file.data = Truncated => AsScanned'
    <2>1. ASSUME file.data = Truncated PROVE res'.ctime = file.ctime /\ file.data \in Data
        BY <2>1, ContentAssumption DEF Scan, FromLocal, Data
    <2> QED
        BY <1>1, <2>1 DEF AsScanned, TypeOK, Files
<1>6. res'.mtime = index.srv
    <2>1. CASE file.data \in Data
        BY <1>2, <2>1, ContentAssumption DEF Scan, FromLocal, Data, Item, TypeOK, Records
    <2>2. CASE file.data = Nothing
        <3>1. res' = IF index.present THEN FromDeleted(index) ELSE NewResource
            BY <1>2, <2>2, ContentAssumption DEF Scan, Data
        <3>2. ~index.present => index.srv = 0
            BY DEF HeldInv, Whole
        <3> QED
            BY <3>1, <3>2 DEF FromDeleted, NewResource
    <2> QED
        BY <2>1, <2>2 DEF PassedInv, TypeOK, Files, Checksums
<1> QED
    BY <1>1, <1>4, <1>5, <1>6 DEF PartialInv, Partial, ToDownload

\* What was cut off is not taken for a local change of the version on the server.
LEMMA PartialList ==
    ASSUME TypeOK, CacheInv, VersionInv, HeldInv, PassedInv, PartialInv, List
    PROVE  PartialInv'
<1>1. UNCHANGED <<file, remote, index, st, opt>> /\ pc = "scanned" /\ pc' = "listed"
    BY DEF List, env
<1>2. res'.ctime = res.ctime
    BY DEF List, FromRemote, TypeOK, Resources
<1>3. CASE remote.data = Nothing
    BY <1>1, <1>2, <1>3 DEF PartialInv, Partial, AsScanned, IsListed, ToDownload
<1>4. CASE remote.data # Nothing
    <2>1. res'.state = RemoteState(res, remote, "sync", file.data)
        BY <1>4 DEF List, FromRemote, TypeOK, Resources
    <2>2. res.mtime = index.srv /\ st.srv = index.srv
        BY <1>1 DEF PartialInv
    <2>3. ASSUME res'.state = "local_changed", file.data = Truncated PROVE FALSE
        <3>1. remote.mtime <= index.srv
            BY <1>1, <2>1, <2>2, <2>3, VersionTypes
                DEF VersionInv, ScanInv, RemoteState, Recursive
        <3>2. remote.data = Truncated
            BY <1>4, <2>3, <3>1, VersionTypes DEF PartialInv, Partial
        <3>3. AsScanned
            BY <1>1, <2>3 DEF PartialInv
        <3> QED
            BY <1>1, <1>4, <2>1, <2>3, <3>2, <3>3, VerdictRight
    <2>4. ASSUME res'.state \in {"remote_new", "remote_changed"} PROVE remote.mtime > index.srv
        <3>1. CASE res.exists
            BY <1>1, <2>1, <2>2, <2>4, <3>1 DEF VersionInv, ScanInv, RemoteState, Recursive
        <3>2. CASE ~res.exists
            <4>1. remote.mtime > index.srv \/ remote.data # index.md5
                BY <1>1, <2>1, <2>2, <2>4, <3>2 DEF HeldInv, PassedInv, RemoteState, Recursive
            <4> QED
                BY <1>4, <4>1, VersionTypes DEF HeldInv, Held
        <3> QED
            BY <3>1, <3>2
    <2> QED
        BY <1>1, <1>2, <2>2, <2>3, <2>4 DEF PartialInv, Partial, AsScanned, ToDownload
<1> QED
    BY <1>3, <1>4

\* Once a run has dealt with the file only the records count.
LEMMA PartialSettled ==
    ASSUME Partial(index)', Partial(st)', opt' = opt, opt # "force",
           pc' \in {"idle", "indexed", "saving"}
    PROVE  PartialInv'
BY DEF PartialInv, ToDownload

\* SyncSelf returns with the time of the listing; a file that is cut off is then on
\* the server as well, or the server has something newer.
LEMMA PartialSynced ==
    ASSUME TypeOK, VersionInv, PartialInv, Working, NEW r \in Resources, NEW rec \in Records,
           Synced(r, rec), r.mtime = res.mtime, rec.srv = st.srv,
           file.data = Truncated /\ IsListed => remote.data = Truncated,
           UNCHANGED <<file, remote, index, opt>>
    PROVE  PartialInv'
<1>1. pc' = "indexed" /\ st'.srv \in {st.srv, res.mtime}
    BY DEF Synced, SetSrvTime, Records
<1>2. remote.data # Nothing /\ ~IsListed => IsNewer
    BY DEF VersionInv, ListInv
<1>3. Partial(index)' /\ Partial(st)'
    BY <1>1, <1>2, VersionTypes DEF PartialInv, Partial, IsNewer
<1> QED
    BY <1>1, <1>3, PartialSettled DEF PartialInv

\* A record that goes knows of no time.
LEMMA PartialForgotten ==
    ASSUME TypeOK, VersionInv, PartialInv, UNCHANGED <<remote, opt>>,
           file' \in {file, NoFile}, st' \in {st, NoRecord}, index' \in {index, st, NoRecord},
           pc' \in {"idle", "indexed", "saving"}
    PROVE  PartialInv'
<1>1. NoFile.data # Truncated /\ NoRecord.srv = 0
    BY ContentAssumption DEF NoFile, NoRecord
<1>2. remote.data # Nothing => remote.mtime > 0
    BY DEF VersionInv, VersionBounds
<1>3. Partial(index)' /\ Partial(st)'
    BY <1>1, <1>2 DEF PartialInv, Partial
<1> QED
    BY <1>3, PartialSettled DEF PartialInv

\* After a request that has changed the server, it has what the file has or nothing.
LEMMA PartialStored ==
    ASSUME remote'.data \in {file'.data, Nothing}, opt' = opt, opt # "force", pc' = "indexed"
    PROVE  PartialInv'
BY PartialSettled DEF Partial

\* Every case of SyncSelf keeps the times of unfetched versions out of the records.
LEMMA PartialTransfer ==
    ASSUME TypeOK, CacheInv, VersionInv, HeldInv, PassedInv, PartialInv, Transfer
    PROVE  PartialInv'
<1>1. CASE Upload
    BY <1>1, PartialStored DEF Upload, ServerStores, Synced, PartialInv
<1>2. CASE UploadRefused \/ DeleteRemoteRefused \/ DownloadRefused \/ DeleteLocalRefused \/ NothingToSync
    BY <1>2, PartialForgotten DEF env, UploadRefused, DeleteRemoteRefused,
        DownloadRefused, DeleteLocalRefused, NothingToSync, Caught
<1>3. CASE SkipReadOnly
    <2>1. /\ pc = "listed" /\ res.state = "local_changed" /\ Synced(res, st)
          /\ UNCHANGED <<file, remote, index, opt>>
        BY <1>3 DEF SkipReadOnly, Self, env
    <2>2. IsListed => file.data # Truncated
        BY <2>1 DEF PartialInv
    <2> QED
        BY <2>1, <2>2, PartialSynced DEF Working, TypeOK
<1>4. CASE SkipRemote
    BY <1>4 DEF SkipRemote, Skips, PassedInv
<1>5. CASE DeleteRemote
    BY <1>5, PartialStored DEF DeleteRemote, ServerTrashes, Synced, NoEntry, PartialInv
<1>6. CASE DownloadStart
    <2>1. /\ ToDownload /\ pc = "listed" /\ pc' = "downloading" /\ file'.data = Truncated
          /\ UNCHANGED <<remote, index, st, res, opt>>
        BY <1>6 DEF DownloadStart, Self, ToDownload
    <2> QED
        BY <2>1 DEF PartialInv, Partial, ToDownload
<1>7. CASE Download
    <2>1. /\ pc = "downloading" /\ pc' = "downloaded" /\ file'.data = remote.data
          /\ UNCHANGED <<remote, index, st, res, opt>>
        BY <1>7 DEF Download
    <2> QED
        BY <2>1 DEF PartialInv, Partial, ToDownload
<1>8. CASE StoreIndex
    <2> DEFINE r == [res EXCEPT !.state = "sync", !.ctime = file.ctime]
    <2>1. /\ pc = "downloaded" /\ Synced(r, SetIndex(st, r, file.ctime))
          /\ UNCHANGED <<file, remote, index, opt>>
        BY <1>8 DEF StoreIndex, env
    <2>2. r \in Resources /\ r.mtime = res.mtime
        BY DEF TypeOK, Resources, Files, States
    <2>3. SetIndex(st, r, file.ctime) \in Records /\ SetIndex(st, r, file.ctime).srv = st.srv
        BY <2>2 DEF TypeOK, SetIndex, Records, Resources, Files
    <2>4. IsListed => remote.data = file.data
        BY <2>1 DEF HeldInv, CacheInv, Working
    <2> HIDE DEF r
    <2> QED
        BY <2>1, <2>2, <2>3, <2>4, PartialSynced DEF Working
<1>9. CASE DeleteLocal \/ BothDeleted
    BY <1>9, PartialForgotten DEF DeleteLocal, BothDeleted, Synced, Forgotten, SetSrvTime,
        NoRecord, env
<1>10. CASE AlreadySync
    <2>1. /\ pc = "listed" /\ res.state = "sync" /\ Synced(res, SetIndex(st, res, res.ctime))
          /\ UNCHANGED <<file, remote, index, opt>>
        BY <1>10 DEF AlreadySync, Self, env
    <2>2. /\ SetIndex(st, res, res.ctime) \in Records
          /\ SetIndex(st, res, res.ctime).srv = st.srv
        BY DEF TypeOK, SetIndex, Records, Resources
    <2>3. file.data = Truncated /\ IsListed => remote.data = Truncated
        BY <2>1 DEF HeldInv, CacheInv, PartialInv, Working
    <2> QED
        BY <2>1, <2>2, <2>3, PartialSynced DEF Working, TypeOK
<1> QED
    BY <1>1, <1>2, <1>3, <1>4, <1>5, <1>6, <1>7, <1>8, <1>9, <1>10 DEF Transfer

\* Every step does, if -f is not used: a run with -f that dies in a download leaves
\* the old record, whose time is that of the version which was being fetched.
LEMMA PartialNext ==
    ASSUME OneASecond, Unforced
    PROVE  TypeOK /\ CacheInv /\ VersionInv /\ HeldInv /\ PassedInv /\ PartialInv
              /\ [Next]_vars => PartialInv'
<1> SUFFICES ASSUME TypeOK, CacheInv, VersionInv, HeldInv, PassedInv, PartialInv, [Next]_vars
             PROVE  PartialInv'
    OBVIOUS
<1>1. CASE BeginSave \/ EndSave \/ DryRun \/ StoreIndexAborts \/ Abort \/ HttpError
    BY <1>1, PartialForgotten DEF BeginSave, EndSave, DryRun, StoreIndexAborts, Abort,
        HttpError, Exit, Caught, env
<1>2. CASE LostReply
    BY <1>2, PartialStored DEF LostReply, Caught, ServerStores, ServerTrashes, NoEntry, PartialInv
<1>3. CASE UNCHANGED vars
    BY <1>3 DEF vars, PartialInv, Partial, AsScanned, IsListed, ToDownload
<1> QED
    BY <1>1, <1>2, <1>3, PartialEnvironment, PartialScan, PartialList, PartialTransfer
        DEF Next, RunStep, Failure

\* What an interrupted download left behind never replaces a version on the server,
\* whether the download failed, the process died or the user wrote the file meanwhile,
\* if neither -f nor an option that passes a version over is used.
THEOREM PartialStaysHere ==
    ASSUME Careful, NothingPassed, Unforced PROVE Spec => PartialReplacesNothing
<1>1. OneASecond
    BY CarefulSeconds
<1>2. Init => PartialInv
    BY DEF Init, PartialInv, Partial, NoEntry, ToDownload
<1>3. TypeOK /\ CacheInv /\ VersionInv /\ HeldInv /\ PassedInv /\ PartialInv
        /\ [Next]_vars => PartialInv'
    BY <1>1, PartialNext
<1>4. TypeOK /\ VersionInv /\ PartialInv /\ [Next]_vars =>
        [Stores /\ remote.data # Nothing => file.data # Truncated]_vars
    BY StoresOverKnown DEF PartialInv
<1> QED
    BY <1>1, TypeCorrect, CacheCorrect, VersionCorrect, HeldCorrect, PassedCorrect, <1>2, <1>3,
        <1>4, PTL DEF Spec, PartialReplacesNothing
-----------------------------------------------------------------------------
(* A quiet Drive. No two actors within a window, no crash and no lost      *)
(* reply, no option that leaves something undone: then the record is that  *)
(* of what both sides last had, and the verdicts tell who has changed it.  *)

Calm == Options \subseteq {"normal"} /\ Races = {} /\ Faults \subseteq {"httpError"} /\ ~Blocks

\* The record has the checksum of what both sides last had, with its size, and the
\* time of that version.
Sized(rec) == rec.md5 # Nothing => rec.size = SizeOf(rec.md5)
Timed(rec) == remote.data # Nothing /\ remote.etag = base.etag => remote.mtime <= rec.srv
Current(rec) == rec.md5 = base.data /\ Timed(rec)

\* Both sides have the version that was listed.
ListedIsBase == base.data = res.md5 /\ base.etag = res.etag

\* What the run makes of the file, which is still as it was scanned.
VerdictInv ==
    /\ pc = "scanned" => res.mtime = index.srv /\ st.srv = index.srv
    /\ pc \in {"scanned", "listed"} =>
        /\ IF res.exists THEN AsScanned ELSE file.data = Nothing
        /\ res.state = "remote_deleted" => file.data = base.data
        /\ res.state \in {"local_new", "local_changed"} => file.data # base.data
    /\ pc = "listed" /\ res.state \in {"local_new", "local_changed"} =>
        res.size = SizeOf(file.data)
    /\ pc = "listed" /\ res.state = "sync" => ListedIsBase /\ res.size = SizeOf(res.md5)
    /\ ToDownload => /\ res.etag # base.etag /\ res.size = SizeOf(res.md5)
                     /\ remote.data # Nothing => IsListed
    /\ pc = "downloaded" =>
        ListedIsBase /\ file.data # Nothing /\ res.size = SizeOf(res.md5)

CalmInv ==
    /\ opt = "normal" /\ base.etag <= rev
    /\ Sized(index) /\ Sized(st)
    /\ pc \in {"idle", "scanned"} => Current(index)
    /\ pc \in {"scanned", "downloading", "indexed", "saving"} => Current(st)
    /\ pc = "listed" /\ res.state # "sync" => Current(st)
    /\ VerdictInv

\* What others do: the user only touches a file that no run is dealing with, and what
\* another client makes is not the version both sides last had.
LEMMA CalmEnvironment ==
    ASSUME TypeOK, VersionInv, CalmInv, Calm, Environment PROVE CalmInv'
<1>1. CASE LocalWrite \/ LocalBlock \/ LocalDelete
    <2>1. UNCHANGED <<remote, rev, run, base>>
        BY <1>1 DEF LocalWrite, LocalBlock, LocalDelete, LocalChange
    <2>2. pc \in {"idle", "indexed", "saving"}
        BY <1>1 DEF LocalWrite, LocalBlock, LocalDelete, LocalChange, UserMayAct, Calm
    <2> QED
        BY <2>1, <2>2 DEF run, CalmInv, VerdictInv, Sized, Current, Timed, ToDownload
<1>2. CASE RemoteWrite
    <2>1. rev' = rev + 1 /\ remote'.etag = rev + 1
        BY <1>2 DEF RemoteWrite
    <2>2. UNCHANGED <<file, base, index, pc, opt, st, res>> /\ ~ToDownload
        BY <1>2 DEF RemoteWrite, run, Calm
    <2>3. base'.etag <= rev' /\ remote'.etag # base'.etag
        BY <2>1, <2>2, VersionTypes DEF CalmInv
    <2> QED
        BY <2>2, <2>3 DEF CalmInv, VerdictInv, Sized, Current, Timed, ToDownload, AsScanned,
            ListedIsBase
<1>3. CASE RemoteTrash
    <2>1. remote'.data = Nothing /\ UNCHANGED <<file, rev, base, index, pc, opt, st, res>>
        BY <1>3 DEF RemoteTrash, run, NoEntry
    <2> QED
        BY <2>1 DEF CalmInv, VerdictInv, Sized, Current, Timed, ToDownload, AsScanned,
            ListedIsBase
<1> QED
    BY <1>1, <1>2, <1>3 DEF Environment

\* The scan tells whether the file is still what both sides last had.
LEMMA ScanKnowsTheChange ==
    ASSUME TypeOK, CacheInv, CalmInv, pc = "idle", file.data \in Data,
           NEW rec \in Records, rec.md5 = index.md5, rec.size = index.size,
           rec.ctime = index.ctime
    PROVE  IsChanged(file, rec) = (file.data # base.data)
<1>1. rec.md5 = base.data /\ Sized(index)
    BY DEF CalmInv, Current
<1>2. MD5(file.data) = file.data /\ file.data # Nothing
    BY ContentAssumption DEF MD5, Data
<1>3. ASSUME NotTouched(file, rec) PROVE file.data = base.data
    BY <1>1, <1>3 DEF CacheInv, CacheValid, NotTouched
<1>4. ASSUME file.data = base.data PROVE NeedsMD5(file, rec) /\ MD5(file.data) = rec.md5
    BY <1>1, <1>2, <1>4 DEF NeedsMD5, Sized
<1> QED
    BY <1>1, <1>2, <1>3, <1>4 DEF IsChanged

\* So the scan starts from what both sides last had.
LEMMA CalmScan ==
    ASSUME TypeOK, CacheInv, HeldInv, PassedInv, CalmInv, Calm, NEW o \in Options, Scan(o)
    PROVE  CalmInv'
<1>1. /\ UNCHANGED <<file, remote, rev, index, base>> /\ pc = "idle" /\ pc' = "scanned"
      /\ opt' = "normal" /\ Known(o) = index
    BY DEF Scan, env, Known, Calm
<1>2. st' \in {index, Item(index)}
    BY <1>1 DEF Scan
<1>3. st'.srv = index.srv /\ st'.md5 = index.md5 /\ st'.size = index.size
    BY <1>2 DEF Item, TypeOK, Records
<1>4. /\ res'.mtime = index.srv
      /\ IF res'.exists THEN AsScanned' ELSE file.data = Nothing
      /\ res'.state = "remote_deleted" => file.data = base.data
      /\ res'.state \in {"local_new", "local_changed"} => file.data # base.data
    <2>1. CASE file.data \in Data
        <3> DEFINE rec == Item(index)
        <3>1. /\ rec \in Records /\ rec.md5 = index.md5 /\ rec.size = index.size
              /\ rec.ctime = index.ctime /\ rec.srv = index.srv
            BY DEF Item, TypeOK, Records
        <3>2. IsChanged(file, rec) = (file.data # base.data)
            BY <1>1, <2>1, <3>1, ScanKnowsTheChange
        <3>3. res' = FromLocal(file, rec)
            BY <1>1, <2>1, ContentAssumption DEF Scan, Data
        <3> HIDE DEF rec
        <3>4. /\ res'.exists /\ res'.ctime = file.ctime /\ res'.mtime = index.srv
              /\ res'.state = IF file.data # base.data THEN "local_new" ELSE "remote_deleted"
            BY <3>1, <3>2, <3>3 DEF FromLocal
        <3> QED
            BY <1>1, <2>1, <3>4 DEF AsScanned, TypeOK, Files
    <2>2. CASE file.data = Nothing
        <3>1. res' = IF index.present THEN FromDeleted(index) ELSE NewResource
            BY <1>1, <2>2, ContentAssumption DEF Scan, Data
        <3>2. ~index.present => index.srv = 0
            BY DEF HeldInv, Whole
        <3> QED
            BY <2>2, <3>1, <3>2 DEF FromDeleted, NewResource
    <2> QED
        BY <2>1, <2>2 DEF PassedInv, TypeOK, Files, Checksums
<1>5. VerdictInv'
    BY <1>1, <1>3, <1>4 DEF VerdictInv, ToDownload
<1> QED
    BY <1>1, <1>3, <1>5 DEF CalmInv, Sized, Current, Timed

\* The comparison with what is listed tells which side has changed the file.
LEMMA CalmList ==
    ASSUME TypeOK, CacheInv, VersionInv, HeldInv, PassedInv, CalmInv, List PROVE CalmInv'
<1>1. /\ UNCHANGED <<file, remote, rev, index, st, opt>> /\ pc = "scanned" /\ pc' = "listed"
    BY DEF List, env
<1>2. /\ IF res.exists THEN AsScanned ELSE file.data = Nothing
      /\ res.state = "remote_deleted" => file.data = base.data
      /\ res.state = "local_new" => file.data # base.data
      /\ res.mtime = index.srv /\ st.srv = index.srv /\ Current(st) /\ Current(index)
    BY <1>1 DEF CalmInv, VerdictInv
<1>3. res.exists => res.size = SizeOf(file.data)
    BY <1>1, <1>2 DEF CacheInv
<1>4. res.state \in IF res.exists THEN {"local_new", "remote_deleted"}
                    ELSE {"unknown", "both_deleted"}
    BY <1>1 DEF VersionInv, ScanInv, PassedInv
<1>5. CASE remote.data = Nothing
    <2>1. UNCHANGED <<res, base>>
        BY <1>4, <1>5 DEF List
    <2>2. VerdictInv'
        BY <1>1, <1>2, <1>3, <1>4, <2>1 DEF VerdictInv, AsScanned, ToDownload
    <2> QED
        BY <1>1, <1>2, <2>1, <2>2 DEF CalmInv, Sized, Current, Timed
<1>6. CASE remote.data # Nothing
    <2>1. res' = FromRemote(res, remote, "sync", file.data)
        BY <1>6 DEF List
    <2>2. /\ res'.md5 = remote.data /\ res'.etag = remote.etag /\ res'.ctime = res.ctime
          /\ res'.exists = res.exists
          /\ res'.state = RemoteState(res, remote, "sync", file.data)
          /\ res'.size = RemoteSize(res, remote, "sync", file.data)
        BY <2>1 DEF FromRemote, TypeOK, Resources
    <2>3. res'.state \in IF res.exists THEN {"sync", "remote_changed", "local_changed"}
                         ELSE {"remote_new", "local_deleted"}
        BY <1>4, <2>2 DEF RemoteState, Recursive, PassedInv
    <2>4. res'.size = IF res'.state \in {"remote_new", "remote_changed"}
                      THEN SizeOf(remote.data) ELSE res.size
        BY <2>2 DEF RemoteSize, Recursive
    <2>5. CASE res'.state = "sync"
        <3>1. base' = [data |-> remote.data, etag |-> remote.etag, passed |-> NoETag]
            BY <2>3, <2>5 DEF List
        <3>2. file.data = remote.data
            BY <1>1, <1>2, <1>6, <2>2, <2>3, <2>5, VerdictRight
        <3>3. VerdictInv'
            BY <1>1, <1>2, <1>3, <2>2, <2>3, <2>4, <2>5, <3>1, <3>2
                DEF VerdictInv, AsScanned, ToDownload, ListedIsBase
        <3>4. base'.etag <= rev'
            BY <1>1, <3>1 DEF VersionInv, VersionBounds
        <3> QED
            BY <1>1, <2>5, <3>3, <3>4 DEF CalmInv, Sized
    <2>6. CASE res'.state # "sync"
        <3>1. base' = base
            BY <2>6 DEF List
        <3>2. ASSUME res'.state = "local_changed" PROVE file.data # base.data
            <4>1. AsScanned /\ res.exists
                BY <1>2, <2>3, <3>2
            <4>2. CASE res.state = "remote_deleted"
                <5>1. remote.mtime <= index.srv
                    BY <1>2, <2>2, <3>2, <4>1, <4>2, VersionTypes
                        DEF RemoteState, Recursive, PassedInv
                <5>2. remote.data = index.md5
                    BY <1>6, <5>1 DEF HeldInv, Held
                <5> QED
                    BY <1>1, <1>2, <1>6, <2>2, <3>2, <4>1, <4>2, <5>2, VerdictRight
                        DEF Current
            <4> QED
                BY <1>2, <1>4, <4>1, <4>2
        <3>3. ASSUME res'.state \in {"remote_new", "remote_changed"} PROVE res'.etag # base.etag
            <4>1. remote.mtime > st.srv
                <5>1. CASE res.exists
                    BY <1>2, <1>4, <2>2, <3>3, <5>1 DEF RemoteState, Recursive, PassedInv
                <5>2. CASE ~res.exists
                    <6>1. remote.mtime > index.srv \/ remote.data # index.md5
                        BY <1>1, <1>2, <2>2, <3>3, <5>2 DEF HeldInv, PassedInv, RemoteState, Recursive
                    <6> QED
                        BY <1>2, <1>6, <6>1, VersionTypes DEF HeldInv, Held
                <5> QED
                    BY <5>1, <5>2
            <4> QED
                BY <1>2, <1>6, <2>2, <4>1, VersionTypes DEF Current, Timed
        <3>4. VerdictInv'
            BY <1>1, <1>2, <1>3, <1>6, <2>2, <2>3, <2>4, <2>6, <3>1, <3>2, <3>3
                DEF VerdictInv, AsScanned, ToDownload, IsListed
        <3> QED
            BY <1>1, <1>2, <2>6, <3>1, <3>4 DEF CalmInv, Sized, Current, Timed
    <2> QED
        BY <2>5, <2>6
<1> QED
    BY <1>5, <1>6

\* Once a run has dealt with the file only the records count.
LEMMA CalmSettled ==
    ASSUME CalmInv, opt' = "normal", base'.etag <= rev', Sized(index)', Sized(st)',
           pc' \in {"idle", "indexed", "saving"}, IF pc' = "idle" THEN Current(index)' ELSE Current(st)'
    PROVE  CalmInv'
BY DEF CalmInv, VerdictInv, ToDownload

\* SyncSelf returns with a record of what both sides have.
LEMMA CalmSynced ==
    ASSUME TypeOK, VersionInv, CalmInv, Working, NEW r \in Resources, NEW rec \in Records,
           Synced(r, rec), r.mtime = res.mtime, rec.srv = st.srv,
           rec.md5 = base.data, Sized(rec),
           (base.etag = res.etag /\ rec.present) \/ Timed(st),
           UNCHANGED <<remote, rev, index, opt>>,
           base'.data = base.data, base'.etag = base.etag
    PROVE  CalmInv'
<1>1. pc' = "indexed" /\ st' = SetSrvTime(rec, r)
    BY DEF Synced
<1>2. /\ st'.md5 = rec.md5 /\ st'.size = rec.size
      /\ st'.srv = IF rec.present THEN res.mtime ELSE st.srv
    BY <1>1 DEF SetSrvTime, Records, Resources
<1>3. remote.data # Nothing => IF IsListed THEN remote.mtime = res.mtime ELSE IsNewer
    BY DEF VersionInv, ListInv
<1>4. Timed(st)'
    BY <1>2, <1>3, VersionTypes DEF Timed, IsListed, IsNewer
<1>5. Sized(index)' /\ Sized(st)' /\ Current(st)'
    BY <1>2, <1>4 DEF CalmInv, Sized, Current
<1> QED
    BY <1>1, <1>5, CalmSettled DEF CalmInv

\* An exception that Sync catches leaves the record of what both sides had.
LEMMA CalmCaught ==
    ASSUME CalmInv, Caught, Current(st), UNCHANGED <<remote, rev, index, opt, base>>
    PROVE  CalmInv'
<1>1. pc' = "indexed" /\ UNCHANGED <<st, res>>
    BY DEF Caught
<1> QED
    BY <1>1, CalmSettled DEF CalmInv, Sized, Current, Timed

\* A file that is gone on both sides has no record.
LEMMA CalmForgotten ==
    ASSUME TypeOK, VersionInv, CalmInv, Synced(res, Forgotten), base' = NoBase,
           remote' \in {remote, NoEntry}, UNCHANGED <<rev, index, opt>>
    PROVE  CalmInv'
<1>1. pc' = "indexed" /\ st' = NoRecord
    BY DEF Synced, Forgotten, SetSrvTime, NoRecord
<1>2. remote'.data # Nothing => remote'.etag # NoETag
    BY DEF VersionInv, VersionBounds, NoEntry
<1>3. Sized(st)' /\ Current(st)' /\ Sized(index)'
    BY <1>1, <1>2 DEF NoRecord, NoBase, Sized, Current, Timed, CalmInv
<1>4. base'.etag <= rev'
    BY VersionTypes DEF NoBase, NoETag
<1> QED
    BY <1>1, <1>3, <1>4, CalmSettled DEF CalmInv

\* An upload leaves a record of what it sent, with the size that the scan saw.
LEMMA CalmUpload == ASSUME TypeOK, VersionInv, CalmInv, Upload PROVE CalmInv'
<1>1. PICK t \in Later(rclock) :
        ServerStores(t) /\ Synced(Uploaded(t), SetIndex(st, Uploaded(t), res.ctime))
    BY DEF Upload
<1>2. /\ remote'.mtime = t /\ base'.data = file.data /\ base'.etag = rev + 1 /\ rev' = rev + 1
      /\ index' = index /\ opt' = opt
    BY <1>1 DEF ServerStores, Upload
<1>3. t \in Nat
    BY LaterType, VersionTypes
<1>4. /\ pc' = "indexed" /\ st'.md5 = file.data /\ st'.srv = t /\ st'.size = res.size
    BY <1>1 DEF Synced, SetSrvTime, SetIndex, Uploaded, TypeOK, Records, Resources
<1>5. res.size = SizeOf(file.data)
    BY DEF Upload, ToUpload, Self, CalmInv, VerdictInv
<1>6. Sized(st)' /\ Sized(index)' /\ Current(st)'
    BY <1>2, <1>3, <1>4, <1>5 DEF Sized, Current, Timed, CalmInv
<1> QED
    BY <1>2, <1>4, <1>6, VersionTypes, CalmSettled DEF CalmInv

\* Every case of SyncSelf leaves a record of what both sides have.
LEMMA CalmTransfer ==
    ASSUME TypeOK, CacheInv, VersionInv, HeldInv, PassedInv, CalmInv, Transfer
    PROVE  CalmInv'
<1>1. CASE Upload
    BY <1>1, CalmUpload
<1>2. CASE UploadRefused \/ DeleteRemoteRefused \/ DownloadRefused \/ DeleteLocalRefused \/ NothingToSync
    <2>1. Caught /\ UNCHANGED <<remote, rev, index, opt, base>>
        BY <1>2 DEF env, UploadRefused, DeleteRemoteRefused, DownloadRefused,
            DeleteLocalRefused, NothingToSync
    <2>2. (pc = "listed" /\ res.state # "sync") \/ pc = "downloading"
        BY <1>2 DEF UploadRefused, ToUpload, DeleteRemoteRefused, DownloadRefused,
            DeleteLocalRefused, NothingToSync, Self
    <2> QED
        BY <2>1, <2>2, CalmCaught DEF CalmInv
<1>3. CASE SkipReadOnly
    <2>1. /\ pc = "listed" /\ res.state = "local_changed" /\ Synced(res, st)
          /\ UNCHANGED <<remote, rev, index, opt, base>>
        BY <1>3 DEF SkipReadOnly, Self, env
    <2>2. Current(st) /\ Sized(st)
        BY <2>1 DEF CalmInv
    <2> QED
        BY <2>1, <2>2, CalmSynced DEF Working, TypeOK, Current
<1>4. CASE SkipRemote
    BY <1>4 DEF SkipRemote, Skips, PassedInv
<1>5. CASE DeleteRemote \/ DeleteLocal \/ BothDeleted
    BY <1>5, CalmForgotten DEF DeleteRemote, ServerTrashes, DeleteLocal, BothDeleted, env
<1>6. CASE DownloadStart
    <2>1. /\ ToDownload /\ pc = "listed" /\ pc' = "downloading"
          /\ UNCHANGED <<remote, rev, index, opt, st, res, base>>
        BY <1>6 DEF DownloadStart, Self, ToDownload
    <2>2. Current(st)
        BY <2>1 DEF CalmInv, ToDownload
    <2> QED
        BY <2>1, <2>2 DEF CalmInv, VerdictInv, Sized, Current, Timed, ToDownload, IsListed
<1>7. CASE Download
    <2>1. /\ pc = "downloading" /\ pc' = "downloaded" /\ remote.data # Nothing
          /\ file'.data = remote.data
          /\ base' = [data |-> remote.data, etag |-> remote.etag, passed |-> NoETag]
          /\ UNCHANGED <<remote, rev, index, opt, st, res>>
        BY <1>7 DEF Download
    <2>2. ToDownload
        BY <2>1 DEF CacheInv, ToDownload
    <2>3. IsListed /\ res.size = SizeOf(res.md5) /\ remote.data = res.md5
        BY <2>1, <2>2 DEF CalmInv, VerdictInv, HeldInv, Working
    <2>4. VerdictInv'
        BY <2>1, <2>3 DEF VerdictInv, ToDownload, ListedIsBase, IsListed
    <2>5. base'.etag <= rev'
        BY <2>1 DEF VersionInv, VersionBounds
    <2> QED
        BY <2>1, <2>4, <2>5 DEF CalmInv, Sized
<1>8. CASE StoreIndex
    <2> DEFINE r == [res EXCEPT !.state = "sync", !.ctime = file.ctime]
    <2>1. /\ pc = "downloaded" /\ Synced(r, SetIndex(st, r, file.ctime))
          /\ UNCHANGED <<remote, rev, index, opt, base>>
        BY <1>8 DEF StoreIndex, env
    <2>2. r \in Resources /\ r.mtime = res.mtime /\ r.md5 = res.md5 /\ r.size = res.size
        BY DEF TypeOK, Resources, Files, States
    <2> DEFINE rec == SetIndex(st, r, file.ctime)
    <2>3. /\ rec \in Records /\ rec.srv = st.srv /\ rec.present
          /\ rec.md5 = res.md5 /\ rec.size = res.size
        BY <2>2 DEF TypeOK, SetIndex, Records, Resources, Files
    <2>4. ListedIsBase /\ res.size = SizeOf(res.md5)
        BY <2>1 DEF CalmInv, VerdictInv
    <2>5. Synced(r, rec)
        BY <2>1
    <2> HIDE DEF r, rec
    <2> QED
        BY <2>1, <2>2, <2>3, <2>4, <2>5, CalmSynced DEF Working, ListedIsBase, Sized
<1>9. CASE AlreadySync
    <2> DEFINE rec == SetIndex(st, res, res.ctime)
    <2>1. /\ pc = "listed" /\ res.state = "sync" /\ Synced(res, rec)
          /\ base'.data = base.data /\ base'.etag = base.etag
          /\ UNCHANGED <<remote, rev, index, opt>>
        BY <1>9 DEF AlreadySync, Self, env, TypeOK, Bases
    <2>2. /\ rec \in Records /\ rec.srv = st.srv /\ rec.present
          /\ rec.md5 = res.md5 /\ rec.size = res.size
        BY DEF TypeOK, SetIndex, Records, Resources
    <2>3. ListedIsBase /\ res.size = SizeOf(res.md5)
        BY <2>1 DEF CalmInv, VerdictInv
    <2> HIDE DEF rec
    <2> QED
        BY <2>1, <2>2, <2>3, CalmSynced DEF Working, ListedIsBase, Sized, TypeOK
<1> QED
    BY <1>1, <1>2, <1>3, <1>4, <1>5, <1>6, <1>7, <1>8, <1>9 DEF Transfer

\* Every step of a quiet Drive does.
LEMMA CalmNext ==
    ASSUME Calm
    PROVE  TypeOK /\ CacheInv /\ VersionInv /\ HeldInv /\ PassedInv /\ CalmInv
              /\ [Next]_vars => CalmInv'
<1> SUFFICES ASSUME TypeOK, CacheInv, VersionInv, HeldInv, PassedInv, CalmInv, [Next]_vars
             PROVE  CalmInv'
    OBVIOUS
<1>1. CASE BeginSave \/ EndSave
    <2>1. /\ pc \in {"indexed", "saving"} /\ UNCHANGED <<remote, rev, opt, base>>
          /\ \/ pc' = "saving" /\ index' = NoRecord /\ st' = st
             \/ pc' = "idle" /\ index' = st /\ st' = NoRecord
        BY <1>1 DEF BeginSave, EndSave, Exit, env
    <2>2. Current(st) /\ Sized(st) /\ NoRecord.md5 = Nothing
        BY <2>1 DEF CalmInv, NoRecord
    <2> QED
        BY <2>1, <2>2, CalmSettled DEF CalmInv, Sized, Current, Timed
<1>2. CASE DryRun \/ StoreIndexAborts \/ Abort \/ LostReply
    BY <1>2 DEF DryRun, StoreIndexAborts, Abort, LostReply, Fault, Calm, CalmInv, VerdictInv
<1>3. CASE HttpError
    <2>1. Caught /\ UNCHANGED <<remote, rev, index, opt, base>>
        BY <1>3 DEF HttpError, env
    <2>2. (pc = "listed" /\ res.state # "sync") \/ pc = "downloading"
        BY <1>3 DEF HttpError, ToUpload, Self
    <2> QED
        BY <2>1, <2>2, CalmCaught DEF CalmInv
<1>4. CASE UNCHANGED vars
    BY <1>4 DEF vars, CalmInv, VerdictInv, Sized, Current, Timed, ToDownload, AsScanned,
        ListedIsBase, IsListed
<1> QED
    BY <1>1, <1>2, <1>3, <1>4, CalmEnvironment, CalmScan, CalmList, CalmTransfer
        DEF Next, RunStep, Failure

\* A quiet Drive is careful, and no version is passed over in it.
LEMMA CalmIsCareful == Calm => Careful /\ NothingPassed /\ OneASecond
BY DEF Calm, Careful, NothingPassed, OneASecond

\* The record of a run that has ended is that of what both sides last had.
LEMMA CalmCorrect ==
    ASSUME Calm
    PROVE  Spec => [](TypeOK /\ CacheInv /\ VersionInv /\ HeldInv /\ PassedInv /\ CalmInv)
<1>1. Careful /\ NothingPassed /\ OneASecond
    BY CalmIsCareful
<1>2. Init => CalmInv
    BY DEF Init, CalmInv, VerdictInv, Sized, Current, Timed, ToDownload, NoEntry, NoBase,
        NoRecord, NoETag
<1>3. TypeOK /\ CacheInv /\ VersionInv /\ HeldInv /\ PassedInv /\ CalmInv
        /\ [Next]_vars => CalmInv'
    BY CalmNext
<1> QED
    BY <1>1, TypeCorrect, CacheCorrect, VersionCorrect, HeldCorrect, PassedCorrect, <1>2, <1>3,
        PTL DEF Spec

\* What is uploaded is local work: on a quiet Drive no run sends back to the server
\* what it had from there, even where a request has failed before.
THEOREM UploadsLocalWork == ASSUME Calm PROVE Spec => UploadsOnlyLocalChanges
<1>1. CalmInv /\ [Next]_vars => [Stores => file.data # base.data]_vars
    <2> SUFFICES ASSUME CalmInv, Stores PROVE file.data # base.data
        OBVIOUS
    <2>1. ToUpload
        BY DEF Stores, Upload, LostReply, Fault, ServerTrashes, NoEntry
    <2> QED
        BY <2>1 DEF ToUpload, Self, CalmInv, VerdictInv
<1> QED
    BY CalmCorrect, <1>1, PTL DEF Spec, UploadsOnlyLocalChanges

-----------------------------------------------------------------------------
(* Two copies. On a quiet Drive every step of the code is one of TwoCopies  *)
(* or changes neither copy. What is missing for that is what SyncSelf knows *)
(* of the local file when it deletes, and when it downloads.                *)

KeptInv ==
    /\ pc = "listed" =>
        /\ res.state \in {"both_deleted", "local_deleted"} => ~res.exists
        /\ res.state \in {"remote_new", "remote_changed"} => res.etag # NoETag
    /\ pc = "downloading" => file.data = Truncated

QuietInv ==
    TypeOK /\ CacheInv /\ VersionInv /\ HeldInv /\ PassedInv /\ CalmInv /\ PartialInv /\ KeptInv

\* The comparison leaves a deletion to a file that is not there, and a download to a
\* version that was listed.
LEMMA KeptList == ASSUME QuietInv, List PROVE KeptInv'
<1> USE DEF QuietInv
<1>1. pc = "scanned" /\ pc' = "listed"
    BY DEF List
<1>2. /\ res.exists => res.state \in {"local_new", "remote_deleted"}
      /\ ~res.exists => res.state \in {"unknown", "both_deleted"}
    BY <1>1 DEF VersionInv, ScanInv, PassedInv
<1>3. CASE remote.data = Nothing
    BY <1>1, <1>2, <1>3 DEF List, KeptInv
<1>4. CASE remote.data # Nothing
    <2>1. /\ res'.state = RemoteState(res, remote, "sync", file.data)
          /\ res'.etag = remote.etag /\ res'.exists = res.exists
        BY <1>4 DEF List, FromRemote, TypeOK, Resources
    <2>2. res'.state \in IF res.exists THEN {"sync", "remote_changed", "local_changed"}
                         ELSE {"remote_new", "local_deleted"}
        BY <1>2, <2>1 DEF RemoteState, Recursive, PassedInv
    <2> QED
        BY <1>1, <1>4, <2>1, <2>2 DEF VersionInv, VersionBounds, KeptInv
<1> QED
    BY <1>3, <1>4

\* Every step of a quiet Drive does.
LEMMA KeptNext == ASSUME Calm PROVE QuietInv /\ [Next]_vars => KeptInv'
<1> SUFFICES ASSUME QuietInv, [Next]_vars PROVE KeptInv'
    OBVIOUS
<1> USE DEF QuietInv
<1>1. CASE Environment
    <2>1. UNCHANGED <<pc, res>> /\ (pc = "downloading" => UNCHANGED file)
        BY <1>1 DEF Environment, LocalWrite, LocalBlock, LocalDelete, LocalChange,
            UserMayAct, RemoteWrite, RemoteTrash, run, Calm
    <2> QED
        BY <2>1 DEF KeptInv
<1>2. CASE DownloadStart
    BY <1>2 DEF DownloadStart, KeptInv
<1>3. CASE UNCHANGED vars
    BY <1>3 DEF vars, KeptInv
<1>4. CASE Transfer /\ ~DownloadStart
    <2>1. pc' \in {"indexed", "downloaded"}
        BY <1>4 DEF Transfer, Upload, UploadRefused, SkipReadOnly, DeleteRemote,
            DeleteRemoteRefused, SkipRemote, Download, DownloadRefused, StoreIndex,
            DeleteLocal, DeleteLocalRefused, BothDeleted, AlreadySync, NothingToSync,
            Synced, Caught
    <2> QED
        BY <2>1 DEF KeptInv
<1>5. CASE \/ \E o \in Options : Scan(o)
           \/ BeginSave \/ EndSave \/ DryRun \/ StoreIndexAborts \/ Failure
    <2>1. pc' \in {"idle", "scanned", "indexed", "saving"}
        BY <1>5 DEF Scan, BeginSave, EndSave, DryRun, StoreIndexAborts, Failure, Abort,
            HttpError, LostReply, Exit, Caught
    <2> QED
        BY <2>1 DEF KeptInv
<1> QED
    BY <1>1, <1>2, <1>3, <1>4, <1>5, KeptList DEF Next, RunStep

\* A version that is replaced or put in the trash is the one both sides last had, its
\* content included.
LEMMA ListedIsCommon ==
    ASSUME QuietInv, pc = "listed", res.state \in {"local_changed", "local_deleted"}, IsListed
    PROVE  remote.data = base.data /\ remote.etag = base.etag
<1> USE DEF QuietInv
<1>1. remote.etag = base.etag
    BY DEF VersionInv, VersionBounds, ListInv, IsListed, PassedInv
<1>2. Current(st)
    BY DEF CalmInv
<1>3. remote.data = st.md5
    BY <1>1, <1>2 DEF IsListed, Current, Timed, HeldInv, Held
<1> QED
    BY <1>1, <1>2, <1>3 DEF Current

\* What the server has again when a run follows a deletion there is another version.
LEMMA UnlistedIsOther ==
    ASSUME QuietInv, pc = "listed", res.state \in {"remote_deleted", "both_deleted"},
           remote.data # Nothing
    PROVE  remote.etag # base.etag
<1> USE DEF QuietInv
<1>1. IsNewer
    BY DEF VersionInv, VersionBounds, ListInv, Working, IsListed
<1>2. Timed(st)
    BY DEF CalmInv, Current
<1> QED
    BY <1>1, <1>2, VersionTypes DEF IsNewer, Timed

\* The user works on one copy and the others on the other.
LEMMA CopiesEnvironment == ASSUME Calm, Environment PROVE Copies!User \/ Copies!Others
<1> USE DEF AtWork
<1>1. CASE LocalWrite \/ LocalBlock \/ LocalDelete
    BY <1>1 DEF LocalWrite, LocalBlock, LocalDelete, LocalChange, UserMayAct, run, NoFile,
        Copies!User, Calm
<1>2. CASE RemoteWrite
    <2>1. PICK c \in Content : Copies!Makes(c)
        BY <1>2 DEF RemoteWrite, Copies!Makes
    <2> QED
        BY <1>2, <2>1 DEF RemoteWrite, run, Copies!Others
<1>3. CASE RemoteTrash
    BY <1>3 DEF RemoteTrash, run, NoEntry, NoETag, Copies!Others, Copies!None
<1> QED
    BY <1>1, <1>2, <1>3 DEF Environment

\* The scan begins the work.
LEMMA CopiesScan == ASSUME NEW o, Scan(o) PROVE Copies!Turn
<1>1. NewResource.etag = NoETag
    BY DEF NewResource
<1>2. /\ \A f, rec : FromLocal(f, rec).etag = NoETag
      /\ \A rec : FromDeleted(rec).etag = NoETag
      /\ \A t : FromInaccessible(t).etag = NoETag
    BY DEF FromLocal, FromDeleted, FromInaccessible, NewResource
<1>3. res'.etag = NoETag
    BY <1>1, <1>2 DEF Scan
<1> QED
    BY <1>3 DEF Scan, env, NoETag, AtWork, Copies!Turn

\* The comparison finds the copies equal or looks at the server's.
LEMMA CopiesList ==
    ASSUME QuietInv, CacheInv', CalmInv', List
    PROVE  Copies!Agree \/ Copies!Look \/ UNCHANGED Copies!copies
<1> USE DEF QuietInv, AtWork
<1>1. /\ UNCHANGED <<file, remote, rev>> /\ pc = "scanned" /\ pc' = "listed"
      /\ res.etag = NoETag /\ res.state # "sync"
    BY DEF List, env, VersionInv, ScanInv, PassedInv
<1>2. CASE remote.data = Nothing
    BY <1>1, <1>2 DEF List, Copies!copies
<1>3. CASE remote.data # Nothing
    <2>1. /\ res'.md5 = remote.data /\ res'.etag = remote.etag /\ res'.exists = res.exists
        BY <1>3 DEF List, FromRemote, TypeOK, Resources
    <2>2. CASE res.exists /\ res'.state = "sync"
        <3>1. base' = [data |-> remote.data, etag |-> remote.etag, passed |-> NoETag]
            BY <2>2 DEF List
        <3>2. AsScanned'
            BY <1>1, <2>1, <2>2 DEF CalmInv, VerdictInv
        <3>3. file.data = remote.data
            BY <1>1, <2>1, <2>2, <3>2 DEF CacheInv
        <3> QED
            BY <1>1, <2>1, <3>1, <3>3 DEF Copies!Agree
    <2>3. CASE ~(res.exists /\ res'.state = "sync")
        BY <1>1, <2>1, <2>3 DEF List, Copies!Look
    <2> QED
        BY <2>2, <2>3
<1> QED
    BY <1>2, <1>3

\* An upload sends local work, over the common version if there is one.
LEMMA CopiesUpload == ASSUME QuietInv, Upload PROVE Copies!Push
<1> USE DEF QuietInv
<1>1. PICK t \in Later(rclock) : ServerStores(t) /\ Synced(Uploaded(t), SetIndex(st, Uploaded(t), res.ctime))
    BY DEF Upload
<1>2. /\ remote'.data = file.data /\ remote'.etag = rev + 1 /\ rev' = rev + 1
      /\ base'.data = file.data /\ base'.etag = rev + 1 /\ file' = file
      /\ AtWork /\ ~AtWork'
    BY <1>1 DEF ServerStores, Synced, Upload, ToUpload, Self, AtWork
<1>3. res'.etag = rev + 1
    BY <1>1 DEF Synced, Uploaded, TypeOK, Resources
<1>4. file.data \notin {Nothing, base.data}
    BY ContentAssumption DEF Upload, ToUpload, Self, CalmInv, VerdictInv, Data
<1>5. remote.data # Nothing =>
        remote.data = base.data /\ remote.etag = base.etag /\ file.data # Truncated
    <2> SUFFICES ASSUME remote.data # Nothing PROVE <1>5!2
        OBVIOUS
    <2>1. Stores
        BY <1>2, <1>4 DEF Stores
    <2>2. pc = "listed" /\ res.state = "local_changed" /\ IsListed
        BY <2>1, StoresOverKnown
    <2> QED
        BY <2>2, ListedIsCommon DEF PartialInv
<1>6. remote.data = Nothing => remote.etag = 0
    BY DEF VersionInv, VersionBounds, NoETag
<1> QED
    BY <1>2, <1>3, <1>4, <1>5, <1>6 DEF Copies!Push, Copies!Makes, Copies!None

\* A deletion is carried over from the side that has deleted the common version.
LEMMA CopiesDelete ==
    ASSUME QuietInv, DeleteRemote \/ DeleteLocal \/ BothDeleted
    PROVE  Copies!TrashThere \/ Copies!TrashHere \/ Copies!Turn
<1> USE DEF QuietInv
<1>1. /\ pc = "listed" /\ base' = NoBase /\ res' = res /\ rev' = rev
      /\ AtWork /\ ~AtWork'
      /\ res.state \in {"both_deleted", "local_deleted"} => file.data = Nothing
    BY DEF DeleteRemote, ServerTrashes, DeleteLocal, BothDeleted, Self, Synced, env,
        AtWork, KeptInv, CalmInv, VerdictInv
<1>2. CASE DeleteRemote
    <2>1. /\ res.state = "local_deleted" /\ remote.etag = res.etag
          /\ remote' = NoEntry /\ file' = file
        BY <1>2 DEF DeleteRemote, Self, ServerTrashes
    <2>2. IsListed
        BY <1>1, <2>1 DEF VersionInv, VersionBounds, ListInv, IsListed
    <2>3. remote.data = base.data /\ remote.etag = base.etag /\ remote.data # Nothing
        BY <1>1, <2>1, <2>2, ListedIsCommon DEF IsListed
    <2> QED
        BY <1>1, <2>1, <2>3 DEF NoEntry, NoBase, NoETag, Copies!TrashThere, Copies!None
<1>3. CASE DeleteLocal \/ BothDeleted
    <2>1. /\ remote' = remote /\ res.state \in {"remote_deleted", "both_deleted"}
          /\ file'.data = Nothing /\ file.data \in {Nothing, base.data}
        BY <1>1, <1>3 DEF DeleteLocal, BothDeleted, Self, env, NoFile, CalmInv, VerdictInv
    <2>2. /\ remote.data # Nothing => remote.etag # base.etag
          /\ remote.data = Nothing => remote.etag = 0
        BY <1>1, <2>1, UnlistedIsOther DEF VersionInv, VersionBounds, NoETag
    <2>3. CASE remote.data = base.data /\ remote.etag = base.etag
        BY <1>1, <2>1, <2>2, <2>3 DEF NoBase, NoETag, AtWork, Copies!Turn
    <2>4. CASE ~(remote.data = base.data /\ remote.etag = base.etag)
        BY <1>1, <2>1, <2>2, <2>4 DEF NoBase, NoETag, Copies!TrashHere, Copies!None
    <2> QED
        BY <2>3, <2>4
<1> QED
    BY <1>2, <1>3

\* A download is for a version that was seen and is not the common one.
LEMMA CopiesDownload ==
    ASSUME QuietInv, DownloadStart \/ Download PROVE Copies!FetchBegins \/ Copies!FetchEnds
<1> USE DEF QuietInv, AtWork
<1>1. CASE DownloadStart
    <2>1. /\ ToDownload /\ res.etag # NoETag
          /\ file'.data = Truncated /\ UNCHANGED <<remote, rev, res, base>>
          /\ pc = "listed" /\ pc' = "downloading"
        BY <1>1 DEF DownloadStart, Self, ToDownload, KeptInv
    <2>2. res.etag # base.etag
        BY <2>1 DEF CalmInv, VerdictInv
    <2> QED
        BY <2>1, <2>2 DEF NoETag, Copies!FetchBegins
<1>2. CASE Download
    <2>1. /\ pc = "downloading" /\ remote.data # Nothing /\ file'.data = remote.data
          /\ base' = [data |-> remote.data, etag |-> remote.etag, passed |-> NoETag]
          /\ UNCHANGED <<remote, rev, res>>
          /\ pc' = "downloaded"
        BY <1>2 DEF Download
    <2>2. ToDownload
        BY <2>1 DEF CacheInv, ToDownload
    <2>3. IsListed /\ file.data = Truncated
        BY <2>1, <2>2 DEF CalmInv, VerdictInv, KeptInv
    <2> QED
        BY <2>1, <2>3 DEF IsListed, Copies!FetchEnds, Copies!None
<1> QED
    BY <1>1, <1>2

\* What else SyncSelf does, and the end of a run, leaves both copies alone.
LEMMA CopiesRest ==
    ASSUME QuietInv, Calm,
           \/ UploadRefused \/ SkipReadOnly \/ DeleteRemoteRefused \/ SkipRemote
           \/ DownloadRefused \/ StoreIndex \/ DeleteLocalRefused \/ AlreadySync
           \/ NothingToSync \/ BeginSave \/ EndSave \/ DryRun \/ StoreIndexAborts
           \/ Failure \/ UNCHANGED vars
    PROVE  Copies!Turn
<1> USE DEF QuietInv
<1>1. Failure => HttpError
    BY DEF Failure, Abort, LostReply, Fault, Calm
<1>2. UNCHANGED <<file, remote, rev>> /\ base'.data = base.data /\ base'.etag = base.etag
    <2>1. CASE SkipRemote \/ AlreadySync
        BY <2>1 DEF SkipRemote, AlreadySync, env, TypeOK, Bases
    <2>2. CASE ~(SkipRemote \/ AlreadySync)
        BY <1>1, <2>2 DEF UploadRefused, SkipReadOnly, DeleteRemoteRefused,
            DownloadRefused, StoreIndex, DeleteLocalRefused, NothingToSync, BeginSave,
            EndSave, DryRun, StoreIndexAborts, HttpError, env, vars
    <2> QED
        BY <2>1, <2>2
<1>3. res'.etag \in {0, res.etag}
    <2>1. CASE StoreIndex
        BY <2>1 DEF StoreIndex, Synced, TypeOK, Resources
    <2>2. CASE BeginSave \/ EndSave \/ DryRun \/ StoreIndexAborts \/ UNCHANGED vars
        <3>1. res' \in {res, NewResource}
            BY <2>2 DEF BeginSave, EndSave, DryRun, StoreIndexAborts, vars, Exit
        <3> QED
            BY <3>1 DEF NewResource, NoETag
    <2>3. CASE \/ UploadRefused \/ SkipReadOnly \/ DeleteRemoteRefused \/ SkipRemote
               \/ DownloadRefused \/ DeleteLocalRefused \/ AlreadySync \/ NothingToSync
               \/ Failure
        <3>1. res' = res
            BY <1>1, <2>3 DEF UploadRefused, SkipReadOnly, DeleteRemoteRefused, SkipRemote,
                DownloadRefused, DeleteLocalRefused, AlreadySync, NothingToSync, HttpError,
                Synced, Caught
        <3> QED
            BY <3>1
    <2> QED
        BY <2>1, <2>2, <2>3
<1> QED
    BY <1>2, <1>3 DEF AtWork, Copies!Turn

\* Every step of the code on a quiet Drive is one of TwoCopies.
LEMMA CopiesNext ==
    ASSUME Calm, QuietInv, CacheInv', CalmInv', [Next]_vars
    PROVE  [Copies!Next]_(Copies!copies)
<1>1. CASE Environment
    BY <1>1, CopiesEnvironment DEF Copies!Next
<1>2. CASE RunStep /\ ~Transfer
    BY <1>2, CopiesScan, CopiesList, CopiesRest DEF RunStep, Copies!Next
<1>3. CASE Transfer
    BY <1>3, CopiesUpload, CopiesDelete, CopiesDownload, CopiesRest DEF Transfer, Copies!Next
<1>4. CASE Failure \/ UNCHANGED vars
    BY <1>4, CopiesRest DEF Copies!Next
<1> QED
    BY <1>1, <1>2, <1>3, <1>4 DEF Next

\* On a quiet Drive grive keeps two copies in step by the version they last had in
\* common: FileSync, with its clocks, sizes, checksums and records, implements
\* TwoCopies, which has none of them.
THEOREM TwoCopiesKept == ASSUME Calm PROVE Spec => KeepsTwoCopies
<1>1. Careful /\ NothingPassed /\ OneASecond /\ Unforced
    BY CalmIsCareful DEF Calm, Unforced
<1>2. Init => PartialInv /\ KeptInv /\ Copies!Init
    BY DEF Init, PartialInv, Partial, NoEntry, NoFile, NoBase, NewResource, NoETag, ToDownload,
        KeptInv, AtWork, Copies!Init, Copies!None
<1>3. TypeOK /\ CacheInv /\ VersionInv /\ HeldInv /\ PassedInv /\ PartialInv
        /\ [Next]_vars => PartialInv'
    BY <1>1, PartialNext
<1>4. QuietInv /\ [Next]_vars => KeptInv'
    BY KeptNext
<1>5. Spec => []QuietInv
    BY <1>2, <1>3, <1>4, CalmCorrect, PTL DEF Spec, QuietInv
<1>6. QuietInv /\ CacheInv' /\ CalmInv' /\ [Next]_vars => [Copies!Next]_(Copies!copies)
    BY CopiesNext
<1>7. QuietInv => CacheInv /\ CalmInv
    BY DEF QuietInv
<1> QED
    BY <1>2, <1>5, <1>6, <1>7, PTL DEF Spec, KeepsTwoCopies, Copies!Spec

\* What goes to the local .trash is what both sides last had: a local edit does not go
\* there because the file was deleted on the server. In TwoCopies nothing else puts
\* nothing in the place of a file while grive is at work.
THEOREM DeletesTheBase == ASSUME Calm PROVE Spec => DeletesOnlyBase
<1>1. ASSUME [Copies!Next]_(Copies!copies), DeleteLocal PROVE file.data = base.data
    <2>1. /\ AtWork /\ ~AtWork' /\ file.data # Nothing /\ file'.data = Nothing
        BY <1>1 DEF DeleteLocal, Self, Synced, AtWork, NoFile
    <2>2. Copies!TrashHere
        BY <1>1, <2>1 DEF Copies!Next, Copies!copies, Copies!User, Copies!Others, Copies!Turn,
            Copies!Look, Copies!Agree, Copies!Push, Copies!TrashThere, Copies!FetchBegins,
            Copies!FetchEnds
    <2> QED
        BY <2>1, <2>2 DEF Copies!TrashHere
<1>2. [Copies!Next]_(Copies!copies) => [DeleteLocal => file.data = base.data]_vars
    BY <1>1
<1> QED
    BY TwoCopiesKept, <1>2, PTL DEF KeepsTwoCopies, Copies!Spec, DeletesOnlyBase

\* A download over a local edit is for a version the edit did not start from: in
\* TwoCopies a transfer begins only for one that was seen and is not the common one.
THEOREM EditsSurvive == ASSUME Calm PROVE Spec => EditLostOnlyInConflict
<1>1. ASSUME [Copies!Next]_(Copies!copies), DownloadStart, Unsaved PROVE res.etag # base.etag
    <2>1. /\ AtWork /\ AtWork' /\ file'.data = Truncated
          /\ file.data \in Content /\ Truncated \notin Content \cup {Nothing}
        BY <1>1, ContentAssumption DEF DownloadStart, Self, AtWork, Unsaved
    <2>2. Copies!FetchBegins
        BY <1>1, <2>1 DEF Copies!Next, Copies!copies, Copies!User, Copies!Others, Copies!Turn,
            Copies!Look, Copies!Agree, Copies!Push, Copies!TrashThere, Copies!TrashHere,
            Copies!FetchEnds
    <2> QED
        BY <2>2 DEF Copies!FetchBegins
<1>2. [Copies!Next]_(Copies!copies) => [DownloadStart /\ Unsaved => res.etag # base.etag]_vars
    BY <1>1
<1> QED
    BY TwoCopiesKept, <1>2, PTL DEF KeepsTwoCopies, Copies!Spec, EditLostOnlyInConflict
=============================================================================
