--------------------------- MODULE ListingProofs ---------------------------
(***************************************************************************)
(* Theorems about Listing, for any number of names, contents and runs, any  *)
(* kinds of files on the server, any changes of the user, of the other      *)
(* clients and of .griveignore, and any faults; and what is run beside      *)
(* Listing: the rules, the dates, and the tree of ResourceTreeProofs.       *)
(***************************************************************************)
EXTENDS MCListing, FiniteSetTheorems, SequenceTheorems, WellFoundedInduction, TLAPS

-----------------------------------------------------------------------------
(* The inductive invariant.                                                *)

Contents == Content \cup {Nothing}

\* The server: ids and entity tags are numbers of versions that were made, and no
\* two files have one id.
ServerInv ==
    /\ rev \in Nat
    /\ remote \subseteq Entries /\ IsFiniteSet(remote)
    /\ \A e \in remote : e.id \in 1..rev /\ e.etag \in 0..rev
    /\ \A e, f \in remote : e.id = f.id => e = f

\* The disk, and the index on it: its times are those of files that were settled.
DiskInv ==
    /\ local \in [Names -> [data: Contents, ctime: 0..2]]
    /\ index \in [Names -> Records] /\ \A n \in Names : index[n].ctime \in {0, NoTime}
    /\ rule \subseteq Names
    /\ left \in [{"user", "others", "rules", "faults"} -> Nat]

\* What a run has in memory, and what is left of it between two runs.
MemoryInv ==
    /\ pc \in {"idle", "listing", "syncing"}
    /\ opt \in {"normal", "dir"} /\ ign \subseteq Names
    /\ st \in [Names -> Records]
    /\ res \in [Names -> Resources] /\ id \in [Names -> Nat]
    /\ todo \subseteq 1..rev /\ more \in BOOLEAN /\ agenda \subseteq Names
    /\ had \subseteq Content /\ steady \subseteq 1..rev
    /\ mixed \subseteq Names /\ hidden \subseteq Names
    /\ pc = "idle" => ign = {} /\ \A n \in Names : id[n] = 0 /\ res[n] = NewResource

\* What is ignored has no resource, and its record is not touched.
IgnoreInv ==
    \A n \in ign : res[n].state = "unknown" /\ st[n] = index[n] /\ n \notin agenda

\* A resource has the file that was listed last: its id, and, as long as nobody
\* makes another version, its content.
ListedInv ==
    \A n \in Names :
        /\ id[n] \in 0..rev /\ res[n].etag \in 0..rev
        /\ id[n] # 0 => res[n].state \notin {"local_new", "remote_deleted"}
        /\ \A e \in remote : e.id = id[n] =>
            /\ e.name = n
            /\ e.etag = res[n].etag => e.data = res[n].md5

\* A file that is there from the beginning is still to be listed, or its name has a
\* file.
PagesInv ==
    /\ pc = "syncing" => ~more
    /\ ~more => todo = {}
    /\ \A e \in Listed : e.id \in steady /\ Matched(e) => e.id \in todo \/ id[e.name] # 0

\* What is to be sent is on the disk.
HereInv ==
    \A n \in Names :
        /\ res[n].state \in {"local_new", "local_changed"} => res[n].exists
        /\ (pc = "listing" \/ n \in agenda) /\ res[n].exists => Here(n)
        /\ n \in agenda => pc = "syncing" /\ res[n].state # "unknown"

\* What a name that was not mixed up has been given a checksum of was on both sides.
Knows(n) ==
    /\ index[n].md5 \in had \cup {Nothing} /\ st[n].md5 \in had \cup {Nothing}
    /\ res[n].state \in {"sync", "local_deleted"} => res[n].md5 \in had
    /\ pc = "listing" /\ id[n] = 0 =>
        /\ res[n].state \in {"unknown", "local_new", "remote_deleted", "both_deleted"}
        /\ ~res[n].bad
        /\ IF res[n].exists
           THEN /\ res[n].md5 \in had \cup {Nothing, local[n].data}
                /\ res[n].state \in {"local_new", "remote_deleted"}
           ELSE res[n].md5 \in had \cup {Nothing}

KnownInv == \A n \in Names \ mixed : Knows(n)

Inv ==
    /\ ServerInv /\ DiskInv /\ MemoryInv /\ IgnoreInv
    /\ ListedInv /\ PagesInv /\ HereInv /\ KnownInv

-----------------------------------------------------------------------------
(* What the operators of Resource answer.                                  *)

LEMMA Distinct ==
    /\ Nothing \notin Content
    /\ Contents \subseteq Checksums
    /\ \A d \in Content : MD5(d) = d
    /\ MD5(Nothing) = Nothing
    /\ \A d \in Contents : SizeOf(d) \in Nat
BY ContentAssumption DEF Contents, Checksums, Data, MD5, SizeOf

LEMMA NewIs == NoRecord \in Records /\ NewResource \in Resources
BY DEF NoRecord, Records, NewResource, Resources, Checksums, States, NoTime, NoETag

LEMMA KnownIs ==
    ASSUME DiskInv, NEW n \in Names, NEW o
    PROVE  /\ Known(o, n) \in Records /\ Item(Known(o, n)) \in Records
           /\ Known(o, n).md5 = index[n].md5 /\ Item(Known(o, n)).md5 = index[n].md5
BY DEF DiskInv, Known, Item, Records

LEMMA FromLocalIs ==
    ASSUME NEW file \in [data: Content, ctime: 0..2], NEW rec \in Records
    PROVE  LET r == FromLocal(file, rec)
           IN  /\ r \in Resources
               /\ r.state \in {"local_new", "remote_deleted"}
               /\ r.exists /\ ~r.bad /\ r.etag = 0
               /\ r.md5 \in {Nothing, rec.md5, file.data}
<1>1. /\ SizeOf(file.data) \in Nat /\ file.ctime \in Nat
      /\ MD5(file.data) = file.data /\ file.data \in Checksums
  BY Distinct DEF Contents
<1>2. rec.md5 \in Checksums /\ rec.srv \in Nat /\ Nothing \in Checksums
  BY DEF Records, Checksums
<1> QED
  BY <1>1, <1>2 DEF FromLocal, Resources, States, NoETag

LEMMA FromDeletedIs ==
    ASSUME NEW rec \in Records
    PROVE  LET r == FromDeleted(rec)
           IN  /\ r \in Resources
               /\ r.state = "both_deleted" /\ ~r.exists /\ ~r.bad /\ r.etag = 0
               /\ r.md5 = rec.md5
BY DEF FromDeleted, NewResource, Resources, Records, States, NoTime, NoETag

\* The verdicts; the checksum and the entity tag are those of the entry.
LEMMA FromRemoteIs ==
    ASSUME NEW r \in Resources, NEW e \in Entries, NEW d \in Contents
    PROVE  LET q == FromRemote(r, e, "sync", d)
           IN  /\ q \in Resources
               /\ q.exists = r.exists /\ q.md5 = e.data /\ q.etag = e.etag
               /\ q.state = RemoteState(r, e, "sync", d)
               /\ q.state \in {"sync", "remote_new", "local_deleted", "remote_changed",
                               "local_changed"}
                      \cup ({r.state} \ {"local_new", "remote_deleted"})
<1>1. e.data \in Content /\ e.mtime \in Nat /\ e.etag \in Nat /\ SizeOf(e.data) \in Nat
  BY Distinct DEF Entries, Contents
<1>2. RemoteState(r, e, "sync", d) \in
          {"sync", "remote_new", "local_deleted", "remote_changed", "local_changed"}
              \cup ({r.state} \ {"local_new", "remote_deleted"})
  BY DEF RemoteState, Recursive
<1>3. RemoteState(r, e, "sync", d) \in States
  BY <1>2 DEF Resources, States
<1>4. RemoteSize(r, e, "sync", d) \in Nat
  BY <1>1 DEF RemoteSize, Resources
<1>5. e.data \in Checksums
  BY <1>1, Distinct DEF Contents
<1> QED
  BY <1>1, <1>2, <1>3, <1>4, <1>5 DEF FromRemote, Resources

\* Only what is on the disk can have been changed there.
LEMMA VerdictIsHere ==
    ASSUME NEW r \in Resources, NEW e \in Entries, NEW d \in Contents,
           r.state \in {"local_new", "local_changed"} => r.exists,
           RemoteState(r, e, "sync", d) \in {"local_new", "local_changed"}
    PROVE  r.exists
BY DEF RemoteState, Recursive, Resources

\* A resource of which nothing was listed yet: the verdict that nothing has to be
\* done, and that the user deleted the file, is about a content that was known.
LEMMA VerdictKnows ==
    ASSUME NEW r \in Resources, NEW e \in Entries, NEW d \in Contents, ~r.bad,
           r.exists => d # Nothing /\ r.state \in {"local_new", "remote_deleted"},
           RemoteState(r, e, "sync", d) \in {"sync", "local_deleted"}
    PROVE  e.data = r.md5 \/ (r.exists /\ e.data = d)
<1>1. CASE ~r.exists
  BY <1>1 DEF RemoteState, Recursive, Resources, Entries
<1>2. CASE r.exists
  <2>1. ~DiffersFrom(r, e, d)
    BY <1>2 DEF RemoteState, Recursive
  <2>2. MD5(d) = d
    BY <1>2, Distinct DEF Contents
  <2> QED
    BY <1>2, <2>1, <2>2 DEF DiffersFrom, GetMD5
<1> QED
  BY <1>1, <1>2

\* The record that is written.
LEMMA RecordIs ==
    ASSUME NEW rec \in Records, NEW r \in Resources, NEW t \in Nat
    PROVE  /\ SetIndex(rec, r, t) \in Records /\ SetIndex(rec, r, t).md5 = r.md5
           /\ SetSrvTime(rec, r) \in Records /\ SetSrvTime(rec, r).md5 = rec.md5
<1>1. r.md5 \in Checksums /\ r.size \in Nat /\ r.mtime \in Nat
  BY DEF Resources
<1> QED
  BY <1>1 DEF SetIndex, SetSrvTime, Records

-----------------------------------------------------------------------------
(* The server and the disk.                                                *)

LEMMA FileMade ==
    ASSUME Inv, NEW e \in Entries, e.id = rev + 1, e.etag = rev + 1,
           remote' = remote \cup {e}, rev' = rev + 1
    PROVE  ServerInv'
<1>1. IsFiniteSet(remote')
  BY FS_AddElement DEF Inv, ServerInv
<1> QED
  BY <1>1 DEF Inv, ServerInv

LEMMA FileChanged ==
    ASSUME Inv, NEW e \in remote, NEW f \in Entries, f.id = e.id, f.etag = rev + 1,
           remote' = (remote \ {e}) \cup {f}, rev' = rev + 1
    PROVE  ServerInv'
<1>1. IsFiniteSet(remote')
  BY FS_AddElement, FS_RemoveElement DEF Inv, ServerInv
<1> QED
  BY <1>1 DEF Inv, ServerInv

LEMMA FilesGone ==
    ASSUME Inv, remote' \subseteq remote, rev' = rev PROVE ServerInv'
<1>1. IsFiniteSet(remote')
  BY FS_Subset DEF Inv, ServerInv
<1> QED
  BY <1>1 DEF Inv, ServerInv

\* What is sent is a content.
LEMMA SentIsContent ==
    ASSUME Inv, NEW n \in Names, Self(n, {"local_new", "local_changed"})
    PROVE  local[n].data \in Content /\ Here(n) /\ res[n].exists
BY DEF Inv, Self, HereInv, Here, DiskInv, Contents

LEMMA ServerStep == ASSUME Inv, [Next]_vars PROVE ServerInv'
<1>1. ASSUME NEW n \in Names, RemoteCreate(n) PROVE ServerInv'
  <2>1. PICK d \in ContentOf[n], k \in Kinds :
            remote' = remote \cup {[id |-> rev + 1, name |-> n, kind |-> k, data |-> d,
                                    mtime |-> rev + 1, etag |-> rev + 1, trashed |-> FALSE]}
    BY <1>1 DEF RemoteCreate
  <2>2. d \in Content /\ rev + 1 \in Nat /\ rev' = rev + 1
    BY <1>1, ListingAssumption DEF RemoteCreate, Inv, ServerInv
  <2> QED
    BY <2>1, <2>2, FileMade DEF Entries
<1>2. ASSUME NEW e \in Listed, RemoteEdit(e) PROVE ServerInv'
  <2>1. PICK d \in ContentOf[e.name] \ {e.data} :
            remote' = (remote \ {e}) \cup
                {[e EXCEPT !.data = d, !.mtime = rev + 1, !.etag = rev + 1]}
    BY <1>2 DEF RemoteEdit
  <2>2. e \in remote /\ e \in Entries /\ rev + 1 \in Nat /\ rev' = rev + 1
    BY <1>2 DEF RemoteEdit, Inv, ServerInv, Listed
  <2>3. d \in Content
    BY <2>2, ListingAssumption DEF Entries
  <2>4. [e EXCEPT !.data = d, !.mtime = rev + 1, !.etag = rev + 1] \in Entries
    BY <2>2, <2>3 DEF Entries
  <2>5. /\ [e EXCEPT !.data = d, !.mtime = rev + 1, !.etag = rev + 1].id = e.id
        /\ [e EXCEPT !.data = d, !.mtime = rev + 1, !.etag = rev + 1].etag = rev + 1
    BY <2>2 DEF Entries
  <2> QED
    BY <2>1, <2>2, <2>4, <2>5, FileChanged
<1>3. ASSUME NEW e \in Listed, RemoteTrash(e) PROVE ServerInv'
  <2>1. e \in remote /\ e \in Entries /\ rev + 1 \in Nat /\ rev' = rev + 1
    BY <1>3 DEF RemoteTrash, Inv, ServerInv, Listed
  <2>2. /\ [e EXCEPT !.trashed = TRUE, !.etag = rev + 1] \in Entries
        /\ [e EXCEPT !.trashed = TRUE, !.etag = rev + 1].id = e.id
        /\ [e EXCEPT !.trashed = TRUE, !.etag = rev + 1].etag = rev + 1
    BY <2>1 DEF Entries
  <2> QED
    BY <1>3, <2>1, <2>2, FileChanged DEF RemoteTrash
<1>4. ASSUME NEW n \in Names, Create(n) PROVE ServerInv'
  <2>1. local[n].data \in Content /\ rev + 1 \in Nat /\ rev' = rev + 1
    BY <1>4, SentIsContent DEF Create, Self, Inv, ServerInv
  <2> DEFINE e == [id |-> rev + 1, name |-> n, kind |-> "file", data |-> local[n].data,
                   mtime |-> rev + 1, etag |-> rev + 1, trashed |-> FALSE]
  <2>2. e \in Entries /\ e.id = rev + 1 /\ e.etag = rev + 1
    BY <2>1, ListingAssumption DEF Entries
  <2>3. remote' = remote \cup {e}
    BY <1>4 DEF Create
  <2> HIDE DEF e
  <2> QED
    BY <2>1, <2>2, <2>3, FileMade
<1>5. ASSUME NEW n \in Names, EditContent(n) PROVE ServerInv'
  <2>1. PICK e \in Target(n) :
            remote' = (remote \ {e}) \cup
                {[e EXCEPT !.data = local[n].data, !.mtime = rev + 1, !.etag = rev + 1]}
    BY <1>5 DEF EditContent
  <2>2. e \in remote /\ e \in Entries /\ rev + 1 \in Nat /\ rev' = rev + 1
    BY <1>5 DEF EditContent, Inv, ServerInv, Target, Listed
  <2>3. local[n].data \in Content
    BY <1>5, SentIsContent DEF EditContent, Self
  <2> DEFINE f == [e EXCEPT !.data = local[n].data, !.mtime = rev + 1, !.etag = rev + 1]
  <2>4. f \in Entries /\ f.id = e.id /\ f.etag = rev + 1
    BY <2>2, <2>3 DEF Entries
  <2> HIDE DEF f
  <2>5. remote' = (remote \ {e}) \cup {f}
    BY <2>1 DEF f
  <2> QED
    BY <2>2, <2>4, <2>5, FileChanged
<1>6. ASSUME NEW n \in Names, DeleteRemote(n) PROVE ServerInv'
  BY <1>6, FilesGone DEF DeleteRemote
<1>7. ASSUME NEW rec, ExitWith(rec) PROVE ServerInv'
  BY <1>7, FilesGone DEF ExitWith, Listed
<1>8. CASE UNCHANGED <<remote, rev>>
  BY <1>8, FilesGone
<1>9. CASE SaveState \/ StampFails \/ ListingFails
  BY <1>7, <1>9 DEF SaveState, StampFails, ListingFails
<1>10. ASSUME NEW n \in Names, SyncSelf(n) PROVE ServerInv'
  BY <1>4, <1>5, <1>6, <1>8, <1>10
     DEF SyncSelf, Refused, Caught, env, Download, DeleteLocal, BothDeleted, AlreadySync
<1>11. CASE \/ \E n \in Names : LocalWrite(n) \/ LocalDelete(n)
            \/ ChangeRule \/ (\E o \in Options : Scan(o)) \/ (\E page : GetNext(page))
            \/ StartSync \/ UNCHANGED vars
  BY <1>8, <1>11 DEF LocalWrite, LocalDelete, ChangeRule, Scan, GetNext, StartSync, env, vars
<1> QED
  BY <1>1, <1>2, <1>3, <1>9, <1>10, <1>11 DEF Next, Environment, RunStep

\* The index that is written has the settled times of its records.
LEMMA SettledIs ==
    ASSUME Inv, NEW rec, rec \in {st, index}, ExitWith(rec)
    PROVE  /\ index' \in [Names -> Records]
           /\ \A n \in Names : /\ index'[n].ctime \in {0, NoTime}
                               /\ index'[n].md5 = rec[n].md5
<1>1. rec \in [Names -> Records]
  BY DEF Inv, DiskInv, MemoryInv
<1>2. ASSUME NEW n \in Names
      PROVE  /\ [rec[n] EXCEPT !.ctime = IF @ = NoTime THEN NoTime ELSE 0] \in Records
             /\ [rec[n] EXCEPT !.ctime = IF @ = NoTime THEN NoTime ELSE 0].ctime \in {0, NoTime}
             /\ [rec[n] EXCEPT !.ctime = IF @ = NoTime THEN NoTime ELSE 0].md5 = rec[n].md5
  BY <1>1 DEF Records, NoTime
<1> QED
  BY <1>2 DEF ExitWith

LEMMA DiskStep == ASSUME Inv, [Next]_vars PROVE DiskInv'
<1> USE DEF Inv
<1>0. NoFile \in [data: Contents, ctime: 0..2] /\ Content \subseteq Contents
  BY DEF NoFile, Contents
<1>1. ASSUME NEW n \in Names, LocalWrite(n) PROVE DiskInv'
  <2>1. PICK d \in ContentOf[n] : local' = [local EXCEPT ![n] = [data |-> d, ctime |-> 1]]
    BY <1>1 DEF LocalWrite
  <2>2. d \in Contents
    BY <1>0, ListingAssumption
  <2>3. left' \in [{"user", "others", "rules", "faults"} -> Nat]
    BY <1>1 DEF LocalWrite, Acts, DiskInv
  <2> QED
    BY <1>1, <2>1, <2>2, <2>3 DEF LocalWrite, DiskInv
<1>2. ASSUME NEW n \in Names, LocalDelete(n) PROVE DiskInv'
  BY <1>0, <1>2 DEF LocalDelete, Acts, DiskInv
<1>3. CASE ChangeRule
  BY <1>3 DEF ChangeRule, Acts, DiskInv
<1>4. ASSUME NEW n \in Names, RemoteCreate(n) PROVE DiskInv'
  BY <1>4 DEF RemoteCreate, Acts, DiskInv
<1>5. ASSUME NEW e \in Listed, RemoteEdit(e) \/ RemoteTrash(e) PROVE DiskInv'
  <2>1. UNCHANGED <<local, rule, index>> /\ Acts("others")
    BY <1>5 DEF RemoteEdit, RemoteTrash
  <2> QED
    BY <2>1 DEF Acts, DiskInv
<1>6. ASSUME NEW n \in Names, Download(n) PROVE DiskInv'
  <2>1. PICK e \in remote : local' = [local EXCEPT ![n] = [data |-> e.data, ctime |-> 2]]
    BY <1>6 DEF Download
  <2>2. e.data \in Contents
    BY <1>0 DEF ServerInv, Entries
  <2> QED
    BY <1>6, <2>1, <2>2 DEF Download, Synced, DiskInv
<1>7. ASSUME NEW n \in Names, DeleteLocal(n) PROVE DiskInv'
  BY <1>0, <1>7 DEF DeleteLocal, Synced, DiskInv
<1>8. ASSUME NEW n \in Names,
             Create(n) \/ EditContent(n) \/ DeleteRemote(n) \/ Refused(n)
                 \/ BothDeleted(n) \/ AlreadySync(n)
      PROVE  DiskInv'
  BY <1>8 DEF Create, EditContent, DeleteRemote, Refused, BothDeleted, AlreadySync,
              Stored, Synced, Caught, env, DiskInv
<1>9. ASSUME NEW rec, rec \in {st, index}, ExitWith(rec),
             left' \in [{"user", "others", "rules", "faults"} -> Nat]
      PROVE  DiskInv'
  <2>1. ASSUME NEW n \in Names
        PROVE  /\ [local[n] EXCEPT !.ctime = 1] \in [data: Contents, ctime: 0..2]
               /\ [local[n] EXCEPT !.ctime = 0] \in [data: Contents, ctime: 0..2]
    BY DEF DiskInv
  <2>2. local' \in [Names -> [data: Contents, ctime: 0..2]]
    BY <1>9, <2>1 DEF ExitWith
  <2> QED
    BY <1>9, <2>2, SettledIs DEF ExitWith, DiskInv
<1>10. CASE SaveState \/ StampFails \/ ListingFails
  <2>1. left' \in [{"user", "others", "rules", "faults"} -> Nat]
    BY <1>10 DEF SaveState, StampFails, ListingFails, Acts, DiskInv
  <2> QED
    BY <1>9, <1>10, <2>1 DEF SaveState, StampFails, ListingFails
<1>11. CASE \/ \E o \in Options : Scan(o)
            \/ \E page : GetNext(page)
            \/ StartSync \/ UNCHANGED vars
  BY <1>11 DEF Scan, GetNext, StartSync, env, vars, DiskInv
<1>12. ASSUME NEW n \in Names, SyncSelf(n) PROVE DiskInv'
  BY <1>6, <1>7, <1>8, <1>12 DEF SyncSelf
<1> QED
  BY <1>1, <1>2, <1>3, <1>4, <1>5, <1>10, <1>11, <1>12 DEF Next, Environment, RunStep

-----------------------------------------------------------------------------
(* The memory of a run.                                                    *)

\* The resources and the records that a scan makes: those of the files on the disk,
\* of what the index has left, and of the other names.
LEMMA ScanIs ==
    ASSUME Inv, NEW o \in Options, Scan(o), NEW n \in Names
    PROVE  /\ res'[n] \in Resources /\ st'[n] \in Records
           /\ res'[n].etag = 0 /\ ~res'[n].bad
           /\ st'[n].md5 = index[n].md5
           /\ n \in ign' => res'[n].state = "unknown" /\ st'[n] = index[n]
           /\ IF res'[n].exists
              THEN /\ Here(n) /\ res'[n].state \in {"local_new", "remote_deleted"}
                   /\ res'[n].md5 \in {Nothing, index[n].md5, local[n].data}
              ELSE /\ res'[n].state \in {"unknown", "both_deleted"}
                   /\ res'[n].md5 \in {Nothing, index[n].md5}
<1>1. DiskInv /\ index[n] \in Records
  BY DEF Inv, DiskInv
<1>2. /\ Known(o, n) \in Records /\ Item(Known(o, n)) \in Records
      /\ Known(o, n).md5 = index[n].md5 /\ Item(Known(o, n)).md5 = index[n].md5
  BY <1>1, KnownIs
<1>3. CASE Here(n) /\ n \notin Rules(o)
  <2>1. res'[n] = FromLocal(local[n], Item(Known(o, n))) /\ st'[n] = Item(Known(o, n))
    BY <1>3 DEF Scan
  <2>2. local[n] \in [data: Content, ctime: 0..2]
    BY <1>1, <1>3 DEF DiskInv, Contents, Here
  <2> QED
    BY <1>2, <1>3, <2>1, <2>2, FromLocalIs DEF Scan
<1>4. CASE Leftover(o, n)
  <2>1. res'[n] = FromDeleted(Known(o, n)) /\ st'[n] = Known(o, n)
    BY <1>4 DEF Scan, Leftover
  <2> QED
    BY <1>2, <1>4, <2>1, FromDeletedIs DEF Scan, Leftover
<1>5. CASE ~(Here(n) /\ n \notin Rules(o)) /\ ~Leftover(o, n)
  <2>1. res'[n] = NewResource /\ st'[n] = index[n]
    BY <1>5 DEF Scan
  <2> QED
    BY <1>1, <2>1, NewIs DEF NewResource, NoETag
<1> QED
  BY <1>3, <1>4, <1>5

\* What is uploaded leaves its content in the resource and in the record.
LEMMA StoredIs ==
    ASSUME Inv, NEW n \in Names, Self(n, {"local_new", "local_changed"}), Stored(n)
    PROVE  /\ res' \in [Names -> Resources] /\ st' \in [Names -> Records]
           /\ \A m \in Names \ {n} : res'[m] = res[m] /\ st'[m] = st[m]
           /\ res'[n].state = "sync" /\ res'[n].exists = res[n].exists
           /\ res'[n].md5 = local[n].data /\ res'[n].etag = rev + 1
           /\ st'[n].md5 = local[n].data
<1> DEFINE r == [res[n] EXCEPT !.state = "sync", !.md5 = local[n].data,
                               !.etag = rev + 1, !.mtime = rev + 1]
<1>1. local[n].data \in Checksums /\ rev + 1 \in Nat
  BY SentIsContent, Distinct DEF Inv, ServerInv, Contents
<1>2. res[n] \in Resources /\ st[n] \in Records
  BY DEF Inv, MemoryInv
<1>3. /\ r \in Resources /\ r.state = "sync" /\ r.exists = res[n].exists
      /\ r.md5 = local[n].data /\ r.etag = rev + 1 /\ r.ctime \in Nat
  BY <1>1, <1>2 DEF Resources, States
<1>4. res' = [res EXCEPT ![n] = r]
      /\ st' = [st EXCEPT ![n] = SetSrvTime(SetIndex(st[n], r, r.ctime), r)]
  BY DEF Stored, Synced
<1> HIDE DEF r
<1>5. SetSrvTime(SetIndex(st[n], r, r.ctime), r) \in Records
      /\ SetSrvTime(SetIndex(st[n], r, r.ctime), r).md5 = local[n].data
  <2>1. SetIndex(st[n], r, r.ctime) \in Records
        /\ SetIndex(st[n], r, r.ctime).md5 = local[n].data
    BY <1>2, <1>3, RecordIs
  <2> QED
    BY <1>3, <2>1, RecordIs
<1>6. res \in [Names -> Resources] /\ st \in [Names -> Records]
  BY DEF Inv, MemoryInv
<1> QED
  BY <1>3, <1>4, <1>5, <1>6

\* A download leaves the checksum that was listed.
LEMMA DownloadedIs ==
    ASSUME Inv, NEW n \in Names, Download(n)
    PROVE  /\ res' \in [Names -> Resources] /\ st' \in [Names -> Records]
           /\ \A m \in Names \ {n} : res'[m] = res[m] /\ st'[m] = st[m]
           /\ res'[n].state = "sync" /\ res'[n].exists = res[n].exists
           /\ res'[n].md5 = res[n].md5 /\ res'[n].etag = res[n].etag
           /\ st'[n].md5 = res[n].md5
<1> DEFINE r == [res[n] EXCEPT !.state = "sync", !.ctime = 2]
<1>2. res[n] \in Resources /\ st[n] \in Records
  BY DEF Inv, MemoryInv
<1>3. /\ r \in Resources /\ r.state = "sync" /\ r.exists = res[n].exists
      /\ r.md5 = res[n].md5 /\ r.etag = res[n].etag
  BY <1>2 DEF Resources, States
<1>4. res' = [res EXCEPT ![n] = r]
      /\ st' = [st EXCEPT ![n] = SetSrvTime(SetIndex(st[n], r, 2), r)]
  BY DEF Download, Synced
<1> HIDE DEF r
<1>5. SetSrvTime(SetIndex(st[n], r, 2), r) \in Records
      /\ SetSrvTime(SetIndex(st[n], r, 2), r).md5 = res[n].md5
  BY <1>2, <1>3, RecordIs
<1> QED
  BY <1>3, <1>4, <1>5 DEF Inv, MemoryInv

\* The other names keep their resources, and this one its own; its record is new,
\* gone, or as it was.
LEMMA KeptIs ==
    ASSUME Inv, NEW n \in Names,
           DeleteRemote(n) \/ Refused(n) \/ DeleteLocal(n) \/ BothDeleted(n) \/ AlreadySync(n)
    PROVE  /\ res' = res /\ st' \in [Names -> Records]
           /\ \A m \in Names \ {n} : st'[m] = st[m]
           /\ \/ st'[n] = st[n]
              \/ st'[n].md5 = Nothing
              \/ st'[n].md5 = res[n].md5 /\ res[n].state = "sync"
<1>1. res[n] \in Resources /\ st[n] \in Records /\ res \in [Names -> Resources]
      /\ st \in [Names -> Records]
  BY DEF Inv, MemoryInv
<1>2. [res EXCEPT ![n] = res[n]] = res /\ res[n].ctime \in Nat
  BY <1>1 DEF Resources
<1>3. CASE Refused(n)
  BY <1>1, <1>3 DEF Refused, Caught
<1>4. CASE AlreadySync(n)
  <2>1. res' = res
        /\ st' = [st EXCEPT ![n] = SetSrvTime(SetIndex(st[n], res[n], res[n].ctime), res[n])]
        /\ res[n].state = "sync"
    BY <1>2, <1>4 DEF AlreadySync, Synced, Self
  <2>2. SetSrvTime(SetIndex(st[n], res[n], res[n].ctime), res[n]) \in Records
        /\ SetSrvTime(SetIndex(st[n], res[n], res[n].ctime), res[n]).md5 = res[n].md5
    BY <1>1, <1>2, RecordIs
  <2> QED
    BY <1>1, <2>1, <2>2
<1>5. CASE DeleteRemote(n) \/ DeleteLocal(n) \/ BothDeleted(n)
  <2>1. res' = res /\ st' = [st EXCEPT ![n] = SetSrvTime(NoRecord, res[n])]
    BY <1>2, <1>5 DEF DeleteRemote, DeleteLocal, BothDeleted, Synced
  <2>2. SetSrvTime(NoRecord, res[n]) \in Records /\ SetSrvTime(NoRecord, res[n]).md5 = Nothing
    BY <1>1, NewIs DEF SetSrvTime, NoRecord
  <2> QED
    BY <1>1, <2>1, <2>2
<1> QED
  BY <1>3, <1>4, <1>5

\* All the steps of SyncSelf: only the name that is synchronised leaves the agenda.
LEMMA SelfIs ==
    ASSUME Inv, NEW n \in Names, SyncSelf(n)
    PROVE  /\ pc = "syncing" /\ n \in agenda /\ n \notin ign
           /\ agenda' = agenda \ {n}
           /\ rev' \in Nat /\ rev <= rev'
           /\ res' \in [Names -> Resources] /\ st' \in [Names -> Records]
           /\ \A m \in Names \ {n} : res'[m] = res[m] /\ st'[m] = st[m]
                                     /\ local'[m] = local[m]
           /\ res'[n].state \in {"sync", res[n].state} /\ res'[n].exists = res[n].exists
           /\ UNCHANGED <<rule, left, index, pc, opt, ign, id, todo, more, steady>>
<1>1. rev \in Nat /\ local \in [Names -> [data: Contents, ctime: 0..2]]
      /\ (n \in agenda => n \notin ign)
  BY DEF Inv, ServerInv, DiskInv, IgnoreInv
<1>2. CASE Create(n) \/ EditContent(n)
  <2>1. Self(n, {"local_new", "local_changed"}) /\ Stored(n)
    BY <1>2 DEF Create, EditContent, Self
  <2>2. pc = "syncing" /\ n \in agenda /\ rev' = rev + 1 /\ UNCHANGED local
    BY <1>2 DEF Create, EditContent, Self
  <2>3. /\ agenda' = agenda \ {n}
        /\ UNCHANGED <<rule, left, index, pc, opt, ign, id, todo, more, steady>>
    BY <2>1 DEF Stored, Synced
  <2>4. /\ res' \in [Names -> Resources] /\ st' \in [Names -> Records]
        /\ \A m \in Names \ {n} : res'[m] = res[m] /\ st'[m] = st[m]
        /\ res'[n].state = "sync" /\ res'[n].exists = res[n].exists
    BY <2>1, StoredIs
  <2> QED
    BY <1>1, <2>2, <2>3, <2>4
<1>3. CASE Download(n)
  <2>1. pc = "syncing" /\ n \in agenda /\ rev' = rev /\ agenda' = agenda \ {n}
        /\ UNCHANGED <<rule, left, index, pc, opt, ign, id, todo, more, steady>>
    BY <1>3 DEF Download, Self, Synced
  <2>2. /\ res' \in [Names -> Resources] /\ st' \in [Names -> Records]
        /\ \A m \in Names \ {n} : res'[m] = res[m] /\ st'[m] = st[m]
        /\ res'[n].state = "sync" /\ res'[n].exists = res[n].exists
    BY <1>3, DownloadedIs
  <2>3. \A m \in Names \ {n} : local'[m] = local[m]
    BY <1>1, <1>3 DEF Download
  <2> QED
    BY <1>1, <2>1, <2>2, <2>3
<1>4. CASE DeleteRemote(n) \/ Refused(n) \/ DeleteLocal(n) \/ BothDeleted(n) \/ AlreadySync(n)
  <2>1. /\ res' = res /\ st' \in [Names -> Records]
        /\ \A m \in Names \ {n} : st'[m] = st[m]
    BY <1>4, KeptIs
  <2>2. res \in [Names -> Resources]
    BY DEF Inv, MemoryInv
  <2>3. pc = "syncing" /\ n \in agenda /\ rev' = rev /\ agenda' = agenda \ {n}
        /\ UNCHANGED <<rule, left, index, pc, opt, ign, id, todo, more, steady>>
    BY <1>4 DEF DeleteRemote, Refused, DeleteLocal, BothDeleted, AlreadySync, Self,
                Synced, Caught, env, mem, past
  <2>4. \A m \in Names \ {n} : local'[m] = local[m]
    BY <1>1, <1>4 DEF DeleteRemote, Refused, DeleteLocal, BothDeleted, AlreadySync,
                      Caught, env
  <2> QED
    BY <1>1, <2>1, <2>2, <2>3, <2>4
<1> QED
  BY <1>2, <1>3, <1>4 DEF SyncSelf

\* A listed file gets its resource.
LEMMA ListedIs ==
    ASSUME Inv, NEW page, GetNext(page), NEW e \in Listed, page = {e.id}, Matched(e), Update(e)
    PROVE  /\ e \in remote /\ e \in Entries /\ e.name \in Names /\ e.name \notin ign
           /\ res' = [res EXCEPT ![e.name] =
                         FromRemote(res[e.name], e, "sync", local[e.name].data)]
           /\ res[e.name] \in Resources /\ local[e.name].data \in Contents
           /\ res' \in [Names -> Resources]
           /\ id' = [id EXCEPT ![e.name] = e.id] /\ id' \in [Names -> Nat]
           /\ had' \subseteq Content /\ had \subseteq had'
           /\ mixed' \subseteq Names /\ mixed \subseteq mixed'
<1>1. e \in remote /\ e \in Entries /\ e.name \in Names /\ e.name \notin ign
      /\ e.data \in Content /\ e.id \in Nat
  BY DEF Listed, Inv, ServerInv, Entries, Matched
<1>2. res[e.name] \in Resources /\ local[e.name].data \in Contents
  BY <1>1 DEF Inv, MemoryInv, DiskInv
<1>3. FromRemote(res[e.name], e, "sync", local[e.name].data) \in Resources
  BY <1>1, <1>2, FromRemoteIs
<1>4. res \in [Names -> Resources] /\ id \in [Names -> Nat] /\ had \subseteq Content
      /\ mixed \subseteq Names
  BY DEF Inv, MemoryInv
<1> QED
  BY <1>1, <1>2, <1>3, <1>4 DEF Update

-----------------------------------------------------------------------------
(* The steps preserve the rest of the invariant.                           *)

\* A run that ends leaves nothing in memory.
LEMMA EndIs ==
    ASSUME Inv, NEW rec, ExitWith(rec)
    PROVE  /\ pc' = "idle" /\ opt' = "normal" /\ ign' = {} /\ todo' = {} /\ more' = FALSE
           /\ agenda' = {} /\ steady' = {}
           /\ st' \in [Names -> Records] /\ res' \in [Names -> Resources]
           /\ id' \in [Names -> Nat]
           /\ \A n \in Names : st'[n] = NoRecord /\ res'[n] = NewResource /\ id'[n] = 0
           /\ UNCHANGED <<rev, rule, had, mixed, hidden>>
BY NewIs DEF ExitWith, NoRun

\* What the user and the other clients do touches nothing that a run has in memory,
\* but what is still to come.
LEMMA OthersAre ==
    ASSUME Inv, Environment
    PROVE  /\ UNCHANGED <<index, pc, opt, ign, st, res, id, more, agenda, had, mixed>>
           /\ pc \in {"idle", "listing"} /\ rev' \in Nat /\ rev <= rev'
           /\ todo' \subseteq todo \cup 1..rev' /\ (~more => todo' \subseteq todo)
           /\ steady' \subseteq steady /\ hidden' \subseteq Names
           /\ pc = "listing" => UNCHANGED local
<1>1. rev \in Nat /\ hidden \subseteq Names /\ \A e \in Listed : e.id \in 1..rev
  BY DEF Inv, ServerInv, MemoryInv, Listed
<1>2. ASSUME NEW i \in 1..(rev + 1), todo' \in MayCome(i)
      PROVE  todo' \subseteq todo \cup 1..(rev + 1) /\ (~more => todo' \subseteq todo)
  BY <1>2 DEF MayCome
<1>4. CASE ChangeRule \/ \E n \in Names : LocalWrite(n) \/ LocalDelete(n)
  <2>1. /\ UNCHANGED <<index, pc, mem, had, mixed, steady, rev>>
        /\ pc = "idle" /\ hidden' \subseteq Names
    BY <1>1, <1>4 DEF LocalWrite, LocalDelete, ChangeRule, past
  <2> QED
    BY <1>1, <2>1 DEF mem
<1>5. ASSUME NEW n \in Names, RemoteCreate(n) PROVE
             /\ UNCHANGED <<index, pc, opt, ign, st, res, id, more, agenda, past, local>>
             /\ pc \in {"idle", "listing"} /\ rev' = rev + 1 /\ todo' \in MayCome(rev + 1)
  BY <1>5 DEF RemoteCreate
<1>6. ASSUME NEW e \in Listed, RemoteEdit(e) PROVE
             /\ UNCHANGED <<index, pc, opt, ign, st, res, id, more, agenda, past, local>>
             /\ pc \in {"idle", "listing"} /\ rev' = rev + 1 /\ todo' \in MayCome(e.id)
  BY <1>6 DEF RemoteEdit
<1>7. CASE \E n \in Names : RemoteCreate(n)
  BY <1>1, <1>2, <1>5, <1>7 DEF past
<1>8. CASE \E e \in Listed : RemoteEdit(e)
  BY <1>1, <1>2, <1>6, <1>8 DEF past
<1>9. CASE \E e \in Listed : RemoteTrash(e)
  BY <1>1, <1>9 DEF RemoteTrash
<1> QED
  BY <1>4, <1>7, <1>8, <1>9 DEF Environment

LEMMA MemoryStep == ASSUME Inv, [Next]_vars PROVE MemoryInv'
<1> USE DEF Inv
<1>0. rev \in Nat /\ local \in [Names -> [data: Contents, ctime: 0..2]]
      /\ remote \subseteq Entries /\ \A e \in remote : e.id \in 1..rev
  BY DEF ServerInv, DiskInv
<1>1. CASE Environment
  <2>1. \A i \in 1..rev : i \in 1..rev'
    BY <1>0, <1>1, OthersAre
  <2> QED
    BY <1>1, <2>1, OthersAre DEF MemoryInv
<1>2. ASSUME NEW o \in Options, Scan(o) PROVE MemoryInv'
  <2>1. o \in {"normal", "dir"} /\ Rules(o) \subseteq Names
    BY ListingAssumption DEF Rules, DiskInv
  <2>2. res' \in [Names -> Resources] /\ st' \in [Names -> Records]
    <3>1. \A n \in Names : res'[n] \in Resources /\ st'[n] \in Records
      BY <1>2, ScanIs
    <3> QED
      BY <1>2, <3>1 DEF Scan
  <2>3. todo' \subseteq 1..rev /\ steady' \subseteq 1..rev
    BY <1>0, <1>2 DEF Scan, Listed
  <2> QED
    BY <1>2, <2>1, <2>2, <2>3 DEF Scan, MemoryInv, env
<1>3. ASSUME NEW page, GetNext(page) PROVE MemoryInv'
  <2>0. /\ UNCHANGED <<env, index, pc, opt, ign, st, agenda, steady, hidden>>
        /\ todo' \subseteq todo /\ more' \in BOOLEAN /\ pc = "listing"
    BY <1>3 DEF GetNext, NextLink
  <2>1. ASSUME NEW e \in Listed, page = {e.id}, Matched(e), Update(e) PROVE MemoryInv'
    <3>1. /\ res' \in [Names -> Resources] /\ id' \in [Names -> Nat]
          /\ had' \subseteq Content /\ mixed' \subseteq Names
      BY <1>3, <2>1, ListedIs
    <3> QED
      BY <2>0, <3>1 DEF MemoryInv, env
  <2>2. CASE UNCHANGED <<res, id, had, mixed>>
    BY <2>0, <2>2 DEF MemoryInv, env
  <2> QED
    BY <1>3, <2>1, <2>2 DEF GetNext
<1>4. CASE StartSync
  BY <1>4 DEF StartSync, MemoryInv, env, past
<1>5. ASSUME NEW n \in Names, SyncSelf(n) PROVE MemoryInv'
  <2>1. had' \subseteq Content /\ mixed' \subseteq Names /\ hidden' \subseteq Names
    <3>1. CASE Create(n) \/ EditContent(n)
      <4>1. local[n].data \in Content
        BY <3>1, SentIsContent DEF Create, EditContent, Self
      <4> QED
        BY <3>1, <4>1 DEF Create, EditContent, MemoryInv
    <3>2. CASE Download(n)
      <4>1. PICK e \in remote : had' = had \cup {e.data} /\ mixed' \subseteq mixed \cup {n}
        BY <3>2 DEF Download
      <4>2. hidden' \subseteq hidden
        BY <3>2 DEF Download
      <4> QED
        BY <1>0, <4>1, <4>2 DEF MemoryInv, Entries
    <3> QED
      BY <1>5, <3>1, <3>2
         DEF SyncSelf, DeleteRemote, Refused, DeleteLocal, BothDeleted, AlreadySync,
             Caught, past, MemoryInv
  <2>2. \A i \in 1..rev : i \in 1..rev'
    BY <1>0, <1>5, SelfIs
  <2> QED
    BY <1>5, <2>1, <2>2, SelfIs DEF MemoryInv
<1>6. ASSUME NEW rec, ExitWith(rec) PROVE MemoryInv'
  BY <1>6, EndIs DEF MemoryInv
<1>7. CASE UNCHANGED vars
  BY <1>7 DEF vars, mem, past, MemoryInv
<1> QED
  BY <1>1, <1>2, <1>3, <1>4, <1>5, <1>6, <1>7
     DEF Next, RunStep, SaveState, StampFails, ListingFails

LEMMA IgnoreStep == ASSUME Inv, [Next]_vars PROVE IgnoreInv'
<1> USE DEF Inv
<1>1. CASE Environment
  BY <1>1, OthersAre DEF IgnoreInv
<1>2. ASSUME NEW o \in Options, Scan(o) PROVE IgnoreInv'
  <2>1. agenda' = agenda /\ index' = index /\ ign' \subseteq Names /\ pc = "idle"
    BY <1>2, MemoryStep DEF Scan, MemoryInv
  <2>2. agenda = {}
    BY <2>1 DEF HereInv, MemoryInv
  <2> QED
    BY <1>2, <2>1, <2>2, ScanIs DEF IgnoreInv
<1>3. ASSUME NEW page, GetNext(page) PROVE IgnoreInv'
  <2>0. UNCHANGED <<index, ign, st, agenda>>
    BY <1>3 DEF GetNext
  <2>1. ASSUME NEW e \in Listed, page = {e.id}, Matched(e), Update(e) PROVE IgnoreInv'
    <3>1. \A n \in ign : res'[n] = res[n]
      BY <1>3, <2>1, ListedIs DEF MemoryInv
    <3> QED
      BY <2>0, <3>1 DEF IgnoreInv
  <2>2. CASE UNCHANGED <<res, id, had, mixed>>
    BY <2>0, <2>2 DEF IgnoreInv
  <2> QED
    BY <1>3, <2>1, <2>2 DEF GetNext
<1>4. CASE StartSync
  BY <1>4 DEF StartSync, IgnoreInv, env, past
<1>5. ASSUME NEW n \in Names, SyncSelf(n) PROVE IgnoreInv'
  BY <1>5, SelfIs DEF IgnoreInv, MemoryInv
<1>6. ASSUME NEW rec, ExitWith(rec) PROVE IgnoreInv'
  BY <1>6, EndIs DEF IgnoreInv
<1>7. CASE UNCHANGED vars
  BY <1>7 DEF vars, mem, past, IgnoreInv
<1> QED
  BY <1>1, <1>2, <1>3, <1>4, <1>5, <1>6, <1>7
     DEF Next, RunStep, SaveState, StampFails, ListingFails

LEMMA HereStep == ASSUME Inv, [Next]_vars PROVE HereInv'
<1> USE DEF Inv
<1>1. CASE Environment
  BY <1>1, OthersAre DEF HereInv, Here
<1>2. ASSUME NEW o \in Options, Scan(o) PROVE HereInv'
  <2>1. agenda' = agenda /\ local' = local /\ pc = "idle" /\ pc' = "listing"
    BY <1>2 DEF Scan, env
  <2>2. agenda = {}
    BY <2>1 DEF HereInv, MemoryInv
  <2> QED
    BY <1>2, <2>1, <2>2, ScanIs DEF HereInv, Here
<1>3. ASSUME NEW page, GetNext(page) PROVE HereInv'
  <2>0. UNCHANGED <<local, pc, agenda>> /\ pc = "listing" /\ agenda = {}
    BY <1>3 DEF GetNext, env, HereInv, MemoryInv
  <2>1. ASSUME NEW e \in Listed, page = {e.id}, Matched(e), Update(e) PROVE HereInv'
    <3>1. /\ e \in Entries /\ e.name \in Names
          /\ res[e.name] \in Resources /\ local[e.name].data \in Contents
          /\ res' = [res EXCEPT ![e.name] =
                        FromRemote(res[e.name], e, "sync", local[e.name].data)]
      BY <1>3, <2>1, ListedIs
    <3> DEFINE q == FromRemote(res[e.name], e, "sync", local[e.name].data)
    <3>2. q.exists = res[e.name].exists
          /\ q.state = RemoteState(res[e.name], e, "sync", local[e.name].data)
      BY <3>1, FromRemoteIs
    <3>3. q.state \in {"local_new", "local_changed"} => q.exists
      BY <3>1, <3>2, VerdictIsHere DEF HereInv
    <3>4. res'[e.name] = q /\ \A n \in Names \ {e.name} : res'[n] = res[n]
      BY <3>1 DEF MemoryInv
    <3> HIDE DEF q
    <3> QED
      BY <2>0, <3>1, <3>2, <3>3, <3>4 DEF HereInv, Here
  <2>2. CASE UNCHANGED <<res, id, had, mixed>>
    BY <2>0, <2>2 DEF HereInv, Here
  <2> QED
    BY <1>3, <2>1, <2>2 DEF GetNext
<1>4. CASE StartSync
  BY <1>4 DEF StartSync, HereInv, Here, env, past
<1>5. ASSUME NEW n \in Names, SyncSelf(n) PROVE HereInv'
  BY <1>5, SelfIs DEF HereInv, Here
<1>6. ASSUME NEW rec, ExitWith(rec) PROVE HereInv'
  <2>1. /\ pc' = "idle" /\ agenda' = {}
        /\ \A n \in Names : res'[n] = NewResource
    BY <1>6, EndIs
  <2>2. NewResource.state = "unknown" /\ NewResource.exists = FALSE
    BY DEF NewResource
  <2> QED
    BY <2>1, <2>2 DEF HereInv
<1>7. CASE UNCHANGED vars
  BY <1>7 DEF vars, mem, past, HereInv, Here
<1> QED
  BY <1>1, <1>2, <1>3, <1>4, <1>5, <1>6, <1>7
     DEF Next, RunStep, SaveState, StampFails, ListingFails

\* Nothing that steps of others do to a file makes it another one's.
LEMMA ListedKept ==
    ASSUME Inv, UNCHANGED <<id, res>>, rev' \in Nat, rev <= rev',
           \A f \in remote' :
               f \in remote \/ f.id > rev
                   \/ (f.etag > rev /\ \E e \in remote : e.id = f.id /\ e.name = f.name)
    PROVE  ListedInv'
<1>1. rev \in Nat /\ id \in [Names -> Nat]
  BY DEF Inv, ServerInv, MemoryInv
<1> QED
  BY <1>1 DEF Inv, ListedInv

LEMMA ListedStep == ASSUME Inv, [Next]_vars PROVE ListedInv'
<1> USE DEF Inv
<1>0. rev \in Nat /\ local \in [Names -> [data: Contents, ctime: 0..2]]
      /\ remote \subseteq Entries /\ \A e \in remote : e.id \in 1..rev /\ e.etag \in 0..rev
  BY DEF ServerInv, DiskInv
<1>1. CASE Environment
  <2>0. UNCHANGED <<id, res>> /\ rev' \in Nat /\ rev <= rev'
    BY <1>1, OthersAre
  <2>1. ASSUME NEW n \in Names, RemoteCreate(n) PROVE ListedInv'
    <3>1. \A f \in remote' : f \in remote \/ f.id > rev
      BY <1>0, <2>1 DEF RemoteCreate
    <3> QED
      BY <2>0, <3>1, ListedKept
  <2>2. ASSUME NEW e \in Listed, RemoteEdit(e) \/ RemoteTrash(e) PROVE ListedInv'
    <3>1. \A f \in remote' : f \in remote \/ (f.etag > rev /\ f.id = e.id /\ f.name = e.name)
      <4>1. e \in Entries
        BY <1>0 DEF Listed
      <4>2. \A d :
              LET f == [e EXCEPT !.data = d, !.mtime = rev + 1, !.etag = rev + 1]
                  g == [e EXCEPT !.trashed = TRUE, !.etag = rev + 1]
              IN  /\ f.etag = rev + 1 /\ f.id = e.id /\ f.name = e.name
                  /\ g.etag = rev + 1 /\ g.id = e.id /\ g.name = e.name
        BY <4>1 DEF Entries
      <4>3. rev + 1 > rev
        BY <1>0
      <4>4. ASSUME NEW f \in remote' PROVE f \in remote \/ (f.etag > rev /\ f.id = e.id /\ f.name = e.name)
        BY <2>2, <4>2, <4>3 DEF RemoteEdit, RemoteTrash
      <4> QED
        BY <4>4
    <3>2. e \in remote
      BY DEF Listed
    <3> QED
      BY <2>0, <3>1, <3>2, ListedKept
  <2>3. CASE UNCHANGED remote
    BY <2>0, <2>3, ListedKept
  <2> QED
    BY <1>1, <2>1, <2>2, <2>3 DEF Environment, LocalWrite, LocalDelete, ChangeRule
<1>2. ASSUME NEW o \in Options, Scan(o) PROVE ListedInv'
  <2>1. \A n \in Names : id'[n] = 0
    BY <1>2 DEF Scan, MemoryInv
  <2>2. remote' = remote /\ rev' = rev
    BY <1>2 DEF Scan, env
  <2> QED
    BY <1>0, <1>2, <2>1, <2>2, ScanIs DEF ListedInv
<1>3. ASSUME NEW page, GetNext(page) PROVE ListedInv'
  <2>0. UNCHANGED <<remote, rev>>
    BY <1>3 DEF GetNext, env
  <2>1. ASSUME NEW e \in Listed, page = {e.id}, Matched(e), Update(e) PROVE ListedInv'
    <3>1. /\ e \in remote /\ e \in Entries /\ e.name \in Names
          /\ res[e.name] \in Resources /\ local[e.name].data \in Contents
          /\ res' = [res EXCEPT ![e.name] =
                        FromRemote(res[e.name], e, "sync", local[e.name].data)]
          /\ id' = [id EXCEPT ![e.name] = e.id]
      BY <1>3, <2>1, ListedIs
    <3> DEFINE q == FromRemote(res[e.name], e, "sync", local[e.name].data)
    <3>2. q.md5 = e.data /\ q.etag = e.etag /\ q.state \notin {"local_new", "remote_deleted"}
      BY <3>1, FromRemoteIs
    <3>3. res'[e.name] = q /\ id'[e.name] = e.id
          /\ \A n \in Names \ {e.name} : res'[n] = res[n] /\ id'[n] = id[n]
      BY <3>1 DEF MemoryInv
    <3>4. \A f \in remote : f.id = e.id => f = e
      BY <3>1 DEF ServerInv
    <3> HIDE DEF q
    <3> QED
      BY <1>0, <2>0, <3>1, <3>2, <3>3, <3>4 DEF ListedInv
  <2>2. CASE UNCHANGED <<res, id, had, mixed>>
    BY <1>0, <2>0, <2>2, ListedKept
  <2> QED
    BY <1>3, <2>1, <2>2 DEF GetNext
<1>4. CASE StartSync
  BY <1>0, <1>4, ListedKept DEF StartSync, env, past
<1>5. ASSUME NEW n \in Names, Create(n) PROVE ListedInv'
  <2>1. Self(n, {"local_new", "local_changed"}) /\ Stored(n) /\ id' = id /\ rev' = rev + 1
        /\ res[n].state = "local_new"
    BY <1>5 DEF Create, Self, Stored, Synced
  <2>2. /\ \A m \in Names \ {n} : res'[m] = res[m]
        /\ res'[n].state = "sync" /\ res'[n].etag = rev + 1
    BY <2>1, StoredIs
  <2>3. \A f \in remote' : f \in remote \/ f.id = rev + 1
    BY <1>5 DEF Create
  <2>4. id[n] = 0
    BY <2>1 DEF ListedInv
  <2> QED
    BY <1>0, <2>1, <2>2, <2>3, <2>4 DEF ListedInv
<1>6. ASSUME NEW n \in Names, EditContent(n) PROVE ListedInv'
  <2>1. Self(n, {"local_new", "local_changed"}) /\ Stored(n) /\ id' = id /\ rev' = rev + 1
    BY <1>6 DEF EditContent, Self, Stored, Synced
  <2>2. /\ \A m \in Names \ {n} : res'[m] = res[m]
        /\ res'[n].state = "sync" /\ res'[n].etag = rev + 1 /\ res'[n].md5 = local[n].data
    BY <2>1, StoredIs
  <2>3. PICK e \in Target(n) :
            remote' = (remote \ {e}) \cup
                {[e EXCEPT !.data = local[n].data, !.mtime = rev + 1, !.etag = rev + 1]}
    BY <1>6 DEF EditContent
  <2>4. e \in remote /\ e \in Entries /\ e.id = id[n] /\ e.name = n
    BY <1>0 DEF Target, Listed, ListedInv
  <2>5. \A f \in remote' : \/ f \in remote /\ f.id # e.id
                           \/ f.id = e.id /\ f.name = n /\ f.data = local[n].data
    BY <2>3, <2>4 DEF ServerInv, Entries
  <2>6. \A m \in Names \ {n} : id[m] # e.id
    BY <2>4 DEF ListedInv
  <2> QED
    BY <1>0, <2>1, <2>2, <2>4, <2>5, <2>6 DEF ListedInv
<1>7. ASSUME NEW n \in Names, Download(n) PROVE ListedInv'
  <2>1. id' = id /\ remote' = remote /\ rev' = rev
    BY <1>7 DEF Download, Synced
  <2> QED
    BY <1>7, <2>1, DownloadedIs DEF ListedInv
<1>8. ASSUME NEW n \in Names,
             DeleteRemote(n) \/ Refused(n) \/ DeleteLocal(n) \/ BothDeleted(n) \/ AlreadySync(n)
      PROVE  ListedInv'
  <2>1. res' = res
    BY <1>8, KeptIs
  <2>2. id' = id /\ remote' \subseteq remote /\ rev' = rev
    BY <1>8 DEF DeleteRemote, Refused, DeleteLocal, BothDeleted, AlreadySync, Synced, Caught, env
  <2> QED
    BY <1>0, <2>1, <2>2, ListedKept
<1>9. ASSUME NEW rec, ExitWith(rec) PROVE ListedInv'
  <2>1. rev' = rev /\ remote' \subseteq remote
    BY <1>9 DEF ExitWith, Listed
  <2>2. \A n \in Names : res'[n] = NewResource /\ id'[n] = 0
    BY <1>9, EndIs
  <2> QED
    BY <1>0, <2>1, <2>2 DEF ListedInv, NewResource, NoETag
<1>10. CASE UNCHANGED vars
  BY <1>0, <1>10, ListedKept DEF vars, mem, past
<1> QED
  BY <1>1, <1>2, <1>3, <1>4, <1>5, <1>6, <1>7, <1>8, <1>9, <1>10
     DEF Next, RunStep, SyncSelf, SaveState, StampFails, ListingFails

LEMMA PagesStep == ASSUME Inv, [Next]_vars PROVE PagesInv'
<1> USE DEF Inv
<1>0. rev \in Nat /\ remote \subseteq Entries /\ \A e \in remote : e.id \in 1..rev
  BY DEF ServerInv
<1>1. CASE Environment
  <2>0. /\ UNCHANGED <<pc, ign, id, more>> /\ (~more => todo' \subseteq todo)
        /\ pc \in {"idle", "listing"}
    BY <1>1, OthersAre
  <2>1. ASSUME NEW n \in Names, RemoteCreate(n) PROVE PagesInv'
    <3>1. \A f \in remote' : f \in remote \/ f.id = rev + 1
      BY <1>0, <2>1 DEF RemoteCreate
    <3>2. todo \subseteq todo' /\ steady' = steady /\ steady \subseteq 1..rev
      BY <2>1 DEF RemoteCreate, MayCome, past, MemoryInv
    <3> QED
      BY <1>0, <2>0, <3>1, <3>2 DEF PagesInv, Listed, Matched, Takes
  <2>2. ASSUME NEW e \in Listed, RemoteEdit(e) PROVE PagesInv'
    <3>1. e \in Entries /\ e \in Listed
      BY <1>0 DEF Listed
    <3>2. \A f \in remote' :
            f \in remote \/ (f.id = e.id /\ f.name = e.name /\ f.kind = e.kind)
      BY <2>2, <3>1 DEF RemoteEdit, Entries
    <3>3. todo \subseteq todo' /\ steady' = steady
      BY <2>2 DEF RemoteEdit, MayCome, past
    <3> QED
      BY <2>0, <3>1, <3>2, <3>3 DEF PagesInv, Listed, Matched, Takes
  <2>3. ASSUME NEW e \in Listed, RemoteTrash(e) PROVE PagesInv'
    <3>1. e \in Entries
      BY <1>0 DEF Listed
    <3>2. \A f \in remote' : f \in remote \/ f.trashed
      BY <2>3, <3>1 DEF RemoteTrash, Entries
    <3>3. todo' = todo \ {e.id} /\ steady' = steady \ {e.id}
      BY <2>3 DEF RemoteTrash
    <3> QED
      BY <2>0, <3>2, <3>3 DEF PagesInv, Listed, Matched, Takes
  <2>4. CASE ChangeRule \/ \E n \in Names : LocalWrite(n) \/ LocalDelete(n)
    <3>1. UNCHANGED <<remote, todo, steady>>
      BY <2>4 DEF LocalWrite, LocalDelete, ChangeRule, mem, past
    <3> QED
      BY <2>0, <3>1 DEF PagesInv, Listed, Matched, Takes
  <2> QED
    BY <1>1, <2>1, <2>2, <2>3, <2>4 DEF Environment
<1>2. ASSUME NEW o \in Options, Scan(o) PROVE PagesInv'
  <2>1. /\ pc' = "listing" /\ more' = TRUE /\ remote' = remote
        /\ todo' = {e.id : e \in Listed}
    BY <1>2 DEF Scan, env
  <2> QED
    BY <2>1 DEF PagesInv, Listed
<1>3. ASSUME NEW page, GetNext(page) PROVE PagesInv'
  <2>4. ~more' => todo' = {}
    <3>1. PICK has \in (IF todo' = {} THEN BOOLEAN ELSE {TRUE}) : more' = has
      BY <1>3 DEF GetNext, NextLink
    <3>2. CASE todo' # {}
      <4>1. has = TRUE
        BY <3>1, <3>2
      <4> QED
        BY <3>1, <4>1
    <3> QED
      BY <3>2
  <2>0. /\ UNCHANGED <<remote, pc, ign, steady>> /\ pc = "listing" /\ todo' = todo \ page
        /\ (~more' => todo' = {})
    BY <1>3, <2>4 DEF GetNext, env
  <2>1. ASSUME NEW e \in Listed, page = {e.id}, Matched(e), Update(e) PROVE PagesInv'
    <3>1. /\ e \in remote /\ e.name \in Names /\ id' = [id EXCEPT ![e.name] = e.id]
      BY <1>3, <2>1, ListedIs
    <3>2. id'[e.name] # 0 /\ \A n \in Names : id[n] # 0 => id'[n] # 0
      BY <1>0, <3>1 DEF MemoryInv
    <3>3. \A f \in remote : f.id = e.id => f = e
      BY <3>1 DEF ServerInv
    <3>4. \A f \in remote : f.name \in Names
      BY <1>0 DEF Entries
    <3> QED
      BY <2>0, <2>1, <3>2, <3>3, <3>4 DEF PagesInv, Listed, Matched, Takes
  <2>2. CASE UNCHANGED <<res, id, had, mixed>> /\ \A e \in Listed : e.id \in page => ~Matched(e)
    BY <2>0, <2>2 DEF PagesInv, Listed, Matched, Takes
  <2> QED
    BY <1>3, <2>1, <2>2 DEF GetNext
<1>4. CASE StartSync
  BY <1>4 DEF StartSync, PagesInv, Listed, Matched, Takes, env, past
<1>5. ASSUME NEW n \in Names, SyncSelf(n) PROVE PagesInv'
  <2>0. UNCHANGED <<pc, ign, id, todo, more, steady>> /\ steady \subseteq 1..rev
    BY <1>5, SelfIs DEF MemoryInv
  <2>1. \A f \in remote' :
           \/ f \in remote \/ f.id = rev + 1
           \/ \E e \in Listed : f.id = e.id /\ f.name = e.name /\ f.kind = e.kind
    <3>1. CASE EditContent(n)
      <4>1. PICK e \in Target(n) :
                remote' = (remote \ {e}) \cup
                    {[e EXCEPT !.data = local[n].data, !.mtime = rev + 1, !.etag = rev + 1]}
        BY <3>1 DEF EditContent
      <4>2. e \in Listed /\ e \in Entries
        BY <1>0 DEF Target, Listed
      <4> QED
        BY <4>1, <4>2 DEF Entries
    <3>2. CASE Create(n)
      BY <3>2 DEF Create
    <3> QED
      BY <1>5, <3>1, <3>2
         DEF SyncSelf, DeleteRemote, Refused, Download, DeleteLocal, BothDeleted, AlreadySync,
             Caught, env
  <2> QED
    BY <1>0, <2>0, <2>1 DEF PagesInv, Listed, Matched, Takes
<1>6. ASSUME NEW rec, ExitWith(rec) PROVE PagesInv'
  BY <1>6, EndIs DEF PagesInv
<1>7. CASE UNCHANGED vars
  BY <1>7 DEF vars, mem, past, PagesInv, Listed, Matched, Takes
<1> QED
  BY <1>1, <1>2, <1>3, <1>4, <1>5, <1>6, <1>7
     DEF Next, RunStep, SaveState, StampFails, ListingFails

\* What stays as it was is known as it was.
LEMMA KnownKept ==
    ASSUME Inv, had \subseteq had', mixed \subseteq mixed',
           NEW n \in Names, index'[n] = index[n], st'[n] = st[n], res'[n] = res[n],
           pc' = "listing" => pc = "listing" /\ id'[n] = id[n] /\ local'[n] = local[n],
           n \notin mixed'
    PROVE  Knows(n)'
<1>1. Knows(n)
  BY DEF Inv, KnownInv
<1> QED
  BY <1>1 DEF Knows

\* A file that is listed for the first time in this run.
LEMMA ListedKnown ==
    ASSUME Inv, NEW page, GetNext(page), NEW e \in Listed, page = {e.id}, Matched(e), Update(e),
           e.name \notin mixed'
    PROVE  Knows(e.name)'
<1> DEFINE n == e.name
           q == FromRemote(res[n], e, "sync", local[n].data)
<1>1. /\ e \in Entries /\ n \in Names /\ res[n] \in Resources /\ local[n].data \in Contents
      /\ res' = [res EXCEPT ![n] = q] /\ id' = [id EXCEPT ![n] = e.id]
      /\ had \subseteq had'
  BY ListedIs
<1>2. res'[n] = q /\ id'[n] # 0
  <2>1. e.id # 0
    BY DEF Inv, ServerInv, Listed
  <2> QED
    BY <1>1, <2>1 DEF Inv, MemoryInv
<1>3. /\ n \notin mixed /\ id[n] = 0 /\ pc = "listing"
      /\ had' = IF local[n].data = e.data THEN had \cup {e.data} ELSE had
      /\ index' = index /\ st' = st
  BY DEF Update, GetNext
<1>4. Knows(n)
  BY <1>1, <1>3 DEF Inv, KnownInv
<1>5. res[n].exists => local[n].data # Nothing
  BY <1>1, <1>3 DEF Inv, HereInv, Here
<1>6. ~res[n].bad /\ (res[n].exists => res[n].state \in {"local_new", "remote_deleted"})
      /\ res[n].md5 \in had \cup {Nothing, local[n].data}
  BY <1>3, <1>4 DEF Knows
<1>7. q.md5 = e.data /\ q.state = RemoteState(res[n], e, "sync", local[n].data)
  BY <1>1, FromRemoteIs
<1>8. e.data # Nothing
  BY <1>1, Distinct DEF Entries
<1>9. ASSUME q.state \in {"sync", "local_deleted"} PROVE q.md5 \in had'
  <2>1. e.data = res[n].md5 \/ (res[n].exists /\ e.data = local[n].data)
    BY <1>1, <1>5, <1>6, <1>7, <1>9, VerdictKnows
  <2> QED
    BY <1>3, <1>6, <1>7, <1>8, <2>1
<1> HIDE DEF q
<1> QED
  BY <1>1, <1>2, <1>3, <1>4, <1>9 DEF Knows

LEMMA KnownStep == ASSUME Inv, [Next]_vars PROVE KnownInv'
<1> USE DEF Inv
<1>1. CASE Environment
  BY <1>1, OthersAre, KnownKept DEF KnownInv
<1>2. ASSUME NEW o \in Options, Scan(o) PROVE KnownInv'
  <2>1. UNCHANGED <<index, local, had, mixed>>
    BY <1>2 DEF Scan, env
  <2>2. ASSUME NEW n \in Names \ mixed PROVE Knows(n)'
    <3>1. index[n].md5 \in had \cup {Nothing}
      BY DEF KnownInv, Knows
    <3> QED
      BY <1>2, <2>1, <3>1, ScanIs DEF Knows
  <2> QED
    BY <2>1, <2>2 DEF KnownInv
<1>3. ASSUME NEW page, GetNext(page) PROVE KnownInv'
  <2>0. UNCHANGED <<index, st, local, pc>>
    BY <1>3 DEF GetNext, env
  <2>1. ASSUME NEW e \in Listed, page = {e.id}, Matched(e), Update(e) PROVE KnownInv'
    <3>1. /\ e.name \in Names /\ had \subseteq had' /\ mixed \subseteq mixed'
          /\ \A n \in Names \ {e.name} : res'[n] = res[n] /\ id'[n] = id[n]
      BY <1>3, <2>1, ListedIs DEF MemoryInv
    <3>2. ASSUME NEW n \in Names, n \notin mixed' PROVE Knows(n)'
      <4>1. CASE n = e.name
        BY <1>3, <2>1, <3>2, <4>1, ListedKnown
      <4>2. CASE n # e.name
        BY <2>0, <3>1, <3>2, <4>2, KnownKept
      <4> QED
        BY <4>1, <4>2
    <3> QED
      BY <3>2 DEF KnownInv
  <2>2. CASE UNCHANGED <<res, id, had, mixed>>
    BY <2>0, <2>2, KnownKept DEF KnownInv
  <2> QED
    BY <1>3, <2>1, <2>2 DEF GetNext
<1>4. CASE StartSync
  BY <1>4, KnownKept DEF StartSync, KnownInv, env, past
<1>5. ASSUME NEW n \in Names, SyncSelf(n) PROVE KnownInv'
  <2>0. /\ pc = "syncing" /\ pc' = pc /\ UNCHANGED index
        /\ \A m \in Names \ {n} : res'[m] = res[m] /\ st'[m] = st[m]
    BY <1>5, SelfIs
  <2>1. had \subseteq had' /\ mixed \subseteq mixed'
    BY <1>5 DEF SyncSelf, Create, EditContent, DeleteRemote, Refused, Download,
                DeleteLocal, BothDeleted, AlreadySync, Caught, past, Stored, Synced
  <2>2. ASSUME n \notin mixed' PROVE Knows(n)'
    <3>0. Knows(n) /\ n \notin mixed
      BY <2>1, <2>2 DEF KnownInv
    <3>1. CASE Create(n) \/ EditContent(n)
      <4>1. Self(n, {"local_new", "local_changed"}) /\ Stored(n)
            /\ had' = had \cup {local[n].data}
        BY <3>1 DEF Create, EditContent, Self
      <4>2. res'[n].md5 = local[n].data /\ st'[n].md5 = local[n].data
        BY <4>1, StoredIs
      <4> QED
        BY <2>0, <3>0, <4>1, <4>2 DEF Knows
    <3>2. CASE Download(n)
      <4>1. res'[n].md5 = res[n].md5 /\ st'[n].md5 = res[n].md5
        BY <3>2, DownloadedIs
      <4>2. res[n].md5 \in had'
        BY <2>2, <3>2 DEF Download
      <4> QED
        BY <2>0, <2>1, <3>0, <4>1, <4>2 DEF Knows
    <3>3. CASE DeleteRemote(n) \/ Refused(n) \/ DeleteLocal(n) \/ BothDeleted(n)
               \/ AlreadySync(n)
      <4>1. /\ res' = res
            /\ \/ st'[n] = st[n]
               \/ st'[n].md5 = Nothing
               \/ st'[n].md5 = res[n].md5 /\ res[n].state = "sync"
        BY <3>3, KeptIs
      <4> QED
        BY <2>0, <2>1, <3>0, <4>1 DEF Knows
    <3> QED
      BY <1>5, <3>1, <3>2, <3>3 DEF SyncSelf
  <2> QED
    BY <2>0, <2>1, <2>2, KnownKept DEF KnownInv
<1>6. ASSUME NEW rec, rec \in {st, index}, ExitWith(rec) PROVE KnownInv'
  <2>1. /\ pc' = "idle" /\ UNCHANGED <<had, mixed>>
        /\ \A n \in Names : st'[n] = NoRecord /\ res'[n] = NewResource
    BY <1>6, EndIs
  <2>2. \A n \in Names : index'[n].md5 = rec[n].md5
    BY <1>6, SettledIs
  <2>3. NewResource.state = "unknown" /\ NoRecord.md5 = Nothing
    BY DEF NewResource, NoRecord
  <2> QED
    BY <1>6, <2>1, <2>2, <2>3 DEF KnownInv, Knows
<1>7. CASE UNCHANGED vars
  BY <1>7, KnownKept DEF vars, mem, past, KnownInv
<1> QED
  BY <1>1, <1>2, <1>3, <1>4, <1>5, <1>6, <1>7
     DEF Next, RunStep, SaveState, StampFails, ListingFails

LEMMA Initially == Init => Inv
<1> SUFFICES ASSUME Init PROVE Inv
  OBVIOUS
<1>1. rev = 0 /\ remote = {} /\ pc = "idle" /\ ign = {} /\ todo = {} /\ steady = {}
      /\ agenda = {} /\ had = {} /\ mixed = {} /\ hidden = {} /\ rule = {}
      /\ more = FALSE /\ opt = "normal"
  BY DEF Init
<1>2. \A n \in Names : /\ local[n] = NoFile /\ index[n] = NoRecord /\ st[n] = NoRecord
                       /\ res[n] = NewResource /\ id[n] = 0
  BY DEF Init
<1>3. NoRecord.md5 = Nothing /\ NoRecord.ctime = NoTime
      /\ NewResource.state = "unknown" /\ ~NewResource.exists /\ NewResource.etag = 0
  BY DEF NoRecord, NewResource, NoETag
<1>4. ServerInv
  BY <1>1, FS_EmptySet DEF ServerInv
<1>5. DiskInv
  <2>1. NoFile \in [data: Contents, ctime: 0..2]
    BY DEF NoFile, Contents
  <2>2. left \in [{"user", "others", "rules", "faults"} -> Nat]
    BY ListingAssumption DEF Init
  <2> QED
    BY <1>1, <1>2, <1>3, <2>1, <2>2, NewIs DEF Init, DiskInv
<1>6. MemoryInv
  BY <1>1, <1>2, NewIs DEF Init, MemoryInv
<1>7. IgnoreInv /\ PagesInv /\ HereInv /\ KnownInv
  BY <1>1, <1>2, <1>3 DEF IgnoreInv, PagesInv, HereInv, KnownInv, Knows, Listed
<1>8. ListedInv
  BY <1>1, <1>2, <1>3 DEF ListedInv
<1> QED
  BY <1>4, <1>5, <1>6, <1>7, <1>8 DEF Inv

LEMMA Stepwise == Inv /\ [Next]_vars => Inv'
<1> SUFFICES ASSUME Inv, [Next]_vars PROVE Inv'
  OBVIOUS
<1>1. ServerInv' /\ DiskInv' /\ MemoryInv' /\ IgnoreInv'
  BY ServerStep, DiskStep, MemoryStep, IgnoreStep
<1>2. ListedInv' /\ PagesInv' /\ HereInv' /\ KnownInv'
  BY ListedStep, PagesStep, HereStep, KnownStep
<1> QED
  BY <1>1, <1>2 DEF Inv

LEMMA Invariant == Spec => []Inv
BY Initially, Stepwise, PTL DEF Spec

\* The state is what it is declared to be, and no two files of the server have one id.
THEOREM TypeCorrect == Spec => []TypeOK
<1>1. Inv => TypeOK
  <2> SUFFICES ASSUME Inv PROVE TypeOK
    OBVIOUS
  <2>1. local \in [Names -> [data: Checksums, ctime: 0..2]]
    BY Distinct DEF Inv, DiskInv
  <2> QED
    BY <2>1 DEF Inv, ServerInv, DiskInv, MemoryInv, TypeOK
<1> QED
  BY <1>1, Invariant, PTL

-----------------------------------------------------------------------------
(* What a run does not do.                                                 *)

\* What SyncSelf does on the server is about files of the name.
LEMMA OwnFiles ==
    ASSUME Inv, NEW n \in Names, SyncSelf(n), NEW m \in Names \ {n}
    PROVE  FilesOf(m)' = FilesOf(m)
<1>0. remote \subseteq Entries
  BY DEF Inv, ServerInv
<1>1. CASE Create(n)
  <2>1. PICK f : f.name = n /\ remote' = remote \cup {f}
    <3> DEFINE f == [id |-> rev + 1, name |-> n, kind |-> "file", data |-> local[n].data,
                     mtime |-> rev + 1, etag |-> rev + 1, trashed |-> FALSE]
    <3>1. f.name = n /\ remote' = remote \cup {f}
      BY <1>1 DEF Create
    <3> QED
      BY <3>1
  <2> QED
    BY <2>1 DEF FilesOf, Listed, Takes
<1>2. ASSUME NEW e \in Target(n) PROVE e \in Entries /\ e.name = n
  BY <1>0 DEF Target, Listed, Inv, ListedInv
<1>3. CASE EditContent(n)
  <2>1. PICK e \in Target(n) :
            remote' = (remote \ {e}) \cup
                {[e EXCEPT !.data = local[n].data, !.mtime = rev + 1, !.etag = rev + 1]}
    BY <1>3 DEF EditContent
  <2> DEFINE f == [e EXCEPT !.data = local[n].data, !.mtime = rev + 1, !.etag = rev + 1]
  <2>2. f.name = n /\ e.name = n
    BY <1>2 DEF Entries
  <2>3. remote' = (remote \ {e}) \cup {f}
    BY <2>1
  <2> HIDE DEF f
  <2> QED
    BY <2>2, <2>3 DEF FilesOf, Listed, Takes
<1>4. CASE DeleteRemote(n)
  <2>1. PICK e \in Target(n) : remote' = remote \ {e}
    BY <1>4 DEF DeleteRemote
  <2>2. e.name = n
    BY <1>2
  <2> QED
    BY <2>1, <2>2 DEF FilesOf, Listed, Takes
<1>5. CASE remote' = remote
  BY <1>5 DEF FilesOf, Listed, Takes
<1> QED
  BY <1>1, <1>3, <1>4, <1>5
     DEF SyncSelf, Refused, Download, DeleteLocal, BothDeleted, AlreadySync, Caught, env

\* The record of a name that was ignored is written as it was read.
LEMMA EndKeepsIgnored ==
    ASSUME Inv, NEW rec, rec \in {st, index}, ExitWith(rec), NEW n \in ign
    PROVE  local'[n].data = local[n].data /\ index'[n] = index[n] /\ FilesOf(n)' = FilesOf(n)
<1>1. n \in Names /\ rec[n] = index[n] /\ index[n] \in Records /\ index[n].ctime \in {0, NoTime}
  BY DEF Inv, MemoryInv, IgnoreInv, DiskInv
<1>2. local[n] \in [data: Contents, ctime: 0..2]
  BY <1>1 DEF Inv, DiskInv
<1>3. local'[n].data = local[n].data
  BY <1>1, <1>2 DEF ExitWith
<1>4. index'[n] = [index[n] EXCEPT !.ctime = IF @ = NoTime THEN NoTime ELSE 0]
  BY <1>1 DEF ExitWith
<1>5. index'[n] = index[n]
  BY <1>1, <1>4 DEF Records, NoTime
<1>6. FilesOf(n)' = FilesOf(n)
  BY DEF ExitWith, FilesOf, Listed, Takes
<1> QED
  BY <1>3, <1>5, <1>6

\* A run touches nothing of a name that it ignores: neither the file on the disk, nor
\* those on the server, nor the record; for any names, rules and options, whatever
\* other clients do and wherever a run dies (State.cc:62-81, 111-146).
THEOREM IgnoredIsUntouched == Spec => IgnoredUntouched
<1> DEFINE A == \A n \in ign :
                    /\ local'[n].data = local[n].data /\ index'[n] = index[n]
                    /\ pc = "syncing" => FilesOf(n)' = FilesOf(n)
<1>1. Inv /\ [Next]_vars => [A]_vars
  <2> SUFFICES ASSUME Inv, Next, NEW n \in ign
               PROVE  /\ local'[n].data = local[n].data /\ index'[n] = index[n]
                      /\ pc = "syncing" => FilesOf(n)' = FilesOf(n)
    OBVIOUS
  <2>0. n \in Names /\ pc # "idle" /\ n \notin agenda
    BY DEF Inv, MemoryInv, IgnoreInv
  <2>1. CASE Environment
    BY <2>0, <2>1, OthersAre
  <2>2. CASE StartSync \/ (\E o \in Options : Scan(o)) \/ \E page : GetNext(page)
    BY <2>0, <2>2 DEF Scan, GetNext, StartSync, env
  <2>3. ASSUME NEW m \in Names, SyncSelf(m)
        PROVE  local'[n].data = local[n].data /\ index'[n] = index[n] /\ FilesOf(n)' = FilesOf(n)
    BY <2>0, <2>3, SelfIs, OwnFiles
  <2>4. ASSUME NEW rec, rec \in {st, index}, ExitWith(rec)
        PROVE  local'[n].data = local[n].data /\ index'[n] = index[n] /\ FilesOf(n)' = FilesOf(n)
    BY <2>4, EndKeepsIgnored
  <2> QED
    BY <2>1, <2>2, <2>3, <2>4 DEF Next, RunStep, SaveState, StampFails, ListingFails
<1> QED
  BY <1>1, Invariant, PTL DEF Spec, IgnoredUntouched

\* However the listing is cut into pages, and whatever is made, changed and trashed
\* between two of them: no file is deleted here, and none made there, for want of one
\* that was on the server all the time (Feed2.cc:42-59, Drive.cc:72-86).
THEOREM ActsOnlyOnMissing == Spec => ActsOnMissing
<1> DEFINE A == \A n \in Names : DeleteLocal(n) \/ Create(n) =>
                    \A e \in FilesOf(n) : e.id \notin steady
<1>1. Inv => A
  <2> SUFFICES ASSUME Inv, NEW n \in Names, DeleteLocal(n) \/ Create(n), NEW e \in FilesOf(n),
                      e.id \in steady
               PROVE  FALSE
    OBVIOUS
  <2>1. pc = "syncing" /\ n \in agenda /\ res[n].state \in {"local_new", "remote_deleted"}
    BY DEF DeleteLocal, Create, Self
  <2>2. n \notin ign /\ id[n] = 0 /\ todo = {}
    BY <2>1 DEF Inv, IgnoreInv, ListedInv, PagesInv
  <2>3. e \in Listed /\ Matched(e) /\ e.name = n
    BY <2>2 DEF FilesOf, Matched
  <2> QED
    BY <2>2, <2>3 DEF Inv, PagesInv
<1>2. Inv /\ [Next]_vars => [A]_vars
  BY <1>1
<1> HIDE DEF A
<1>3. Spec => [][A]_vars
  BY <1>2, Invariant, PTL DEF Spec
<1> QED
  BY <1>3 DEF A, ActsOnMissing

\* What goes to the trash of the server was in the local directory, in some run
\* before, for any number of runs, clients and faults; the names that were mixed up
\* are left out (Resource.cc:160-185, Syncer2.cc:52-58).
THEOREM TrashesWhatWasKnown == Spec => TrashesOnlyKnown
<1> DEFINE A == \A n \in Names \ mixed : DeleteRemote(n) => \A e \in Target(n) : e.data \in had
<1>1. Inv => A
  <2> SUFFICES ASSUME Inv, NEW n \in Names \ mixed, DeleteRemote(n), NEW e \in Target(n)
               PROVE  e.data \in had
    OBVIOUS
  <2>1. res[n].state = "local_deleted"
    BY DEF DeleteRemote, Self
  <2>2. res[n].md5 \in had
    BY <2>1 DEF Inv, KnownInv, Knows
  <2> QED
    BY <2>2 DEF Target, Listed, Inv, ListedInv
<1>2. Inv /\ [Next]_vars => [A]_vars
  BY <1>1
<1> HIDE DEF A
<1>3. Spec => [][A]_vars
  BY <1>2, Invariant, PTL DEF Spec
<1> QED
  BY <1>3 DEF A, TrashesOnlyKnown

-----------------------------------------------------------------------------
(* The tree, as it is run beside Listing.                                  *)

TreeProofs == INSTANCE ResourceTreeProofs WITH
    Paths <- ShortPaths, Hrefs <- ThreeHrefs, Root <- TheRoot,
    NoHref <- 0, Nowhere <- Empty, Scans <- FourScans, Servers <- AllServers,
    IsIgnore <- UnderRule, MaxAgain <- 1, todo <- feed, pc <- treePc

\* What the run calls Tree is what the lemmas of ResourceTreeProofs are about.
LEMMA TreeIsTree ==
    /\ Tree!Init => TreeProofs!Init
    /\ Tree!Next => TreeProofs!Next
    /\ UNCHANGED tree => UNCHANGED TreeProofs!vars
    /\ TreeProofs!IndexAgrees => Tree!IndexAgrees
BY DEF Tree!Init, Tree!Keys, Tree!Next, Tree!Ended, Tree!List, Tree!ListAgain,
       Tree!FeedEnds, Tree!TryNext, Tree!PassEnds, Tree!FromRemote, Tree!Waits,
       Tree!Becomes, Tree!Updated, Tree!Given, Tree!Made, Tree!ReInsert,
       Tree!FindByHref, Tree!FindChild, Tree!RelPath, Tree!Tree, Tree!AnotherPass,
       Tree!vars, Tree!IndexAgrees, tree,
       TreeProofs!Init, TreeProofs!Keys, TreeProofs!Next, TreeProofs!Ended,
       TreeProofs!List, TreeProofs!ListAgain, TreeProofs!FeedEnds, TreeProofs!TryNext,
       TreeProofs!PassEnds, TreeProofs!FromRemote, TreeProofs!Waits,
       TreeProofs!Becomes, TreeProofs!Updated, TreeProofs!Given, TreeProofs!Made,
       TreeProofs!ReInsert, TreeProofs!FindByHref, TreeProofs!FindChild,
       TreeProofs!RelPath, TreeProofs!Tree, TreeProofs!AnotherPass, TreeProofs!vars,
       TreeProofs!IndexAgrees

\* Their paths are the same.
LEMMA TreeFinds == TreeProofs!EntriesFound => Tree!EntriesFound
<1>1. TreeProofs!PathOf = Tree!PathOf
  BY SMT DEF TreeProofs!PathOf, Tree!PathOf, TreeProofs!Above, Tree!Above
<1>2. TreeProofs!Own = Tree!Own
  BY <1>1, SMT DEF TreeProofs!Own, Tree!Own, TreeProofs!Above, Tree!Above
<1>3. TreeProofs!Open = Tree!Open
  BY <1>1, SMT DEF TreeProofs!Open, Tree!Open, TreeProofs!Above, Tree!Above
<1> QED
  BY <1>1, <1>2, <1>3 DEF TreeProofs!EntriesFound, Tree!EntriesFound

LEMMA ServerIs ==
    ASSUME NEW s \in AllServers
    PROVE  \E e1 \in Entry(1, {TheRoot}, BOOLEAN),
              e2 \in Entry(2, {TheRoot, NotListed, 1}, BOOLEAN),
              e3 \in Entry(3, {TheRoot, 1, 2}, {FALSE}) : s = {e1, e2, e3}
BY SMTT(30) DEF AllServers

\* The three addresses, the root and the two names are told apart.
LEMMA Addressed ==
    ASSUME Empty \notin ShortPaths PROVE TreeProofs!Addressed
<1>1. <<>> \in ShortPaths
  BY DEF ShortPaths
<1>2. ASSUME NEW s \in AllServers, NEW e \in s PROVE e.href \in ThreeHrefs
  <2>1. PICK e1 \in Entry(1, {TheRoot}, BOOLEAN),
             e2 \in Entry(2, {TheRoot, NotListed, 1}, BOOLEAN),
             e3 \in Entry(3, {TheRoot, 1, 2}, {FALSE}) : s = {e1, e2, e3}
    BY ServerIs
  <2>2. e1.href = 1 /\ e2.href = 2 /\ e3.href = 3
    BY DEF Entry
  <2> QED
    BY <2>1, <2>2 DEF ThreeHrefs
<1>4. TheRoot \notin ThreeHrefs /\ 0 \notin ThreeHrefs \cup {TheRoot}
  BY DEF ThreeHrefs, TheRoot
<1> QED
  BY <1>1, <1>2, <1>4 DEF TreeProofs!Addressed, TreeProofs!Keys

\* Every folder has a lower number than what is in it, and the scan starts at the root.
LEMMA ServersAreTrees ==
    ASSUME Empty \notin Seq(TwoNames) PROVE TreeProofs!Trees /\ TreeProofs!Scanned
<1>1. ASSUME NEW s \in AllServers
      PROVE  /\ \A e, f \in s : e.href = f.href => e = f
             /\ \A T \in SUBSET s : T # {} => \E e \in T : \A f \in T : f.href # e.parent
             /\ Empty \notin Seq(TreeProofs!NamesOf(s))
  <2>1. PICK e1 \in Entry(1, {TheRoot}, BOOLEAN),
             e2 \in Entry(2, {TheRoot, NotListed, 1}, BOOLEAN),
             e3 \in Entry(3, {TheRoot, 1, 2}, {FALSE}) : s = {e1, e2, e3}
    BY ServerIs
  <2>2. /\ e1.href = 1 /\ e2.href = 2 /\ e3.href = 3
        /\ e1.parent = 4 /\ e2.parent \in {4, 5, 1} /\ e3.parent \in {4, 1, 2}
        /\ {e1.name, e2.name, e3.name} \subseteq TwoNames
    BY DEF Entry, TheRoot, NotListed
  <2>3. ASSUME NEW T \in SUBSET s, T # {} PROVE \E e \in T : \A f \in T : f.href # e.parent
    <3>1. CASE e1 \in T
      BY <2>1, <2>2, <3>1
    <3>2. CASE e1 \notin T /\ e2 \in T
      BY <2>1, <2>2, <3>2
    <3>3. CASE e1 \notin T /\ e2 \notin T
      BY <2>1, <2>2, <2>3, <3>3
    <3> QED
      BY <3>1, <3>2, <3>3
  <2>4. TreeProofs!NamesOf(s) \subseteq TwoNames
    BY <2>1, <2>2 DEF TreeProofs!NamesOf
  <2>5. \A e, f \in s : e.href = f.href => e = f
    BY <2>1, <2>2
  <2>6. Empty \notin Seq(TreeProofs!NamesOf(s))
    BY <2>4
  <2> QED
    BY <2>3, <2>5, <2>6
<1>2. ASSUME NEW k \in FourScans
      PROVE  k \in [ShortPaths -> {"none", "file", "folder"}] /\ k[<<>>] = "folder"
  <2>1. <<>> \in ShortPaths
    BY DEF ShortPaths
  <2> QED
    BY <2>1 DEF FourScans, TreeOf
<1> QED
  BY <1>1, <1>2 DEF TreeProofs!Trees, TreeProofs!Scanned

\* The invariant of the tree, where it runs.
TreeInv == part = "tree" => TreeProofs!Inv

\* In the run, too, the index and the resources agree after every entry, however often
\* and in which order they are listed (ResourceTree.cc:86-109).
THEOREM IndexIsRight == ASSUME Empty \notin ShortPaths PROVE MCSpec => []IndexAgrees
<1>1. MCInit => TreeInv
  BY Addressed, TreeIsTree, TreeProofs!Initially DEF MCInit, TreeInv
<1>2. TreeInv /\ [MCNext]_mcvars => TreeInv'
  <2> SUFFICES ASSUME TreeInv, [MCNext]_mcvars, part' = "tree" PROVE TreeProofs!Inv'
    BY DEF TreeInv
  <2>1. part = "tree" /\ TreeProofs!Inv
    BY DEF TreeInv, MCNext, mcvars, Pages, TreeStep, DateStep, WriteLine, EraseLines
  <2>2. [TreeProofs!Next]_(TreeProofs!vars)
    BY TreeIsTree DEF MCNext, mcvars, Pages, TreeStep, DateStep, WriteLine, EraseLines
  <2> QED
    BY <2>1, <2>2, Addressed, TreeProofs!Stepwise
<1>3. TreeInv => IndexAgrees
  BY TreeIsTree DEF TreeInv, TreeProofs!Inv, TreeProofs!Agree, TreeProofs!IndexAgrees, IndexAgrees
<1> QED
  BY <1>1, <1>2, <1>3, PTL DEF MCSpec

\* What is known of the tree, where it runs, when the entries find their places.
PlacesInv == part = "tree" => TreeProofs!Inv /\ TreeProofs!FoundInv

LEMMA NoPath == ASSUME Empty \notin Seq(TwoNames) PROVE Empty \notin ShortPaths
<1>1. ASSUME NEW n \in 0..3, NEW p \in [1..n -> TwoNames] PROVE p \in Seq(TwoNames)
  OBVIOUS
<1> QED
  BY <1>1 DEF ShortPaths

\* In the run, too, every entry is at its path in the end, and the others are nowhere, in
\* whatever order they were listed, unless two of them have one path (State.cc:186-212).
THEOREM EntriesAreFound ==
    ASSUME Empty \notin Seq(TwoNames) PROVE MCSpec => []EntriesFound
<1>1. TreeProofs!Addressed /\ TreeProofs!Trees /\ TreeProofs!Scanned
  BY NoPath, Addressed, ServersAreTrees
<1>2. MCInit => PlacesInv
  BY <1>1, TreeIsTree, TreeProofs!Initially, TreeProofs!FoundInitially DEF MCInit, PlacesInv
<1>3. PlacesInv /\ [MCNext]_mcvars => PlacesInv'
  <2> SUFFICES ASSUME PlacesInv, [MCNext]_mcvars, part' = "tree"
               PROVE  TreeProofs!Inv' /\ TreeProofs!FoundInv'
    BY DEF PlacesInv
  <2>1. part = "tree" /\ TreeProofs!Inv /\ TreeProofs!FoundInv
    BY DEF PlacesInv, MCNext, mcvars, Pages, TreeStep, DateStep, WriteLine, EraseLines
  <2>2. [TreeProofs!Next]_(TreeProofs!vars)
    BY TreeIsTree DEF MCNext, mcvars, Pages, TreeStep, DateStep, WriteLine, EraseLines
  <2> QED
    BY <1>1, <2>1, <2>2, TreeProofs!Stepwise, TreeProofs!FoundStepwise
<1>4. PlacesInv => EntriesFound
  BY <1>1, TreeFinds, TreeProofs!FoundInTheEnd DEF PlacesInv, EntriesFound
<1> QED
  BY <1>2, <1>3, <1>4, PTL DEF MCSpec

-----------------------------------------------------------------------------
(* .griveignore.                                                           *)

\* A set of positions has a first one.
LEMMA FirstOf ==
    ASSUME NEW T, T \subseteq Nat, T # {}
    PROVE  \E i \in T : \A j \in T : ~(j < i)
<1>1. PICK i \in T : \A j \in T : <<j, i>> \notin OpToRel(<, Nat)
  BY NatLessThanWellFounded, WFMin
<1> QED
  BY <1>1 DEF OpToRel

\* What a pattern matches, it includes with every folder on the way there: the part
\* that has the end of the folder in its share is cut short there.
LEMMA WayIsIncluded ==
    ASSUME NEW pattern \in Seq(Parts), pattern # <<>>, NEW path \in Seq(Plain),
           MatchesAll(pattern, path), NEW n \in 1..Len(path)
    PROVE  Includes(pattern, SubSeq(path, 1, n))
<1> DEFINE q == SubSeq(path, 1, n)
<1>1. q \in Seq(Plain) /\ Len(q) = n /\ \A k \in 1..n : q[k] = path[k]
  BY SubSeqProperties
<1> HIDE DEF q
<1>2. Len(pattern) \in Nat /\ Len(pattern) >= 1 /\ Len(path) \in Nat
      /\ n \in Nat /\ 1 <= n /\ n <= Len(path)
  BY EmptySeq, LenProperties
<1>3. PICK cut \in [0..Len(pattern) -> 0..Len(path)] :
        /\ cut[0] = 0 /\ cut[Len(pattern)] = Len(path)
        /\ \A i \in 1..Len(pattern) :
            /\ cut[i] - cut[i - 1] \in NamesOf(pattern[i])
            /\ \A k \in (cut[i - 1] + 1)..cut[i] : MatchesName(pattern[i], path[k])
  BY DEF MatchesAll
<1>11. \A j \in 0..Len(pattern) : cut[j] \in Nat /\ cut[j] <= Len(path)
  BY <1>2, <1>3
<1> DEFINE T == {i \in 1..Len(pattern) : n <= cut[i]}
<1>4. PICK i \in T : \A j \in T : ~(j < i)
  <2>1. Len(pattern) \in T
    BY <1>2, <1>3
  <2>2. T \subseteq Nat /\ T # {}
    BY <1>2, <2>1
  <2> HIDE DEF T
  <2> QED
    BY <2>2, FirstOf
<1>5. i \in 1..Len(pattern) /\ n <= cut[i] /\ \A j \in 0..(i - 1) : cut[j] < n
  <2>1. i \in 1..Len(pattern) /\ n <= cut[i]
    OBVIOUS
  <2>2. ASSUME NEW j \in 0..(i - 1) PROVE cut[j] < n
    <3>1. CASE j = 0
      BY <1>2, <1>3, <3>1
    <3>2. CASE j # 0
      <4>1. j \in 1..Len(pattern) /\ j < i /\ j \in 0..Len(pattern)
        BY <1>2, <2>1, <2>2, <3>2
      <4>2. ~(n <= cut[j])
        BY <1>4, <4>1
      <4>3. cut[j] \in 0..Len(path)
        BY <1>3, <4>1
      <4> QED
        BY <1>2, <4>2, <4>3
    <3> QED
      BY <3>1, <3>2
  <2> QED
    BY <2>1, <2>2
<1> HIDE DEF T
<1>6. n - cut[i - 1] \in NamesOf(pattern[i])
  <2>1. cut[i] - cut[i - 1] \in NamesOf(pattern[i]) /\ cut[i] \in Nat /\ cut[i - 1] \in Nat
    <3>1. i \in 0..Len(pattern) /\ i - 1 \in 0..Len(pattern)
      BY <1>2, <1>5
    <3> QED
      BY <1>3, <1>5, <1>11, <3>1
  <2>2. cut[i - 1] < n /\ n <= cut[i]
    BY <1>2, <1>5
  <2>3. CASE pattern[i] = AnyPath
    <3>1. n - cut[i - 1] \in Nat \ {0}
      BY <1>2, <2>1, <2>2
    <3> QED
      BY <2>3, <3>1 DEF NamesOf
  <2>4. CASE pattern[i] # AnyPath
    <3>1. cut[i] - cut[i - 1] = 1
      BY <2>1, <2>4 DEF NamesOf
    <3>2. n = cut[i]
      BY <1>2, <2>1, <2>2, <3>1
    <3> QED
      BY <2>1, <3>2
  <2> QED
    BY <2>3, <2>4
<1> DEFINE p == SubSeq(pattern, 1, i)
<1>7. p \in Seq(Parts) /\ Len(p) = i /\ \A j \in 1..i : p[j] = pattern[j]
  BY <1>2, <1>5, SubSeqProperties
<1>8. i = Len(pattern) => p = pattern
  BY <1>2, <1>7, SeqEqual
<1> HIDE DEF p
<1>9. MatchesAll(p, q)
  <2> DEFINE d == [j \in 0..i |-> IF j = i THEN n ELSE cut[j]]
  <2>0. i \in Nat /\ i >= 1 /\ \A j \in 0..i : j \in 0..Len(pattern)
    BY <1>2, <1>5
  <2>1. d \in [0..i -> 0..n] /\ d[0] = 0 /\ d[i] = n
    <3>1. \A j \in 0..i : j # i => j \in 0..(i - 1)
      BY <2>0
    <3>2. \A j \in 0..i : d[j] \in 0..n
      BY <1>2, <1>5, <1>11, <2>0, <3>1
    <3> QED
      BY <1>3, <2>0, <3>2
  <2>2. ASSUME NEW j \in 1..i
        PROVE  /\ d[j] - d[j - 1] \in NamesOf(p[j])
               /\ \A k \in (d[j - 1] + 1)..d[j] : MatchesName(p[j], q[k])
    <3>1. d[j - 1] = cut[j - 1] /\ d[j] <= cut[j] /\ d[j] <= n /\ d[j - 1] \in Nat
          /\ j \in 1..Len(pattern) /\ d[j] \in Nat /\ cut[j] \in Nat
      <4>1. j \in Nat /\ j <= i /\ 1 <= j /\ j - 1 \in 0..i /\ j - 1 # i /\ j \in 0..i
        BY <2>0
      <4>2. d[j - 1] = cut[j - 1] /\ d[j] = IF j = i THEN n ELSE cut[j]
        BY <4>1
      <4>3. j # i => j \in 0..(i - 1)
        BY <2>0, <4>1
      <4>4. cut[j - 1] \in Nat /\ cut[j] \in Nat
        BY <1>11, <2>0, <4>1
      <4>5. j \in 1..Len(pattern)
        BY <1>5, <4>1
      <4> HIDE DEF d
      <4> QED
        BY <1>2, <1>5, <4>2, <4>3, <4>4, <4>5
    <3>2. d[j] - d[j - 1] \in NamesOf(p[j])
      BY <1>3, <1>5, <1>6, <1>7, <3>1, SMTT(30)
    <3>3. ASSUME NEW k \in (d[j - 1] + 1)..d[j] PROVE MatchesName(p[j], q[k])
      <4>1. k \in 1..n /\ k \in (cut[j - 1] + 1)..cut[j]
        BY <3>1, <3>3
      <4> QED
        BY <1>1, <1>3, <1>7, <3>1, <4>1
    <3> QED
      BY <3>2, <3>3
  <2> HIDE DEF d
  <2> QED
    BY <1>1, <1>7, <2>1, <2>2 DEF MatchesAll
<1>10. q \in Prefixes(q)
  <2>1. q = SubSeq(q, 1, Len(q)) /\ Len(q) \in 1..Len(q)
    <3>1. /\ SubSeq(q, 1, Len(q)) \in Seq(Plain) /\ Len(SubSeq(q, 1, Len(q))) = Len(q)
          /\ \A k \in 1..Len(q) : SubSeq(q, 1, Len(q))[k] = q[k]
      BY <1>1, <1>2, SubSeqProperties
    <3> QED
      BY <1>1, <1>2, <3>1, SeqEqual
  <2> QED
    BY <2>1 DEF Prefixes
<1>12. CASE i = Len(pattern)
  <2>1. \E prefix \in Prefixes(q) : MatchesAll(pattern, prefix)
    BY <1>8, <1>9, <1>10, <1>12
  <2> QED
    BY <2>1 DEF Includes, q
<1>13. CASE i # Len(pattern)
  <2>1. i \in 1..(Len(pattern) - 1)
    BY <1>2, <1>5, <1>13
  <2>2. \E j \in 1..(Len(pattern) - 1) : MatchesAll(SubSeq(pattern, 1, j), q)
    BY <1>9, <2>1 DEF p
  <2> QED
    BY <2>2 DEF Includes, q
<1> QED
  BY <1>12, <1>13

\* The pattern has no slash at its beginning and no "**" between two other parts.
Simple(pattern) ==
    /\ pattern \in Seq(Parts) /\ Slash(pattern) = 0
    /\ \A i \in 2..Len(pattern) : pattern[i] # Empty
    /\ \A i \in 2..(Len(pattern) - 1) : pattern[i] # AnyPath

\* How many parts of a simple pattern come before those that stand for one name each,
\* and how many these are.
First(pattern) == IF Leads(pattern) THEN 1 ELSE 0
Named(pattern) == Len(pattern) - First(pattern) - (IF Trails(pattern) THEN 1 ELSE 0)

LEMMA SimpleIs ==
    ASSUME NEW pattern, Simple(pattern)
    PROVE  /\ Len(pattern) \in Nat /\ First(pattern) \in {0, 1} /\ Named(pattern) \in Nat
           /\ First(pattern) + Named(pattern) =
                IF Trails(pattern) THEN Len(pattern) - 1 ELSE Len(pattern)
           /\ First(pattern) + Named(pattern) <= Len(pattern)
           /\ Leads(pattern) => pattern[1] = AnyPath /\ Len(pattern) >= 1
           /\ Trails(pattern) => pattern[Len(pattern)] = AnyPath /\ Len(pattern) >= 2
           /\ \A i \in (First(pattern) + 1)..(First(pattern) + Named(pattern)) :
                  i \in 1..Len(pattern) /\ pattern[i] # AnyPath
<1>1. Len(pattern) \in Nat /\ Slash(pattern) = 0
  BY LenProperties DEF Simple
<1>2. /\ Leads(pattern) <=> 0 < Len(pattern) /\ pattern[1] = AnyPath
      /\ Trails(pattern) <=> 1 < Len(pattern) /\ pattern[Len(pattern)] = AnyPath
  BY <1>1 DEF Leads, Trails
<1>3. ASSUME NEW i \in (First(pattern) + 1)..(First(pattern) + Named(pattern))
      PROVE  i \in 1..Len(pattern) /\ pattern[i] # AnyPath
  <2>1. i \in 1..Len(pattern)
    BY <1>1, <1>2, <1>3 DEF First, Named
  <2>2. CASE i = 1
    BY <1>1, <1>2, <1>3, <2>1, <2>2 DEF First, Named
  <2>3. CASE i = Len(pattern) /\ i # 1
    BY <1>1, <1>2, <1>3, <2>1, <2>3 DEF First, Named
  <2>4. CASE i # 1 /\ i # Len(pattern)
    <3>1. i \in 2..(Len(pattern) - 1)
      BY <1>1, <2>1, <2>4
    <3> QED
      BY <2>1, <3>1 DEF Simple
  <2> QED
    BY <2>2, <2>3, <2>4
<1> QED
  BY <1>1, <1>2, <1>3 DEF First, Named

LEMMA MeansIs ==
    ASSUME NEW pattern, Simple(pattern), NEW path
    PROVE  Means(pattern, path) <=>
             \E dirs \in 0..(Len(path) - Named(pattern)) :
                /\ dirs > 0 <=> Leads(pattern)
                /\ dirs + Named(pattern) < Len(path) <=> Trails(pattern)
                /\ \A i \in 1..Named(pattern) :
                      MatchesName(pattern[First(pattern) + i], path[dirs + i])
<1>1. Slash(pattern) + (IF Leads(pattern) THEN 1 ELSE 0) = First(pattern)
  BY DEF Simple, First
<1> QED
  BY <1>1 DEF Means, Named

\* What the expression of a simple pattern matches is what the pattern means: from the
\* first part that stands for one name to the last, one name goes to each.
LEMMA MatchIsMeant ==
    ASSUME NEW pattern, Simple(pattern), NEW path \in Seq(Plain), MatchesAll(pattern, path)
    PROVE  Means(pattern, path)
<1> DEFINE f == First(pattern)
           m == Named(pattern)
<1>1. PICK cut \in [0..Len(pattern) -> 0..Len(path)] :
        /\ cut[0] = 0 /\ cut[Len(pattern)] = Len(path)
        /\ \A i \in 1..Len(pattern) :
            /\ cut[i] - cut[i - 1] \in NamesOf(pattern[i])
            /\ \A k \in (cut[i - 1] + 1)..cut[i] : MatchesName(pattern[i], path[k])
  BY DEF MatchesAll
<1>2. /\ Len(pattern) \in Nat /\ Len(path) \in Nat /\ f \in {0, 1} /\ m \in Nat
      /\ f + m <= Len(pattern)
  BY SimpleIs, LenProperties
<1>3. \A i \in 0..Len(pattern) : cut[i] \in Nat /\ cut[i] <= Len(path)
  BY <1>1, <1>2
<1>4. \A i \in (f + 1)..(f + m) :
        i \in 1..Len(pattern) /\ i - 1 \in 0..Len(pattern) /\ cut[i] = cut[i - 1] + 1
  <2> SUFFICES ASSUME NEW i \in (f + 1)..(f + m)
               PROVE  i \in 1..Len(pattern) /\ i - 1 \in 0..Len(pattern)
                      /\ cut[i] = cut[i - 1] + 1
    OBVIOUS
  <2>1. i \in 1..Len(pattern) /\ pattern[i] # AnyPath
    BY SimpleIs
  <2>2. i - 1 \in 0..Len(pattern) /\ i \in 0..Len(pattern)
    BY <1>2, <2>1
  <2>3. cut[i] - cut[i - 1] = 1
    BY <1>1, <2>1 DEF NamesOf
  <2> QED
    BY <1>3, <2>1, <2>2, <2>3
<1>5. \A i \in f..(f + m) : cut[i] = cut[f] + (i - f)
  <2> DEFINE T == {i \in f..(f + m) : cut[i] # cut[f] + (i - f)}
  <2> SUFFICES ASSUME T # {} PROVE FALSE
    OBVIOUS
  <2>1. T \subseteq Nat
    BY <1>2
  <2>2. PICK i \in T : \A j \in T : ~(j < i)
    BY <2>1, FirstOf
  <2>3. cut[f] \in Nat
    BY <1>2, <1>3
  <2>4. i # f
    BY <1>2, <2>3
  <2>5. i \in (f + 1)..(f + m) /\ i - 1 \in f..(f + m) /\ i - 1 < i
    BY <1>2, <2>4
  <2>6. cut[i - 1] = cut[f] + ((i - 1) - f)
    BY <2>2, <2>5
  <2>7. cut[i] = cut[f] + (i - f)
    BY <1>2, <1>4, <2>3, <2>5, <2>6
  <2> QED
    BY <2>7
<1>6. f \in 0..Len(pattern) /\ f + m \in 0..Len(pattern) /\ cut[f] \in Nat
      /\ cut[f + m] = cut[f] + m /\ cut[f + m] <= Len(path)
  <2>1. f \in 0..Len(pattern) /\ f + m \in 0..Len(pattern) /\ f + m \in f..(f + m)
        /\ (f + m) - f = m
    BY <1>2
  <2> HIDE DEF f, m
  <2>2. cut[f + m] = cut[f] + m
    BY <1>5, <2>1
  <2> QED
    BY <1>3, <2>1, <2>2
<1>7. cut[f] > 0 <=> Leads(pattern)
  <2>1. CASE Leads(pattern)
    <3>1. f = 1 /\ pattern[1] = AnyPath /\ 1 \in 1..Len(pattern)
      BY <1>2, <2>1, SimpleIs DEF First
    <3>2. cut[1] - cut[0] \in Nat \ {0}
      <4>1. cut[1] - cut[1 - 1] \in NamesOf(pattern[1])
        BY <1>1, <3>1
      <4> QED
        BY <3>1, <4>1 DEF NamesOf
    <3> QED
      BY <1>1, <1>6, <2>1, <3>1, <3>2
  <2>2. CASE ~Leads(pattern)
    BY <1>1, <2>2 DEF First
  <2> QED
    BY <2>1, <2>2
<1>8. cut[f] + m < Len(path) <=> Trails(pattern)
  <2>1. CASE Trails(pattern)
    <3>1. f + m = Len(pattern) - 1 /\ pattern[Len(pattern)] = AnyPath
          /\ Len(pattern) \in 1..Len(pattern)
      BY <1>2, <2>1, SimpleIs
    <3>2. cut[Len(pattern)] - cut[Len(pattern) - 1] \in Nat \ {0}
      BY <1>1, <3>1 DEF NamesOf
    <3> QED
      BY <1>1, <1>2, <1>6, <2>1, <3>1, <3>2
  <2>2. CASE ~Trails(pattern)
    <3>1. f + m = Len(pattern)
      BY <2>2, SimpleIs
    <3> QED
      BY <1>1, <1>2, <1>6, <2>2, <3>1
  <2> QED
    BY <2>1, <2>2
<1>9. ASSUME NEW i \in 1..m PROVE MatchesName(pattern[f + i], path[cut[f] + i])
  <2> DEFINE j == f + i
             n == cut[f] + i
  <2> HIDE DEF f, m
  <2>1. j \in (f + 1)..(f + m) /\ j \in f..(f + m) /\ j - f = i /\ n \in Nat
    BY <1>2, <1>6, <1>9
  <2> HIDE DEF j
  <2>2. cut[j] = n
    BY <1>5, <2>1
  <2>3. j \in 1..Len(pattern) /\ j - 1 \in 0..Len(pattern) /\ cut[j] = cut[j - 1] + 1
    BY <1>4, <2>1
  <2> HIDE DEF n
  <2>4. n \in (cut[j - 1] + 1)..cut[j]
    BY <1>3, <2>1, <2>2, <2>3
  <2>5. MatchesName(pattern[j], path[n])
    BY <1>1, <2>3, <2>4
  <2> QED
    BY <2>5 DEF j, n
<1>10. cut[f] \in 0..(Len(path) - m)
  BY <1>2, <1>6
<1> HIDE DEF f, m
<1>11. \E dirs \in 0..(Len(path) - m) :
            /\ dirs > 0 <=> Leads(pattern)
            /\ dirs + m < Len(path) <=> Trails(pattern)
            /\ \A i \in 1..m : MatchesName(pattern[f + i], path[dirs + i])
  BY <1>7, <1>8, <1>9, <1>10
<1> QED
  BY <1>11, MeansIs DEF f, m

\* And the other way round: the names are dealt out as the pattern means.
LEMMA MeantIsMatched ==
    ASSUME NEW pattern, Simple(pattern), NEW path \in Seq(Plain), Means(pattern, path)
    PROVE  MatchesAll(pattern, path)
<1> DEFINE f == First(pattern)
           m == Named(pattern)
<1>1. PICK dirs \in 0..(Len(path) - m) :
            /\ dirs > 0 <=> Leads(pattern)
            /\ dirs + m < Len(path) <=> Trails(pattern)
            /\ \A i \in 1..m : MatchesName(pattern[f + i], path[dirs + i])
  BY MeansIs
<1>2. /\ Len(pattern) \in Nat /\ Len(path) \in Nat /\ f \in {0, 1} /\ m \in Nat
      /\ f + m <= Len(pattern)
      /\ f + m = IF Trails(pattern) THEN Len(pattern) - 1 ELSE Len(pattern)
      /\ f = IF Leads(pattern) THEN 1 ELSE 0
      /\ Leads(pattern) => pattern[1] = AnyPath
      /\ Trails(pattern) => pattern[Len(pattern)] = AnyPath /\ Len(pattern) >= 2
  BY SimpleIs, LenProperties DEF First
<1>3. dirs \in Nat /\ dirs + m <= Len(path)
  BY <1>1, <1>2
<1> DEFINE ends == [i \in 0..Len(pattern) |-> IF i < f THEN 0
                                              ELSE IF i <= f + m THEN dirs + (i - f)
                                              ELSE Len(path)]
<1>4. ASSUME NEW i \in 0..Len(pattern)
      PROVE  ends[i] = (IF i < f THEN 0 ELSE IF i <= f + m THEN dirs + (i - f) ELSE Len(path))
  OBVIOUS
<1>5. ends \in [0..Len(pattern) -> 0..Len(path)]
  <2>1. ASSUME NEW i \in 0..Len(pattern) PROVE ends[i] \in 0..Len(path)
    BY <1>2, <1>3, <1>4, <2>1
  <2> QED
    BY <2>1
<1> HIDE DEF ends, f, m
<1>6. ends[0] = 0 /\ ends[Len(pattern)] = Len(path)
  <2>1. ends[0] = 0
    BY <1>1, <1>2, <1>3, <1>4
  <2>2. CASE Trails(pattern)
    BY <1>2, <1>4, <2>1, <2>2
  <2>3. CASE ~Trails(pattern)
    BY <1>1, <1>2, <1>3, <1>4, <2>3
  <2> QED
    BY <2>1, <2>2, <2>3
<1>7. ASSUME NEW i \in 1..Len(pattern)
      PROVE  /\ ends[i] - ends[i - 1] \in NamesOf(pattern[i])
             /\ \A k \in (ends[i - 1] + 1)..ends[i] : MatchesName(pattern[i], path[k])
  <2>0. i \in 0..Len(pattern) /\ i - 1 \in 0..Len(pattern)
    BY <1>2
  <2>1. CASE i <= f
    <3>1. i = 1 /\ f = 1 /\ Leads(pattern) /\ pattern[i] = AnyPath
      BY <1>2, <2>1
    <3>2. ends[i] = dirs /\ ends[i - 1] = 0 /\ dirs > 0
      BY <1>1, <1>2, <1>3, <1>4, <2>0, <3>1
    <3> QED
      BY <1>3, <3>1, <3>2 DEF NamesOf, MatchesName
  <2>2. CASE i > f /\ i <= f + m
    <3>1. ends[i] = dirs + (i - f) /\ ends[i - 1] = dirs + (i - 1 - f)
      <4>1. ~(i < f) /\ i <= f + m /\ ~(i - 1 < f) /\ i - 1 <= f + m
        BY <1>2, <2>0, <2>2
      <4>2. ends[i] = dirs + (i - f)
        BY <1>4, <2>0, <4>1
      <4>3. ends[i - 1] = dirs + (i - 1 - f)
        BY <1>4, <2>0, <4>1
      <4> QED
        BY <4>2, <4>3
    <3>2. ends[i] - ends[i - 1] = 1 /\ ends[i] = dirs + (i - f) /\ i - f \in 1..m
          /\ f + (i - f) = i
      BY <1>2, <1>3, <2>0, <2>2, <3>1
    <3>3. MatchesName(pattern[i], path[ends[i]])
      BY <1>1, <3>2
    <3>4. \A k \in (ends[i - 1] + 1)..ends[i] : k = ends[i]
      BY <1>2, <1>3, <2>0, <3>1, <3>2
    <3> QED
      BY <3>2, <3>3, <3>4 DEF NamesOf
  <2>3. CASE i > f + m
    <3>1. i = Len(pattern) /\ Trails(pattern) /\ pattern[i] = AnyPath /\ i - 1 = f + m
      BY <1>2, <2>0, <2>3
    <3>2. ends[i] = Len(path) /\ ends[i - 1] = dirs + m
      BY <1>2, <1>4, <1>6, <2>0, <3>1
    <3> QED
      BY <1>1, <1>2, <1>3, <3>1, <3>2 DEF NamesOf, MatchesName
  <2> QED
    BY <1>2, <2>0, <2>1, <2>2, <2>3
<1> QED
  BY <1>5, <1>6, <1>7 DEF MatchesAll


\* The pattern has no slash but at its beginning: lines are cut at every run of them.
IsPattern(pattern) ==
    /\ pattern \in Seq(Parts) /\ pattern # <<>>
    /\ \A i \in 2..Len(pattern) : pattern[i] # Empty

\* Joining the parts leaves away the slash that says nothing.
LEMMA JoinedMeans ==
    ASSUME NEW l, l.inc = FALSE, IsPattern(l.pattern), AsDocumented(l), NEW path \in Seq(Plain)
    PROVE  /\ Simple(Joined(l.pattern))
           /\ Means(l.pattern, path) <=> Means(Joined(l.pattern), path)
<1> DEFINE p == l.pattern
<1>1. Len(p) \in Nat /\ Len(p) >= 1 /\ p \in Seq(Parts)
  BY LenProperties, EmptySeq DEF IsPattern
<1>2. CASE p[1] # Empty
  <2>1. Joined(p) = p /\ Slash(p) = 0
    BY <1>2 DEF Joined, Slash
  <2> QED
    BY <1>1, <2>1 DEF Simple, IsPattern, AsDocumented
<1>3. CASE p[1] = Empty
  <2> DEFINE t == Tail(p)
  <2>1. /\ Joined(p) = t /\ t \in Seq(Parts) /\ Len(t) = Len(p) - 1 /\ Slash(p) = 1
        /\ \A i \in 1..Len(t) : t[i] = p[i + 1]
    BY <1>1, <1>3, HeadTailProperties DEF Joined, Slash
  <2> HIDE DEF t
  <2>2. \A i \in 1..Len(t) : t[i] # Empty
    <3>1. ASSUME NEW i \in 1..Len(t) PROVE t[i] # Empty
      <4>1. i + 1 \in 2..Len(p)
        BY <1>1, <2>1
      <4> QED
        BY <2>1, <4>1 DEF IsPattern
    <3> QED
      BY <3>1
  <2>3. Slash(t) = 0
    BY <1>1, <2>1, <2>2 DEF Slash
  <2>4. ASSUME NEW i \in 2..(Len(t) - 1) PROVE t[i] # AnyPath
    <3>1. i + 1 \in (Slash(p) + 2)..(Len(p) - 1) /\ i \in 1..Len(t)
      BY <1>1, <2>1, <2>4
    <3> QED
      BY <2>1, <3>1 DEF AsDocumented
  <2>5. Simple(t)
    BY <2>1, <2>2, <2>3, <2>4 DEF Simple
  <2>6. /\ Leads(p) <=> Leads(t)
        /\ Trails(p) <=> Trails(t)
    <3>1. 0 < Len(t) => t[1] = p[2] /\ t[Len(t)] = p[Len(p)]
      BY <1>1, <2>1
    <3> QED
      BY <1>1, <2>1, <2>3, <3>1 DEF Leads, Trails
  <2>7. /\ Slash(p) + (IF Leads(p) THEN 1 ELSE 0) = First(t) + 1
        /\ Len(p) - (First(t) + 1) - (IF Trails(p) THEN 1 ELSE 0) = Named(t)
    <3>1. First(t) = IF Leads(p) THEN 1 ELSE 0
      BY <2>6 DEF First
    <3>2. Named(t) = Len(t) - First(t) - (IF Trails(p) THEN 1 ELSE 0)
      BY <2>6 DEF Named
    <3> HIDE DEF p
    <3> QED
      BY <1>1, <2>1, <3>1, <3>2
  <2>8. \A i \in 1..Named(t) : p[First(t) + 1 + i] = t[First(t) + i]
    <3>1. ASSUME NEW i \in 1..Named(t) PROVE p[First(t) + 1 + i] = t[First(t) + i]
      <4>1. First(t) + i \in 1..Len(t) /\ (First(t) + i) + 1 = First(t) + 1 + i
        BY <2>1, <2>5, SimpleIs
      <4> QED
        BY <2>1, <4>1
    <3> QED
      BY <3>1
  <2>9. Means(p, path) <=>
             \E dirs \in 0..(Len(path) - Named(t)) :
                /\ dirs > 0 <=> Leads(t)
                /\ dirs + Named(t) < Len(path) <=> Trails(t)
                /\ \A i \in 1..Named(t) : MatchesName(p[First(t) + 1 + i], path[dirs + i])
    BY <2>6, <2>7 DEF Means
  <2> QED
    BY <2>1, <2>5, <2>8, <2>9, MeansIs
<1> QED
  BY <1>2, <1>3

\* What an included pattern keeps, its expression matches.
LEMMA KeptIsIncluded ==
    ASSUME NEW pattern, Simple(pattern), pattern # <<>>, NEW path \in Seq(Plain), path # <<>>,
           Keeps(pattern, path)
    PROVE  Includes(pattern, path)
<1>1. PICK other \in Prefixes(path) \cup Below(path, Len(pattern)) : Means(pattern, other)
  BY DEF Keeps
<1>2. Len(path) \in Nat /\ Len(path) >= 1
  BY LenProperties, EmptySeq
<1>3. CASE other \in Prefixes(path)
  <2>1. other \in Seq(Plain)
    BY <1>2, <1>3, SubSeqProperties DEF Prefixes
  <2> QED
    BY <1>1, <1>3, <2>1, MeantIsMatched DEF Includes
<1>4. CASE other \in Below(path, Len(pattern))
  <2>1. PICK k \in 0..Len(pattern) : \E names \in [1..k -> Plain] : other = path \o names
    BY <1>4 DEF Below
  <2>2. PICK names \in [1..k -> Plain] : other = path \o names
    BY <2>1
  <2>3. k \in Nat
    BY <2>1, LenProperties DEF Simple
  <2>4. names \in Seq(Plain) /\ Len(names) = k
    BY <2>3
  <2>5. /\ other \in Seq(Plain) /\ Len(other) = Len(path) + k
        /\ \A i \in 1..Len(path) : other[i] = path[i]
    <3>1. /\ other \in Seq(Plain) /\ Len(other) = Len(path) + Len(names)
          /\ \A i \in 1..(Len(path) + Len(names)) :
                other[i] = IF i <= Len(path) THEN path[i] ELSE names[i - Len(path)]
      BY <2>2, <2>4, ConcatProperties
    <3>2. ASSUME NEW i \in 1..Len(path) PROVE other[i] = path[i]
      <4>1. i \in 1..(Len(path) + Len(names)) /\ i <= Len(path)
        BY <1>2, <2>3, <2>4
      <4> QED
        BY <3>1, <4>1
    <3> QED
      BY <2>4, <3>1, <3>2
  <2>6. Len(path) \in 1..Len(other)
    BY <1>2, <2>3, <2>5
  <2>7. Includes(pattern, SubSeq(other, 1, Len(path)))
    BY <1>1, <2>5, <2>6, MeantIsMatched, WayIsIncluded DEF Simple
  <2>8. SubSeq(other, 1, Len(path)) = path
    <3>1. /\ SubSeq(other, 1, Len(path)) \in Seq(Plain)
          /\ Len(SubSeq(other, 1, Len(path))) = Len(path)
          /\ \A i \in 1..Len(path) : SubSeq(other, 1, Len(path))[i] = other[i]
      BY <1>2, <2>5, <2>6, SubSeqProperties
    <3> QED
      BY <2>5, <3>1, SeqEqual
  <2> QED
    BY <2>7, <2>8
<1> QED
  BY <1>1, <1>3, <1>4

\* A name for a part: itself, or any name if the part takes any.
NameFor(part_, name) == IF part_ \in Plain THEN part_ ELSE name

\* And what its expression matches, it keeps: what is on the way to a path that the
\* pattern names has below it a path that it names, with a name for every part left.
LEMMA IncludedIsKept ==
    ASSUME NEW pattern, Simple(pattern), pattern # <<>>, NEW path \in Seq(Plain), path # <<>>,
           Includes(pattern, path)
    PROVE  Keeps(pattern, path)
<1>1. /\ Len(path) \in Nat /\ Len(path) >= 1 /\ Len(pattern) \in Nat /\ Len(pattern) >= 1
      /\ pattern \in Seq(Parts) /\ path[1] \in Plain
  BY LenProperties, EmptySeq DEF Simple
<1>2. CASE \E prefix \in Prefixes(path) : MatchesAll(pattern, prefix)
  <2>1. PICK prefix \in Prefixes(path) : MatchesAll(pattern, prefix)
    BY <1>2
  <2>2. prefix \in Seq(Plain)
    BY <1>1, <2>1, SubSeqProperties DEF Prefixes
  <2> QED
    BY <2>1, <2>2, MatchIsMeant DEF Keeps
<1>3. CASE \E n \in 1..(Len(pattern) - 1) : MatchesAll(SubSeq(pattern, 1, n), path)
  <2>1. PICK n \in 1..(Len(pattern) - 1) : MatchesAll(SubSeq(pattern, 1, n), path)
    BY <1>3
  <2> DEFINE p == SubSeq(pattern, 1, n)
             k == Len(pattern) - n
             names == [i \in 1..k |-> NameFor(pattern[n + i], path[1])]
             other == path \o names
  <2>2. n \in Nat /\ n >= 1 /\ n < Len(pattern) /\ k \in 0..Len(pattern) /\ k \in Nat
    BY <1>1, <2>1
  <2>3. Len(p) = n /\ \A i \in 1..n : p[i] = pattern[i]
    BY <1>1, <2>2, SubSeqProperties
  <2>4. \A i \in 1..k : n + i \in 2..Len(pattern)
    BY <1>1, <2>2
  <2>5. names \in [1..k -> Plain] /\ names \in Seq(Plain) /\ Len(names) = k
    BY <1>1, <2>2 DEF NameFor
  <2>6. \A i \in 1..k : MatchesName(pattern[n + i], names[i])
    <3>1. ASSUME NEW i \in 1..k PROVE MatchesName(pattern[n + i], names[i])
      <4>1. n + i \in 2..Len(pattern) /\ n + i \in 1..Len(pattern)
        BY <1>1, <2>4
      <4>2. pattern[n + i] \in Parts /\ pattern[n + i] # Empty
        BY <1>1, <4>1 DEF Simple
      <4>3. names[i] = NameFor(pattern[n + i], path[1])
        OBVIOUS
      <4> QED
        BY <4>2, <4>3 DEF NameFor, Parts, MatchesName
    <3> QED
      BY <3>1
  <2> HIDE DEF names
  <2>7. /\ other \in Seq(Plain) /\ Len(other) = Len(path) + k
        /\ \A i \in 1..Len(path) : other[i] = path[i]
        /\ \A i \in 1..k : other[Len(path) + i] = names[i]
    <3>1. /\ other \in Seq(Plain) /\ Len(other) = Len(path) + Len(names)
          /\ \A i \in 1..(Len(path) + Len(names)) :
                other[i] = IF i <= Len(path) THEN path[i] ELSE names[i - Len(path)]
      BY <2>5, ConcatProperties
    <3> HIDE DEF other
    <3>2. ASSUME NEW i \in 1..k PROVE other[Len(path) + i] = names[i]
      <4>1. Len(path) + i \in 1..(Len(path) + Len(names)) /\ ~(Len(path) + i <= Len(path))
            /\ (Len(path) + i) - Len(path) = i
        BY <1>1, <2>2, <2>5
      <4> QED
        BY <3>1, <4>1
    <3>3. ASSUME NEW i \in 1..Len(path) PROVE other[i] = path[i]
      <4>1. i \in 1..(Len(path) + Len(names)) /\ i <= Len(path)
        BY <1>1, <2>2, <2>5
      <4> QED
        BY <3>1, <4>1
    <3> QED
      BY <2>5, <3>1, <3>2, <3>3
  <2>8. other \in Below(path, Len(pattern))
    BY <2>2, <2>5 DEF Below
  <2> HIDE DEF other, k
  <2>9. MatchesAll(pattern, other)
    <3>1. PICK cut \in [0..n -> 0..Len(path)] :
            /\ cut[0] = 0 /\ cut[n] = Len(path)
            /\ \A i \in 1..n :
                /\ cut[i] - cut[i - 1] \in NamesOf(pattern[i])
                /\ \A j \in (cut[i - 1] + 1)..cut[i] : MatchesName(pattern[i], path[j])
      <4>1. PICK cut \in [0..Len(p) -> 0..Len(path)] :
            /\ cut[0] = 0 /\ cut[Len(p)] = Len(path)
            /\ \A i \in 1..Len(p) :
                /\ cut[i] - cut[i - 1] \in NamesOf(p[i])
                /\ \A j \in (cut[i - 1] + 1)..cut[i] : MatchesName(p[i], path[j])
        BY <2>1 DEF MatchesAll
      <4> HIDE DEF p
      <4> QED
        BY <2>3, <4>1
    <3>2. \A i \in 0..n : cut[i] \in Nat /\ cut[i] <= Len(path)
      BY <1>1, <2>2, <3>1
    <3> DEFINE ends == [i \in 0..Len(pattern) |-> IF i <= n THEN cut[i] ELSE Len(path) + (i - n)]
    <3>3. \A i \in 0..Len(pattern) : ends[i] = IF i <= n THEN cut[i] ELSE Len(path) + (i - n)
      OBVIOUS
    <3>4. Len(other) = Len(path) + (Len(pattern) - n)
      BY <2>7 DEF k
    <3>5. ends \in [0..Len(pattern) -> 0..Len(other)]
      <4>1. ASSUME NEW i \in 0..Len(pattern) PROVE ends[i] \in 0..Len(other)
        <5>1. CASE i <= n
          <6>1. i \in 0..n
            BY <1>1, <2>2, <5>1
          <6> QED
            BY <1>1, <2>2, <3>2, <3>3, <3>4, <5>1, <6>1
        <5>2. CASE ~(i <= n)
          BY <1>1, <2>2, <3>3, <3>4, <5>2
        <5> QED
          BY <5>1, <5>2
      <4> QED
        BY <4>1
    <3> HIDE DEF ends
    <3>6. ends[0] = 0 /\ ends[Len(pattern)] = Len(other)
      <4>1. 0 \in 0..Len(pattern) /\ 0 <= n /\ Len(pattern) \in 0..Len(pattern)
            /\ ~(Len(pattern) <= n)
        BY <1>1, <2>2
      <4>2. ends[0] = cut[0]
        BY <3>3, <4>1
      <4>3. ends[Len(pattern)] = Len(path) + (Len(pattern) - n)
        BY <3>3, <4>1
      <4> QED
        BY <3>1, <3>4, <4>2, <4>3
    <3>7. ASSUME NEW i \in 1..Len(pattern)
          PROVE  /\ ends[i] - ends[i - 1] \in NamesOf(pattern[i])
                 /\ \A j \in (ends[i - 1] + 1)..ends[i] : MatchesName(pattern[i], other[j])
      <4>1. CASE i <= n
        <5>1. i \in 1..n /\ i \in 0..n /\ i - 1 \in 0..n
          BY <1>1, <2>2, <4>1
        <5>2. ends[i] = cut[i] /\ ends[i - 1] = cut[i - 1]
          <6>1. i \in 0..Len(pattern) /\ i - 1 \in 0..Len(pattern) /\ i - 1 <= n
            BY <1>1, <2>2, <4>1
          <6> QED
            BY <3>3, <4>1, <6>1
        <5>3. ASSUME NEW j \in (ends[i - 1] + 1)..ends[i] PROVE MatchesName(pattern[i], other[j])
          <6>1. j \in 1..Len(path) /\ j \in (cut[i - 1] + 1)..cut[i]
            BY <1>1, <3>2, <5>1, <5>2, <5>3
          <6> QED
            BY <2>7, <3>1, <5>1, <6>1
        <5> QED
          BY <3>1, <5>1, <5>2, <5>3
      <4>2. CASE ~(i <= n)
        <5>1. i - n \in 1..k /\ n + (i - n) = i /\ i - 1 \in 0..Len(pattern)
              /\ i \in 0..Len(pattern)
          BY <1>1, <2>2, <4>2 DEF k
        <5>2. ends[i] = Len(path) + (i - n) /\ ends[i - 1] = Len(path) + (i - n) - 1
          <6>1. ends[i] = Len(path) + (i - n)
            BY <3>3, <4>2, <5>1
          <6>2. CASE i - 1 <= n
            <7>1. i - 1 = n /\ i - n = 1
              BY <1>1, <2>2, <4>2, <6>2
            <7>2. ends[i - 1] = cut[n]
              BY <3>3, <5>1, <6>2, <7>1
            <7> QED
              BY <1>1, <3>1, <6>1, <7>1, <7>2
          <6>3. CASE ~(i - 1 <= n)
            <7>1. ends[i - 1] = Len(path) + ((i - 1) - n)
              BY <3>3, <5>1, <6>3
            <7> QED
              BY <1>1, <2>2, <6>1, <7>1
          <6> QED
            BY <6>2, <6>3
        <5>3. MatchesName(pattern[i], other[Len(path) + (i - n)])
          BY <2>6, <2>7, <5>1
        <5>4. \A j \in (ends[i - 1] + 1)..ends[i] : j = Len(path) + (i - n)
          BY <1>1, <2>2, <5>1, <5>2
        <5>5. ends[i] - ends[i - 1] = 1
          BY <1>1, <2>2, <5>1, <5>2
        <5>6. ends[i] - ends[i - 1] \in NamesOf(pattern[i])
          <6>1. 1 \in NamesOf(pattern[i])
            BY DEF NamesOf
          <6> QED
            BY <5>5, <6>1
        <5>7. ASSUME NEW j \in (ends[i - 1] + 1)..ends[i] PROVE MatchesName(pattern[i], other[j])
          BY <5>3, <5>4
        <5> QED
          BY <5>6, <5>7
      <4> QED
        BY <4>1, <4>2
    <3> QED
      BY <3>5, <3>6, <3>7 DEF MatchesAll
  <2> QED
    BY <2>7, <2>8, <2>9, MatchIsMeant DEF Keeps
<1> QED
  BY <1>2, <1>3 DEF Includes

\* What any lines say of any path is what they mean.
LEMMA LinesMean ==
    ASSUME NEW ls, \A l \in ls : l.inc \in BOOLEAN /\ IsPattern(l.pattern),
           NEW path \in Seq(Plain), path # <<>>
    PROVE  IgnoredAsMeant(ls, path) /\ IncludedIsReached(ls, path)
<1>1. ASSUME NEW l \in ls, l.inc, AsDocumented(l)
      PROVE  Simple(l.pattern) /\ l.pattern # <<>>
  BY <1>1 DEF AsDocumented, IsPattern, Simple
<1>2. ASSUME NEW l \in ls, ~l.inc, AsDocumented(l)
      PROVE  Excludes(l.pattern, path) <=> Means(l.pattern, path)
  BY <1>2, JoinedMeans, MatchIsMeant, MeantIsMatched DEF Excludes
<1>3. ASSUME NEW l \in ls, l.inc, AsDocumented(l)
      PROVE  Includes(l.pattern, path) <=> Keeps(l.pattern, path)
  BY <1>1, <1>3, KeptIsIncluded, IncludedIsKept
<1>4. IgnoredAsMeant(ls, path)
  <2> SUFFICES ASSUME \A l \in ls : AsDocumented(l)
               PROVE  IsIgnore(ls, path) <=>
                        /\ \E l \in ls : ~l.inc /\ Means(l.pattern, path)
                        /\ ~\E l \in ls : l.inc /\ Keeps(l.pattern, path)
    BY DEF IgnoredAsMeant
  <2>1. (\E l \in ls : ~l.inc /\ Excludes(l.pattern, path))
            <=> \E l \in ls : ~l.inc /\ Means(l.pattern, path)
    BY <1>2
  <2>2. (\E l \in ls : l.inc /\ Includes(l.pattern, path))
            <=> \E l \in ls : l.inc /\ Keeps(l.pattern, path)
    BY <1>3
  <2> QED
    BY <2>1, <2>2 DEF IsIgnore
<1>5. IncludedIsReached(ls, path)
  <2> SUFFICES ASSUME NEW l \in ls, l.inc, AsDocumented(l), Means(l.pattern, path)
               PROVE  Reached(ls, path)
    BY DEF IncludedIsReached
  <2>0. MatchesAll(l.pattern, path)
    BY <1>1, MeantIsMatched
  <2>1. ASSUME NEW prefix \in Prefixes(path) PROVE ~IsIgnore(ls, prefix)
    <3>1. PICK n \in 1..Len(path) : prefix = SubSeq(path, 1, n)
      BY DEF Prefixes
    <3>2. Includes(l.pattern, prefix)
      BY <1>1, <2>0, <3>1, WayIsIncluded DEF Simple
    <3> QED
      BY <3>2 DEF IsIgnore
  <2> QED
    BY <2>1 DEF Reached
<1> QED
  BY <1>4, <1>5

\* The lines that the run writes are lines.
LinesInv == lines \subseteq Lines(Patterns)

LEMMA LinesAre == MCSpec => []LinesInv
<1>1. MCInit => LinesInv
  BY DEF MCInit, LinesInv
<1>2. LinesInv /\ [MCNext]_mcvars => LinesInv'
  BY DEF MCNext, mcvars, Pages, TreeStep, DateStep, WriteLine, EraseLines, LinesInv
<1> QED
  BY <1>1, <1>2, PTL DEF MCSpec

\* For lines of any length, none of which has "**" between two other parts or is an
\* included one with a slash at its beginning: a path is ignored just if an excluded
\* line names it and no included one names it, a folder above or something below it.
\* And whatever other lines there are, what such an included line names is reached
\* (State.cc:338-410).
THEOREM RulesAreMeant == ASSUME MaxLength \in Nat PROVE MCSpec => []RulesMeant
<1>1. ASSUME NEW S, NEW s \in SeqsUpTo(S) PROVE s \in Seq(S) /\ s # <<>>
  <2>1. PICK n \in 1..MaxLength : s \in [1..n -> S]
    BY DEF SeqsUpTo
  <2>2. s \in Seq(S) /\ Len(s) = n
    BY <2>1
  <2> QED
    BY <2>1, <2>2, EmptySeq
<1>2. LinesInv => RulesMeant
  <2> SUFFICES ASSUME LinesInv, NEW path \in Paths
               PROVE  IgnoredAsMeant(lines, path) /\ IncludedIsReached(lines, path)
    BY DEF RulesMeant
  <2>1. path \in Seq(Plain) /\ path # <<>>
    BY <1>1 DEF Paths
  <2>2. ASSUME NEW l \in lines PROVE l.inc \in BOOLEAN /\ IsPattern(l.pattern)
    <3>1. /\ l.inc \in BOOLEAN /\ l.pattern \in SeqsUpTo(Parts)
          /\ \A i \in 2..Len(l.pattern) : l.pattern[i] # Empty
      BY DEF LinesInv, Lines, Patterns
    <3> QED
      BY <1>1, <3>1 DEF IsPattern
  <2> QED
    BY <2>1, <2>2, LinesMean
<1> QED
  BY <1>2, LinesAre, PTL

-----------------------------------------------------------------------------
(* The dates of the entries.                                               *)

\* n is what the first digits of d say, for up to l of them.
Says(n, d, l) ==
    /\ n[0] = 0 /\ \A k \in 0..l : n[k] \in Nat
    /\ \A k \in 1..l : n[k] = 10 * n[k - 1] + d[k]

\* atoi goes through the digits from the left, however many there are.
LEMMA NumberUnfolds ==
    ASSUME NEW d \in Seq(0..9)
    PROVE  \E n : Says(n, d, Len(d)) /\ Date!Number(d) = n[Len(d)]
<1> DEFINE S == 0..Len(d)
           Step(n, k) == IF k = 0 THEN 0 ELSE 10 * n[k - 1] + d[k]
           F == [n \in [S -> Nat] |-> [k \in S |-> Step(n, k)]]
           U == [k \in S |-> {k - 1} \cap S]
<1>0. Len(d) \in Nat /\ \A k \in 1..Len(d) : d[k] \in 0..9
  OBVIOUS
<1>1. U \in [S -> SUBSET S] /\ TreeProofs!Ends(S, U)
  <2>1. ASSUME NEW T \in SUBSET S, T # {} PROVE \E k \in T : U[k] \cap T = {}
    <3>0. T \subseteq Nat
      BY <1>0
    <3>1. PICK k \in T : \A j \in T : ~(j < k)
      BY <2>1, <3>0, FirstOf
    <3>2. k \in S /\ k \in Nat
      BY <1>0
    <3>3. U[k] = {k - 1} \cap S
      BY <3>2
    <3>4. k - 1 \notin T
      BY <3>1, <3>2
    <3> QED
      BY <3>1, <3>3, <3>4
  <2>2. U \in [S -> SUBSET S]
    <3> HIDE DEF S
    <3> QED
      OBVIOUS
  <2> HIDE DEF S, U
  <2> QED
    BY <2>1, <2>2 DEF TreeProofs!Ends
<1>2. ASSUME NEW n \in [S -> Nat], NEW k \in S PROVE Step(n, k) \in Nat
  <2>1. CASE k = 0
    BY <2>1
  <2>2. CASE k # 0
    <3>1. k - 1 \in S /\ k \in 1..Len(d)
      BY <1>0, <2>2
    <3>2. n[k - 1] \in Nat /\ d[k] \in 0..9
      BY <1>0, <3>1
    <3>3. d[k] \in Nat
      BY <3>2
    <3> HIDE DEF S
    <3> QED
      BY <2>2, <3>2, <3>3
  <2> QED
    BY <2>1, <2>2
<1>3. F \in [[S -> Nat] -> [S -> Nat]]
  <2> HIDE DEF S, Step
  <2> QED
    BY <1>2
<1>4. TreeProofs!Looks(F, S, U, Nat)
  <2>1. ASSUME NEW g \in [S -> Nat], NEW k \in S PROVE F[g][k] = Step(g, k)
    <3> HIDE DEF S, Step
    <3> QED
      OBVIOUS
  <2>2. ASSUME NEW g \in [S -> Nat], NEW h \in [S -> Nat], NEW k \in S,
               \A j \in U[k] : g[j] = h[j]
        PROVE  F[g][k] = F[h][k]
    <3>1. k # 0 => k - 1 \in U[k]
      BY <1>0
    <3>2. Step(g, k) = Step(h, k)
      BY <2>2, <3>1
    <3>3. F[g][k] = Step(g, k) /\ F[h][k] = Step(h, k)
      <4> HIDE DEF S, Step, F
      <4> QED
        BY <2>1
    <3> HIDE DEF S, Step, F
    <3> QED
      BY <3>2, <3>3
  <2> HIDE DEF S, F, U
  <2> QED
    BY <2>2, Zenon DEF TreeProofs!Looks
<1>5. TreeProofs!Exists(F, S, Nat)
  <2>1. TreeProofs!Defines(F, S, U, Nat)
    <3>1. Nat # {}
      OBVIOUS
    <3> HIDE DEF F, S, U
    <3> QED
      BY <1>1, <1>3, <1>4, <3>1 DEF TreeProofs!Defines
  <2> HIDE DEF F, S, U
  <2> QED
    BY <2>1, TreeProofs!Recursion
<1>6. PICK f \in [S -> Nat] : f = F[f]
  BY <1>5 DEF TreeProofs!Exists
<1>7. f = [k \in S |-> Step(f, k)]
  <2> HIDE DEF S, Step
  <2> QED
    BY <1>6
<1> DEFINE number == CHOOSE n : n = [k \in 0..Len(d) |-> IF k = 0 THEN 0 ELSE 10 * n[k - 1] + d[k]]
<1>8. number = [k \in 0..Len(d) |-> IF k = 0 THEN 0 ELSE 10 * number[k - 1] + d[k]]
  BY <1>7, Zenon
<1>9. Date!Number(d) = number[Len(d)]
  BY Zenon DEF Date!Number
<1> HIDE DEF number
<1>10. number[0] = 0 /\ \A k \in 1..Len(d) : number[k] = 10 * number[k - 1] + d[k]
  BY <1>0, <1>8
<1>11. \A k \in 0..Len(d) : number[k] \in Nat
  <2> DEFINE T == {k \in 0..Len(d) : number[k] \notin Nat}
  <2> SUFFICES ASSUME T # {} PROVE FALSE
    OBVIOUS
  <2>0. T \subseteq Nat
    BY <1>0
  <2>1. PICK k \in T : \A j \in T : ~(j < k)
    BY <2>0, FirstOf
  <2>2. k \in 1..Len(d) /\ number[k] \notin Nat
    BY <1>0, <1>10
  <2>3. number[k - 1] \in Nat
    <3>1. k - 1 \in 0..Len(d) /\ k - 1 < k
      BY <1>0, <2>2
    <3> QED
      BY <2>1, <3>1
  <2>4. d[k] \in Nat
    BY <1>0, <2>2
  <2> HIDE DEF T
  <2> QED
    BY <1>10, <2>2, <2>3, <2>4
<1> QED
  BY <1>9, <1>10, <1>11 DEF Says

\* What three digits say, and what six zeros after them make of it.
LEMMA Tens ==
    ASSUME NEW d, NEW n, Says(n, d, 3), \A k \in 1..3 : d[k] \in 0..9
    PROVE  n[2] <= 99 /\ n[3] <= 999 /\ n[3] = 100 * d[1] + 10 * d[2] + d[3]
<1>1. n[1] = 10 * n[0] + d[1] /\ n[2] = 10 * n[1] + d[2] /\ n[3] = 10 * n[2] + d[3]
  BY DEF Says
<1>2. d[1] \in 0..9 /\ d[2] \in 0..9 /\ d[3] \in 0..9
  OBVIOUS
<1>3. n[0] = 0 /\ n[1] \in Nat /\ n[2] \in Nat /\ n[3] \in Nat
  BY DEF Says
<1>4. n[1] = d[1]
  BY <1>1, <1>2, <1>3
<1>5. n[2] = 10 * d[1] + d[2]
  BY <1>1, <1>4
<1>6. n[3] = 10 * (10 * d[1] + d[2]) + d[3]
  BY <1>1, <1>5
<1> DEFINE e == d[1]
           f == d[2]
           g == d[3]
<1>7. n[2] = 10 * e + f /\ n[3] = 10 * (10 * e + f) + g /\ e \in 0..9 /\ f \in 0..9 /\ g \in 0..9
  BY <1>2, <1>5, <1>6, Zenon
<1> HIDE DEF e, f, g
<1>8. n[2] <= 99
  BY <1>7
<1>9. n[3] <= 999
  BY <1>7
<1>10. n[3] = 100 * e + 10 * f + g
  BY <1>7
<1> QED
  BY <1>8, <1>9, <1>10, Zenon DEF e, f, g

LEMMA Zeros ==
    ASSUME NEW d, NEW n, Says(n, d, 9), \A k \in 4..9 : d[k] = 0
    PROVE  n[9] = 1000 * 1000 * n[3]
<1>0. ASSUME NEW k \in 4..9
      PROVE  n[k] = 10 * n[k - 1] + 0 /\ n[k] \in Nat /\ n[k - 1] \in Nat
  <2>1. k \in 1..9 /\ k \in 0..9 /\ k - 1 \in 0..9
    OBVIOUS
  <2>2. n[k] = 10 * n[k - 1] + d[k] /\ d[k] = 0
    BY <2>1, Zenon DEF Says
  <2>3. n[k] \in Nat /\ n[k - 1] \in Nat
    BY <2>1, Zenon DEF Says
  <2> QED
    BY <2>2, <2>3, Zenon
<1>1. n[4] = 10 * n[3] /\ n[5] = 10 * n[4] /\ n[3] \in Nat /\ n[4] \in Nat /\ n[5] \in Nat
  BY <1>0
<1>2. n[6] = 10 * n[5] /\ n[7] = 10 * n[6] /\ n[6] \in Nat /\ n[7] \in Nat
  BY <1>0
<1>3. n[8] = 10 * n[7] /\ n[9] = 10 * n[8] /\ n[8] \in Nat /\ n[9] \in Nat
  BY <1>0
<1>4. n[6] = 1000 * n[3]
  BY <1>1, <1>2
<1>5. n[9] = 1000 * n[6]
  BY <1>2, <1>3
<1> QED
  BY <1>1, <1>4, <1>5

LEMMA FirstThree ==
    ASSUME NEW d, NEW e, NEW n, Says(n, e, 9), \A k \in 1..3 : e[k] = d[k]
    PROVE  Says(n, d, 3)
<1>1. \A k \in 0..3 : k \in 0..9
  OBVIOUS
<1>2. \A k \in 1..3 : k \in 1..9
  OBVIOUS
<1> QED
  BY <1>1, <1>2, Zenon DEF Says

\* A fraction with zeros up to the nanosecond.
Nanos(d) == d \o [i \in 1..(9 - Len(d)) |-> 0]

LEMMA Padded ==
    ASSUME NEW d \in Seq(0..9), Len(d) = 3
    PROVE  \E p \in Seq(0..9) :
             /\ p = Nanos(d)
             /\ Len(p) = 9
             /\ \A i \in 1..3 : p[i] = d[i]
             /\ \A i \in 4..9 : p[i] = 0
<1> DEFINE z == [i \in 1..6 |-> 0]
           p == d \o z
<1>1. z \in Seq(0..9)
  <2>1. z \in [1..6 -> 0..9]
    OBVIOUS
  <2> HIDE DEF z
  <2> QED
    BY <2>1, SeqDef
<1>2. Len(z) = 6
  <2>1. DOMAIN z = 1..6
    OBVIOUS
  <2>2. Len(z) \in Nat /\ DOMAIN z = 1..Len(z)
    BY <1>1, LenProperties
  <2> HIDE DEF z
  <2> QED
    BY <2>1, <2>2
<1>3. \A i \in 1..6 : z[i] = 0
  OBVIOUS
<1> HIDE DEF z
<1>4. /\ p \in Seq(0..9) /\ Len(p) = Len(d) + Len(z)
      /\ \A i \in 1..Len(d) + Len(z) : p[i] = IF i <= Len(d) THEN d[i] ELSE z[i - Len(d)]
  BY <1>1, ConcatProperties, Zenon
<1> HIDE DEF p
<1>5. Len(d) + Len(z) = 9
  BY <1>2
<1>6. \A i \in 1..9 : p[i] = IF i <= 3 THEN d[i] ELSE z[i - 3]
  BY <1>4, <1>5, Zenon
<1>7. ASSUME NEW i \in 1..3 PROVE p[i] = d[i]
  <2>1. i \in 1..9 /\ i <= 3
    OBVIOUS
  <2> QED
    BY <1>6, <2>1, Zenon
<1>8. ASSUME NEW i \in 4..9 PROVE p[i] = 0
  <2>1. i \in 1..9 /\ ~(i <= 3) /\ i - 3 \in 1..6
    OBVIOUS
  <2> QED
    BY <1>3, <1>6, <2>1, Zenon
<1>9. p = Nanos(d)
  <2>1. 9 - Len(d) = 6
    OBVIOUS
  <2> QED
    BY <2>1, Zenon DEF p, z, Nanos
<1>10. p \in Seq(0..9) /\ Len(p) = 9
  BY <1>4, <1>5, Zenon
<1> QED
  BY <1>7, <1>8, <1>9, <1>10, Zenon

\* What up to three digits say.
LEMMA ThreeDigits ==
    ASSUME NEW d \in Seq(0..9)
    PROVE  /\ Date!Number(d) \in Nat
           /\ Len(d) = 2 => Date!Number(d) <= 99
           /\ Len(d) = 3 =>
                /\ Date!Number(d) <= 999
                /\ Date!Number(d) = 100 * d[1] + 10 * d[2] + d[3]
<1>0. Len(d) \in Nat /\ \A k \in 1..Len(d) : d[k] \in 0..9
  OBVIOUS
<1>1. PICK n : Says(n, d, Len(d)) /\ Date!Number(d) = n[Len(d)]
  BY NumberUnfolds
<1>2. Date!Number(d) \in Nat
  BY <1>0, <1>1 DEF Says
<1>3. ASSUME Len(d) = 2 PROVE Date!Number(d) <= 99
  <2> DEFINE e == d[1]
             f == d[2]
  <2>1. e \in 0..9 /\ f \in 0..9
    BY <1>0, <1>3
  <2>2. n[1] = 10 * n[0] + e /\ n[2] = 10 * n[1] + f /\ n[0] = 0 /\ n[1] \in Nat
    BY <1>0, <1>1, <1>3 DEF Says
  <2> HIDE DEF e, f
  <2>3. n[1] = e
    BY <2>1, <2>2
  <2>4. n[2] <= 99
    BY <2>1, <2>2, <2>3
  <2> QED
    BY <1>1, <1>3, <2>4, Zenon
<1>4. ASSUME Len(d) = 3
      PROVE  Date!Number(d) <= 999 /\ Date!Number(d) = 100 * d[1] + 10 * d[2] + d[3]
  <2>1. Says(n, d, 3) /\ Date!Number(d) = n[3] /\ \A k \in 1..3 : d[k] \in 0..9
    BY <1>0, <1>1, <1>4, Zenon
  <2> QED
    BY <2>1, Tens
<1> QED
  BY <1>2, <1>3, <1>4

\* Three digits of a fraction are its milliseconds.
LEMMA ThreeOfNine ==
    ASSUME NEW d \in Seq(0..9), Len(d) = 3
    PROVE  Date!Number(Nanos(d)) = 1000 * 1000 * Date!Number(d)
<1>0. \A k \in 1..3 : d[k] \in 0..9
  BY ElementOfSeq, Zenon
<1>1. PICK p \in Seq(0..9) :
        /\ p = Nanos(d)
        /\ Len(p) = 9
        /\ \A i \in 1..3 : p[i] = d[i]
        /\ \A i \in 4..9 : p[i] = 0
  BY Padded, Zenon
<1>2. PICK n : Says(n, p, Len(p)) /\ Date!Number(p) = n[Len(p)]
  BY NumberUnfolds, Zenon
<1>3. Says(n, p, 9) /\ Date!Number(p) = n[9]
  BY <1>1, <1>2, Zenon
<1>4. n[3] = Date!Number(d)
  <2>1. Says(n, d, 3)
    BY <1>1, <1>3, FirstThree, Zenon
  <2>2. n[3] = 100 * d[1] + 10 * d[2] + d[3]
    BY <1>0, <2>1, Tens
  <2> QED
    BY <2>2, ThreeDigits
<1>5. n[9] = 1000 * 1000 * n[3]
  <2>1. Says(n, p, 9) /\ \A k \in 4..9 : p[k] = 0
    BY <1>1, <1>3, Zenon
  <2> QED
    BY <2>1, Zeros
<1>6. Date!Number(p) = 1000 * 1000 * Date!Number(d)
  BY <1>3, <1>4, <1>5
<1> QED
  BY <1>1, <1>6

\* Where the dates run: the time that was read is that of the date until there may be
\* another, and what was made of it is kept with it.
DatesInv ==
    part = "dates" =>
        /\ at \in {"out", "listed", "dated", "failed"} /\ date \in Date!Dates
        /\ time \in [sec: Nat, nsec: Nat] /\ before \in [sec: Nat, nsec: Nat]
        /\ at # "out" => time = Date!FromIso(date)
        /\ at \in {"listed", "dated"} => newer = (time.sec > srv)
        /\ at = "dated" => time = Date!NoTime \/ utime = Date!Tv(time)

\* Nanoseconds that are less than a second do not count against a second.
LEMMA Nanoseconds ==
    ASSUME NEW s \in Nat, NEW n \in Nat, n < 1000 * 1000 * 1000,
           NEW t \in Nat, NEW m \in Nat, m < 1000 * 1000 * 1000
    PROVE  LET i == s * (1000 * 1000 * 1000) + n
               j == t * (1000 * 1000 * 1000) + m
           IN  /\ i > j <=> (IF s = t THEN n > m ELSE s > t)
               /\ i < j <=> (IF s = t THEN n < m ELSE s < t)
               /\ i = j <=> s = t /\ n = m
<1>1. ASSUME s < t PROVE s * (1000 * 1000 * 1000) + n < t * (1000 * 1000 * 1000) + m
  BY <1>1, SMT
<1>2. ASSUME t < s PROVE s * (1000 * 1000 * 1000) + n > t * (1000 * 1000 * 1000) + m
  BY <1>2, SMT
<1> QED
  BY <1>1, <1>2, SMT

LEMMA DatesOf ==
    ASSUME part = "dates", DatesInv PROVE Date!DatesMeant
<1> USE DatesAssumption
<1>0. /\ at \in {"out", "listed", "dated", "failed"} /\ date \in Date!Dates
      /\ time \in [sec: Nat, nsec: Nat] /\ before \in [sec: Nat, nsec: Nat]
      /\ at # "out" => time = Date!FromIso(date)
      /\ at \in {"listed", "dated"} => newer = (time.sec > srv)
      /\ at = "dated" => time = Date!NoTime \/ utime = Date!Tv(time)
  BY Zenon DEF DatesInv
<1>1. date # Garbled => date.sec \in Nat /\ date.frac \in Seq(0..9)
  BY <1>0 DEF Date!Dates
<1>2. ASSUME at # "out", Date!Milliseconds(date)
      PROVE  /\ time.sec = date.sec /\ date.sec \in Nat
             /\ time.nsec = Date!Number(date.frac) * 1000 * 1000
             /\ Date!Number(date.frac) \in Nat /\ Date!Number(date.frac) <= 999
             /\ Date!Moment(date) = time.sec * (1000 * 1000 * 1000) + time.nsec
  <2>1. date # Garbled /\ date.frac \in Seq(0..9) /\ Len(date.frac) = 3 /\ date.sec \in Nat
    BY <1>1, <1>2 DEF Date!Milliseconds
  <2>2. time.sec = date.sec /\ time.nsec = Date!Number(date.frac) * 1000 * 1000
    BY <1>0, <1>2, <2>1 DEF Date!FromIso
  <2>3. Date!Number(date.frac) \in Nat /\ Date!Number(date.frac) <= 999
    BY <2>1, ThreeDigits
  <2> DEFINE f == date.frac
             N == Date!Number(f)
  <2>4. Date!Number(Nanos(f)) = 1000 * 1000 * N
    BY <2>1, ThreeOfNine
  <2>5. Date!Moment(date) = date.sec * (1000 * 1000 * 1000) + Date!Number(Nanos(f))
    BY DEF Date!Moment, Date!Second, Nanos
  <2>6. time.sec = date.sec /\ date.sec \in Nat /\ time.nsec = N * 1000 * 1000 /\ N \in Nat
    BY <2>1, <2>2, <2>3
  <2> HIDE DEF f, N
  <2>7. Date!Moment(date) = time.sec * (1000 * 1000 * 1000) + time.nsec
    BY <2>4, <2>5, <2>6
  <2> QED
    BY <2>1, <2>2, <2>3, <2>7
<1>3. Date!ReadAsMeant
  <2>1. ASSUME at \in {"listed", "dated"}, Date!Milliseconds(date)
        PROVE  time.sec * Date!Second + time.nsec = Date!Moment(date)
    BY <1>2, <2>1 DEF Date!Second
  <2>2. ASSUME at \in {"listed", "dated"}, Date!Milliseconds(date)
        PROVE  Date!Shown(time) = date
    <3> DEFINE f == date.frac
               N == Date!Number(f)
    <3>1. f \in Seq(0..9) /\ Len(f) = 3 /\ date \in [sec: Seconds, frac: Fractions]
      BY <1>0, <1>1, <2>2 DEF Date!Milliseconds, Date!Dates
    <3>2. f[1] \in 0..9 /\ f[2] \in 0..9 /\ f[3] \in 0..9
      BY <3>1
    <3>3. N = 100 * f[1] + 10 * f[2] + f[3] /\ N \in Nat
      BY <3>1, ThreeDigits
    <3>4. time.nsec \div 1000000 = N
      <4>1. time.nsec = N * 1000 * 1000 /\ N \in Nat
        BY <1>2, <2>2
      <4> HIDE DEF N
      <4> QED
        BY <4>1
    <3> HIDE DEF N
    <3>5. N \div 100 = f[1] /\ (N \div 10) % 10 = f[2] /\ N % 10 = f[3]
      <4> DEFINE i == f[1]
                 j == f[2]
                 k == f[3]
      <4>1. i \in 0..9 /\ j \in 0..9 /\ k \in 0..9 /\ N = 100 * i + 10 * j + k
        BY <3>2, <3>3, Zenon
      <4> HIDE DEF f, i, j, k
      <4>2. N \div 100 = i /\ (N \div 10) % 10 = j /\ N % 10 = k
        BY <4>1, SMT
      <4> QED
        BY <4>2 DEF i, j, k
    <3>6. f = <<f[1], f[2], f[3]>>
      BY <3>1
    <3>7. date = [sec |-> date.sec, frac |-> f]
      BY <3>1
    <3>8. time.sec = date.sec
      BY <1>2, <2>2
    <3> HIDE DEF f
    <3>9. Date!Shown(time) = [sec |-> time.sec, frac |-> <<f[1], f[2], f[3]>>]
      BY <3>4, <3>5 DEF Date!Shown
    <3> QED
      BY <3>6, <3>7, <3>8, <3>9
  <2>3. ASSUME at \in {"listed", "dated"}, ~Date!Sane(time)
        PROVE  Len(date.frac) > 3
    <3>1. time = Date!FromIso(date) /\ ~(time.nsec < 1000 * 1000 * 1000)
      BY <1>0, <2>3 DEF Date!Sane, Date!Second
    <3>2. date # Garbled
      BY <3>1 DEF Date!FromIso, Date!NoTime
    <3>3. date.frac \in Seq(0..9) /\ Len(date.frac) \in Nat
      BY <1>1, <3>2
    <3>4. Len(date.frac) >= 2 /\ time.nsec = Date!Number(date.frac) * 1000 * 1000
      BY <3>1, <3>2, <3>3 DEF Date!FromIso
    <3>5. Date!Number(date.frac) \in Nat
            /\ (Len(date.frac) = 2 => Date!Number(date.frac) <= 99)
            /\ (Len(date.frac) = 3 => Date!Number(date.frac) <= 999)
      BY <3>3, ThreeDigits
    <3> DEFINE N == Date!Number(date.frac)
               l == Len(date.frac)
    <3>6. /\ time.nsec = N * 1000 * 1000 /\ ~(time.nsec < 1000 * 1000 * 1000)
          /\ N \in Nat /\ (l = 2 => N <= 99) /\ (l = 3 => N <= 999) /\ l \in Nat /\ l >= 2
      BY <3>1, <3>3, <3>4, <3>5
    <3> HIDE DEF N, l
    <3>7. ~(N <= 999)
      BY <3>6
    <3>8. l > 3
      BY <3>6, <3>7
    <3> QED
      BY <3>8 DEF l
  <2> QED
    BY <2>1, <2>2, <2>3 DEF Date!ReadAsMeant
<1>4. Date!SecondsCount
  <2>1. ASSUME at \in {"listed", "dated"}, date # Garbled PROVE newer <=> date.sec > srv
    <3>1. time.sec = date.sec
      BY <1>0, <2>1 DEF Date!FromIso
    <3> QED
      BY <1>0, <2>1, <3>1
  <2>2. ASSUME at = "dated", Date!Milliseconds(date), Date!Moment(date) > 0
        PROVE  utime.sec * 1000000 + utime.usec = Date!Moment(date) \div 1000
    <3> DEFINE N == Date!Number(date.frac)
    <3>1. /\ time.sec \in Nat /\ time.nsec = N * 1000 * 1000 /\ N \in Nat
          /\ Date!Moment(date) = time.sec * (1000 * 1000 * 1000) + time.nsec
      BY <1>2, <2>2
    <3>2. utime = Date!Tv(time)
      BY <1>0, <2>2, <3>1 DEF Date!NoTime
    <3>3. utime.sec = time.sec /\ utime.usec = time.nsec \div 1000
      BY <3>2 DEF Date!Tv
    <3> HIDE DEF N
    <3>4. time.nsec \div 1000 = 1000 * N
      BY <3>1
    <3>5. Date!Moment(date) \div 1000 = time.sec * 1000000 + 1000 * N
      BY <3>1
    <3> QED
      BY <3>1, <3>3, <3>4, <3>5
  <2> QED
    BY <2>1, <2>2 DEF Date!SecondsCount
<1>5. Date!InOrder
  <2> DEFINE Instant(t) == t.sec * (1000 * 1000 * 1000) + t.nsec
             Agree == /\ Date!Greater(time, before) <=> Instant(time) > Instant(before)
                      /\ Date!Less(time, before) <=> Instant(time) < Instant(before)
  <2>0. Date!InOrder <=> (Date!Sane(time) /\ Date!Sane(before) => Agree)
    BY DEF Date!InOrder, Date!Second
  <2> SUFFICES ASSUME Date!Sane(time), Date!Sane(before) PROVE Agree
    <3> HIDE DEF Agree
    <3> QED
      BY <2>0, Zenon
  <2>1. /\ time.sec \in Nat /\ time.nsec \in Nat /\ time.nsec < 1000 * 1000 * 1000
        /\ before.sec \in Nat /\ before.nsec \in Nat /\ before.nsec < 1000 * 1000 * 1000
    BY <1>0 DEF Date!Sane, Date!Second
  <2>2. Date!Greater(time, before) <=> Instant(time) > Instant(before)
    BY <2>1, Nanoseconds DEF Date!Greater
  <2>3. Date!Less(time, before) <=> Instant(time) < Instant(before)
    <3>1. Date!Less(time, before) <=>
            IF time.sec = before.sec THEN time.nsec < before.nsec ELSE time.sec < before.sec
      BY <2>1 DEF Date!Less, Date!Greater, Date!Equal
    <3> QED
      BY <2>1, <3>1, Nanoseconds
  <2> QED
    BY <2>2, <2>3
<1> QED
  BY <1>3, <1>4, <1>5 DEF Date!DatesMeant

LEMMA DatesKept == ASSUME DatesInv, [MCNext]_mcvars PROVE DatesInv'
<1> USE DatesAssumption
<1> SUFFICES ASSUME part' = "dates"
             PROVE  /\ at' \in {"out", "listed", "dated", "failed"} /\ date' \in Date!Dates
                    /\ time' \in [sec: Nat, nsec: Nat] /\ before' \in [sec: Nat, nsec: Nat]
                    /\ at' # "out" => time' = Date!FromIso(date')
                    /\ at' \in {"listed", "dated"} => newer' = (time'.sec > srv')
                    /\ at' = "dated" => time' = Date!NoTime \/ utime' = Date!Tv(time')
  BY DEF DatesInv, Date!Dates, Date!FromIso, Date!NoTime, Date!Tv
<1>0. part = "dates" /\ (Date!Next \/ UNCHANGED dates)
  BY DEF MCNext, mcvars, Pages, TreeStep, DateStep, WriteLine, EraseLines
<1>1. /\ at \in {"out", "listed", "dated", "failed"} /\ date \in Date!Dates
      /\ time \in [sec: Nat, nsec: Nat] /\ before \in [sec: Nat, nsec: Nat]
      /\ at # "out" => time = Date!FromIso(date)
      /\ at \in {"listed", "dated"} => newer = (time.sec > srv)
      /\ at = "dated" => time = Date!NoTime \/ utime = Date!Tv(time)
  BY <1>0 DEF DatesInv
<1>2. CASE UNCHANGED dates
  BY <1>1, <1>2 DEF dates
<1>3. CASE Date!Modify
  BY <1>1, <1>3 DEF Date!Modify
<1>4. CASE Date!List
  <2>1. Date!FromIso(date) \in [sec: Nat, nsec: Nat]
    <3>1. CASE date = Garbled
      BY <3>1 DEF Date!FromIso, Date!NoTime
    <3>2. CASE date # Garbled
      <4>1. date.sec \in Nat /\ date.frac \in Seq(0..9)
        BY <1>1, <3>2 DEF Date!Dates
      <4>2. Date!Number(date.frac) \in Nat
        BY <4>1, ThreeDigits
      <4> QED
        BY <3>2, <4>1, <4>2 DEF Date!FromIso
    <3> QED
      BY <3>1, <3>2
  <2> QED
    BY <1>1, <1>4, <2>1 DEF Date!List
<1>5. CASE Date!Download
  <2>0. /\ at = "listed" /\ UNCHANGED <<date, time, before, newer, srv>>
        /\ at' \in {"dated", "failed"}
    BY <1>5 DEF Date!Download, Date!SetFileTime
  <2>1. at' = "dated" => time = Date!NoTime \/ utime' = Date!Tv(time)
    <3>1. Date!Equal(time, Date!NoTime) => time = Date!NoTime
      BY <1>1 DEF Date!Equal, Date!NoTime
    <3> QED
      BY <1>5, <3>1 DEF Date!Download, Date!SetFileTime
  <2> QED
    BY <1>1, <2>0, <2>1
<1>6. CASE Date!Store \/ Date!Leave
  BY <1>1, <1>6 DEF Date!Store, Date!Leave
<1> QED
  BY <1>0, <1>2, <1>3, <1>4, <1>5, <1>6 DEF Date!Next

\* The modifiedDate of an entry is read as the moment that it means, is newer exactly if
\* its second is later than the one of the record, and is what the local file gets
\* (DateTime.cc:42-163), whatever the seconds and the digits after the dot are.
THEOREM DatesAreMeant == MCSpec => []DatesMeant
<1>1. MCInit => DatesInv
  BY DEF MCInit, Date!Init, DatesInv, Date!NoTime
<1>2. DatesInv /\ [MCNext]_mcvars => DatesInv'
  BY DatesKept
<1>3. DatesInv => DatesMeant
  BY DatesOf DEF DatesMeant
<1> QED
  BY <1>1, <1>2, <1>3, PTL DEF MCSpec
=============================================================================
