------------------------------ MODULE Listing ------------------------------
(***************************************************************************)
(* The root folder through any number of runs of grive: several names, some *)
(* of them ignored, and a server that lists its files page by page while    *)
(* other clients go on working.  The server may have several files of one   *)
(* name, and things that grive does not take: Google documents, names with  *)
(* a slash, files with several parents.                                     *)
(*                                                                         *)
(* The user acts between two runs, the other clients also between two       *)
(* pages; what happens during the transfers is in FileSync, folders and     *)
(* moved files are in TreeSync (no two names have a content in common here, *)
(* so that no file is taken for another one that was moved).                *)
(***************************************************************************)
EXTENDS Resource, FiniteSets

CONSTANTS
    Names,       \* the names in the root folder
    ContentOf,   \* ContentOf[n]: what may be in the files of that name
    Kinds,       \* the kinds of files on the server
    Options,     \* the ways grive is started
    Inside,      \* the name that -s gives
    Again,       \* whether a file that is changed may be listed again
    MaxUser,     \* how many changes the user makes
    MaxOthers,   \* how many changes the other clients make
    MaxRules,    \* how often .griveignore is changed
    MaxFaults    \* how many runs die

ASSUME ListingAssumption ==
    /\ ContentOf \in [Names -> SUBSET Content]
    /\ \A n, q \in Names : n # q => ContentOf[n] \cap ContentOf[q] = {}
    /\ "file" \in Kinds /\ Kinds \subseteq {"file", "document", "slash", "parents"}
    /\ Options \subseteq {"normal", "dir"}
    /\ Inside \in Names /\ Again \in BOOLEAN
    /\ {MaxUser, MaxOthers, MaxRules, MaxFaults} \subseteq Nat

VARIABLES
    local,     \* what is on the disk: [data, ctime] of every name
    remote,    \* the files on the server
    rev,       \* the number of versions the server has made
    rule,      \* the names that .griveignore has
    left,      \* how many changes may still be made, and runs die
    index,     \* .grive_state on disk
    pc,        \* where the run is
    opt,       \* how it was started
    ign,       \* m_ign_re: the names that this run ignores
    st,        \* m_st, the index in memory
    res,       \* the Resource objects; one in state "unknown" does not exist
    id,        \* their m_id
    todo,      \* the files that are still to be listed
    more,      \* m_next is not empty
    agenda,    \* the names that are still to be synchronised
    had,       \* history: the contents that both sides have had
    steady,    \* history: the files that were there when the listing began, and
               \* have stayed there
    mixed,     \* history: names that were listed more than once in a run, or of
               \* which another content came than the one that was listed
    hidden     \* history: names deleted by the user while they were ignored

env  == <<local, remote, rev, rule, left>>
mem  == <<opt, ign, st, res, id, todo, more, agenda>>
past == <<had, steady, mixed, hidden>>
vars == <<local, remote, rev, rule, left, index, pc, mem, past>>

NoFile  == [data |-> Nothing, ctime |-> 0]
Here(n) == local[n].data # Nothing

Entries == [id: Nat, name: Names, kind: Kinds, data: Content, mtime: Nat,
            etag: Nat, trashed: BOOLEAN]

TypeOK ==
    /\ local \in [Names -> [data: Checksums, ctime: 0..2]]
    /\ remote \subseteq Entries /\ IsFiniteSet(remote)
    /\ \A e, f \in remote : e.id = f.id => e = f
    /\ rev \in Nat /\ rule \subseteq Names
    /\ left \in [{"user", "others", "rules", "faults"} -> Nat]
    /\ index \in [Names -> Records] /\ st \in [Names -> Records]
    /\ pc \in {"idle", "listing", "syncing"}
    /\ opt \in {"normal", "dir"} /\ ign \subseteq Names
    /\ res \in [Names -> Resources] /\ id \in [Names -> Nat]
    /\ todo \subseteq 1..rev /\ more \in BOOLEAN /\ agenda \subseteq Names
    /\ had \subseteq Content
    /\ steady \subseteq 1..rev /\ {mixed, hidden} \subseteq SUBSET Names

NoRun ==
    /\ pc' = "idle" /\ opt' = "normal" /\ ign' = {}
    /\ st' = [n \in Names |-> NoRecord]
    /\ res' = [n \in Names |-> NewResource] /\ id' = [n \in Names |-> 0]
    /\ todo' = {} /\ more' = FALSE /\ agenda' = {}
    /\ steady' = {}

Init ==
    /\ local = [n \in Names |-> NoFile] /\ remote = {} /\ rev = 0 /\ rule = {}
    /\ left = [user |-> MaxUser, others |-> MaxOthers, rules |-> MaxRules,
               faults |-> MaxFaults]
    /\ index = [n \in Names |-> NoRecord]
    /\ pc = "idle" /\ opt = "normal" /\ ign = {} /\ st = index
    /\ res = [n \in Names |-> NewResource] /\ id = [n \in Names |-> 0]
    /\ todo = {} /\ more = FALSE /\ agenda = {}
    /\ had = {} /\ steady = {} /\ mixed = {} /\ hidden = {}

\* What the query "trashed=false" answers.
Listed == {e \in remote : ~e.trashed}

\* State::FromRemote: Google documents, which have no content to download, names
\* with a slash and files with another number of parents than one are passed over.
Takes(e) == e.kind \notin {"document", "slash", "parents"}

\* The files that grive could take under a name.
FilesOf(n) == {e \in Listed : e.name = n /\ Takes(e)}

-----------------------------------------------------------------------------
(* The user and the other clients.                                         *)

Acts(who) == left[who] > 0 /\ left' = [left EXCEPT ![who] = @ - 1]

LocalWrite(n) ==
    /\ pc = "idle" /\ Acts("user")
    /\ \E c \in ContentOf[n] : local' = [local EXCEPT ![n] = [data |-> c, ctime |-> 1]]
    /\ hidden' = hidden \ {n}
    /\ UNCHANGED <<remote, rev, rule, index, pc, mem, had, steady, mixed>>

LocalDelete(n) ==
    /\ pc = "idle" /\ Acts("user") /\ Here(n)
    /\ local' = [local EXCEPT ![n] = NoFile]
    /\ hidden' = IF n \in rule THEN hidden \cup {n} ELSE hidden
    /\ UNCHANGED <<remote, rev, rule, index, pc, mem, had, steady, mixed>>

ChangeRule ==
    /\ pc = "idle" /\ Acts("rules")
    /\ rule' \in SUBSET Names \ {rule}
    /\ UNCHANGED <<local, remote, rev, index, pc, mem, past>>

\* What is made during the listing may be on one of the next pages; what is changed
\* may be there again.
MayCome(i) ==
    IF pc = "listing" /\ more /\ (Again \/ i = rev + 1) THEN {todo, todo \cup {i}}
    ELSE {todo}

RemoteCreate(n) ==
    /\ pc \in {"idle", "listing"} /\ Acts("others")
    /\ \E c \in ContentOf[n], k \in Kinds :
        remote' = remote \cup {[id |-> rev + 1, name |-> n, kind |-> k, data |-> c,
                                mtime |-> rev + 1, etag |-> rev + 1, trashed |-> FALSE]}
    /\ rev' = rev + 1
    /\ todo' \in MayCome(rev + 1)
    /\ UNCHANGED <<local, rule, index, pc, opt, ign, st, res, id, more, agenda, past>>

RemoteEdit(e) ==
    /\ pc \in {"idle", "listing"} /\ Acts("others")
    /\ \E c \in ContentOf[e.name] \ {e.data} :
        remote' = (remote \ {e}) \cup
            {[e EXCEPT !.data = c, !.mtime = rev + 1, !.etag = rev + 1]}
    /\ rev' = rev + 1
    /\ todo' \in MayCome(e.id)
    /\ UNCHANGED <<local, rule, index, pc, opt, ign, st, res, id, more, agenda, past>>

\* A file in the trash keeps its content; what is listed no longer has it.
RemoteTrash(e) ==
    /\ pc \in {"idle", "listing"} /\ Acts("others")
    /\ remote' = (remote \ {e}) \cup {[e EXCEPT !.trashed = TRUE, !.etag = rev + 1]}
    /\ rev' = rev + 1
    /\ todo' = todo \ {e.id}
    /\ steady' = steady \ {e.id}
    /\ UNCHANGED <<local, rule, index, pc, opt, ign, st, res, id, more, agenda,
                   had, mixed, hidden>>

Environment ==
    \/ \E n \in Names : LocalWrite(n) \/ LocalDelete(n) \/ RemoteCreate(n)
    \/ \E e \in Listed : RemoteEdit(e) \/ RemoteTrash(e)
    \/ ChangeRule

-----------------------------------------------------------------------------
(* The scan of the local directory.                                        *)

\* State::State: -s takes the place of .griveignore.
Rules(o) == IF o = "dir" THEN Names \ {Inside} ELSE rule

\* m_ign_changed: .griveignore has rules, and -s has replaced them.  What is compared
\* are two regular expressions, and that of -s is never one that lines make.
RulesReplaced(o) == rule # {} /\ o = "dir"

\* Mutant: what the index has left is restored without asking for the rules.
LeftoverIgnored(o, n) == index[n].present /\ ~Here(n)

\* A record without a file.
Leftover(o, n) == index[n].present /\ ~Here(n) /\ n \notin Rules(o)

\* The record as it is looked at: if the rules were replaced, a leftover is taken
\* for one that the server has made since.
Known(o, n) ==
    IF RulesReplaced(o) /\ ~Here(n) THEN [index[n] EXCEPT !.srv = 0] ELSE index[n]

Scan(o) ==
    /\ pc = "idle"
    /\ opt' = o /\ ign' = Rules(o)
    /\ LET scanned == {n \in Names : Here(n) /\ n \notin Rules(o)}
           gone    == {n \in Names : Leftover(o, n)}
       IN  /\ st' = [n \in Names |-> IF n \in scanned THEN Item(Known(o, n))
                                     ELSE IF n \in gone THEN Known(o, n) ELSE index[n]]
           /\ res' = [n \in Names |->
                        IF n \in scanned THEN FromLocal(local[n], Item(Known(o, n)))
                        ELSE IF n \in gone THEN FromDeleted(Known(o, n))
                        ELSE NewResource]
    /\ pc' = "listing" /\ more' = TRUE
    /\ todo' = {e.id : e \in Listed}
    /\ steady' = todo'
    /\ UNCHANGED <<env, index, id, agenda, had, mixed, hidden>>

-----------------------------------------------------------------------------
(* The listing: Feed2::GetNext, State::FromRemote and State::Update.        *)

\* There is, or there will be, a resource for the entry.
Matched(e) == Takes(e) /\ e.name \notin ign

\* Update: the resource of the name, be it found by its href or by its name,
\* gets the entry, whatever entry it has got before.
Update(e) ==
    /\ res' = [res EXCEPT ![e.name] = FromRemote(@, e, "sync", local[e.name].data)]
    /\ id' = [id EXCEPT ![e.name] = e.id]
    /\ had' = IF local[e.name].data = e.data THEN had \cup {e.data} ELSE had
    /\ mixed' = IF id[e.name] # 0 THEN mixed \cup {e.name} ELSE mixed

\* Mutants: an empty page is taken for the last one; m_next is not emptied.
EmptyIsLast(page, rest) == page # {} /\ rest
NextLinkKept(page, rest) == TRUE

\* nextLink says whether there is another page; this one may be empty.
NextLink(page, rest) == rest

\* A page has one entry at most: nobody acts between the entries of one page, and
\* several small pages allow all that a big one does.
GetNext(page) ==
    /\ pc = "listing" /\ more
    /\ todo' = todo \ page
    /\ \E rest \in (IF todo' = {} THEN BOOLEAN ELSE {TRUE}) : more' = NextLink(page, rest)
    /\ \/ \E e \in Listed : page = {e.id} /\ Matched(e) /\ Update(e)
       \/ /\ \A e \in Listed : e.id \in page => ~Matched(e)
          /\ UNCHANGED <<res, id, had, mixed>>
    /\ UNCHANGED <<env, index, pc, opt, ign, st, agenda, steady, hidden>>

\* There is no folder whose entries could wait for ResolveEntry.
StartSync ==
    /\ pc = "listing" /\ ~more
    /\ pc' = "syncing"
    /\ agenda' = {n \in Names : res[n].state # "unknown"}
    /\ UNCHANGED <<env, index, opt, ign, st, res, id, todo, more, past>>

-----------------------------------------------------------------------------
(* SyncSelf of one name.                                                    *)

Self(n, states) == pc = "syncing" /\ n \in agenda /\ res[n].state \in states

Synced(n, r, rec) ==
    /\ res' = [res EXCEPT ![n] = r]
    /\ st' = [st EXCEPT ![n] = SetSrvTime(rec, r)]
    /\ agenda' = agenda \ {n}
    /\ UNCHANGED <<rule, left, index, pc, opt, ign, id, todo, more, steady>>

\* The exception is caught; neither the record nor its server time is written.
Caught(n) ==
    /\ agenda' = agenda \ {n}
    /\ UNCHANGED <<env, index, pc, opt, ign, st, res, id, todo, more, past>>

Stored(n) ==
    LET r == [res[n] EXCEPT !.state = "sync", !.md5 = local[n].data,
                            !.etag = rev + 1, !.mtime = rev + 1]
    IN  Synced(n, r, SetIndex(st[n], r, r.ctime))

\* A file of the name is made, also if the server has one that was not listed.
Create(n) ==
    /\ Self(n, {"local_new"})
    /\ remote' = remote \cup {[id |-> rev + 1, name |-> n, kind |-> "file",
                               data |-> local[n].data, mtime |-> rev + 1,
                               etag |-> rev + 1, trashed |-> FALSE]}
    /\ rev' = rev + 1 /\ had' = had \cup {local[n].data}
    /\ Stored(n)
    /\ UNCHANGED <<local, mixed, hidden>>

\* Mutant: If-Match is left out.
TargetAnyVersion(n) == {e \in Listed : e.id = id[n]}

\* The file that was listed, if If-Match finds it as it was.
Target(n) == {e \in Listed : e.id = id[n] /\ e.etag = res[n].etag}

EditContent(n) ==
    /\ Self(n, {"local_changed"})
    /\ \E e \in Target(n) :
        remote' = (remote \ {e}) \cup
            {[e EXCEPT !.data = local[n].data, !.mtime = rev + 1, !.etag = rev + 1]}
    /\ rev' = rev + 1 /\ had' = had \cup {local[n].data}
    /\ Stored(n)
    /\ UNCHANGED <<local, mixed, hidden>>

DeleteRemote(n) ==
    /\ Self(n, {"local_deleted"})
    /\ \E e \in Target(n) : remote' = remote \ {e}
    /\ hidden' = hidden \ {n}
    /\ Synced(n, res[n], NoRecord)
    /\ UNCHANGED <<local, rev, had, mixed>>

Refused(n) ==
    /\ Self(n, {"local_changed", "local_deleted"})
    /\ Target(n) = {}
    /\ Caught(n)

\* What the server has by then under the address that was listed.  The record gets
\* the checksum of the listing, whatever came.
Download(n) ==
    /\ Self(n, {"remote_new", "remote_changed"})
    /\ \E e \in remote :
        /\ e.id = id[n]
        /\ local' = [local EXCEPT ![n] = [data |-> e.data, ctime |-> 2]]
        /\ had' = had \cup {e.data}
        /\ mixed' = IF e.data = res[n].md5 THEN mixed ELSE mixed \cup {n}
    /\ hidden' = hidden \ {n}
    /\ LET r == [res[n] EXCEPT !.state = "sync", !.ctime = 2]
       IN  Synced(n, r, SetIndex(st[n], r, 2))
    /\ UNCHANGED <<remote, rev>>

DeleteLocal(n) ==
    /\ Self(n, {"remote_deleted"})
    /\ local' = [local EXCEPT ![n] = NoFile]
    /\ Synced(n, res[n], NoRecord)
    /\ UNCHANGED <<remote, rev, had, mixed, hidden>>

BothDeleted(n) ==
    /\ Self(n, {"both_deleted"})
    /\ hidden' = hidden \ {n}
    /\ Synced(n, res[n], NoRecord)
    /\ UNCHANGED <<local, remote, rev, had, mixed>>

AlreadySync(n) ==
    /\ Self(n, {"sync"})
    /\ Synced(n, res[n], SetIndex(st[n], res[n], res[n].ctime))
    /\ UNCHANGED <<local, remote, rev, had, mixed, hidden>>

SyncSelf(n) ==
    \/ Create(n) \/ EditContent(n) \/ DeleteRemote(n) \/ Refused(n) \/ Download(n)
    \/ DeleteLocal(n) \/ BothDeleted(n) \/ AlreadySync(n)

-----------------------------------------------------------------------------
(* The end of a run.                                                       *)

\* The next run looks at the index rec; what is in the trash is out of sight.
ExitWith(rec) ==
    /\ index' = [n \in Names |-> [rec[n] EXCEPT !.ctime = IF @ = NoTime THEN NoTime ELSE 0]]
    /\ local' = [n \in Names |-> IF Here(n) /\ local[n].ctime > rec[n].ctime
                                 THEN [local[n] EXCEPT !.ctime = 1]
                                 ELSE [local[n] EXCEPT !.ctime = 0]]
    /\ remote' = Listed
    /\ NoRun
    /\ UNCHANGED <<rev, rule, had, mixed, hidden>>

SaveState ==
    /\ pc = "syncing" /\ agenda = {}
    /\ ExitWith(st)
    /\ UNCHANGED left

\* GetChangeStamp fails, after everything was transferred: SaveState is left out.
StampFails ==
    /\ pc = "syncing" /\ agenda = {} /\ Acts("faults")
    /\ ExitWith(index)

\* A page cannot be had or parsed.
ListingFails ==
    /\ pc = "listing" /\ Acts("faults")
    /\ ExitWith(index)

RunStep ==
    \/ \E o \in Options : Scan(o)
    \/ GetNext({}) \/ \E i \in todo : GetNext({i})
    \/ StartSync
    \/ \E n \in Names : SyncSelf(n)
    \/ SaveState

Next == Environment \/ RunStep \/ StampFails \/ ListingFails

Spec == Init /\ [][Next]_vars

\* The timer starts a run without any option again and again, and a run goes on.
FairSpec == Spec /\ WF_vars(RunStep) /\ SF_vars(Scan("normal"))

-----------------------------------------------------------------------------
(* Properties.                                                             *)

\* A run changes nothing of a name that it ignores, neither the file on the disk,
\* nor those on the server, nor the record in .grive_state, which is there again
\* when the rule goes.
IgnoredUntouched ==
    [][\A n \in ign :
        /\ local'[n].data = local[n].data /\ index'[n] = index[n]
        /\ pc = "syncing" => FilesOf(n)' = FilesOf(n)]_vars

\* A name is taken for deleted or for new only if none of its files was on the
\* server all the time, however the listing is cut into pages and whatever other
\* clients do meanwhile (Drive.cc:80).
ActsOnMissing ==
    [][\A n \in Names : DeleteLocal(n) \/ Create(n) =>
        \A e \in FilesOf(n) : e.id \notin steady]_vars

\* What goes to the trash of the server has been in the local directory, unless
\* the server has ever listed two files of the name in one run, or one of them
\* twice, or given another content than the one it had listed.
TrashesOnlyKnown ==
    [][\A n \in Names \ mixed : DeleteRemote(n) => \A e \in Target(n) : e.data \in had]_vars

\* A file that was deleted while its name was ignored is not trashed when the rule
\* goes (README.md:249: "note that Grive will still track it to not accidentally
\* delete remote files when changing ignore regexp").
RuleChangeTrashesNothing ==
    [][\A n \in hidden : ~DeleteRemote(n)]_vars

Alone(n)  == Cardinality(FilesOf(n)) <= 1 /\ n \notin mixed
Agreed(n) == {local[n].data} = IF FilesOf(n) = {} THEN {Nothing}
                               ELSE {e.data : e \in FilesOf(n)}

\* Once nothing is changed any more, every name that is not ignored comes to have
\* the same content on both sides, if none was ever mixed up like that.
Converges ==
    [](\A n \in Names : Alone(n)) => <>[](\A n \in Names \ rule : Agreed(n))
=============================================================================
