---------------------------- MODULE ResourceTree ----------------------------
(***************************************************************************)
(* How the entries of a listing find their places in the tree of resources: *)
(* the index of the resources by href, State::Update, and the entries that  *)
(* wait for their folder.  Listing and TreeSync take an entry as soon as     *)
(* its folder is known and match it with the resource of its name; that an   *)
(* entry gets there, in whatever order the feed has them, is shown here.     *)
(*                                                                          *)
(* A resource is the path that its name and its folders make.  The tree      *)
(* starts as the scan has left it.  An entry may be listed again, and the    *)
(* server may have several entries of one name.                              *)
(***************************************************************************)
EXTENDS Integers, Sequences, FiniteSets

CONSTANTS
    Paths,       \* where a resource may be, as sequences of names; <<>> is the root.
                 \* The depth is bounded: what is deeper is passed over
    Hrefs,       \* the addresses of the entries
    Root,        \* the address of the root
    NoHref,      \* m_href of a resource that no entry was matched with
    Nowhere,     \* no path
    Scans,       \* the trees that a scan can leave, as kinds by path
    Servers,     \* the sets of entries that the server can have
    IsIgnore(_), \* of a path
    MaxAgain     \* how many entries may be listed again

VARIABLES
    server,      \* the entries: [href, parent, name, dir]
    kind,        \* m_kind of the resource at a path, "none" if there is none
    href,        \* its m_href
    byHref,      \* m_by_href: the path of the resource with an address
    todo,        \* the entries that are still to be listed
    again,       \* how many more may come again
    unresolved,  \* m_unresolved, from the entry that is tried next
    rest,        \* those that were tried in this pass, and still wait
    count,       \* how many have found their places in this pass
    pc           \* "feed", "resolve" or "done"

vars == <<server, kind, href, byHref, todo, again, unresolved, rest, count, pc>>

Keys == Hrefs \cup {Root}

Init ==
    /\ kind \in Scans /\ server \in Servers
    /\ href = [p \in Paths |-> IF p = <<>> THEN Root ELSE NoHref]
    /\ byHref = [h \in Keys |-> IF h = Root THEN <<>> ELSE Nowhere]
    /\ todo = server /\ again = MaxAgain
    /\ unresolved = <<>> /\ rest = <<>> /\ count = 0
    /\ pc = "feed"

-----------------------------------------------------------------------------
(* The index.                                                               *)

\* Mutant: the old address is left in the index.
ReInsertOnly(index, p, h) == [index EXCEPT ![h] = p]

\* ReInsert: all that leads to the resource is erased, and its address inserted.
ReInsert(index, p, h) ==
    [k \in Keys |-> IF k = h THEN p ELSE IF index[k] = p THEN Nowhere ELSE index[k]]

-----------------------------------------------------------------------------
(* State::Update of an entry, as a change of the tree t.                     *)

Tree == [kind |-> kind, href |-> href, byHref |-> byHref]

\* ResourceTree::Update: the resource gets the address of the entry.
Given(t, p, e) ==
    [t EXCEPT !.href = [@ EXCEPT ![p] = e.href], !.byHref = ReInsert(@, p, e.href)]

Made(t, p, e) ==
    Given([t EXCEPT !.kind = [@ EXCEPT ![p] = IF e.dir THEN "folder" ELSE "file"]], p, e)

FindByHref(t, h) == IF h \in Keys THEN t.byHref[h] ELSE Nowhere

\* The entry waits as long as neither it nor its folder is known.
Waits(t, e) == FindByHref(t, e.href) = Nowhere /\ FindByHref(t, e.parent) = Nowhere

\* Where something of that name is in a folder, and whether anything is.
RelPath(folder, name) == Append(folder, name)
FindChild(t, p)       == t.kind[p] # "none"

\* The entry of a resource that is known; or one in a folder that is known, with
\* the resource of its name, or a new one.  What is ignored, or in something that
\* is no folder, is passed over.
Updated(t, e) ==
    LET known == FindByHref(t, e.href)  folder == FindByHref(t, e.parent) IN
    IF known # Nowhere THEN IF IsIgnore(known) THEN t ELSE Given(t, known, e)
    ELSE LET p == RelPath(folder, e.name) IN
        IF t.kind[folder] # "folder" \/ p \notin Paths \/ IsIgnore(p) THEN t
        ELSE IF FindChild(t, p) THEN Given(t, p, e) ELSE Made(t, p, e)

Becomes(t) == kind' = t.kind /\ href' = t.href /\ byHref' = t.byHref

\* State::FromRemote of an entry that is not passed over for what it is.
FromRemote(e) ==
    /\ IF Waits(Tree, e)
       THEN unresolved' = Append(unresolved, e) /\ UNCHANGED <<kind, href, byHref>>
       ELSE Becomes(Updated(Tree, e)) /\ UNCHANGED unresolved
    /\ UNCHANGED <<server, pc, rest, count>>

List(e) ==
    /\ pc = "feed" /\ e \in todo
    /\ FromRemote(e)
    /\ todo' = todo \ {e} /\ UNCHANGED again

\* Changed meanwhile, it is on a later page, too.
ListAgain(e) ==
    /\ pc = "feed" /\ e \in server \ todo /\ again > 0
    /\ FromRemote(e)
    /\ again' = again - 1 /\ UNCHANGED todo

FeedEnds ==
    /\ pc = "feed" /\ todo = {}
    /\ pc' = "resolve"
    /\ UNCHANGED <<server, kind, href, byHref, todo, again, unresolved, rest, count>>

\* TryResolveEntry: one that waits is tried in its turn, and what the ones before
\* it have added counts for it.
TryNext ==
    /\ pc = "resolve" /\ unresolved # <<>>
    /\ LET e == Head(unresolved) IN
        IF Waits(Tree, e)
        THEN rest' = Append(rest, e) /\ UNCHANGED <<kind, href, byHref, count>>
        ELSE Becomes(Updated(Tree, e)) /\ count' = count + 1 /\ UNCHANGED rest
    /\ unresolved' = Tail(unresolved)
    /\ UNCHANGED <<server, todo, again, pc>>

\* Mutant: one pass over what waits.
OnePass == FALSE

\* ResolveEntry: another pass follows one that has found a place.
AnotherPass == count > 0 /\ rest # <<>>

PassEnds ==
    /\ pc = "resolve" /\ unresolved = <<>>
    /\ IF AnotherPass THEN pc' = pc ELSE pc' = "done"
    /\ unresolved' = rest /\ rest' = <<>> /\ count' = 0
    /\ UNCHANGED <<server, kind, href, byHref, todo, again>>

Ended == pc = "done" /\ UNCHANGED vars

Next ==
    \/ Ended
    \/ \E e \in server : List(e) \/ ListAgain(e)
    \/ FeedEnds \/ TryNext \/ PassEnds

Spec == Init /\ [][Next]_vars

-----------------------------------------------------------------------------
(* Properties.                                                              *)

\* Under an address the index has the resource that has it, and no other: what
\* FindByHref answers is what a search of the tree would (ResourceTree.cc).
IndexAgrees ==
    \A h \in Keys, p \in Paths : byHref[h] = p <=> href[p] = h

\* Where the names of an entry and its folders lead, if the folders are listed.
Above(e) == {f \in server : f.href = e.parent}
PathOf[e \in server] ==
    IF e.parent = Root THEN <<e.name>>
    ELSE IF Above(e) = {} THEN Nowhere
    ELSE LET up == PathOf[CHOOSE f \in Above(e) : TRUE] IN
         IF up = Nowhere THEN Nowhere ELSE Append(up, e.name)

\* No other entry has the path of the entry or of one of its folders.
Own[e \in server] ==
    /\ \A f \in server \ {e} : PathOf[f] # PathOf[e]
    /\ \A f \in Above(e) : Own[f]

\* Neither is one of its folders passed over, nor a file in its place.
Open[e \in server] ==
    /\ PathOf[e] \in Paths /\ ~IsIgnore(PathOf[e])
    /\ \A f \in Above(e) : Open[f] /\ kind[PathOf[f]] = "folder"

\* In the end every entry is at its path, and the others are nowhere, in whatever
\* order they were listed, unless two of them have one path (State.cc:186-212).
EntriesFound ==
    pc = "done" => \A e \in server :
        PathOf[e] # Nowhere /\ Own[e] =>
            byHref[e.href] = IF Open[e] THEN PathOf[e] ELSE Nowhere
=============================================================================
