------------------------ MODULE ResourceTreeProofs ------------------------
(***************************************************************************)
(* The index by href and the resources never disagree, and every entry finds *)
(* its place in the end, whatever is listed, in which order and how often.   *)
(***************************************************************************)
EXTENDS ResourceTree, TLAPS

\* The addresses are told apart, and an entry has one.
Addressed ==
    /\ Root \notin Hrefs /\ NoHref \notin Keys
    /\ <<>> \in Paths /\ Nowhere \notin Paths
    /\ \A s \in Servers : \A e \in s : e.href \in Hrefs

\* An index b and the addresses h of the resources agree.
Agree(b, h) ==
    /\ b \in [Keys -> Paths \cup {Nowhere}]
    /\ h \in [Paths -> Keys \cup {NoHref}]
    /\ \A k \in Keys, p \in Paths : b[k] = p <=> h[p] = k

Inv ==
    /\ Agree(byHref, href)
    /\ server \in Servers
    /\ todo \subseteq server
    /\ unresolved \in Seq(server) /\ rest \in Seq(server)

-----------------------------------------------------------------------------
\* ReInsert takes the address that a resource gives up out of the index, if
\* nothing else has the new one.
LEMMA ReInsertAgrees ==
    ASSUME Addressed,
           NEW b, NEW h, Agree(b, h),
           NEW p \in Paths, NEW k \in Keys, b[k] \in {p, Nowhere}
    PROVE  Agree(ReInsert(b, p, k), [h EXCEPT ![p] = k])
<1> DEFINE c == ReInsert(b, p, k)
           g == [h EXCEPT ![p] = k]
<1>1. c \in [Keys -> Paths \cup {Nowhere}] /\ g \in [Paths -> Keys \cup {NoHref}]
  BY DEF Agree, ReInsert
<1>2. ASSUME NEW j \in Keys, NEW q \in Paths
      PROVE  c[j] = q <=> g[q] = j
  <2>1. (b[j] = q <=> h[q] = j) /\ (b[k] = q <=> h[q] = k) /\ q # Nowhere
    BY DEF Agree, Addressed
  <2>2. g[q] = IF q = p THEN k ELSE h[q]
    BY DEF Agree
  <2>3. c[j] = IF j = k THEN p ELSE IF b[j] = p THEN Nowhere ELSE b[j]
    BY DEF ReInsert
  <2> QED
    BY <2>1, <2>2, <2>3
<1> QED
  BY <1>1, <1>2 DEF Agree

\* State::Update of an entry keeps them in agreement.
LEMMA UpdatedAgrees ==
    ASSUME Addressed, Inv, NEW e \in server,
           Becomes(Updated(Tree, e))
    PROVE  Agree(byHref', href')
<1> DEFINE known == FindByHref(Tree, e.href)
           folder == FindByHref(Tree, e.parent)
           path == Append(folder, e.name)
<1>1. e.href \in Hrefs /\ e.href \in Keys /\ known = byHref[e.href]
  BY DEF Inv, Addressed, Keys, FindByHref, Tree
<1>2. known \in Paths \cup {Nowhere}
  BY <1>1 DEF Inv, Agree
<1>4. CASE Updated(Tree, e) = Tree
  <2>1. byHref' = byHref /\ href' = href
    BY <1>4 DEF Becomes, Tree
  <2> QED
    BY <2>1 DEF Inv
<1>5. ASSUME NEW p \in Paths, byHref[e.href] \in {p, Nowhere},
             Updated(Tree, e) = Given(Tree, p, e)
      PROVE  Agree(byHref', href')
  <2>1. href' = [href EXCEPT ![p] = e.href] /\ byHref' = ReInsert(byHref, p, e.href)
    BY <1>5 DEF Becomes, Given, Tree
  <2> QED
    BY <2>1, <1>1, <1>5, ReInsertAgrees DEF Inv
<1>6. ASSUME NEW p \in Paths, byHref[e.href] \in {p, Nowhere},
             Updated(Tree, e) = Made(Tree, p, e)
      PROVE  Agree(byHref', href')
  <2>1. href' = [href EXCEPT ![p] = e.href] /\ byHref' = ReInsert(byHref, p, e.href)
    BY <1>6 DEF Becomes, Made, Given, Tree
  <2> QED
    BY <2>1, <1>1, <1>6, ReInsertAgrees DEF Inv
<1>7. CASE known # Nowhere
  BY <1>1, <1>2, <1>4, <1>5, <1>7 DEF Updated
<1>8. CASE known = Nowhere
  <2>1. \/ Updated(Tree, e) = Tree
        \/ path \in Paths /\ Updated(Tree, e) = Given(Tree, path, e)
        \/ path \in Paths /\ Updated(Tree, e) = Made(Tree, path, e)
    BY <1>8 DEF Updated, RelPath, FindChild
  <2> QED
    BY <2>1, <1>1, <1>4, <1>5, <1>6, <1>8
<1> QED
  BY <1>7, <1>8

\* What FromRemote does with an entry, listed for the first time or again.
LEMMA FromRemoteKeeps ==
    ASSUME Addressed, Inv, NEW e \in server, FromRemote(e), todo' \subseteq todo
    PROVE  Inv'
<1>1. server' = server /\ rest' = rest /\ todo' \subseteq server'
  BY DEF FromRemote, Inv
<1>2. Agree(byHref, href)'
  <2>1. CASE Waits(Tree, e)
    BY <2>1 DEF FromRemote, Inv, Agree, Keys
  <2>2. CASE ~Waits(Tree, e)
    <3>1. Becomes(Updated(Tree, e))
      BY <2>2 DEF FromRemote
    <3> QED
      BY <3>1, UpdatedAgrees
  <2> QED
    BY <2>1, <2>2
<1>3. unresolved' \in Seq(server)
  <2>1. unresolved' = Append(unresolved, e) \/ unresolved' = unresolved
    BY DEF FromRemote
  <2>2. unresolved \in Seq(server) /\ e \in server
    BY DEF Inv
  <2> QED
    BY <2>1, <2>2
<1> QED
  BY <1>1, <1>2, <1>3 DEF Inv

LEMMA Initially == ASSUME Addressed PROVE Init => Inv
  BY DEF Addressed, Init, Inv, Agree, Keys

LEMMA Stepwise == ASSUME Addressed PROVE Inv /\ [Next]_vars => Inv'
<1> SUFFICES ASSUME Inv, [Next]_vars PROVE Inv'
  OBVIOUS
<1>1. ASSUME NEW e \in server, List(e) \/ ListAgain(e) PROVE Inv'
  BY <1>1, FromRemoteKeeps DEF List, ListAgain
<1>2. CASE FeedEnds
  BY <1>2 DEF FeedEnds, Inv, Agree, Keys
<1>3. CASE TryNext
  <2> DEFINE e == Head(unresolved)
  <2>1. e \in server /\ unresolved' \in Seq(server)
    BY <1>3 DEF TryNext, Inv
  <2>2. rest' \in Seq(server)
    <3>1. rest' = rest \/ rest' = Append(rest, e)
      BY <1>3 DEF TryNext
    <3>2. rest \in Seq(server)
      BY DEF Inv
    <3> QED
      BY <2>1, <3>1, <3>2
  <2>3. Agree(byHref, href)'
    <3>1. CASE Waits(Tree, e)
      BY <3>1, <1>3 DEF TryNext, Inv, Agree, Keys
    <3>2. CASE ~Waits(Tree, e)
      <4>1. Becomes(Updated(Tree, e))
        BY <3>2, <1>3 DEF TryNext
      <4> QED
        BY <2>1, <4>1, UpdatedAgrees
    <3> QED
      BY <3>1, <3>2
  <2> QED
    BY <1>3, <2>1, <2>2, <2>3 DEF TryNext, Inv
<1>4. CASE PassEnds
  BY <1>4 DEF PassEnds, Inv, Agree, Keys
<1>5. CASE Ended \/ UNCHANGED vars
  BY <1>5 DEF Ended, vars, Inv, Agree, Keys
<1> QED
  BY <1>1, <1>2, <1>3, <1>4, <1>5 DEF Next

\* FindByHref answers what a search of the tree would (ResourceTree.cc), for every
\* tree that the scan leaves, every set of entries and every order of the listing.
THEOREM IndexCorrect == ASSUME Addressed PROVE Spec => []IndexAgrees
<1>1. Init => Inv
  BY Initially
<1>2. Inv /\ [Next]_vars => Inv'
  BY Stepwise
<1>3. Inv => IndexAgrees
  BY DEF Inv, Agree, IndexAgrees
<1> QED
  BY <1>1, <1>2, <1>3, PTL DEF Spec

-----------------------------------------------------------------------------
(* A function that is defined by recursion over what ends, as going up in a  *)
(* tree does.                                                              *)

\* Going from an element to those above it ends.
Ends(S, U) == \A T \in SUBSET S : T # {} => \E e \in T : U[e] \cap T = {}

\* What F makes of a function depends, at an element, on the values above it only.
Looks(F, S, U, V) ==
    \A g, h \in [S -> V] : \A e \in S :
        (\A d \in U[e] : g[d] = h[d]) => F[g][e] = F[h][e]

\* On D, which has with an element those above it, F changes nothing of g.
Fits(F, U, D, g) ==
    /\ \A e \in D : U[e] \subseteq D
    /\ \A e \in D : F[g][e] = g[e]

LEMMA FitsAgree ==
    ASSUME NEW S, NEW V, NEW U \in [S -> SUBSET S], NEW F,
           Ends(S, U), Looks(F, S, U, V),
           NEW D \in SUBSET S, NEW g \in [S -> V], Fits(F, U, D, g),
           NEW E \in SUBSET S, NEW h \in [S -> V], Fits(F, U, E, h)
    PROVE  \A e \in D \cap E : g[e] = h[e]
<1> DEFINE T == {e \in D \cap E : g[e] # h[e]}
<1> SUFFICES ASSUME T # {} PROVE FALSE
  OBVIOUS
<1>1. PICK e \in T : U[e] \cap T = {}
  <2>1. T \in SUBSET S
    OBVIOUS
  <2> QED
    BY <2>1 DEF Ends
<1>2. e \in D /\ e \in E /\ e \in S /\ g[e] # h[e]
  OBVIOUS
<1>3. U[e] \subseteq D /\ U[e] \subseteq E
  BY <1>2 DEF Fits
<1>4. \A d \in U[e] : g[d] = h[d]
  BY <1>1, <1>3
<1>5. F[g][e] = F[h][e]
  BY <1>2, <1>4 DEF Looks
<1> QED
  BY <1>2, <1>5 DEF Fits

\* F says of each element, given those above it, what a function has there.
Defines(F, S, U, V) ==
    /\ V # {} /\ U \in [S -> SUBSET S] /\ F \in [[S -> V] -> [S -> V]]
    /\ Ends(S, U) /\ Looks(F, S, U, V)

Exists(F, S, V) == \E f \in [S -> V] : f = F[f]

LEMMA Recursion ==
    ASSUME NEW S, NEW V, NEW U, NEW F, Defines(F, S, U, V)
    PROVE  Exists(F, S, V)
<1>v. PICK v \in V : TRUE
  BY DEF Defines
<1>0. /\ V # {} /\ U \in [S -> SUBSET S] /\ F \in [[S -> V] -> [S -> V]]
      /\ Ends(S, U) /\ Looks(F, S, U, V)
  BY DEF Defines
<1> USE <1>0
<1> DEFINE At(e, D, g) == e \in D /\ Fits(F, U, D, g)
           W == {e \in S : \E D \in SUBSET S, g \in [S -> V] : At(e, D, g)}
           Is(e, w) == \A D \in SUBSET S, g \in [S -> V] : At(e, D, g) => w = g[e]
           k == [e \in S |-> IF e \in W THEN CHOOSE w \in V : Is(e, w) ELSE v]
<1>1. ASSUME NEW e \in S, NEW D \in SUBSET S, NEW g \in [S -> V], At(e, D, g)
      PROVE  k[e] = g[e] /\ D \subseteq W
  <2>1. e \in W /\ D \subseteq W
    BY <1>1
  <2>2. ASSUME NEW E \in SUBSET S, NEW h \in [S -> V], At(e, E, h) PROVE g[e] = h[e]
    <3> QED
      BY <1>1, <2>2, FitsAgree
  <2>3. g[e] \in V
    OBVIOUS
  <2>4. \E w \in V : Is(e, w)
    BY <2>2, <2>3
  <2>5. Is(e, CHOOSE w \in V : Is(e, w))
    BY <2>4
  <2>6. (CHOOSE w \in V : Is(e, w)) = g[e]
    BY <2>5, <1>1
  <2> QED
    BY <2>1, <2>6
<1>2. k \in [S -> V]
  <2>1. ASSUME NEW e \in W PROVE (CHOOSE w \in V : Is(e, w)) \in V
    <3>1. PICK D \in SUBSET S, g \in [S -> V] : At(e, D, g)
      OBVIOUS
    <3>2. k[e] = g[e]
      BY <1>1, <3>1
    <3>3. g[e] \in V /\ e \in S
      OBVIOUS
    <3>4. k[e] = CHOOSE w \in V : Is(e, w)
      <4> HIDE DEF W, Is
      <4> QED
        BY <3>3
    <3> QED
      BY <3>2, <3>3, <3>4
  <2> HIDE DEF Is, W
  <2> QED
    BY <2>1
<1>3. Fits(F, U, W, k)
  <2> SUFFICES ASSUME NEW e \in W PROVE U[e] \subseteq W /\ F[k][e] = k[e]
    BY DEF Fits
  <2>1. PICK D \in SUBSET S, g \in [S -> V] : At(e, D, g)
    OBVIOUS
  <2>2. U[e] \subseteq D /\ F[g][e] = g[e]
    BY <2>1 DEF Fits
  <2>3. \A d \in D : k[d] = g[d]
    <3> SUFFICES ASSUME NEW d \in D PROVE k[d] = g[d]
      OBVIOUS
    <3> HIDE DEF k
    <3> QED
      BY <1>1, <2>1
  <2>4. D \subseteq W /\ e \in S
    BY <1>1, <2>1
  <2> HIDE DEF k
  <2>5. F[k][e] = F[g][e]
    BY <1>2, <2>2, <2>3, <2>4 DEF Looks
  <2> QED
    BY <2>1, <2>2, <2>3, <2>4, <2>5
<1> HIDE DEF k
<1>4. W = S
  <2> SUFFICES ASSUME S \ W # {} PROVE FALSE
    OBVIOUS
  <2>1. PICK e \in S \ W : U[e] \cap (S \ W) = {}
    <3> HIDE DEF W
    <3> QED
      BY DEF Ends
  <2> DEFINE a == F[k][e]
             g == [k EXCEPT ![e] = a]
             D == W \cup {e}
  <2>2. F[k] \in [S -> V] /\ e \in S /\ e \notin W /\ W \subseteq S
    BY <1>2
  <2> HIDE DEF W
  <2>3. a \in V /\ D \in SUBSET S /\ U[e] \subseteq W
    <3>1. U[e] \subseteq S
      BY <2>2
    <3> QED
      BY <2>1, <2>2, <3>1
  <2>4. g \in [S -> V] /\ g[e] = a /\ \A d \in W : g[d] = k[d]
    <3> HIDE DEF a
    <3> QED
      BY <1>2, <2>2, <2>3
  <2> HIDE DEF g
  <2>5. ASSUME NEW d \in D PROVE U[d] \subseteq D /\ F[g][d] = g[d]
    <3>1. U[d] \subseteq W
      BY <1>3, <2>3 DEF Fits
    <3>2. F[g][d] = F[k][d]
      BY <1>2, <2>2, <2>4, <3>1 DEF Looks
    <3>3. F[k][d] = g[d]
      BY <1>3, <2>4 DEF Fits
    <3> QED
      BY <3>1, <3>2, <3>3
  <2>6. Fits(F, U, D, g)
    BY <2>5 DEF Fits
  <2>7. e \in W
    BY <2>2, <2>3, <2>4, <2>6 DEF W
  <2> QED
    BY <2>2, <2>7
<1> HIDE DEF W
<1>5. F[k] \in [S -> V]
  BY <1>2
<1>6. \A e \in S : F[k][e] = k[e]
  BY <1>3, <1>4 DEF Fits
<1>7. F[k] = k
  <2> DEFINE l == F[k]
  <2>1. l \in [S -> V] /\ \A e \in S : l[e] = k[e]
    BY <1>5, <1>6
  <2> HIDE DEF l
  <2>2. l = k
    BY <1>2, <2>1
  <2> QED
    BY <2>2 DEF l
<1> QED
  BY <1>2, <1>7 DEF Exists

-----------------------------------------------------------------------------
(* The paths of the entries.                                               *)

NamesOf(s) == {e.name : e \in s}

\* The entries of a server are a tree, or several.
Trees ==
    \A s \in Servers :
        /\ \A e, f \in s : e.href = f.href => e = f
        /\ \A T \in SUBSET s : T # {} => \E e \in T : \A f \in T : f.href # e.parent
        /\ Nowhere \notin Seq(NamesOf(s))

Up == [e \in server |-> Above(e)]

LEMMA UpEnds ==
    ASSUME Trees, server \in Servers
    PROVE  Up \in [server -> SUBSET server] /\ Ends(server, Up)
<1>1. Up \in [server -> SUBSET server]
  BY DEF Up, Above
<1>2. ASSUME NEW T \in SUBSET server, T # {} PROVE \E e \in T : Up[e] \cap T = {}
  <2>1. PICK e \in T : \A f \in T : f.href # e.parent
    BY <1>2 DEF Trees
  <2> QED
    BY <2>1 DEF Up, Above
<1> QED
  BY <1>1, <1>2 DEF Ends

LEMMA PathUnfolds ==
    ASSUME Trees, server \in Servers
    PROVE  /\ PathOf \in [server -> Seq(NamesOf(server)) \cup {Nowhere}]
           /\ \A e \in server : PathOf[e] =
                IF e.parent = Root THEN <<e.name>>
                ELSE IF Above(e) = {} THEN Nowhere
                ELSE LET up == PathOf[CHOOSE f \in Above(e) : TRUE] IN
                     IF up = Nowhere THEN Nowhere ELSE Append(up, e.name)
<1> DEFINE V == Seq(NamesOf(server)) \cup {Nowhere}
           Next1(e, g) ==
             IF e.parent = Root THEN <<e.name>>
             ELSE IF Above(e) = {} THEN Nowhere
             ELSE LET up == g[CHOOSE f \in Above(e) : TRUE] IN
                  IF up = Nowhere THEN Nowhere ELSE Append(up, e.name)
           F == [g \in [server -> V] |-> [e \in server |-> Next1(e, g)]]
<1>0. Up \in [server -> SUBSET server] /\ Ends(server, Up)
  BY UpEnds
<1>1. ASSUME NEW e \in server, Above(e) # {}
      PROVE  (CHOOSE f \in Above(e) : TRUE) \in Above(e)
  BY <1>1
<1>2. ASSUME NEW g \in [server -> V], NEW e \in server PROVE Next1(e, g) \in V
  <2>1. <<e.name>> \in V /\ Nowhere \in V
    BY DEF NamesOf
  <2>2. ASSUME Above(e) # {}, g[CHOOSE f \in Above(e) : TRUE] # Nowhere
        PROVE  Append(g[CHOOSE f \in Above(e) : TRUE], e.name) \in V
    <3>1. (CHOOSE f \in Above(e) : TRUE) \in server
      BY <1>1, <2>2 DEF Above
    <3>2. g[CHOOSE f \in Above(e) : TRUE] \in Seq(NamesOf(server)) /\ e.name \in NamesOf(server)
      BY <2>2, <3>1 DEF NamesOf
    <3> QED
      BY <3>2
  <2> QED
    BY <2>1, <2>2
<1>3. F \in [[server -> V] -> [server -> V]]
  <2> HIDE DEF V, Next1
  <2> QED
    BY <1>2
<1>4. Looks(F, server, Up, V)
  <2> SUFFICES ASSUME NEW g \in [server -> V], NEW h \in [server -> V], NEW e \in server,
                      \A d \in Up[e] : g[d] = h[d]
               PROVE  Next1(e, g) = Next1(e, h)
    <3> HIDE DEF V, Next1
    <3> QED
      BY DEF Looks
  <2>1. \A d \in Above(e) : g[d] = h[d]
    BY DEF Up
  <2> HIDE DEF V
  <2> QED
    BY <1>1, <2>1
<1>5. Nowhere \in V
  OBVIOUS
<1>6. Exists(F, server, V)
  <2> HIDE DEF F, V
  <2>1. Defines(F, server, Up, V)
    BY <1>3, <1>4, <1>5, <1>0 DEF Defines
  <2> QED
    BY <2>1, Recursion
<1>7. \E f : f = [e \in server |-> Next1(e, f)]
  <2>1. PICK f \in [server -> V] : f = F[f]
    BY <1>6 DEF Exists
  <2>2. F[f] = [e \in server |-> Next1(e, f)]
    <3> HIDE DEF V, Next1
    <3> QED
      OBVIOUS
  <2> HIDE DEF V, Next1
  <2> QED
    BY <2>1, <2>2, Zenon
<1>8. PathOf = [e \in server |-> Next1(e, PathOf)]
  BY <1>7, Zenon DEF PathOf
<1>9. PathOf \in [server -> V]
  <2> SUFFICES ASSUME {e \in server : PathOf[e] \notin V} # {} PROVE FALSE
    <3> HIDE DEF V, Next1
    <3> QED
      BY <1>8
  <2>1. PICK e \in server : PathOf[e] \notin V /\ \A f \in Up[e] : PathOf[f] \in V
    <3> HIDE DEF V
    <3> DEFINE T == {e \in server : PathOf[e] \notin V}
    <3>1. T \in SUBSET server /\ T # {}
      OBVIOUS
    <3>2. PICK e \in T : Up[e] \cap T = {}
      BY <3>1, UpEnds DEF Ends
    <3>3. Up[e] \subseteq server
      BY UpEnds
    <3> QED
      BY <3>2, <3>3
  <2> DEFINE g == [f \in server |-> IF f \in Up[e] THEN PathOf[f] ELSE Nowhere]
  <2>2. g \in [server -> V]
    <3> HIDE DEF V
    <3> QED
      BY <1>5, <2>1
  <2>3. Next1(e, g) \in V
    <3> HIDE DEF Next1, V, g
    <3> QED
      BY <1>2, <2>2
  <2>4. \A d \in Above(e) : g[d] = PathOf[d]
    BY DEF Up, Above
  <2>5. Next1(e, g) = Next1(e, PathOf)
    <3> HIDE DEF g
    <3> QED
      BY <1>1, <2>4
  <2>6. PathOf[e] = Next1(e, PathOf)
    <3> HIDE DEF Next1
    <3> QED
      BY <1>8
  <2> QED
    BY <2>1, <2>3, <2>5, <2>6
<1>10. \A e \in server : PathOf[e] = Next1(e, PathOf)
  <2> HIDE DEF Next1
  <2> QED
    BY <1>8
<1> QED
  BY <1>9, <1>10

\* What holds of an entry if H does, and it and K of those above it.
Inherits(H, K) ==
    \E b : b = [e \in server |-> H[e] /\ \A f \in Above(e) : b[f] /\ K[f]]

LEMMA AllAbove ==
    ASSUME Trees, server \in Servers, NEW H, NEW K PROVE Inherits(H, K)
<1> DEFINE F == [g \in [server -> BOOLEAN] |->
                    [e \in server |-> H[e] /\ \A f \in Above(e) : g[f] /\ K[f]]]
<1>1. F \in [[server -> BOOLEAN] -> [server -> BOOLEAN]]
  OBVIOUS
<1>2. Looks(F, server, Up, BOOLEAN)
  BY DEF Looks, Up, Above
<1>3. Defines(F, server, Up, BOOLEAN)
  <2> HIDE DEF F
  <2> QED
    BY <1>1, <1>2, UpEnds DEF Defines
<1>4. Exists(F, server, BOOLEAN)
  <2> HIDE DEF F
  <2> QED
    BY <1>3, Recursion
<1>5. PICK b \in [server -> BOOLEAN] : b = F[b]
  BY <1>4 DEF Exists
<1>6. F[b] = [e \in server |-> H[e] /\ \A f \in Above(e) : b[f] /\ K[f]]
  OBVIOUS
<1> QED
  BY <1>5, <1>6, Zenon DEF Inherits

LEMMA OwnUnfolds ==
    ASSUME Trees, server \in Servers
    PROVE  \A e \in server : Own[e] <=>
             /\ \A f \in server \ {e} : PathOf[f] # PathOf[e]
             /\ \A f \in Above(e) : Own[f]
<1> DEFINE H == [e \in server |-> \A f \in server \ {e} : PathOf[f] # PathOf[e]]
           K == [e \in server |-> TRUE]
<1>1. PICK b : b = [e \in server |-> H[e] /\ \A f \in Above(e) : b[f] /\ K[f]]
  <2> HIDE DEF H, K
  <2>1. Inherits(H, K)
    BY AllAbove
  <2> QED
    BY <2>1, Zenon DEF Inherits
<1>2. b = [e \in server |-> /\ \A f \in server \ {e} : PathOf[f] # PathOf[e]
                            /\ \A f \in Above(e) : b[f]]
  BY <1>1 DEF Above
<1>3. Own = [e \in server |-> /\ \A f \in server \ {e} : PathOf[f] # PathOf[e]
                              /\ \A f \in Above(e) : Own[f]]
  BY <1>2, Zenon DEF Own
<1> QED
  BY <1>3, Zenon

LEMMA OpenUnfolds ==
    ASSUME Trees, server \in Servers
    PROVE  \A e \in server : Open[e] <=>
             /\ PathOf[e] \in Paths /\ ~IsIgnore(PathOf[e])
             /\ \A f \in Above(e) : Open[f] /\ kind[PathOf[f]] = "folder"
<1> DEFINE H == [e \in server |-> PathOf[e] \in Paths /\ ~IsIgnore(PathOf[e])]
           K == [e \in server |-> kind[PathOf[e]] = "folder"]
<1>1. PICK b : b = [e \in server |-> H[e] /\ \A f \in Above(e) : b[f] /\ K[f]]
  <2> HIDE DEF H, K
  <2>1. Inherits(H, K)
    BY AllAbove
  <2> QED
    BY <2>1, Zenon DEF Inherits
<1>2. b = [e \in server |->
             /\ PathOf[e] \in Paths /\ ~IsIgnore(PathOf[e])
             /\ \A f \in Above(e) : b[f] /\ kind[PathOf[f]] = "folder"]
  BY <1>1 DEF Above
<1>3. Open = [e \in server |->
             /\ PathOf[e] \in Paths /\ ~IsIgnore(PathOf[e])
             /\ \A f \in Above(e) : Open[f] /\ kind[PathOf[f]] = "folder"]
  BY <1>2, Zenon DEF Open
<1> QED
  BY <1>3, Zenon

LEMMA ServerKept ==
    ASSUME server' = server
    PROVE  /\ PathOf' = PathOf /\ Own' = Own
           /\ \A e : Above(e)' = Above(e)
<1>1. \A e : Above(e)' = Above(e)
  BY DEF Above
<1>2. PathOf' = PathOf
  BY SMT DEF PathOf, Above
<1>3. Own' = Own
  BY <1>2, SMT DEF Own, Above
<1> QED
  BY <1>1, <1>2, <1>3

-----------------------------------------------------------------------------
(* How an entry gets to its place.                                         *)

\* The scan starts at the root.
Scanned == \A k \in Scans : k \in [Paths -> {"none", "file", "folder"}] /\ k[<<>>] = "folder"

KindInv ==
    /\ kind \in [Paths -> {"none", "file", "folder"}] /\ kind[<<>>] = "folder"
    /\ \A h \in Keys : byHref[h] # Nowhere => kind[byHref[h]] # "none"

\* An entry is at its path, if it is anywhere, and what is no entry is nowhere.
PlaceInv ==
    /\ byHref[Root] = <<>>
    /\ \A h \in Hrefs : byHref[h] # Nowhere => \E e \in server : e.href = h
    /\ \A e \in server : byHref[e.href] \in {Nowhere, PathOf[e]}

Placed(e) == byHref[e.href] # Nowhere

\* Neither the entry is ignored nor its folder a file, and the folder has its place.
Allowed(e) ==
    /\ PathOf[e] \in Paths /\ ~IsIgnore(PathOf[e])
    /\ \A f \in Above(e) : Placed(f) /\ kind[PathOf[f]] = "folder"

\* What makes Update pass over an entry.
Passed(e) ==
    \/ PathOf[e] \notin Paths \/ IsIgnore(PathOf[e])
    \/ \E f \in Above(e) : PathOf[f] \in Paths /\ kind[PathOf[f]] = "file"

OwnInv == \A e \in server : Own[e] /\ Placed(e) => Allowed(e)

MapInv == KindInv /\ PlaceInv /\ OwnInv

\* The entry gets its place.
Gets(e) ==
    /\ PathOf[e] \in Paths /\ ~IsIgnore(PathOf[e])
    /\ byHref' = ReInsert(byHref, PathOf[e], e.href)
    /\ kind' \in [Paths -> {"none", "file", "folder"}] /\ kind'[PathOf[e]] # "none"
    /\ \A p \in Paths : kind[p] # "none" => kind'[p] = kind[p]
    /\ \/ Placed(e)
       \/ \A f \in Above(e) : Placed(f) /\ kind[PathOf[f]] = "folder"

Stays(e) == UNCHANGED <<kind, byHref>> /\ (Placed(e) \/ Passed(e))

LEMMA PathStep ==
    ASSUME Trees, Addressed, Inv, MapInv, NEW e \in server, ~Placed(e), ~Waits(Tree, e)
    PROVE  LET folder == FindByHref(Tree, e.parent) IN
           /\ folder \in Paths /\ PathOf[e] = Append(folder, e.name)
           /\ kind[folder] # "none"
           /\ \A f \in Above(e) : Placed(f) /\ PathOf[f] = folder
           /\ folder = <<>> \/ Above(e) # {}
<1> DEFINE folder == FindByHref(Tree, e.parent)
<1>0. e.href \in Keys /\ Root \in Keys /\ \A f \in server : f.href \in Keys /\ f.href # Root
  BY DEF Inv, Addressed, Keys
<1>1. folder # Nowhere /\ e.parent \in Keys /\ folder = byHref[e.parent]
  BY <1>0 DEF Waits, Placed, FindByHref, Tree
<1>2. folder \in Paths /\ kind[folder] # "none"
  BY <1>1 DEF Inv, Agree, MapInv, KindInv
<1>3. CASE e.parent = Root
  <2>1. folder = <<>> /\ PathOf[e] = <<e.name>>
    BY <1>1, <1>3, PathUnfolds DEF MapInv, PlaceInv, Inv
  <2>2. Above(e) = {}
    BY <1>0, <1>3 DEF Above
  <2> QED
    BY <1>2, <2>1, <2>2
<1>4. CASE e.parent # Root
  <2>1. PICK f \in server : f.href = e.parent
    BY <1>1, <1>4 DEF MapInv, PlaceInv, Keys
  <2>2. Above(e) = {f}
    BY <2>1 DEF Above, Trees, Inv
  <2>3. Placed(f) /\ folder = PathOf[f]
    BY <1>1, <2>1 DEF MapInv, PlaceInv, Placed
  <2>4. PathOf[e] = Append(PathOf[f], e.name)
    <3>1. (CHOOSE g \in Above(e) : TRUE) = f
      BY <2>2
    <3> QED
      BY <1>1, <1>4, <2>2, <2>3, <3>1, PathUnfolds DEF Inv
  <2> QED
    BY <1>2, <2>2, <2>3, <2>4
<1> QED
  BY <1>3, <1>4

LEMMA UpdatedPlaces ==
    ASSUME Trees, Addressed, Inv, MapInv, NEW e \in server, ~Waits(Tree, e),
           Becomes(Updated(Tree, e))
    PROVE  Stays(e) \/ Gets(e)
<1> DEFINE known == FindByHref(Tree, e.href)
           folder == FindByHref(Tree, e.parent)
           p == Append(folder, e.name)
           t == Tree
<1>0. t.kind = kind /\ t.byHref = byHref /\ t.href = href
  BY DEF Tree
<1>1. known = byHref[e.href] /\ e.href \in Keys
  BY DEF Inv, Addressed, Keys, FindByHref, Tree
<1>2. kind \in [Paths -> {"none", "file", "folder"}]
  BY DEF MapInv, KindInv
<1>3. ASSUME NEW q, Becomes(Given(t, q, e)) 
      PROVE  kind' = kind /\ byHref' = ReInsert(byHref, q, e.href)
  BY <1>3 DEF Becomes, Given, Tree
<1>4. ASSUME NEW q, Becomes(Made(t, q, e)) 
      PROVE  /\ kind' = [kind EXCEPT ![q] = IF e.dir THEN "folder" ELSE "file"]
             /\ byHref' = ReInsert(byHref, q, e.href)
  BY <1>4 DEF Becomes, Given, Made, Tree
<1>5. Becomes(t) => UNCHANGED <<kind, byHref>>
  BY DEF Becomes, Tree
<1>6. CASE Placed(e)
  <2>1. known = PathOf[e] /\ known \in Paths /\ known # Nowhere /\ kind[known] # "none"
    BY <1>1, <1>6 DEF MapInv, PlaceInv, KindInv, Placed, Inv, Agree
  <2>2. CASE IsIgnore(known)
    BY <2>1, <2>2, <1>5, <1>6 DEF Updated, Stays
  <2>3. CASE ~IsIgnore(known)
    <3>1. Becomes(Given(t, known, e))
      BY <2>1, <2>3 DEF Updated
    <3> QED
      BY <2>1, <2>3, <3>1, <1>2, <1>3, <1>6 DEF Gets
  <2> QED
    BY <2>2, <2>3
<1>7. CASE ~Placed(e)
  <2>0. known = Nowhere
    BY <1>1, <1>7 DEF Placed
  <2>1. /\ folder \in Paths /\ PathOf[e] = p /\ kind[folder] \in {"file", "folder"}
        /\ \A f \in Above(e) : Placed(f) /\ PathOf[f] = folder
        /\ folder = <<>> \/ Above(e) # {}
    BY <1>2, <1>7, PathStep
  <2> HIDE DEF folder
  <2>2. CASE kind[folder] # "folder" \/ p \notin Paths \/ IsIgnore(p)
    <3>1. Becomes(t)
      BY <2>0, <2>2, <1>0 DEF Updated, RelPath, folder
    <3>2. Passed(e)
      <4>1. CASE kind[folder] # "folder"
        <5>1. kind[folder] = "file" /\ folder # <<>>
          BY <2>1, <4>1 DEF MapInv, KindInv
        <5> QED
          BY <2>1, <5>1 DEF Passed
      <4> QED
        BY <2>1, <2>2, <4>1 DEF Passed
    <3> QED
      BY <3>1, <3>2, <1>5 DEF Stays
  <2>3. CASE ~(kind[folder] # "folder" \/ p \notin Paths \/ IsIgnore(p))
    <3>1. IF kind[p] # "none" THEN Becomes(Given(t, p, e)) ELSE Becomes(Made(t, p, e))
      BY <2>0, <2>3, <1>0 DEF Updated, RelPath, FindChild, folder
    <3>2. CASE kind[p] # "none"
      BY <2>1, <2>3, <3>1, <3>2, <1>2, <1>3 DEF Gets
    <3>3. CASE kind[p] = "none"
      <4>1. /\ kind' = [kind EXCEPT ![p] = IF e.dir THEN "folder" ELSE "file"]
            /\ byHref' = ReInsert(byHref, p, e.href)
        BY <3>1, <3>3, <1>4
      <4>2. kind' \in [Paths -> {"none", "file", "folder"}] /\ kind'[p] # "none"
            /\ \A q \in Paths : q # p => kind'[q] = kind[q]
        BY <4>1, <1>2, <2>3
      <4> QED
        BY <2>1, <2>3, <3>3, <4>1, <4>2 DEF Gets
    <3> QED
      BY <3>2, <3>3
  <2> QED
    BY <2>2, <2>3
<1> QED
  BY <1>6, <1>7

\* An entry of its own that has its place keeps it, and what is passed over remains so.
Lasting ==
    /\ \A e \in server : Own[e] /\ Placed(e) => Placed(e)'
    /\ \A e \in server : Passed(e) => Passed(e)'

LEMMA UnchangedKeeps ==
    ASSUME MapInv, UNCHANGED <<server, kind, byHref>>
    PROVE  MapInv' /\ Lasting
<1>1. PathOf' = PathOf /\ Own' = Own /\ \A e : Above(e)' = Above(e)
  BY ServerKept
<1>2. KindInv'
  BY DEF MapInv, KindInv, Keys
<1>3. PlaceInv'
  BY <1>1 DEF MapInv, PlaceInv
<1>4. \A e : Placed(e)' = Placed(e)
  BY DEF Placed
<1>5. OwnInv'
  BY <1>1, <1>4 DEF MapInv, OwnInv, Allowed
<1> QED
  BY <1>1, <1>2, <1>3, <1>4, <1>5 DEF MapInv, Lasting, Passed

LEMMA GetsKeeps ==
    ASSUME Trees, Addressed, Inv, MapInv, server' = server, NEW e \in server, Gets(e)
    PROVE  MapInv' /\ Lasting /\ Placed(e)'
<1> DEFINE p == PathOf[e]
<1>1. PathOf' = PathOf /\ Own' = Own /\ \A f : Above(f)' = Above(f)
  BY ServerKept
<1>2. p \in Paths /\ p # Nowhere /\ e.href \in Keys /\ e.href # Root
  BY DEF Gets, Inv, Addressed, Keys
<1>3. p # <<>>
  <2>1. CASE e.parent = Root
    <3>1. p = <<e.name>>
      BY <2>1, PathUnfolds DEF Inv
    <3> HIDE DEF p
    <3> QED
      BY <3>1
  <2>2. CASE e.parent # Root
    <3> DEFINE up == PathOf[CHOOSE f \in Above(e) : TRUE]
    <3>1. Above(e) # {} /\ up # Nowhere /\ p = Append(up, e.name)
      BY <1>2, <2>2, PathUnfolds DEF Inv
    <3>2. up \in Seq(NamesOf(server))
      <4>1. (CHOOSE f \in Above(e) : TRUE) \in server
        BY <3>1 DEF Above
      <4> QED
        BY <3>1, <4>1, PathUnfolds DEF Inv
    <3> HIDE DEF up
    <3> QED
      BY <3>1, <3>2
  <2> QED
    BY <2>1, <2>2
<1>4. \A k \in Keys : byHref'[k] = IF k = e.href THEN p ELSE IF byHref[k] = p THEN Nowhere ELSE byHref[k]
  BY DEF Gets, ReInsert
<1>5. \A f \in server : f.href \in Keys /\ f.href \in Hrefs /\ (f.href = e.href => f = e)
  BY DEF Inv, Addressed, Keys, Trees
<1>6. \A k \in Keys : byHref[k] # Nowhere => byHref[k] \in Paths
  BY DEF Inv, Agree
<1>7. kind \in [Paths -> {"none", "file", "folder"}] /\ kind[<<>>] = "folder" /\ <<>> \in Paths
  BY DEF MapInv, KindInv, Addressed
<1>8. \A q \in Paths : kind[q] # "none" => kind'[q] = kind[q]
  BY DEF Gets
<1>9. KindInv'
  <2>1. kind' \in [Paths -> {"none", "file", "folder"}] /\ kind'[<<>>] = "folder"
    BY <1>7, <1>8 DEF Gets
  <2>2. ASSUME NEW h \in Keys, byHref'[h] # Nowhere PROVE kind'[byHref'[h]] # "none"
    <3>1. CASE h = e.href
      BY <1>4, <3>1 DEF Gets
    <3>2. CASE h # e.href
      <4>1. byHref'[h] = byHref[h] /\ byHref[h] \in Paths /\ kind[byHref[h]] # "none"
        BY <1>4, <1>6, <2>2, <3>2 DEF MapInv, KindInv
      <4> QED
        BY <4>1, <1>8
    <3> QED
      BY <3>1, <3>2
  <2> QED
    BY <2>1, <2>2 DEF KindInv, Keys
<1>10. PlaceInv'
  <2>1. byHref'[Root] = <<>>
    BY <1>2, <1>3, <1>4 DEF MapInv, PlaceInv, Keys
  <2>2. ASSUME NEW h \in Hrefs, byHref'[h] # Nowhere PROVE \E f \in server : f.href = h
    BY <2>2, <1>4 DEF MapInv, PlaceInv, Keys
  <2>3. ASSUME NEW f \in server PROVE byHref'[f.href] \in {Nowhere, PathOf[f]}
    BY <1>4, <1>5 DEF MapInv, PlaceInv
  <2> QED
    BY <2>1, <2>2, <2>3, <1>1 DEF PlaceInv
<1>11. Placed(e)'
  BY <1>2, <1>4 DEF Placed
<1>12. ASSUME NEW f \in server, Own[f], Placed(f) PROVE Placed(f)'
  <2>1. CASE f = e
    BY <1>11, <2>1
  <2>2. CASE f # e
    <3>1. PathOf[e] # PathOf[f]
      BY <2>2, <1>12, OwnUnfolds DEF Inv
    <3>2. byHref[f.href] = PathOf[f]
      BY <1>12 DEF MapInv, PlaceInv, Placed
    <3> QED
      BY <3>1, <3>2, <2>2, <1>4, <1>5, <1>12 DEF Placed
  <2> QED
    BY <2>1, <2>2
<1>13. ASSUME NEW f \in server, Passed(f) PROVE Passed(f)'
  BY <1>13, <1>1, <1>8 DEF Passed
<1>14. OwnInv'
  <2> SUFFICES ASSUME NEW f \in server, Own[f], Placed(f)' PROVE Allowed(f)'
    BY <1>1 DEF OwnInv
  <2>1. PathOf[f] \in Paths /\ ~IsIgnore(PathOf[f])
        /\ \A g \in Above(f) : Placed(g) /\ kind[PathOf[g]] = "folder"
    <3>1. CASE Placed(f)
      BY <3>1 DEF MapInv, OwnInv, Allowed
    <3>2. CASE ~Placed(f)
      <4>1. f = e
        BY <3>2, <1>4, <1>5 DEF Placed
      <4> QED
        BY <4>1, <3>2 DEF Gets
    <3> QED
      BY <3>1, <3>2
  <2>2. ASSUME NEW g \in Above(f) PROVE Placed(g)' /\ kind'[PathOf[g]] = "folder"
    <3>1. g \in server /\ Own[g]
      BY OwnUnfolds DEF Inv, Above
    <3>2. Placed(g) /\ kind[PathOf[g]] = "folder"
      BY <2>1
    <3>3. PathOf[g] \in Paths
      BY <3>1, <3>2, <1>5, <1>6 DEF MapInv, PlaceInv, Placed
    <3> QED
      BY <3>1, <3>2, <3>3, <1>8, <1>12
  <2> QED
    BY <2>1, <2>2, <1>1 DEF Allowed
<1> QED
  BY <1>9, <1>10, <1>11, <1>12, <1>13, <1>14 DEF MapInv, Lasting

LEMMA UpdatedKeeps ==
    ASSUME Trees, Addressed, Inv, MapInv, server' = server, NEW e \in server,
           ~Waits(Tree, e), Becomes(Updated(Tree, e))
    PROVE  MapInv' /\ Lasting /\ (Placed(e)' \/ Passed(e)')
<1>1. CASE Stays(e)
  <2>1. MapInv' /\ Lasting
    BY <1>1, UnchangedKeeps DEF Stays
  <2>2. Placed(e) => Placed(e)'
    BY <1>1 DEF Stays, Placed
  <2> QED
    BY <1>1, <2>1, <2>2 DEF Stays, Lasting
<1>2. CASE Gets(e)
  BY <1>2, GetsKeeps
<1> QED
  BY <1>1, <1>2, UpdatedPlaces

-----------------------------------------------------------------------------
In(e, s) == \E i \in 1..Len(s) : s[i] = e

\* An entry of its own is still to be listed, or it waits, or is at its path, or is
\* passed over.
WaitInv ==
    \A e \in server : Own[e] =>
        e \in todo \/ In(e, unresolved) \/ In(e, rest) \/ Placed(e) \/ Passed(e)

\* What has been tried in a pass that has found no place yet still waits, and so does
\* all that is left in the end.
PassInv ==
    /\ count \in Nat /\ pc \in {"feed", "resolve", "done"}
    /\ pc = "feed" => rest = <<>> /\ count = 0
    /\ pc # "feed" => todo = {}
    /\ count = 0 => \A e \in server : In(e, rest) => Waits(Tree, e)
    /\ pc = "done" => rest = <<>> /\ \A e \in server : In(e, unresolved) => Waits(Tree, e)

FoundInv == MapInv /\ WaitInv /\ PassInv

LEMMA InAppend ==
    ASSUME NEW S, NEW s \in Seq(S), NEW d \in S
    PROVE  \A e : In(e, Append(s, d)) <=> In(e, s) \/ e = d
<1>1. Len(Append(s, d)) = Len(s) + 1 /\ Len(s) \in Nat
      /\ \A i \in 1..Len(s) : Append(s, d)[i] = s[i]
      /\ Append(s, d)[Len(s) + 1] = d
  OBVIOUS
<1>2. 1..(Len(s) + 1) = 1..Len(s) \cup {Len(s) + 1}
  BY <1>1
<1> QED
  BY <1>1, <1>2 DEF In

LEMMA InTail ==
    ASSUME NEW S, NEW s \in Seq(S), s # <<>>
    PROVE  \A e : In(e, s) <=> e = Head(s) \/ In(e, Tail(s))
<1>1. Len(s) \in Nat \ {0} /\ Len(Tail(s)) = Len(s) - 1 /\ Head(s) = s[1]
      /\ \A i \in 1..Len(Tail(s)) : Tail(s)[i] = s[i + 1]
  OBVIOUS
<1>2. ASSUME NEW e, In(e, s) PROVE e = Head(s) \/ In(e, Tail(s))
  <2>1. PICK i \in 1..Len(s) : s[i] = e
    BY <1>2 DEF In
  <2>2. CASE i = 1
    BY <2>1, <2>2, <1>1
  <2>3. CASE i # 1
    <3>1. i - 1 \in 1..Len(Tail(s)) /\ Tail(s)[i - 1] = e
      BY <2>1, <2>3, <1>1
    <3> QED
      BY <3>1 DEF In
  <2> QED
    BY <2>2, <2>3
<1>3. ASSUME NEW e, In(e, Tail(s)) PROVE In(e, s)
  <2>1. PICK i \in 1..Len(Tail(s)) : Tail(s)[i] = e
    BY <1>3 DEF In
  <2>2. i + 1 \in 1..Len(s) /\ s[i + 1] = e
    BY <2>1, <1>1
  <2> QED
    BY <2>2 DEF In
<1>4. In(Head(s), s)
  BY <1>1 DEF In
<1> QED
  BY <1>2, <1>3, <1>4

LEMMA WaitsKept ==
    ASSUME byHref' = byHref
    PROVE  \A e : Waits(Tree, e)' <=> Waits(Tree, e)
BY DEF Waits, FindByHref, Tree, Keys

LEMMA FromRemoteFinds ==
    ASSUME Trees, Addressed, Inv, FoundInv, NEW e \in server, FromRemote(e),
           pc = "feed", todo \ {e} \subseteq todo'
    PROVE  FoundInv'
<1>1. /\ server' = server /\ pc' = pc /\ rest' = <<>> /\ rest = <<>> /\ count' = 0
      /\ unresolved \in Seq(server)
  BY DEF FromRemote, FoundInv, PassInv, Inv
<1>2. PathOf' = PathOf /\ Own' = Own /\ \A f : Above(f)' = Above(f)
  BY <1>1, ServerKept
<1>3. PassInv'
  BY <1>1 DEF PassInv, In
<1>4. /\ MapInv' /\ Lasting
      /\ In(e, unresolved)' \/ Placed(e)' \/ Passed(e)'
      /\ \A f \in server : In(f, unresolved) => In(f, unresolved)'
  <2>1. CASE Waits(Tree, e)
    <3>1. unresolved' = Append(unresolved, e) /\ UNCHANGED <<kind, byHref>>
      BY <2>1 DEF FromRemote
    <3> QED
      BY <3>1, <1>1, UnchangedKeeps, InAppend DEF FoundInv, In
  <2>2. CASE ~Waits(Tree, e)
    <3>1. unresolved' = unresolved /\ Becomes(Updated(Tree, e))
      BY <2>2 DEF FromRemote
    <3> QED
      BY <3>1, <2>2, <1>1, UpdatedKeeps DEF FoundInv, In
  <2> QED
    BY <2>1, <2>2
<1>5. WaitInv'
  <2> SUFFICES ASSUME NEW f \in server, Own[f]
               PROVE  f \in todo' \/ In(f, unresolved)' \/ Placed(f)' \/ Passed(f)'
    BY <1>1, <1>2 DEF WaitInv
  <2>1. CASE f = e
    BY <1>4, <2>1
  <2>2. CASE f # e
    <3>1. f \in todo \/ In(f, unresolved) \/ Placed(f) \/ Passed(f)
      BY <1>1 DEF FoundInv, WaitInv, In
    <3> QED
      BY <3>1, <2>2, <1>4 DEF Lasting
  <2> QED
    BY <2>1, <2>2
<1> QED
  BY <1>3, <1>4, <1>5 DEF FoundInv

LEMMA TryFinds ==
    ASSUME Trees, Addressed, Inv, FoundInv, TryNext
    PROVE  FoundInv'
<1>0. PICK e \in server : e = Head(unresolved)
  BY DEF TryNext, Inv
<1>1. /\ server' = server /\ pc' = pc /\ pc = "resolve" /\ todo' = todo /\ todo = {}
      /\ unresolved \in Seq(server) /\ rest \in Seq(server) /\ unresolved # <<>>
      /\ unresolved' = Tail(unresolved) /\ count \in Nat
  BY DEF TryNext, FoundInv, PassInv, Inv
<1>2. PathOf' = PathOf /\ Own' = Own /\ \A f : Above(f)' = Above(f)
  BY <1>1, ServerKept
<1>3. \A f : In(f, unresolved) => f = e \/ In(f, unresolved)'
  <2>1. \A f : In(f, unresolved) => f = e \/ In(f, Tail(unresolved))
    BY <1>0, <1>1, InTail
  <2> QED
    BY <2>1, <1>1 DEF In
<1>4. /\ MapInv' /\ Lasting
      /\ In(e, rest)' \/ Placed(e)' \/ Passed(e)'
      /\ \A f \in server : In(f, rest) => In(f, rest)'
      /\ PassInv'
  <2>1. CASE Waits(Tree, e)
    <3>1. rest' = Append(rest, e) /\ UNCHANGED <<kind, byHref, count>>
      BY <2>1, <1>0 DEF TryNext
    <3>2. MapInv' /\ Lasting
      BY <3>1, <1>1, UnchangedKeeps DEF FoundInv
    <3>3. \A f : In(f, rest)' <=> In(f, rest) \/ f = e
      BY <3>1, <1>1, InAppend DEF In
    <3>4. PassInv'
      BY <3>1, <3>3, <2>1, <1>1, WaitsKept DEF FoundInv, PassInv
    <3> QED
      BY <3>2, <3>3, <3>4
  <2>2. CASE ~Waits(Tree, e)
    <3>1. rest' = rest /\ count' = count + 1 /\ Becomes(Updated(Tree, e))
      BY <2>2, <1>0 DEF TryNext
    <3>2. PassInv'
      BY <3>1, <1>1 DEF PassInv
    <3> QED
      BY <3>1, <3>2, <2>2, <1>1, UpdatedKeeps DEF FoundInv, In
  <2> QED
    BY <2>1, <2>2
<1>5. WaitInv'
  <2> SUFFICES ASSUME NEW f \in server, Own[f]
               PROVE  In(f, unresolved)' \/ In(f, rest)' \/ Placed(f)' \/ Passed(f)'
    BY <1>1, <1>2 DEF WaitInv
  <2>1. CASE f = e
    BY <1>4, <2>1
  <2>2. CASE f # e
    <3>1. In(f, unresolved) \/ In(f, rest) \/ Placed(f) \/ Passed(f)
      BY <1>1 DEF FoundInv, WaitInv
    <3> QED
      BY <3>1, <2>2, <1>3, <1>4 DEF Lasting
  <2> QED
    BY <2>1, <2>2
<1> QED
  BY <1>4, <1>5 DEF FoundInv

LEMMA PassFinds ==
    ASSUME Inv, FoundInv, PassEnds PROVE FoundInv'
<1>1. /\ UNCHANGED <<server, kind, byHref, todo>> /\ unresolved = <<>>
      /\ unresolved' = rest /\ rest' = <<>> /\ count' = 0
      /\ pc' \in {"resolve", "done"} /\ todo = {}
      /\ pc' = "done" => count = 0 \/ rest = <<>>
  BY DEF PassEnds, AnotherPass, FoundInv, PassInv
<1>2. PathOf' = PathOf /\ Own' = Own /\ \A f : Above(f)' = Above(f)
  BY <1>1, ServerKept
<1>3. MapInv' /\ Lasting
  BY <1>1, UnchangedKeeps DEF FoundInv
<1>4. PassInv'
  BY <1>1, WaitsKept DEF FoundInv, PassInv, In
<1>5. WaitInv'
  BY <1>1, <1>2, <1>3 DEF FoundInv, WaitInv, In, Lasting
<1> QED
  BY <1>3, <1>4, <1>5 DEF FoundInv

LEMMA FoundInitially == ASSUME Addressed, Scanned PROVE Init => FoundInv
<1> SUFFICES ASSUME Init PROVE FoundInv
  OBVIOUS
<1>1. /\ byHref = [h \in Keys |-> IF h = Root THEN <<>> ELSE Nowhere]
      /\ kind \in [Paths -> {"none", "file", "folder"}] /\ kind[<<>>] = "folder"
      /\ server \in Servers /\ todo = server
      /\ unresolved = <<>> /\ rest = <<>> /\ count = 0 /\ pc = "feed"
  BY DEF Init, Scanned
<1>2. \A e \in server : e.href \in Keys /\ e.href # Root
  BY <1>1 DEF Addressed, Keys
<1>3. KindInv
  BY <1>1 DEF KindInv
<1>4. PlaceInv
  BY <1>1, <1>2 DEF PlaceInv, Addressed, Keys
<1>5. OwnInv
  BY <1>1, <1>2 DEF OwnInv, Placed
<1>6. WaitInv /\ PassInv
  BY <1>1 DEF WaitInv, PassInv, In
<1> QED
  BY <1>3, <1>4, <1>5, <1>6 DEF FoundInv, MapInv

LEMMA FoundStepwise ==
    ASSUME Addressed, Trees PROVE Inv /\ FoundInv /\ [Next]_vars => FoundInv'
<1> SUFFICES ASSUME Inv, FoundInv, [Next]_vars PROVE FoundInv'
  OBVIOUS
<1>1. ASSUME NEW e \in server, List(e) \/ ListAgain(e) PROVE FoundInv'
  <2>1. pc = "feed" /\ FromRemote(e) /\ todo \ {e} \subseteq todo'
    BY <1>1 DEF List, ListAgain
  <2> QED
    BY <2>1, FromRemoteFinds
<1>2. ASSUME UNCHANGED <<server, kind, byHref, unresolved, rest, count, todo>>,
             pc' = pc \/ (pc = "feed" /\ todo = {} /\ pc' = "resolve")
      PROVE  FoundInv'
  <2>1. PathOf' = PathOf /\ Own' = Own /\ \A f : Above(f)' = Above(f)
    BY <1>2, ServerKept
  <2>2. MapInv' /\ Lasting
    BY <1>2, UnchangedKeeps DEF FoundInv
  <2>3. PassInv'
    BY <1>2, WaitsKept DEF FoundInv, PassInv, In
  <2>4. WaitInv'
    BY <1>2, <2>1, <2>2 DEF FoundInv, WaitInv, In, Lasting
  <2> QED
    BY <2>2, <2>3, <2>4 DEF FoundInv
<1>3. CASE FeedEnds
  BY <1>2, <1>3 DEF FeedEnds
<1>4. CASE TryNext
  BY <1>4, TryFinds
<1>5. CASE PassEnds
  BY <1>5, PassFinds
<1>6. CASE Ended \/ UNCHANGED vars
  BY <1>2, <1>6 DEF Ended, vars
<1> QED
  BY <1>1, <1>3, <1>4, <1>5, <1>6 DEF Next

\* What is at its path was open, and nothing that is open is left waiting.
LEMMA FoundInTheEnd ==
    ASSUME Addressed, Trees, Inv, FoundInv PROVE EntriesFound
<1> SUFFICES ASSUME pc = "done" PROVE \A e \in server :
        PathOf[e] # Nowhere /\ Own[e] => (Placed(e) <=> Open[e])
  BY DEF EntriesFound, FoundInv, MapInv, PlaceInv, Placed
<1> DEFINE T == {e \in server : PathOf[e] # Nowhere /\ Own[e] /\ ~(Placed(e) <=> Open[e])}
<1> SUFFICES ASSUME T # {} PROVE FALSE
  OBVIOUS
<1>1. PICK e \in T : \A f \in T : f.href # e.parent
  BY DEF Trees, Inv
<1>2. e \in server /\ PathOf[e] # Nowhere /\ Own[e] /\ server \in Servers
  BY DEF Inv
<1>3. ASSUME NEW f \in Above(e) PROVE f \in server /\ PathOf[f] # Nowhere /\ Own[f] /\ (Placed(f) <=> Open[f])
  <2>1. f \in server /\ f.href = e.parent /\ f \notin T
    BY <1>1 DEF Above
  <2>2. Own[f]
    BY <1>2, OwnUnfolds
  <2>3. PathOf[f] # Nowhere
    <3>1. e.parent # Root
      BY <2>1, <1>2 DEF Addressed
    <3>2. Above(e) = {f}
      BY <2>1, <1>2 DEF Above, Trees
    <3>3. (CHOOSE g \in Above(e) : TRUE) = f
      BY <3>2
    <3> QED
      BY <1>2, <3>1, <3>2, <3>3, PathUnfolds
  <2> QED
    BY <2>1, <2>2, <2>3
<1>4. CASE Placed(e)
  <2>1. Allowed(e)
    BY <1>2, <1>4 DEF FoundInv, MapInv, OwnInv
  <2>2. Open[e]
    BY <1>2, <1>3, <2>1, OpenUnfolds DEF Allowed
  <2> QED
    BY <1>4, <2>2
<1>5. CASE ~Placed(e)
  <2>1. Open[e]
    BY <1>5
  <2>2. ~Passed(e)
    BY <1>2, <2>1, OpenUnfolds DEF Passed
  <2>3. In(e, unresolved)
    BY <1>2, <1>5, <2>2 DEF FoundInv, WaitInv, PassInv, In
  <2>4. Waits(Tree, e)
    BY <2>3, <1>2 DEF FoundInv, PassInv
  <2>5. e.parent \notin Keys \/ byHref[e.parent] = Nowhere
    BY <2>4 DEF Waits, FindByHref, Tree
  <2>6. e.parent # Root
    BY <2>5, <1>2 DEF FoundInv, MapInv, PlaceInv, Keys, Addressed
  <2>7. PICK f \in Above(e) : TRUE
    BY <1>2, <2>6, PathUnfolds
  <2>8. Placed(f)
    BY <1>2, <1>3, <2>1, OpenUnfolds
  <2>9. f.href = e.parent /\ f.href \in Keys
    BY <1>2, <2>7 DEF Above, Addressed, Keys
  <2> QED
    BY <2>5, <2>8, <2>9 DEF Placed
<1> QED
  BY <1>4, <1>5

\* In the end every entry is at its path unless another has it, and what is passed
\* over is nowhere, in whatever order and how often the entries are listed, and however
\* deep they are (State.cc:186-212).
THEOREM EntriesAreFound == ASSUME Addressed, Trees, Scanned PROVE Spec => []EntriesFound
<1>1. Init => Inv /\ FoundInv
  BY Initially, FoundInitially
<1>2. Inv /\ FoundInv /\ [Next]_vars => Inv' /\ FoundInv'
  BY Stepwise, FoundStepwise
<1>3. Inv /\ FoundInv => EntriesFound
  BY FoundInTheEnd
<1> QED
  BY <1>1, <1>2, <1>3, PTL DEF Spec
=============================================================================
