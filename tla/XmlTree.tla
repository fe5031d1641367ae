------------------------------ MODULE XmlTree ------------------------------
(***************************************************************************)
(* The nodes of an XML document: objects that count the Nodes and the       *)
(* parents that refer to them, what a program does with Nodes and NodeSets,  *)
(* and how TreeBuilder makes a document of them.  XmlResponse is the one     *)
(* user of it in the library; the protocol of the Drive does not use it.    *)
(*                                                                          *)
(* An object that is deleted leaves its place to the next one.  expat is    *)
(* external: it calls the handlers of a well-formed document in its order.  *)
(***************************************************************************)
EXTENDS Integers, Sequences, SequencesExt, FiniteSets

CONSTANTS
    Names,      \* of elements and attributes: numbers, for their order
    Strings,    \* the values of attributes and texts
    Nodes,      \* the variables of the program that are Nodes
    Places,     \* where objects may be in memory: an interval of numbers
    MaxAdds     \* how many children are added in all

VARIABLES
    heap,       \* the objects, by place
    node,       \* m_ptr of each Node of the program
    found,      \* m_tmp of a NodeSet, the result of Find
    stack,      \* of TreeBuilder; empty if there is none
    adds,       \* how many children were added
    lost        \* history: the places referred to by a call that has thrown

vars == <<heap, node, found, stack, adds, lost>>

None == 0    \* no Node
Free == [ref |-> 0]

Impl(t, n, v) ==
    [ref |-> 1, type |-> t, name |-> n, value |-> v,
     element |-> <<>>, attr |-> <<>>, children |-> <<>>]
Element(n) == Impl("element", n, <<>>)
Empty      == Element(0)

Used == {i \in Places : heap[i] # Free}

\* There is memory enough for k more objects; the next ones are at these places.
Room(k) == Cardinality(Places \ Used) >= k
Next1   == CHOOSE i \in Places \ Used : \A j \in Places \ Used : i <= j

Init ==
    /\ heap = [i \in Places |-> Free]
    /\ node = [v \in Nodes |-> None] /\ found = None /\ stack = <<>>
    /\ adds = 0 /\ lost = {}

-----------------------------------------------------------------------------
(* Node::Impl, as operations on the heap h.                                 *)

AddRef(h, i) == [h EXCEPT ![i].ref = @ + 1]

\* The last one deletes the object, which releases its children.
RECURSIVE Release(_, _)
Release(h, i) ==
    IF h[i].ref > 1 THEN [h EXCEPT ![i].ref = @ - 1]
    ELSE [FoldLeft(Release, h, h[i].children) EXCEPT ![i] = Free]

\* Children of one kind are sorted by name, those of one name as they came.
Sorted(h, s, c) ==
    LET before == {k \in DOMAIN s : h[s[k]].name <= h[c].name}
    IN  InsertAt(s, Cardinality(before) + 1, c)

\* Duplicate attributes are not allowed.
Throws(h, p, c) ==
    h[c].type = "attr" /\ \E k \in DOMAIN h[p].attr : h[h[p].attr[k]].name = h[c].name

Add(h, p, c) ==
    LET listed == [h EXCEPT ![p].children = Append(@, c)] IN
    CASE h[c].type = "element" -> [listed EXCEPT ![p].element = Sorted(h, @, c)]
      [] h[c].type = "attr"    -> [listed EXCEPT ![p].attr = Sorted(h, @, c)]
      [] OTHER                 -> listed

\* equal_range.
FindIn(h, s, n) == SelectSeq(s, LAMBDA i : h[i].name = n)

\* Of an object and all below it, attributes too.
RECURSIVE ValueOf(_, _)
ValueOf(h, i) ==
    h[i].value \o FlattenSeq([k \in DOMAIN h[i].children |-> ValueOf(h, h[i].children[k])])

-----------------------------------------------------------------------------
(* What a program does with Nodes.                                          *)

Live(v) == node[v] # None

Refer(v, h, i) == heap' = h /\ node' = [node EXCEPT ![v] = i]

Construct(v) ==
    /\ ~Live(v) /\ Room(1)
    /\ Refer(v, [heap EXCEPT ![Next1] = Empty], Next1)
    /\ UNCHANGED <<found, stack, adds, lost>>

Copy(v, w) ==
    /\ ~Live(v) /\ Live(w)
    /\ Refer(v, AddRef(heap, node[w]), node[w])
    /\ UNCHANGED <<found, stack, adds, lost>>

\* Mutant: what the Node has had is not released.
ReplacedKept(h, old, new) == AddRef(h, new)

\* A copy of the new one is made before the old one goes.
Replaced(h, old, new) == Release(AddRef(h, new), old)

Assign(v, w) ==
    /\ Live(v) /\ Live(w)
    /\ Refer(v, Replaced(heap, node[v], node[w]), node[w])
    /\ UNCHANGED <<found, stack, adds, lost>>

Destroy(v) ==
    /\ Live(v)
    /\ Refer(v, Release(heap, node[v]), None)
    /\ UNCHANGED <<found, stack, adds, lost>>

\* IsCompatible.
Compatible(parent, child) ==
    parent = "element" \/ (parent = "attr" /\ child = "text")

Grows(h) == adds < MaxAdds /\ adds' = adds + 1 /\ heap' = h

\* The new object is referred to by its parent and by the Node that is returned.
WithChild(p, impl) == Add(AddRef([heap EXCEPT ![Next1] = impl], Next1), p, Next1)

AddElement(v, n, w) ==
    /\ Live(v) /\ Compatible(heap[node[v]].type, "element") /\ Room(1) /\ ~Live(w)
    /\ Grows(WithChild(node[v], Element(n)))
    /\ node' = [node EXCEPT ![w] = Next1]
    /\ UNCHANGED <<found, stack, lost>>

\* The Node that is returned goes at once.
AddText(v, s) ==
    /\ Live(v) /\ Compatible(heap[node[v]].type, "text") /\ Room(1)
    /\ Grows(Release(WithChild(node[v], Impl("text", 0, <<s>>)), Next1))
    /\ UNCHANGED <<node, found, stack, lost>>

\* The reference that was made for the parent is lost if Add throws.
AddReferred(h, p, c) ==
    IF Throws(h, p, c) THEN Grows(h) /\ lost' = lost \cup {c}
    ELSE Grows(Add(h, p, c)) /\ UNCHANGED lost

AddAttribute(v, n, s) ==
    /\ Live(v) /\ heap[node[v]].type = "element" /\ Room(1)
    /\ AddReferred([heap EXCEPT ![Next1] = Impl("attr", n, <<s>>)], node[v], Next1)
    /\ UNCHANGED <<node, found, stack>>

\* The places that can be reached from those in S.
RECURSIVE Below(_)
Below(S) ==
    LET T == S \cup UNION {ToSet(heap[i].children) : i \in S \cap Used} IN
    IF T = S THEN S ELSE Below(T)

\* A program must not put a node below itself: Value would not return.
AddNode(v, w) ==
    /\ node[v] \notin Below({node[w]})
    /\ Live(v) /\ Live(w) /\ Compatible(heap[node[v]].type, heap[node[w]].type)
    /\ AddReferred(AddRef(heap, node[w]), node[v], node[w])
    /\ UNCHANGED <<node, found, stack>>

\* The iterator's operator*: the Node of a child.
Child(v, k, w) ==
    /\ Live(v) /\ ~Live(w) /\ k \in DOMAIN heap[node[v]].children
    /\ LET c == heap[node[v]].children[k] IN Refer(w, AddRef(heap, c), c)
    /\ UNCHANGED <<found, stack, adds, lost>>

\* NodeSet::front; it throws if the set is empty.
FrontOf(s, w) ==
    /\ s # <<>> /\ ~Live(w)
    /\ Refer(w, AddRef(heap, s[1]), s[1])
    /\ UNCHANGED <<found, stack, adds, lost>>

\* Node::operator[]: the children of that name, of which front is taken.
ByName(h, i, n) == FindIn(h, h[i].element, n)

Front1(v, n, w) == Live(v) /\ FrontOf(ByName(heap, node[v], n), w)

\* NodeSet::operator[] of the children: those of the first child that has any.
InChildren(h, i, n) ==
    LET having == SelectSeq(h[i].children, LAMBDA c : ByName(h, c, n) # <<>>)
    IN  IF having = <<>> THEN <<>> ELSE ByName(h, having[1], n)

Front2(v, n, w) == Live(v) /\ FrontOf(InChildren(heap, node[v], n), w)

-----------------------------------------------------------------------------
(* NodeSet.                                                                 *)

\* Those that have a child of that name with that value; t is "attr" if the name
\* begins with "@".
Matching(s, t, n, value) ==
    LET Cand(i) == ToSet(FindIn(heap, heap[i][t], n))
    IN  SelectSeq(s, LAMBDA i : \E c \in Cand(i) : ValueOf(heap, c) = value)

\* NodeSet::Find on the children of a node: the result has a node of its own, to
\* which each child that matches is added.
Find(v, t, n, value) ==
    /\ Live(v) /\ found = None /\ Room(1)
    /\ heap' = FoldLeft(LAMBDA h, i : Add(AddRef(h, i), Next1, i),
                        [heap EXCEPT ![Next1] = Empty],
                        Matching(heap[node[v]].children, t, n, value))
    /\ found' = Next1
    /\ UNCHANGED <<node, stack, adds, lost>>

DropSet ==
    /\ found # None
    /\ heap' = Release(heap, found) /\ found' = None
    /\ UNCHANGED <<node, stack, adds, lost>>

-----------------------------------------------------------------------------
(* TreeBuilder.                                                             *)

Document == heap[stack[1]].children

\* XmlResponse::XmlResponse: a node that has the document as its child.
Begin ==
    /\ stack = <<>> /\ Room(1)
    /\ heap' = [heap EXCEPT ![Next1] = Empty] /\ stack' = <<Next1>>
    /\ UNCHANGED <<node, found, adds, lost>>

\* The element is referred to by its parent and by the stack.
StartElement(n) ==
    /\ stack # <<>> /\ Room(1)
    /\ Len(stack) = 1 => Document = <<>>
    /\ Grows(WithChild(Last(stack), Element(n)))
    /\ stack' = Append(stack, Next1)
    /\ UNCHANGED <<node, found, lost>>

\* An attribute of the element that begins; expat refuses to give one twice.
StartAttribute(n, s) ==
    /\ Len(stack) > 1 /\ Room(1)
    /\ \A k \in DOMAIN heap[Last(stack)].children :
        LET c == heap[heap[Last(stack)].children[k]] IN c.type = "attr" /\ c.name # n
    /\ AddReferred([heap EXCEPT ![Next1] = Impl("attr", n, <<s>>)], Last(stack), Next1)
    /\ UNCHANGED <<node, found, stack>>

EndElement ==
    /\ Len(stack) > 1
    /\ heap' = Release(heap, Last(stack)) /\ stack' = Front(stack)
    /\ UNCHANGED <<node, found, adds, lost>>

OnCharData(s) ==
    /\ Len(stack) > 1 /\ Room(1)
    /\ Grows(Release(WithChild(Last(stack), Impl("text", 0, <<s>>)), Next1))
    /\ UNCHANGED <<node, found, stack, lost>>

\* The document, which outlives the builder.
Result(v) ==
    /\ Len(stack) = 1 /\ Len(Document) = 1 /\ ~Live(v)
    /\ Refer(v, AddRef(heap, Document[1]), Document[1])
    /\ UNCHANGED <<found, stack, adds, lost>>

\* XmlResponse::Clear, or its end, be the document whole or not.
Clear ==
    /\ stack # <<>>
    /\ heap' = FoldLeft(Release, heap, stack) /\ stack' = <<>>
    /\ UNCHANGED <<node, found, adds, lost>>

-----------------------------------------------------------------------------
Next ==
    \/ \E v \in Nodes : Construct(v) \/ Destroy(v) \/ Result(v)
    \/ \E v, w \in Nodes : Copy(v, w) \/ Assign(v, w) \/ AddNode(v, w)
    \/ \E v, w \in Nodes, n \in Names :
            AddElement(v, n, w) \/ Front1(v, n, w) \/ Front2(v, n, w)
    \/ \E v, w \in Nodes, k \in 1..MaxAdds : Child(v, k, w)
    \/ \E v \in Nodes, s \in Strings : AddText(v, s)
    \/ \E v \in Nodes, n \in Names, s \in Strings : AddAttribute(v, n, s)
    \/ \E v \in Nodes, n \in Names, value \in {<<>>} \cup {<<s>> : s \in Strings} :
            Find(v, "element", n, value) \/ Find(v, "attr", n, value)
    \/ \E n \in Names : StartElement(n)
    \/ \E n \in Names, s \in Strings : StartAttribute(n, s)
    \/ \E s \in Strings : OnCharData(s)
    \/ Begin \/ EndElement \/ Clear \/ DropSet

Spec == Init /\ [][Next]_vars

-----------------------------------------------------------------------------
(* Properties.                                                              *)

Times(i, s) == Cardinality({k \in DOMAIN s : s[k] = i})

\* How often an object is referred to, from where it could be reached.
Referred(i) ==
    Cardinality({v \in Nodes : node[v] = i}) + (IF found = i THEN 1 ELSE 0)
    + Times(i, stack)
    + FoldSet(LAMBDA p, n : n + Times(i, heap[p].children), 0, Used)

Held == {node[v] : v \in Nodes} \cup {found} \cup ToSet(stack)

\* No reference outlives its object, an object has exactly the references that it
\* counts, and none is left that nobody can reach, unless Add has thrown (Node.cc:
\* AddRef, Release).
NodesCounted ==
    /\ Below(Held \ {None}) \subseteq Used
    /\ \A i \in Used : heap[i].ref >= Referred(i)
    /\ lost = {} => \A i \in Used : heap[i].ref = Referred(i)
    /\ lost = {} => Used \subseteq Below(Held)

\* What Find looks through is sorted and complete: the children of the kind, those
\* of one name in the order of the document, and no attribute twice.
ListsAgree ==
    \A i \in Used :
        LET Of(t)    == SelectSeq(heap[i].children, LAMBDA c : heap[c].type = t)
            Named(s) == [n \in Names \cup {0} |-> FindIn(heap, s, n)]
            Agree(s, t) == Named(s) = Named(Of(t)) /\ Len(s) = Len(Of(t))
                           /\ \A k \in 2..Len(s) : heap[s[k-1]].name <= heap[s[k]].name
        IN  /\ Agree(heap[i].element, "element") /\ Agree(heap[i].attr, "attr")
            /\ \A n \in Names : Len(FindIn(heap, heap[i].attr, n)) <= 1
=============================================================================
