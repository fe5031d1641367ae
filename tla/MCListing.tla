----------------------------- MODULE MCListing -----------------------------
(***************************************************************************)
(* Listing with two names, one of them with two contents of one length; and,*)
(* in behaviours of their own, what the lines of a .griveignore that the    *)
(* user writes make of every short path, how the entries of a listing with   *)
(* folders find their places, and what becomes of the date of an entry.     *)
(***************************************************************************)
EXTENDS Listing, IgnoreFile

CONSTANTS
    x, y, a, b, c, MaxLength,
    Seconds, Fractions, Garbled     \* of dates

ASSUME DatesAssumption ==
    /\ Seconds \subseteq Nat /\ Fractions \subseteq Seq(0..9)
    /\ Garbled \notin [sec: Seconds, frac: Fractions]

TwoNames  == {x, y}
AllOf     == {a, b, c}
OneSize   == [d \in AllOf |-> 1]
Apart     == [n \in TwoNames |-> IF n = x THEN {a, b} ELSE {c}]

SeqsUpTo(S) == UNION {[1..n -> S] : n \in 1..MaxLength}
Paths       == SeqsUpTo(Plain)
Patterns    == {p \in SeqsUpTo(Parts) : \A i \in 2..Len(p) : p[i] # Empty}

VARIABLES
    part,   \* "pages", "rules", "tree" or "dates"
    lines,  \* of .griveignore
    server, kind, href, byHref, feed, again, unresolved, rest, count, treePc,
    at, date, time, before, newer, srv, utime

tree   == <<server, kind, href, byHref, feed, again, unresolved,
            rest, count, treePc>>
dates  == <<at, date, time, before, newer, srv, utime>>
mcvars == <<vars, part, lines, tree, dates>>

\* Three entries, a folder being numbered before what is in it; the second one may
\* be in a folder that is not listed.
ThreeHrefs == 1..3
TheRoot    == 4
NotListed  == 5
Entry(i, ps, ds) == [href: {i}, parent: ps, name: TwoNames, dir: ds]
AllServers ==
    {{e, f, g} : e \in Entry(1, {TheRoot}, BOOLEAN),
                 f \in Entry(2, {TheRoot, NotListed, 1}, BOOLEAN),
                 g \in Entry(3, {TheRoot, 1, 2}, {FALSE})}

ShortPaths == UNION {[1..n -> TwoNames] : n \in 0..3}
TreeOf(folders, files) ==
    [p \in ShortPaths |-> IF p \in folders THEN "folder"
                          ELSE IF p \in files THEN "file" ELSE "none"]
FourScans == {TreeOf({<<>>}, {}), TreeOf({<<>>}, {<<x>>}), TreeOf({<<>>, <<x>>}, {}),
              TreeOf({<<>>, <<x>>, <<x, x>>}, {<<y>>})}
UnderRule(p) == p = <<x, y>>

Tree == INSTANCE ResourceTree WITH
    Paths <- ShortPaths, Hrefs <- ThreeHrefs, Root <- TheRoot,
    NoHref <- 0, Nowhere <- Empty, Scans <- FourScans, Servers <- AllServers,
    IsIgnore <- UnderRule, MaxAgain <- 1, todo <- feed, pc <- treePc

\* No tree is made where it does not run.
NoTree ==
    /\ server = {} /\ kind = <<>> /\ href = <<>> /\ byHref = <<>> /\ feed = {}
    /\ again = 0 /\ unresolved = <<>> /\ rest = <<>> /\ count = 0 /\ treePc = "done"

\* Up to four digits, with and without a zero in front.
FewDigits == {<<>>, <<1>>, <<0, 9>>, <<1, 0>>, <<0, 1, 0>>, <<0, 1, 1>>, <<9, 9, 9>>,
              <<0, 1, 0, 0>>, <<1, 0, 0, 1>>}

Date == INSTANCE DateTime

MCInit ==
    /\ Init /\ part \in {"pages", "rules", "tree", "dates"} /\ lines = {}
    /\ IF part = "tree" THEN Tree!Init ELSE NoTree
    /\ Date!Init /\ (part # "dates" => date = Garbled)

\* A bound: other clients, rules and faults do not all do all that they may.
Spares == left'.others + left'.rules + left'.faults > 0

Pages(A) == part = "pages" /\ A /\ Spares /\ UNCHANGED <<part, lines, tree, dates>>
TreeStep == part = "tree" /\ Tree!Next /\ UNCHANGED <<vars, part, lines, dates>>

DateStep == part = "dates" /\ Date!Next /\ UNCHANGED <<vars, part, lines, tree>>

\* One line with a "!" and one without: lines of one kind are alternatives.
WriteLine ==
    /\ part = "rules"
    /\ \E line \in Lines(Patterns) :
        /\ line.inc \notin {l.inc : l \in lines}
        /\ lines' = lines \cup {line}
    /\ UNCHANGED <<vars, part, tree, dates>>

EraseLines ==
    /\ part = "rules" /\ lines # {}
    /\ lines' = {}
    /\ UNCHANGED <<vars, part, tree, dates>>

MCNext == Pages(Next) \/ WriteLine \/ EraseLines \/ TreeStep \/ DateStep

MCSpec == MCInit /\ [][MCNext]_mcvars
MCFairSpec ==
    /\ MCSpec
    /\ WF_vars(part = "pages" /\ RunStep) /\ SF_vars(part = "pages" /\ Scan("normal"))

\* .griveignore does what the README says of it, unless a "**" stands between two
\* other parts or an included line begins with a slash: a path is ignored if an excluded
\* line names it, and no included one names it, a folder above it or something below
\* it; and the scan reaches whatever an included line names (ParseIgnoreFile).
RulesMeant ==
    part = "rules" => \A path \in Paths :
        IgnoredAsMeant(lines, path) /\ IncludedIsReached(lines, path)

\* Under an address the index has the resource that has it, and no other: what
\* FindByHref answers is what a search of the tree would (ResourceTree.cc).
IndexAgrees == part = "tree" => Tree!IndexAgrees

\* In the end every entry is at its path, and the others are nowhere, in whatever
\* order they were listed, unless two of them have one path (State.cc:186-212).
EntriesFound == part = "tree" => Tree!EntriesFound

\* The modifiedDate of an entry is read as the moment that it means, whatever was read
\* before, and the record and the local file get no other (DateTime.cc:42-163).
DatesMeant == part = "dates" => Date!DatesMeant
=============================================================================
