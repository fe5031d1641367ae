----------------------------- MODULE IgnoreFile -----------------------------
(***************************************************************************)
(* .griveignore: what the regular expression that State::ParseIgnoreFile    *)
(* makes of its lines says of a path.  A path is the sequence of its names, *)
(* a pattern the sequence of what stands between the slashes of a line.     *)
(* The expression is matched against the whole path; as the scan does not   *)
(* enter a folder that is ignored, it also decides about all that is below. *)
(***************************************************************************)
EXTENDS Integers, Sequences

CONSTANTS
    Plain,    \* names
    Any,      \* "*": one name, whatever it is ("?" is not told from it)
    AnyPath,  \* "**"
    Empty     \* what stands before a slash at the beginning of a line

Parts == Plain \cup {Any, AnyPath, Empty}

\* How many names the expression of a part takes: "[^/]*" stays within one; ".*"
\* is between two slashes, that stay where they are.
NamesOf(p) == IF p = AnyPath THEN Nat \ {0} ELSE {1}

MatchesName(p, name) == p \in {Any, AnyPath} \/ p = name

\* The names of the path can be dealt out to the parts of the pattern, in order:
\* cut[i] is where the share of part i ends.
MatchesAll(pattern, path) ==
    \E cut \in [0..Len(pattern) -> 0..Len(path)] :
        /\ cut[0] = 0 /\ cut[Len(pattern)] = Len(path)
        /\ \A i \in 1..Len(pattern) :
            /\ cut[i] - cut[i - 1] \in NamesOf(pattern[i])
            /\ \A k \in (cut[i - 1] + 1)..cut[i] : MatchesName(pattern[i], path[k])

Prefixes(path) == {SubSeq(path, 1, n) : n \in 1..Len(path)}

\* The parts of an excluded pattern are joined; one that is empty leaves no slash.
\* As a line is cut at every run of slashes, that can only be the first.
Joined(pattern) == IF pattern[1] = Empty THEN Tail(pattern) ELSE pattern

Excludes(pattern, path) == MatchesAll(Joined(pattern), path)

\* Mutant: the folders on the way are left out.
IncludesEnd(pattern, path) == \E prefix \in Prefixes(path) : MatchesAll(pattern, prefix)

\* An included pattern matches what it names and all below it, and every folder on
\* the way there. It begins with "^" and its first part: after one that is empty
\* comes a slash, with which no path begins.
Includes(pattern, path) ==
    \/ \E prefix \in Prefixes(path) : MatchesAll(pattern, prefix)
    \/ \E n \in 1..(Len(pattern) - 1) : MatchesAll(SubSeq(pattern, 1, n), path)

\* The lines of a file that say something, with these patterns: a "!" stands before
\* an included one.  Empty lines and those that begin with "#" are passed over.
Lines(patterns) == [inc: BOOLEAN, pattern: patterns]

\* State::IsIgnore: if there is no excluded pattern there is no expression.
IsIgnore(lines, path) ==
    /\ \E l \in lines : ~l.inc /\ Excludes(l.pattern, path)
    /\ ~\E l \in lines : l.inc /\ Includes(l.pattern, path)

\* What the scan and the listing come to: nothing is looked at below a folder that
\* is ignored.
Reached(lines, path) == \A prefix \in Prefixes(path) : ~IsIgnore(lines, prefix)

-----------------------------------------------------------------------------
(* What the README says of the lines (README.md, .griveignore), and how what the     *)
(* expression does compares with it.                                        *)

\* Every pattern is relative to the root, so a slash at its beginning says nothing.
Slash(pattern)  == IF Len(pattern) > 0 /\ pattern[1] = Empty THEN 1 ELSE 0
Leads(pattern)  == Slash(pattern) < Len(pattern) /\ pattern[Slash(pattern) + 1] = AnyPath
Trails(pattern) == Slash(pattern) + 1 < Len(pattern) /\ pattern[Len(pattern)] = AnyPath

\* The path is, name by name, what the pattern names; before that it has directories
\* if the pattern begins with "**", and something more if it ends with "**".
Means(pattern, path) ==
    LET first == Slash(pattern) + (IF Leads(pattern) THEN 1 ELSE 0)
        named == Len(pattern) - first - (IF Trails(pattern) THEN 1 ELSE 0)
    IN  \E dirs \in 0..(Len(path) - named) :
            /\ dirs > 0 <=> Leads(pattern)
            /\ dirs + named < Len(path) <=> Trails(pattern)
            /\ \A i \in 1..named : MatchesName(pattern[first + i], path[dirs + i])

\* The path and what is below it, as deep as the pattern is long: a "**" that names
\* something deeper names something here, too.
Below(path, n) == {path \o names : names \in UNION {[1..k -> Plain] : k \in 0..n}}

\* The pattern names the path, a folder that it is in, or something that is in it.
Keeps(pattern, path) ==
    \E other \in Prefixes(path) \cup Below(path, Len(pattern)) : Means(pattern, other)

\* Two kinds of lines are left out, as the program does not do with them what the README
\* says: "**" between two other parts, which takes one name at least, and an included
\* pattern that begins with a slash, which matches nothing.
AsDocumented(l) ==
    /\ \A i \in (Slash(l.pattern) + 2)..(Len(l.pattern) - 1) : l.pattern[i] # AnyPath
    /\ l.inc => Slash(l.pattern) = 0

\* Of such lines, a path is ignored if an excluded one names it, unless an included
\* one keeps it: include patterns "have a priority over all exclude ones".
IgnoredAsMeant(lines, path) ==
    (\A l \in lines : AsDocumented(l)) =>
        (IsIgnore(lines, path) <=>
            /\ \E l \in lines : ~l.inc /\ Means(l.pattern, path)
            /\ ~\E l \in lines : l.inc /\ Keeps(l.pattern, path))

\* A path that such an included line names is reached: no folder on the way to it is
\* ignored, whatever other lines there are.
IncludedIsReached(lines, path) ==
    (\E l \in lines : l.inc /\ AsDocumented(l) /\ Means(l.pattern, path))
        => Reached(lines, path)
=============================================================================
