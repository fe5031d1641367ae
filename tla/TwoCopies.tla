----------------------------- MODULE TwoCopies -----------------------------
(***************************************************************************)
(* What grive promises of one file while it is not interrupted: two people  *)
(* work on two copies, and a third party carries the work of each over to   *)
(* the other. It needs no clock, no checksum and no record to say what that *)
(* is: it knows the version that both copies last had. Work is sent only    *)
(* over that version, a deletion only for that version, and nothing is      *)
(* fetched but another one.                                                 *)
(***************************************************************************)
EXTENDS Naturals

CONSTANTS
    Content,   \* what either side writes
    Nothing,   \* there is no file
    Part       \* what an unfinished transfer leaves behind

VARIABLES
    here,      \* the content of the copy on the disk
    there,     \* the version on the server: [data, id]
    common,    \* the version that both copies last had
    seen,      \* the version that was last looked at there
    made,      \* the number of versions there have been; they are numbered
    busy       \* whether the third party is at work on them: the user is not, then

copies == <<here, there, common, seen, made, busy>>

None == [data |-> Nothing, id |-> 0]

Init ==
    /\ here = Nothing /\ there = None /\ common = None
    /\ seen = 0 /\ made = 0 /\ busy = FALSE

\* A new version of content d comes about on the server.
Makes(d) == there' = [data |-> d, id |-> made + 1] /\ made' = made + 1

\* The user works on the disk, and may delete the file.
User ==
    /\ ~busy
    /\ here' \in Content \cup {Nothing}
    /\ UNCHANGED <<there, common, seen, made, busy>>

\* The others work on the server, at any time.
Others ==
    /\ \/ \E d \in Content : Makes(d)
       \/ there' = None /\ UNCHANGED made
    /\ UNCHANGED <<here, common, seen, busy>>

\* The work begins, or ends. What was seen there is forgotten now or later.
Turn ==
    /\ busy' \in BOOLEAN /\ seen' \in {0, seen}
    /\ UNCHANGED <<here, there, common, made>>

Look ==
    /\ busy
    /\ seen' = there.id
    /\ UNCHANGED <<here, there, common, made, busy>>

\* The copies are found to be equal.
Agree ==
    /\ busy
    /\ here = there.data
    /\ common' = there /\ seen' = there.id
    /\ UNCHANGED <<here, there, made, busy>>

\* Local work is sent, over the common version or where there is none. What an
\* unfinished transfer has left never goes over a version.
Push ==
    /\ busy
    /\ here \notin {Nothing, common.data}
    /\ there = None \/ (there = common /\ here # Part)
    /\ Makes(here)
    /\ common' = there' /\ seen' = there'.id
    /\ busy' = FALSE
    /\ UNCHANGED here

\* The user has deleted the common version: so is it on the server.
TrashThere ==
    /\ busy
    /\ here = Nothing /\ there = common /\ there # None
    /\ there' = None /\ common' = None /\ busy' = FALSE
    /\ UNCHANGED <<here, seen, made>>

\* The common version is no longer on the server: nor will it be here.
TrashHere ==
    /\ busy
    /\ here \in {Nothing, common.data} /\ there # common
    /\ here' = Nothing /\ common' = None /\ busy' = FALSE
    /\ UNCHANGED <<there, seen, made>>

\* A version is fetched that is not the common one. The transfer begins by giving
\* up what is here, and may stay unfinished.
FetchBegins ==
    /\ busy
    /\ seen \notin {0, common.id}
    /\ here' = Part
    /\ UNCHANGED <<there, common, seen, made, busy>>

FetchEnds ==
    /\ busy
    /\ here = Part /\ there # None /\ there.id = seen
    /\ here' = there.data /\ common' = there
    /\ UNCHANGED <<there, seen, made, busy>>

Next ==
    \/ User \/ Others \/ Turn \/ Look \/ Agree \/ Push
    \/ TrashThere \/ TrashHere \/ FetchBegins \/ FetchEnds

Spec == Init /\ [][Next]_copies
=============================================================================
