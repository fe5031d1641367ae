----------------------------- MODULE RemoteCall -----------------------------
(***************************************************************************)
(* What the rest of grive relies on when it sends a request: it returns     *)
(* only if the server has carried it out, it may have been carried out when *)
(* an exception comes instead, and a request that names the version it is   *)
(* about is carried out once at most, however often it was sent.            *)
(***************************************************************************)
EXTENDS Naturals

CONSTANTS
    Kinds,        \* the kinds of requests
    Conditional   \* those that carry If-Match

VARIABLES
    status,    \* "none", "pending", "returned" or "thrown"
    kind,      \* the kind of the last request
    executed   \* how often the server has carried it out; 2 stands for more

callVars == <<status, kind, executed>>

Init == status = "none" /\ kind \in Kinds /\ executed = 0

Begin ==
    /\ status # "pending"
    /\ status' = "pending"
    /\ kind' \in Kinds
    /\ executed' = 0

Execute ==
    /\ status = "pending"
    /\ kind \in Conditional => executed = 0
    /\ executed' = IF executed < 2 THEN executed + 1 ELSE executed
    /\ UNCHANGED <<status, kind>>

Return ==
    /\ status = "pending"
    /\ executed > 0
    /\ status' = "returned"
    /\ UNCHANGED <<kind, executed>>

Throw ==
    /\ status = "pending"
    /\ status' = "thrown"
    /\ UNCHANGED <<kind, executed>>

Next == Begin \/ Execute \/ Return \/ Throw

Spec == Init /\ [][Next]_callVars
=============================================================================
