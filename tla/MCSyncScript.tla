---------------------------- MODULE MCSyncScript ----------------------------
(* The two callers that systemd starts, the timer and the listener, each of *)
(* which calls the sync script again and again, while the user changes      *)
(* something whenever he likes.                                             *)
EXTENDS Listener

CONSTANTS timer, changes

TwoCallers == {timer, changes}
-----------------------------------------------------------------------------
(* The clock of a computer does not stop at MaxClock.  Nothing depends on   *)
(* more than the order of the seconds that are still to be compared, so one *)
(* that nobody will look at any more is taken out, and all later ones move  *)
(* up.                                                                      *)

\* What a call will yet compare, and the stamp it will read.
Compared(c) == IF pc[c] = "grive" THEN start[c] ELSE 0
ToCompare   == {Compared(c) : c \in Callers} \cup {mtime, now}

Earlier(s, gap) == IF s > gap THEN s - 1 ELSE s

TakeSecondOut ==
    /\ now = MaxClock
    /\ \E gap \in 1..MaxClock :
        /\ gap \notin ToCompare
        /\ now' = now - 1
        /\ start' = [c \in Callers |-> Earlier(Compared(c), gap)]
        /\ mtime' = Earlier(mtime, gap)
    /\ UNCHANGED <<pc, fd, name, lock, heard>>

\* Any number of calls and changes in any number of seconds.
EndlessNext == ListenerNext \/ TakeSecondOut

\* Every process runs on, and grive ends; nobody must call or change anything.
EndlessSpec ==
    /\ ListenerInit /\ [][EndlessNext]_lvars
    /\ \A c \in Callers : WF_lvars(Scan(c)) /\ WF_lvars(ScriptStep(c))
=============================================================================
