------------------------------ MODULE Listener ------------------------------
(***************************************************************************)
(* systemd/grive-sync.sh listen: inotifywait waits for one change in the   *)
(* directory, then the script calls itself with sync and waits for the end *)
(* of that call before it listens again.  Nobody hears a change that comes *)
(* meanwhile; it is synchronised by a run whose scan comes after it.       *)
(*                                                                         *)
(* The lock file that the listener itself opens is left out: it is locked  *)
(* by nobody, and removed when the listener is stopped.                    *)
(***************************************************************************)
EXTENDS SyncScript

CONSTANT Changes     \* the caller that is the listener

ASSUME ListenerAssumption == Changes \in Callers

VARIABLES
    watch,     \* "waits" in inotifywait, "woken", or "calls" the script
    scanned,   \* grive, which the call runs, has read the directory
    unseen,    \* history: how the changes were met that no scan has seen: "heard", "unheard"
    missed     \* history: a call went by that should have got a heard one synchronised

heard == <<watch, scanned, unseen, missed>>
lvars == <<vars, heard>>

ListenerInit ==
    /\ Init
    /\ watch = "waits"
    /\ scanned = [c \in Callers |-> FALSE]
    /\ unseen = {} /\ missed = FALSE

\* Any event ends inotifywait.
Wakes == watch' = IF watch = "waits" THEN "woken" ELSE watch

UserChanges ==
    /\ Wakes
    /\ unseen' = unseen \cup {IF watch = "waits" THEN "heard" ELSE "unheard"}
    /\ UNCHANGED <<vars, scanned, missed>>

\* A download is an event, too; .grive and .grive_state are excluded.
GriveWrites(c) ==
    /\ pc[c] = "grive" /\ scanned[c] /\ watch = "waits"
    /\ Wakes
    /\ UNCHANGED <<vars, scanned, unseen, missed>>

\* grive reads the directory, and with it all that was changed.
Scan(c) ==
    /\ pc[c] = "grive" /\ ~scanned[c]
    /\ scanned' = [scanned EXCEPT ![c] = TRUE]
    /\ unseen' = {} /\ missed' = FALSE
    /\ UNCHANGED <<vars, watch>>

\* The listener calls the script once it was woken, the others when they like.
Call(c) ==
    /\ PrepareLocking(c)
    /\ c = Changes => watch = "woken"
    /\ watch' = IF c = Changes THEN "calls" ELSE watch
    /\ UNCHANGED <<scanned, unseen, missed>>

ListensAgain ==
    /\ watch = "calls" /\ pc[Changes] = "idle"
    /\ watch' = "waits"
    /\ UNCHANGED <<vars, scanned, unseen, missed>>

\* Somebody will scan after this moment, or look at the time stamp in another second.
WillLook(c) ==
    \/ pc[c] \in {"ping", "stat"}
    \/ pc[c] = "grive" /\ (~scanned[c] \/ start[c] < now)

\* The server cannot be reached; nobody looks at the time stamp any more; or the
\* file that has it is removed before somebody does.
Misses(c) ==
    \/ NotReachable(c)
    \/ ResetTimerAndExit(c) /\ ~\E h \in Callers : WillLook(h)
    \/ Remove(c) /\ \E h \in Callers : pc[h] = "grive" /\ scanned[h]

ScriptStep(c) ==
    /\ Step(c)
    /\ pc[c] = "grive" => scanned[c]
    /\ scanned' = [scanned EXCEPT ![c] = FALSE]
    /\ missed' = (missed \/ (Misses(c) /\ "heard" \in unseen))
    /\ UNCHANGED <<watch, unseen>>

ListenerNext ==
    \/ UserChanges \/ ListensAgain
    \/ Tick /\ UNCHANGED heard
    \/ \E c \in Callers : GriveWrites(c) \/ Scan(c) \/ Call(c) \/ ScriptStep(c)

ListenerSpec == ListenerInit /\ [][ListenerNext]_lvars

-----------------------------------------------------------------------------
(* Properties.                                                             *)

Quiet == watch = "waits" /\ \A c \in Callers : pc[c] = "idle"

\* When everything has come to rest, a change that the listener has heard was
\* synchronised, unless a call met a server out of reach, or came in the second of
\* the last look at the time stamp or after it (grive-sync.sh:59-61, 81-85: "make
\* sure we sync a second time, too").
HeardIsSynced == Quiet /\ "heard" \in unseen => missed
=============================================================================
