----------------------------- MODULE SyncScript -----------------------------
(***************************************************************************)
(* systemd/grive-sync.sh sync: what keeps two runs of grive in the same    *)
(* directory apart.  The timer and the listener for changes call the       *)
(* script, each of them again and again, one call at a time.               *)
(*                                                                         *)
(* The lock is on the file that was opened, not on its name: a call keeps  *)
(* the inode open under file descriptor 99 until it ends, and the name may *)
(* be gone, or belong to another inode, by then.                           *)
(***************************************************************************)
EXTENDS Naturals, FiniteSets

CONSTANTS
    Callers,    \* who calls the script
    Nobody,     \* holds a lock that is free
    MaxClock    \* the last second of the clock

ASSUME SyncScriptAssumption ==
    /\ IsFiniteSet(Callers) /\ Nobody \notin Callers
    /\ MaxClock \in Nat \ {0}

VARIABLES
    pc,      \* where the call of each caller is
    fd,      \* the inode it has open, while it runs
    start,   \* TIME_AT_START
    name,    \* the inode that is called LOCKFILE, or None
    mtime,   \* the modification time of that inode, in seconds: nobody asks for another
    lock,    \* who holds the flock of every inode
    now      \* the clock

files  == <<name, mtime, lock>>
vars   == <<pc, fd, start, name, mtime, lock, now>>

\* Every call has one open, and touch may make one more.
Inodes == 1..(Cardinality(Callers) + 1)
None   == 0

TypeOK ==
    /\ pc \in [Callers -> {"idle", "lock", "touch", "ping", "stat", "grive",
                           "unlock", "exit", "remove", "close"}]
    /\ fd \in [Callers -> Inodes \cup {None}]
    /\ start \in [Callers -> 0..MaxClock]
    /\ name \in Inodes \cup {None}
    /\ mtime \in 0..MaxClock
    /\ lock \in [Inodes -> Callers \cup {Nobody}]
    /\ now \in 1..MaxClock

Init ==
    /\ pc = [c \in Callers |-> "idle"]
    /\ fd = [c \in Callers |-> None]
    /\ start = [c \in Callers |-> 0]
    /\ name = None
    /\ mtime = 0
    /\ lock = [i \in Inodes |-> Nobody]
    /\ now = 1

\* An inode that has neither the name nor anybody who has it open.
FreshInode == CHOOSE i \in Inodes : i # name /\ \A c \in Callers : fd[c] # i

\* The inode that opening LOCKFILE for writing, or touch, gets and stamps.
Named == IF name = None THEN FreshInode ELSE name

\* Mutant: milliseconds for seconds.
StampTooFine ==
    /\ name' = Named
    /\ mtime' = 1000 * now

StampName ==
    /\ name' = Named
    /\ mtime' = now

\* stat -c %Y; when it fails the comparison takes the empty string for 0.
Stat == IF name = None THEN 0 ELSE mtime

Goes(c, from, to) == pc[c] = from /\ pc' = [pc EXCEPT ![c] = to]

-----------------------------------------------------------------------------
\* exec 99>LOCKFILE truncates the file, which sets its modification time.
PrepareLocking(c) ==
    /\ Goes(c, "idle", "lock")
    /\ StampName
    /\ fd' = [fd EXCEPT ![c] = Named]
    /\ UNCHANGED <<start, lock, now>>

ExlockNow(c) ==
    /\ Goes(c, "lock", "ping")
    /\ lock[fd[c]] = Nobody
    /\ lock' = [lock EXCEPT ![fd[c]] = c]
    /\ UNCHANGED <<fd, start, name, mtime, now>>

ExlockNowFails(c) ==
    /\ Goes(c, "lock", "touch")
    /\ lock[fd[c]] # Nobody
    /\ UNCHANGED <<fd, start, files, now>>

ResetTimerAndExit(c) ==
    /\ Goes(c, "touch", "exit")
    /\ StampName
    /\ UNCHANGED <<fd, start, lock, now>>

\* The first TIME_AT_START is 0 and the first TIME_AT_END 1.
Ping(c) ==
    /\ Goes(c, "ping", "stat")
    /\ UNCHANGED <<fd, start, files, now>>

NotReachable(c) ==
    /\ Goes(c, "ping", "unlock")
    /\ UNCHANGED <<fd, start, files, now>>

TimeAtStart(c) ==
    /\ Goes(c, "stat", "grive")
    /\ start' = [start EXCEPT ![c] = Stat]
    /\ UNCHANGED <<fd, files, now>>

\* Mutants: -le for -lt, and no second look.
LoopsOnEqual(c) == start[c] <= Stat
LoopsNever(c)   == FALSE

Loops(c) == start[c] < Stat

\* Grive has ended: TIME_AT_END, and around the loop again or not.
TimeAtEnd(c) ==
    /\ Goes(c, "grive", IF Loops(c) THEN "stat" ELSE "unlock")
    /\ UNCHANGED <<fd, start, files, now>>

Unlock(c) ==
    /\ Goes(c, "unlock", "exit")
    /\ lock' = [lock EXCEPT ![fd[c]] = Nobody]
    /\ UNCHANGED <<fd, start, name, mtime, now>>

-----------------------------------------------------------------------------
(* _no_more_locking, the trap on EXIT, of every call.                      *)

\* Mutant: the trap frees the lock, whoever holds it.
SomebodyLosesIt(c) ==
    /\ Goes(c, "exit", "close")
    /\ lock[fd[c]] # Nobody
    /\ lock' = [lock EXCEPT ![fd[c]] = Nobody]
    /\ UNCHANGED <<fd, start, name, mtime, now>>

NoMoreLocking(c) ==
    /\ Goes(c, "exit", "remove")
    /\ lock[fd[c]] = Nobody
    /\ lock' = [lock EXCEPT ![fd[c]] = c]
    /\ UNCHANGED <<fd, start, name, mtime, now>>

SomebodyHasIt(c) ==
    /\ Goes(c, "exit", "close")
    /\ lock[fd[c]] # Nobody
    /\ UNCHANGED <<fd, start, files, now>>

\* rm -f goes by the name.
Remove(c) ==
    /\ Goes(c, "remove", "close")
    /\ name' = None /\ mtime' = 0
    /\ UNCHANGED <<fd, start, lock, now>>

\* The process ends, and with it the open file and its lock.
Close(c) ==
    /\ Goes(c, "close", "idle")
    /\ lock' = [lock EXCEPT ![fd[c]] = IF @ = c THEN Nobody ELSE @]
    /\ fd' = [fd EXCEPT ![c] = None]
    /\ start' = [start EXCEPT ![c] = 0]
    /\ UNCHANGED <<name, mtime, now>>

-----------------------------------------------------------------------------
Tick ==
    /\ now < MaxClock
    /\ now' = now + 1
    /\ UNCHANGED <<pc, fd, start, files>>

\* What a call does once it has been made.
Step(c) ==
    \/ ExlockNow(c) \/ ExlockNowFails(c) \/ ResetTimerAndExit(c)
    \/ Ping(c) \/ NotReachable(c) \/ TimeAtStart(c) \/ TimeAtEnd(c) \/ Unlock(c)
    \/ NoMoreLocking(c) \/ SomebodyHasIt(c) \/ Remove(c) \/ Close(c)

Next == Tick \/ \E c \in Callers : PrepareLocking(c) \/ Step(c)

Spec == Init /\ [][Next]_vars
-----------------------------------------------------------------------------
(* Properties.                                                             *)

\* From the lock to the unlock.
Synchronising == {"ping", "stat", "grive", "unlock"}

\* A call that runs has a lock file open, and one that synchronises has locked it.
HoldsLock ==
    /\ \A c \in Callers : pc[c] # "idle" => fd[c] \in Inodes
    /\ \A c \in Callers : pc[c] \in Synchronising => lock[fd[c]] = c

\* What the script does achieve: two runs of grive overlap only if the lock file
\* of one of them has been removed, and whoever synchronises has a lock file that
\* nobody else holds, through every retrigger and every trap on EXIT.
OverlapsOnlyAfterRemoval ==
    \A c, e \in Callers :
        c # e /\ {pc[c], pc[e]} \subseteq Synchronising
        => fd[c] # fd[e] /\ (fd[c] # name \/ fd[e] # name)

\* A call that comes while another one synchronises: it stamps the lock file.
Retriggers(c) == \E e \in Callers \ {c} : PrepareLocking(e) \/ ResetTimerAndExit(e)

\* Every call ends unless others retrigger it again and again: nothing but a later
\* stamp by another call keeps it in its loop, and nothing else in the script holds
\* it up, least of all a lock.  How often they may is not bounded: each change that
\* grive makes itself can bring another call (grive-sync.sh:81, 107), and a call
\* that is always retriggered goes on for ever.
EveryCallEnds ==
    \A c \in Callers : <>[](pc[c] # "idle") => []<><<Retriggers(c)>>_vars
=============================================================================
