-------------------------- MODULE SyncScriptProofs --------------------------
(***************************************************************************)
(* Theorems about SyncScript, for any number of callers and seconds,       *)
(* and about Listener, which is SyncScript with a caller that waits.        *)
(***************************************************************************)
EXTENDS Listener, FiniteSetTheorems, TLAPS

\* There is always an inode left for a new lock file: every caller has at most
\* one open, and there is one more than callers.
LEMMA FreshInodeExists ==
    ASSUME TypeOK, name = None
    PROVE  FreshInode \in Inodes
<1> DEFINE open == {fd[c] : c \in Callers}
<1> SUFFICES ASSUME Inodes \subseteq open PROVE FALSE
    BY DEF FreshInode, Inodes, None
<1>1. IsFiniteSet(Callers) /\ Cardinality(Callers) \in Nat
    BY SyncScriptAssumption, FS_CardinalityType
<1>2. fd \in Surjection(Callers, open)
    BY DEF TypeOK, Surjection
<1> HIDE DEF open
<1>3. IsFiniteSet(open) /\ Cardinality(open) <= Cardinality(Callers)
    BY <1>1, <1>2, FS_Surjection
<1>4. Cardinality(open) \in Nat
    BY <1>3, FS_CardinalityType
<1>5. Cardinality(Inodes) = Cardinality(Callers) + 1
    BY <1>1, FS_Interval DEF Inodes
<1>6. Cardinality(Inodes) <= Cardinality(open)
    BY <1>3, FS_Subset
<1> QED
    BY <1>1, <1>3, <1>4, <1>5, <1>6

\* The lock file, old or new, is an inode, and it is stamped with the time of now.
LEMMA StampNameType ==
    ASSUME TypeOK, StampName
    PROVE  /\ Named \in Inodes
           /\ name' \in Inodes
           /\ mtime' \in 0..MaxClock
<1>1. Named \in Inodes
    BY FreshInodeExists DEF Named, TypeOK
<1>2. now \in 0..MaxClock
    BY SyncScriptAssumption DEF TypeOK
<1> QED
    BY <1>1, <1>2 DEF StampName, TypeOK

\* The time stamp is a second of the clock.
LEMMA StatType == ASSUME TypeOK PROVE Stat \in 0..MaxClock
BY SyncScriptAssumption DEF Stat, TypeOK, None

\* The invariant holds before the first call.
LEMMA InitHolds == Init => TypeOK /\ HoldsLock
BY SyncScriptAssumption DEF Init, TypeOK, HoldsLock, Synchronising, Inodes, None

\* A new call opens the file, whose lock it does not touch.
LEMMA PrepareLockingHolds ==
    ASSUME TypeOK, HoldsLock, NEW c \in Callers, PrepareLocking(c)
    PROVE  TypeOK' /\ HoldsLock'
<1>1. Named \in Inodes /\ name' \in Inodes /\ mtime' \in 0..MaxClock
    BY StampNameType DEF PrepareLocking
<1>2. TypeOK'
    BY <1>1, SyncScriptAssumption DEF PrepareLocking, Goes, TypeOK
<1>3. HoldsLock'
    BY <1>1 DEF PrepareLocking, Goes, TypeOK, HoldsLock, Synchronising
<1> QED
    BY <1>2, <1>3

\* Every step of a call leaves the locks of the others alone.
LEMMA StepHolds ==
    ASSUME TypeOK, HoldsLock, NEW c \in Callers, Step(c)
    PROVE  TypeOK' /\ HoldsLock'
<1> USE DEF Goes, Synchronising
<1>1. CASE ExlockNow(c)
    BY <1>1, SyncScriptAssumption DEF ExlockNow, TypeOK, HoldsLock
<1>2. CASE ExlockNowFails(c)
    BY <1>2 DEF ExlockNowFails, TypeOK, HoldsLock, files
<1>3. CASE ResetTimerAndExit(c)
    <2>1. name' \in Inodes /\ mtime' \in 0..MaxClock
        BY <1>3, StampNameType DEF ResetTimerAndExit
    <2> QED
        BY <1>3, <2>1 DEF ResetTimerAndExit, TypeOK, HoldsLock
<1>4. CASE Ping(c)
    BY <1>4 DEF Ping, TypeOK, HoldsLock, files
<1>5. CASE NotReachable(c)
    BY <1>5 DEF NotReachable, TypeOK, HoldsLock, files
<1>6. CASE TimeAtStart(c)
    BY <1>6, StatType DEF TimeAtStart, TypeOK, HoldsLock, files
<1>7. CASE TimeAtEnd(c)
    BY <1>7 DEF TimeAtEnd, TypeOK, HoldsLock, files
<1>8. CASE Unlock(c)
    BY <1>8 DEF Unlock, TypeOK, HoldsLock
<1>9. CASE NoMoreLocking(c)
    BY <1>9, SyncScriptAssumption DEF NoMoreLocking, TypeOK, HoldsLock
<1>10. CASE SomebodyHasIt(c)
    BY <1>10 DEF SomebodyHasIt, TypeOK, HoldsLock, files
<1>11. CASE Remove(c)
    BY <1>11, SyncScriptAssumption DEF Remove, TypeOK, HoldsLock, None
<1>12. CASE Close(c)
    BY <1>12, SyncScriptAssumption DEF Close, TypeOK, HoldsLock, None
<1> QED
    BY <1>1, <1>2, <1>3, <1>4, <1>5, <1>6, <1>7, <1>8, <1>9, <1>10, <1>11, <1>12 DEF Step

\* The clock, and a step in which nothing happens.
LEMMA TickHolds ==
    ASSUME TypeOK, HoldsLock, Tick \/ UNCHANGED vars
    PROVE  TypeOK' /\ HoldsLock'
<1>1. CASE Tick
    BY <1>1, SyncScriptAssumption DEF Tick, TypeOK, HoldsLock, files
<1>2. CASE UNCHANGED vars
    BY <1>2 DEF vars, TypeOK, HoldsLock
<1> QED
    BY <1>1, <1>2

\* The types are right, and every call that synchronises holds the lock of the
\* file that it has open: the trap on EXIT of another call never takes it away.
THEOREM LockIsHeld == Spec => [](TypeOK /\ HoldsLock)
<1>1. TypeOK /\ HoldsLock /\ [Next]_vars => (TypeOK /\ HoldsLock)'
    BY PrepareLockingHolds, StepHolds, TickHolds DEF Next
<1> QED
    BY <1>1, InitHolds, PTL DEF Spec

\* Two calls that synchronise at the same time have different lock files, one of
\* which has lost its name: only the removal of the file lets runs overlap.
THEOREM OverlapNeedsRemoval == Spec => []OverlapsOnlyAfterRemoval
<1>1. TypeOK /\ HoldsLock => OverlapsOnlyAfterRemoval
    BY DEF HoldsLock, OverlapsOnlyAfterRemoval, TypeOK
<1> QED
    BY <1>1, LockIsHeld, PTL

\* The listener does with its calls what any caller may do: whatever it hears, and
\* whatever the user changes, the script goes its steps or stands still.
THEOREM ListenerCallsTheScript == ListenerSpec => Spec
<1>1. ListenerInit => Init
    BY DEF ListenerInit
<1>2. [ListenerNext]_lvars => [Next]_vars
    <2>1. ASSUME NEW c \in Callers, Call(c) \/ ScriptStep(c)
          PROVE  Next
        BY <2>1 DEF Call, ScriptStep, Next
    <2>2. ASSUME NEW c \in Callers, GriveWrites(c) \/ Scan(c)
          PROVE  UNCHANGED vars
        BY <2>2 DEF GriveWrites, Scan
    <2>3. ASSUME UserChanges \/ ListensAgain
          PROVE  UNCHANGED vars
        BY <2>3 DEF UserChanges, ListensAgain
    <2> QED
        BY <2>1, <2>2, <2>3 DEF ListenerNext, Next, lvars
<1> QED
    BY <1>1, <1>2, PTL DEF ListenerSpec, Spec

\* So a listener, too, synchronises beside another call only after a lock file
\* was removed.
COROLLARY ListenerOverlapNeedsRemoval == ListenerSpec => []OverlapsOnlyAfterRemoval
BY ListenerCallsTheScript, OverlapNeedsRemoval, PTL
-----------------------------------------------------------------------------
(* What the listener has heard.  Somebody is bound to read the directory    *)
(* after it, as long as no call has been missed: the listener itself, which *)
(* was woken; the call that it makes, until it has the lock or has touched  *)
(* the file; or a call that holds a lock and goes around its loop again.    *)

Looks(h) ==
    \/ pc[h] \in {"ping", "stat"}
    \/ pc[h] = "grive" /\ (~scanned[h] \/ start[h] < Stat)

PromiseInv ==
    "heard" \in unseen /\ ~missed =>
        \/ watch = "woken"
        \/ pc[Changes] \in {"lock", "touch"}
        \/ \E h \in Callers : Looks(h)

\* The lock file is not stamped with a second that is still to come.
StampsPast == mtime <= now

ListenerInv == scanned \in [Callers -> BOOLEAN] /\ StampsPast /\ PromiseInv

\* The numbers that the loop compares.
LEMMA SecondsType ==
    ASSUME TypeOK
    PROVE  /\ now \in Nat /\ Stat \in Nat
           /\ \A c \in Callers : start[c] \in Nat
           /\ mtime \in Nat
BY StatType, SyncScriptAssumption DEF TypeOK

\* Stamping the file sets its time to now, and takes it back for nobody.
LEMMA StampNameMoves ==
    ASSUME TypeOK, StampsPast, StampName, now' = now
    PROVE  StampsPast' /\ Stat' = now /\ (name # None => Stat <= Stat')
<1>1. Named \in Inodes /\ name' = Named /\ mtime' = now
    BY StampNameType DEF StampName
<1>2. Named # None
    BY <1>1 DEF Inodes, None
<1>3. Stat' = now
    BY <1>1, <1>2 DEF Stat, TypeOK
<1>4. name # None => Stat <= now
    BY DEF Stat, TypeOK, StampsPast
<1>5. StampsPast'
    BY <1>1, SecondsType DEF StampsPast, TypeOK
<1> QED
    BY <1>3, <1>4, <1>5

\* Who will look still will after a step of another that leaves the file its name.
LEMMA StillLooks ==
    ASSUME TypeOK, NEW h \in Callers, Looks(h), name # None => Stat <= Stat', Stat' \in Nat,
           pc'[h] = pc[h], start'[h] = start[h], scanned'[h] = scanned[h]
    PROVE  Looks(h)'
<1>1. name = None => Stat = 0
    BY DEF Stat
<1> QED
    BY <1>1, SecondsType DEF Looks

\* A new call of the script opens the lock file.
LEMMA CallKeepsPromise ==
    ASSUME TypeOK, TypeOK', ListenerInv, NEW c \in Callers, Call(c)
    PROVE  ListenerInv'
<1>1. /\ pc[c] = "idle" /\ pc' = [pc EXCEPT ![c] = "lock"] /\ StampName /\ now' = now
      /\ UNCHANGED <<start, scanned, unseen, missed>>
    BY DEF Call, PrepareLocking, Goes
<1>2. StampsPast' /\ Stat' = now /\ (name # None => Stat <= Stat')
    BY <1>1, StampNameMoves DEF ListenerInv
<1>3. ASSUME NEW h \in Callers, Looks(h) PROVE Looks(h)'
    <2>1. h # c
        BY <1>1, <1>3 DEF Looks
    <2> QED
        BY <1>1, <1>2, <1>3, <2>1, StillLooks, SecondsType DEF TypeOK
<1>4. watch = "woken" => watch' = "woken" \/ pc'[Changes] = "lock"
    BY <1>1, ListenerAssumption DEF Call, TypeOK
<1>5. pc[Changes] \in {"lock", "touch"} => pc'[Changes] \in {"lock", "touch"}
    BY <1>1, ListenerAssumption DEF TypeOK
<1> QED
    BY <1>1, <1>2, <1>3, <1>4, <1>5 DEF ListenerInv, PromiseInv

\* The call of the listener gets the lock, and will look, or stamps the file for
\* whoever has it; who holds the lock goes around the loop once more if it sees that.
LEMMA StepKeepsPromise ==
    ASSUME TypeOK, TypeOK', ListenerInv, NEW c \in Callers, ScriptStep(c)
    PROVE  ListenerInv'
<1>1. /\ Step(c) /\ (pc[c] = "grive" => scanned[c])
      /\ scanned' = [scanned EXCEPT ![c] = FALSE] /\ UNCHANGED <<watch, unseen>>
      /\ missed' = (missed \/ (Misses(c) /\ "heard" \in unseen))
    BY DEF ScriptStep
<1>2. /\ now' = now
      /\ \A h \in Callers \ {c} : pc'[h] = pc[h] /\ start'[h] = start[h]
                                   /\ scanned'[h] = scanned[h]
    BY <1>1 DEF Step, ExlockNow, ExlockNowFails, ResetTimerAndExit, Ping, NotReachable,
        TimeAtStart, TimeAtEnd, Unlock, NoMoreLocking, SomebodyHasIt, Remove, Close, Goes,
        TypeOK, ListenerInv
<1>3. scanned' \in [Callers -> BOOLEAN]
    BY <1>1 DEF ListenerInv
<1>4. StampsPast'
    <2>1. CASE ResetTimerAndExit(c)
        BY <1>2, <2>1, StampNameMoves DEF ResetTimerAndExit, ListenerInv
    <2>2. CASE ~ResetTimerAndExit(c)
        <3>1. mtime' = mtime \/ mtime' = 0
            BY <1>1, <2>2 DEF Step, ExlockNow, ExlockNowFails, Ping, NotReachable,
                TimeAtStart, TimeAtEnd, Unlock, NoMoreLocking, SomebodyHasIt, Remove, Close,
                files
        <3> QED
            BY <1>2, <3>1, SecondsType DEF StampsPast, ListenerInv
    <2> QED
        BY <2>1, <2>2
<1>5. PromiseInv'
    <2> SUFFICES ASSUME "heard" \in unseen, ~missed, ~Misses(c), watch # "woken",
                        pc'[Changes] \notin {"lock", "touch"}
                 PROVE  \E h \in Callers : Looks(h)'
        BY <1>1 DEF PromiseInv
    <2>1. pc[Changes] \in {"lock", "touch"} \/ \E h \in Callers : Looks(h)
        BY DEF ListenerInv, PromiseInv
    <2>2. CASE Changes = c /\ pc[c] \in {"lock", "touch"}
        <3>1. CASE ExlockNow(c)
            BY <3>1 DEF ExlockNow, Goes, Looks, TypeOK
        <3>2. CASE ResetTimerAndExit(c)
            <4>1. StampName /\ pc[c] = "touch"
                BY <3>2 DEF ResetTimerAndExit, Goes
            <4>2. Stat' = now
                BY <1>2, <4>1, StampNameMoves DEF ListenerInv
            <4>3. PICK h \in Callers : WillLook(h)
                BY <3>2 DEF Misses
            <4>4. h # c
                BY <4>1, <4>3 DEF WillLook
            <4> QED
                BY <1>2, <4>2, <4>3, <4>4 DEF WillLook, Looks
        <3> QED
            BY <1>1, <2>2, <3>1, <3>2 DEF Step, ExlockNowFails, Ping, NotReachable,
                TimeAtStart, TimeAtEnd, Unlock, NoMoreLocking, SomebodyHasIt, Remove, Close,
                Goes, TypeOK
    <2>3. CASE ~(Changes = c /\ pc[c] \in {"lock", "touch"})
        <3>1. PICK h \in Callers : Looks(h)
            BY <1>2, <2>1, <2>3, ListenerAssumption
        <3>2. CASE h = c
            <4>1. Ping(c) \/ TimeAtStart(c) \/ TimeAtEnd(c)
                BY <1>1, <3>1, <3>2 DEF Looks, Misses, Step, ExlockNow, ExlockNowFails,
                    ResetTimerAndExit, Unlock, NoMoreLocking, SomebodyHasIt, Remove, Close,
                    Goes
            <4>2. CASE Ping(c)
                BY <4>2 DEF Ping, Goes, Looks, TypeOK
            <4>3. CASE TimeAtStart(c)
                BY <1>1, <4>3 DEF TimeAtStart, Goes, Looks, TypeOK, ListenerInv
            <4>4. CASE TimeAtEnd(c)
                <5>1. Loops(c) /\ pc[c] = "grive"
                    BY <1>1, <3>1, <3>2, <4>4 DEF TimeAtEnd, Goes, Looks, Loops
                <5> QED
                    BY <4>4, <5>1 DEF TimeAtEnd, Goes, Looks, TypeOK
            <4> QED
                BY <4>1, <4>2, <4>3, <4>4
        <3>3. CASE h # c
            <4>1. /\ pc'[h] = pc[h] /\ start'[h] = start[h] /\ scanned'[h] = scanned[h]
                BY <1>2, <3>3
            <4>2. CASE Remove(c)
                <5>1. pc[h] # "grive" \/ ~scanned[h]
                    BY <4>2 DEF Misses
                <5> QED
                    BY <3>1, <4>1, <5>1 DEF Looks
            <4>3. CASE ~Remove(c)
                <5>1. name # None => Stat <= Stat'
                    <6>1. CASE ResetTimerAndExit(c)
                        BY <1>2, <6>1, StampNameMoves DEF ResetTimerAndExit, ListenerInv
                    <6>2. CASE ~ResetTimerAndExit(c)
                        <7>1. UNCHANGED <<name, mtime>>
                            BY <1>1, <4>3, <6>2 DEF Step, ExlockNow, ExlockNowFails, Ping,
                                NotReachable, TimeAtStart, TimeAtEnd, Unlock, NoMoreLocking,
                                SomebodyHasIt, Close, files
                        <7> QED
                            BY <7>1, SecondsType DEF Stat
                    <6> QED
                        BY <6>1, <6>2
                <5>2. Stat' \in Nat
                    BY StatType, SyncScriptAssumption DEF TypeOK, Stat
                <5> QED
                    BY <3>1, <4>1, <5>1, <5>2, StillLooks
            <4> QED
                BY <4>2, <4>3
        <3> QED
            BY <3>2, <3>3
    <2> QED
        BY <2>2, <2>3
<1> QED
    BY <1>3, <1>4, <1>5 DEF ListenerInv

\* Every step of the listener, the calls and the user keeps the promise.
LEMMA ListenerKeepsPromise ==
    TypeOK /\ TypeOK' /\ ListenerInv /\ [ListenerNext]_lvars => ListenerInv'
<1> SUFFICES ASSUME TypeOK, TypeOK', ListenerInv, [ListenerNext]_lvars PROVE ListenerInv'
    OBVIOUS
<1>1. CASE UserChanges
    BY <1>1 DEF UserChanges, Wakes, vars, files, ListenerInv, PromiseInv, StampsPast, Looks, Stat
<1>2. CASE ListensAgain
    BY <1>2 DEF ListensAgain, vars, files, ListenerInv, PromiseInv, StampsPast, Looks, Stat
<1>3. CASE Tick /\ UNCHANGED heard
    BY <1>3, SecondsType DEF Tick, heard, files, ListenerInv, PromiseInv, StampsPast, Looks, Stat
<1>4. ASSUME NEW c \in Callers, GriveWrites(c) PROVE ListenerInv'
    BY <1>4 DEF GriveWrites, Wakes, vars, files, ListenerInv, PromiseInv, StampsPast, Looks, Stat
<1>5. ASSUME NEW c \in Callers, Scan(c) PROVE ListenerInv'
    BY <1>5 DEF Scan, vars, files, ListenerInv, PromiseInv, StampsPast
<1>6. CASE UNCHANGED lvars
    BY <1>6 DEF lvars, heard, vars, files, ListenerInv, PromiseInv, StampsPast, Looks, Stat
<1> QED
    BY <1>1, <1>2, <1>3, <1>4, <1>5, <1>6, CallKeepsPromise, StepKeepsPromise DEF ListenerNext

\* When everything is at rest, no change that was heard is left unsynchronised, unless
\* a call was missed: for any number of callers, changes and seconds.
THEOREM HeardChangesAreSynced == ListenerSpec => []HeardIsSynced
<1>1. ListenerInit => ListenerInv
    BY SecondsType, SyncScriptAssumption
        DEF ListenerInit, Init, ListenerInv, PromiseInv, StampsPast
<1>2. ListenerSpec => []TypeOK
    BY ListenerCallsTheScript, LockIsHeld, PTL
<1>3. ListenerInv => HeardIsSynced
    <2> SUFFICES ASSUME ListenerInv, Quiet, "heard" \in unseen PROVE missed
        BY DEF HeardIsSynced
    <2> QED
        BY ListenerAssumption DEF ListenerInv, PromiseInv, Quiet, Looks
<1> QED
    BY <1>1, <1>2, <1>3, ListenerKeepsPromise, PTL DEF ListenerSpec
=============================================================================
