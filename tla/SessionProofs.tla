--------------------------- MODULE SessionProofs ---------------------------
(***************************************************************************)
(* Theorems about Session, for any number of processes, applications and    *)
(* tokens.                                                                  *)
(***************************************************************************)
EXTENDS Session, TLAPS

\* The invariant that the theorems rest on.
Inv == TypeOK /\ PairKept /\ SessionInv

Peer == [who: AllPeers, sent: Arrivals, closed: BOOLEAN]

\* The values of a process that does not run.
LEMMA OffType ==
    /\ NoOption \in Options /\ NoPeer \in Peer
    /\ Nothing \in Records /\ 0 \in 0..MaxTokens
BY SessionAssumption
   DEF NoOption, Options, NoPeer, Peer, AllPeers, Arrivals, Records

\* A record has a token and an application, or it is none.
LEMMA RecordType ==
    ASSUME NEW r \in Records, r # Nothing
    PROVE  r.token \in 1..MaxTokens /\ r.app \in Apps
BY DEF Records

\* The pair that a token is asked for with is a pair.
LEMMA AuthAppType == ASSUME TypeOK, NEW p \in Runs PROVE AuthApp(p) \in Apps
<1>1. opt[p] \in Options
    BY DEF TypeOK
<1> QED
    BY <1>1, SessionAssumption DEF Options, AuthApp

\* What a step of one process does to the places of all.
LEMMA GoesFacts ==
    ASSUME TypeOK, NEW p \in Runs, NEW from, NEW to \in Places, Goes(p, from, to)
    PROVE  /\ pc[p] = from /\ pc'[p] = to
           /\ \A q \in Runs : q # p => pc'[q] = pc[q]
           /\ pc' \in [Runs -> Places]
BY DEF TypeOK, Goes

\* What the end of one process leaves of it, and of the others.
LEMMA EndsFacts ==
    ASSUME TypeOK, NEW p \in Runs, Ends(p)
    PROVE  /\ pc' \in [Runs -> Places] /\ opt' \in [Runs -> Options]
           /\ mem' \in [Runs -> Records] /\ peer' \in [Runs -> Peer]
           /\ seen' \in [Runs -> 0..MaxTokens]
           /\ pc'[p] = "off" /\ mem'[p] = Nothing /\ seen'[p] = 0
           /\ \A q \in Runs : q # p => /\ pc'[q] = pc[q] /\ mem'[q] = mem[q]
                                       /\ seen'[q] = seen[q]
<1>1. "off" \in Places
    BY DEF Places
<1> QED
    BY <1>1, OffType DEF TypeOK, Ends, Peer

\* The first state.
LEMMA InitInv == Init => Inv
<1> SUFFICES ASSUME Init PROVE Inv
    OBVIOUS
<1>1. TypeOK
    <2>1. owner \in [1..0 -> Apps] /\ 0 \in 0..MaxTokens /\ 0 \in 0..MaxCrashes
        BY SessionAssumption DEF Init
    <2>2. "off" \in Places
        BY DEF Places
    <2> QED
        BY <2>1, <2>2, OffType DEF Init, TypeOK, Peer
<1>2. PairKept
    BY DEF Init, PairKept
<1>3. SessionInv
    BY DEF Init, SessionInv, Fresh, Writing
<1> QED
    BY <1>1, <1>2, <1>3 DEF Inv

-----------------------------------------------------------------------------
(* Steps that only move a process, or its options or its peer.              *)

\* Such a step goes neither to a place where there is a new token or a record is
\* needed, nor away from saving.
Harmless(p) ==
    /\ pc' \in [Runs -> Places]
    /\ \A q \in Runs : q # p => pc'[q] = pc[q]
    /\ pc'[p] = pc[p] \/ (/\ pc[p] \notin Fresh \cup {"rewriting"}
                          /\ pc'[p] \notin Fresh \cup {"rewriting"})
    /\ pc'[p] \in {"working", "finished"} => mem[p] # Nothing
    /\ UNCHANGED <<disk, mem, owner, saved, seen, crashes, lost, overtaken>>
    /\ opt' \in [Runs -> Options] /\ peer' \in [Runs -> Peer]

LEMMA HarmlessInv == ASSUME Inv, NEW p \in Runs, Harmless(p) PROVE Inv'
<1>1. TypeOK'
    BY DEF Inv, TypeOK, Harmless, Peer
<1>2. PairKept'
    BY DEF Inv, PairKept, Harmless, Issued
<1>3. Writing => Writing'
    BY DEF Writing, Harmless, Fresh
<1>4. \A q \in Runs : pc'[q] \in Fresh <=> pc[q] \in Fresh
    BY DEF Harmless
<1>5. \A q \in Runs : pc'[q] \in {"working", "finished", "rewriting"} => mem[q] # Nothing
    BY DEF Inv, SessionInv, Harmless
<1>6. SessionInv'
    BY <1>3, <1>4, <1>5 DEF Inv, SessionInv, Harmless
<1> QED
    BY <1>1, <1>2, <1>6 DEF Inv

\* The steps of that kind.
LEMMA MovesInv ==
    ASSUME Inv, NEW p \in Runs,
           \/ Start(p) \/ Listen(p) \/ Accept(p) \/ Arrive(p) \/ Hangup(p)
           \/ ReadRequest(p) \/ Refresh(p) \/ Work(p)
    PROVE  Inv'
<1> USE DEF Places, Fresh
<1>1. TypeOK /\ opt \in [Runs -> Options] /\ peer \in [Runs -> Peer] /\ pc \in [Runs -> Places]
    BY DEF Inv, TypeOK, Peer
<1>2. CASE Start(p)
    <2>1. opt' \in [Runs -> Options] /\ Goes(p, "off", "started")
        BY <1>1, <1>2 DEF Start
    <2> QED
        BY <1>1, <1>2, <2>1, GoesFacts, HarmlessInv DEF Harmless, Start
<1>3. CASE Listen(p)
    BY <1>1, <1>3, GoesFacts, HarmlessInv DEF Harmless, Listen
<1>4. CASE Accept(p)
    <2>1. PICK who \in Peers :
            peer' = [peer EXCEPT ![p] = [who |-> who, sent |-> "nothing", closed |-> FALSE]]
        BY <1>4 DEF Accept
    <2>2. [who |-> who, sent |-> "nothing", closed |-> FALSE] \in Peer
        BY SessionAssumption DEF Peer, Arrivals
    <2>3. peer' \in [Runs -> Peer]
        BY <1>1, <2>1, <2>2
    <2> QED
        BY <1>1, <1>4, <2>3, GoesFacts, HarmlessInv DEF Harmless, Accept
<1>5. CASE Arrive(p) \/ Hangup(p)
    <2>1. peer[p] \in Peer
        BY <1>1
    <2>2. \A sent \in Arrivals : [peer[p] EXCEPT !.sent = sent] \in Peer
        BY <2>1 DEF Peer
    <2>3. [peer[p] EXCEPT !.closed = TRUE] \in Peer
        BY <2>1 DEF Peer
    <2>4. \E r \in Peer : peer' = [peer EXCEPT ![p] = r]
        <3>1. CASE Arrive(p)
            BY <2>2, <3>1 DEF Arrive, Arrivals
        <3>2. CASE Hangup(p)
            BY <2>3, <3>2 DEF Hangup
        <3> QED
            BY <1>5, <3>1, <3>2
    <2>5. peer' \in [Runs -> Peer]
        BY <1>1, <2>4
    <2>6. UNCHANGED <<disk, pc, opt, mem, owner, saved, seen, crashes, lost, overtaken>>
        BY <1>5 DEF Arrive, Hangup
    <2>7. pc[p] \in {"working", "finished"} => mem[p] # Nothing
        BY DEF Inv, SessionInv
    <2> QED
        BY <1>1, <2>5, <2>6, <2>7, HarmlessInv DEF Harmless
<1>6. CASE ReadRequest(p)
    BY <1>1, <1>6, GoesFacts, HarmlessInv DEF Harmless, ReadRequest
<1>7. CASE Refresh(p)
    BY <1>1, <1>7, GoesFacts, HarmlessInv DEF Harmless, Refresh
<1>8. CASE Work(p)
    <2>1. mem[p] # Nothing
        BY <1>8 DEF Inv, SessionInv, Work, Goes
    <2> QED
        BY <1>1, <1>8, <2>1, GoesFacts, HarmlessInv DEF Harmless, Work
<1> QED
    BY <1>2, <1>3, <1>4, <1>5, <1>6, <1>7, <1>8

-----------------------------------------------------------------------------
(* Steps that read or write .grive.                                         *)

\* What is read is the last saved token, if anything is.
LEMMA ReadConfigInv == ASSUME Inv, NEW p \in Runs, ReadConfig(p) PROVE Inv'
<1>1. /\ pc[p] = "started" /\ pc'[p] \in {"read", "configured"}
      /\ \A q \in Runs : q # p => pc'[q] = pc[q]
      /\ pc' \in [Runs -> Places]
    BY DEF Inv, TypeOK, ReadConfig, Goes, Places
<1>2. /\ mem' = [mem EXCEPT ![p] = disk] /\ seen' = [seen EXCEPT ![p] = saved]
      /\ UNCHANGED <<disk, opt, peer, owner, saved, crashes, lost, overtaken>>
    BY DEF ReadConfig
<1>3. /\ mem'[p] = disk /\ seen'[p] = saved
      /\ \A q \in Runs : q # p => mem'[q] = mem[q] /\ seen'[q] = seen[q]
      /\ mem' \in [Runs -> Records] /\ seen' \in [Runs -> 0..MaxTokens]
    BY <1>2 DEF Inv, TypeOK
<1>4. TypeOK'
    BY <1>1, <1>2, <1>3 DEF Inv, TypeOK
<1>5. PairKept'
    BY <1>2, <1>3 DEF Inv, PairKept, Issued
<1>6. Writing => Writing'
    BY <1>1 DEF Writing
<1>7. SessionInv'
    BY <1>1, <1>2, <1>3, <1>6, SMTT(30) DEF Inv, SessionInv, Fresh
<1> QED
    BY <1>4, <1>5, <1>7 DEF Inv

\* A process that ends, or is killed, leaves nothing but .grive.
LEMMA EndingInv ==
    ASSUME Inv, NEW p \in Runs,
           \/ ListenEnds(p) \/ AuthFails(p) \/ RefreshFails(p) \/ WorkFails(p) \/ Crash(p)
    PROVE  Inv'
<1>1. /\ Ends(p) /\ UNCHANGED <<disk, owner, saved, overtaken>>
      /\ crashes' \in 0..MaxCrashes /\ lost' \in BOOLEAN
      /\ pc[p] \in {"emptied", "rewriting"} => lost'
      /\ lost => lost'
    <2>1. CASE ListenEnds(p) \/ AuthFails(p) \/ RefreshFails(p) \/ WorkFails(p)
        BY <2>1 DEF Inv, TypeOK, ListenEnds, AuthFails, RefreshFails, WorkFails
    <2>2. CASE Crash(p)
        <3>1. Ends(p) /\ UNCHANGED <<disk, owner, saved, overtaken>>
            BY <2>2 DEF Crash
        <3>2. crashes' \in 0..MaxCrashes
            BY <2>2, SessionAssumption DEF Inv, TypeOK, Crash
        <3>3. lost' = (lost \/ pc[p] \in {"emptied", "rewriting"})
            BY <2>2 DEF Crash
        <3> QED
            BY <3>1, <3>2, <3>3, Zenon
    <2> QED
        BY <2>1, <2>2
<1>2. /\ pc' \in [Runs -> Places] /\ opt' \in [Runs -> Options]
      /\ mem' \in [Runs -> Records] /\ peer' \in [Runs -> Peer]
      /\ seen' \in [Runs -> 0..MaxTokens]
      /\ pc'[p] = "off" /\ mem'[p] = Nothing /\ seen'[p] = 0
      /\ \A q \in Runs : q # p => /\ pc'[q] = pc[q] /\ mem'[q] = mem[q]
                                  /\ seen'[q] = seen[q]
    BY <1>1, EndsFacts DEF Inv
<1>3. TypeOK'
    BY <1>1, <1>2 DEF Inv, TypeOK, Peer
<1>4. PairKept'
    BY <1>1, <1>2 DEF Inv, PairKept, Issued
<1>5. Len(owner) \in Nat
    BY DEF Inv, TypeOK
<1>6. Writing /\ ~lost' => Writing'
    BY <1>1, <1>2 DEF Writing
<1>7. \A q \in Runs : pc[q] \in Fresh => mem[q].token # 0
    BY RecordType DEF Inv, TypeOK, SessionInv
<1>8. \A q \in Runs : pc'[q] \in Fresh => q # p /\ pc[q] \in Fresh
    BY <1>2 DEF Fresh
<1>9. saved' \in 0..Len(owner') /\ \A q \in Runs : seen'[q] \in 0..Len(owner')
    BY <1>1, <1>2, <1>5, SMTT(30) DEF Inv, SessionInv
<1>10. ~lost' /\ ~overtaken' =>
        /\ disk' # Nothing => disk'.token = saved'
        /\ disk' = Nothing => Writing' \/ saved' = 0
        /\ \A q \in Runs : pc'[q] \notin Fresh /\ mem'[q] # Nothing /\ seen'[q] = saved' =>
                mem'[q].token = saved'
    BY <1>1, <1>2, <1>6 DEF Inv, SessionInv
<1>11. \A q \in Runs : pc'[q] \in {"working", "finished", "rewriting"} => mem'[q] # Nothing
    BY <1>2 DEF Inv, SessionInv
<1>12. \A q \in Runs : pc'[q] \in Fresh =>
        /\ mem'[q] # Nothing
        /\ mem'[q].token # saved'
        /\ disk' # Nothing => mem'[q].token # disk'.token
        /\ \A o \in Runs : /\ seen'[o] # mem'[q].token
                           /\ o # q /\ mem'[o] # Nothing => mem'[o].token # mem'[q].token
    <2> SUFFICES ASSUME NEW q \in Runs, pc'[q] \in Fresh, NEW o \in Runs
                 PROVE  /\ mem'[q] # Nothing
                        /\ mem'[q].token # saved'
                        /\ disk' # Nothing => mem'[q].token # disk'.token
                        /\ seen'[o] # mem'[q].token
                        /\ o # q /\ mem'[o] # Nothing => mem'[o].token # mem'[q].token
        OBVIOUS
    <2>1. q # p /\ mem'[q] = mem[q] /\ pc[q] \in Fresh
        BY <1>2, <1>8
    <2>2. /\ mem[q] # Nothing /\ mem[q].token # saved /\ seen[o] # mem[q].token
          /\ disk # Nothing => mem[q].token # disk.token
          /\ o # q /\ mem[o] # Nothing => mem[o].token # mem[q].token
        BY <2>1 DEF Inv, SessionInv
    <2>3. mem[q].token # 0
        BY <1>7, <2>1
    <2>4. seen'[o] # mem[q].token
        BY <1>2, <2>2, <2>3
    <2> QED
        BY <1>1, <1>2, <2>1, <2>2, <2>4
<1>13. SessionInv'
    BY <1>9, <1>10, <1>11, <1>12 DEF SessionInv
<1> QED
    BY <1>3, <1>4, <1>13 DEF Inv

\* A new token is nobody else's.
LEMMA AuthInv == ASSUME Inv, NEW p \in Runs, Auth(p) PROVE Inv'
<1> DEFINE n == Len(owner)
<1> DEFINE r == [token |-> n + 1, app |-> AuthApp(p)]
<1>1. /\ n \in 0..MaxTokens /\ n < MaxTokens /\ owner \in [1..n -> Apps]
      /\ owner \in Seq(Apps)
    <2>1. PICK k \in 0..MaxTokens : owner \in [1..k -> Apps]
        BY DEF Inv, TypeOK
    <2>2. owner \in Seq(Apps) /\ Len(owner) = k
        BY <2>1, SessionAssumption
    <2> QED
        BY <2>1, <2>2 DEF Auth
<1>2. AuthApp(p) \in Apps
    BY AuthAppType DEF Inv
<1>3. /\ pc[p] = "parsed" /\ pc'[p] = "authorised"
      /\ \A q \in Runs : q # p => pc'[q] = pc[q]
      /\ pc' \in [Runs -> Places]
    BY DEF Inv, TypeOK, Auth, Goes, Places
<1>4. /\ mem' = [mem EXCEPT ![p] = r] /\ owner' = Append(owner, AuthApp(p))
      /\ peer' = [peer EXCEPT ![p] = NoPeer]
      /\ UNCHANGED <<disk, opt, saved, seen, crashes, lost, overtaken>>
    BY DEF Auth, Authorised
<1>5. r \in Records /\ r # Nothing
    BY <1>1, <1>2, SessionAssumption DEF Records
<1>6. /\ mem'[p] = r /\ \A q \in Runs : q # p => mem'[q] = mem[q]
      /\ mem' \in [Runs -> Records] /\ peer' \in [Runs -> Peer]
    BY <1>4, <1>5, OffType DEF Inv, TypeOK, Peer
<1>7. /\ owner' \in [1..(n + 1) -> Apps] /\ Len(owner') = n + 1
      /\ owner'[n + 1] = AuthApp(p) /\ \A i \in 1..n : owner'[i] = owner[i]
    <2>1. /\ owner' \in Seq(Apps) /\ Len(owner') = n + 1
          /\ owner'[n + 1] = AuthApp(p) /\ \A i \in 1..n : owner'[i] = owner[i]
        BY <1>1, <1>2, <1>4
    <2> QED
        BY <2>1
<1>8. n + 1 \in 0..MaxTokens
    BY <1>1, SessionAssumption
<1>9. TypeOK'
    BY <1>3, <1>4, <1>6, <1>7, <1>8 DEF Inv, TypeOK, Peer
<1>10. DOMAIN owner = 1..n /\ DOMAIN owner' = 1..(n + 1)
    BY <1>1, <1>7
<1>11. \A x \in {disk} \cup {mem[q] : q \in Runs} :
         x # Nothing => x.token \in 1..n /\ owner[x.token] = x.app
    BY <1>10 DEF Inv, PairKept, Issued
<1>12. PairKept'
    <2> SUFFICES ASSUME NEW x \in {disk'} \cup {mem'[q] : q \in Runs}, x # Nothing
                 PROVE  x.token \in 1..(n + 1) /\ owner'[x.token] = x.app
        BY <1>10 DEF PairKept, Issued
    <2>1. CASE x = r
        BY <2>1, <1>1, <1>7
    <2>2. CASE x \in {disk} \cup {mem[q] : q \in Runs}
        BY <2>2, <1>1, <1>7, <1>11
    <2> QED
        BY <2>1, <2>2, <1>4, <1>6
<1>13. Writing => Writing'
    BY <1>3 DEF Writing
<1>14. r.token = n + 1 /\ saved \in 0..n /\ \A q \in Runs : seen[q] \in 0..n
    BY DEF Inv, SessionInv
<1>15. /\ disk # Nothing => disk.token \in 1..n
       /\ \A q \in Runs : mem[q] # Nothing => mem[q].token \in 1..n
    BY <1>11
<1> HIDE DEF n, r
<1>16. SessionInv'
    <2>1. saved' \in 0..Len(owner') /\ \A q \in Runs : seen'[q] \in 0..Len(owner')
        BY <1>1, <1>4, <1>7, <1>14
    <2>2. ~lost' /\ ~overtaken' =>
            /\ disk' # Nothing => disk'.token = saved'
            /\ disk' = Nothing => Writing' \/ saved' = 0
            /\ \A q \in Runs : pc'[q] \notin Fresh /\ mem'[q] # Nothing /\ seen'[q] = saved' =>
                    mem'[q].token = saved'
        BY <1>3, <1>4, <1>6, <1>13 DEF Inv, SessionInv, Fresh
    <2>3. \A q \in Runs : pc'[q] \in {"working", "finished", "rewriting"} => mem'[q] # Nothing
        BY <1>3, <1>6 DEF Inv, SessionInv
    <2>4. n + 1 \notin 0..n
        BY <1>1
    <2>5. \A q \in Runs : pc'[q] \in Fresh =>
            /\ mem'[q] # Nothing
            /\ mem'[q].token # saved'
            /\ disk' # Nothing => mem'[q].token # disk'.token
            /\ \A o \in Runs : /\ seen'[o] # mem'[q].token
                               /\ o # q /\ mem'[o] # Nothing => mem'[o].token # mem'[q].token
        <3> SUFFICES ASSUME NEW q \in Runs, pc'[q] \in Fresh
                     PROVE  /\ mem'[q] # Nothing
                            /\ mem'[q].token # saved'
                            /\ disk' # Nothing => mem'[q].token # disk'.token
                            /\ \A o \in Runs : /\ seen'[o] # mem'[q].token
                                               /\ o # q /\ mem'[o] # Nothing =>
                                                    mem'[o].token # mem'[q].token
            OBVIOUS
        <3>1. CASE q = p
            BY <3>1, <1>1, <1>4, <1>5, <1>6, <1>14, <1>15
        <3>2. CASE q # p
            <4>1. pc[q] \in Fresh /\ mem'[q] = mem[q]
                BY <3>2, <1>3, <1>6
            <4>2. mem[q] # Nothing /\ mem[q].token \in 1..n
                BY <4>1, <1>15 DEF Inv, SessionInv
            <4>3. mem'[p].token # mem[q].token
                BY <4>2, <1>1, <1>6, <1>14
            <4> QED
                BY <4>1, <4>2, <4>3, <1>4, <1>6 DEF Inv, SessionInv
        <3> QED
            BY <3>1, <3>2
    <2> QED
        BY <2>1, <2>2, <2>3, <2>5 DEF SessionInv
<1> QED
    BY <1>9, <1>12, <1>16 DEF Inv

\* When .grive is opened to be written it is empty, and somebody is writing.
LEMMA EmptiesInv ==
    ASSUME Inv, NEW p \in Runs, SaveToken(p) \/ SaveConfig(p)
    PROVE  Inv'
<1>1. /\ \/ pc[p] = "authorised" /\ pc'[p] = "emptied"
         \/ pc[p] = "finished" /\ pc'[p] = "rewriting"
      /\ \A q \in Runs : q # p => pc'[q] = pc[q]
      /\ pc' \in [Runs -> Places]
    BY DEF Inv, TypeOK, SaveToken, SaveConfig, Empties, Goes, Places
<1>2. /\ disk' = Nothing
      /\ UNCHANGED <<opt, mem, peer, owner, saved, seen, crashes, lost, overtaken>>
    BY DEF SaveToken, SaveConfig, Empties
<1>3. TypeOK'
    BY <1>1, <1>2, OffType DEF Inv, TypeOK
<1>4. PairKept'
    BY <1>2 DEF Inv, PairKept, Issued
<1>5. Writing'
    BY <1>1 DEF Writing
<1>6. \A q \in Runs : pc'[q] \in Fresh <=> pc[q] \in Fresh
    BY <1>1 DEF Fresh
<1>7. \A q \in Runs : pc'[q] \in {"working", "finished", "rewriting"} => mem[q] # Nothing
    BY <1>1 DEF Inv, SessionInv
<1>8. SessionInv'
    BY <1>2, <1>5, <1>6, <1>7 DEF Inv, SessionInv
<1> QED
    BY <1>3, <1>4, <1>8 DEF Inv

\* The new token is the saved one; it was nobody else's.
LEMMA TokenSavedInv == ASSUME Inv, NEW p \in Runs, TokenSaved(p) PROVE Inv'
<1>1. /\ pc[p] = "emptied" /\ pc'[p] = "configured"
      /\ \A q \in Runs : q # p => pc'[q] = pc[q]
      /\ pc' \in [Runs -> Places]
    BY DEF Inv, TypeOK, TokenSaved, Goes, Places
<1>2. /\ disk' = mem[p] /\ saved' = mem[p].token
      /\ seen' = [seen EXCEPT ![p] = mem[p].token]
      /\ UNCHANGED <<opt, mem, peer, owner, crashes, lost, overtaken>>
    BY DEF TokenSaved
<1>3. pc[p] \in Fresh /\ mem[p] # Nothing /\ mem[p] \in Records
    BY <1>1 DEF Inv, TypeOK, SessionInv, Fresh
<1>4. mem[p].token \in 0..MaxTokens /\ mem[p].token \in 0..Len(owner)
    <2>1. mem[p].token \in 1..MaxTokens
        BY <1>3, RecordType
    <2>2. mem[p].token \in DOMAIN owner
        BY <1>3 DEF Inv, PairKept, Issued
    <2>3. PICK n \in 0..MaxTokens : owner \in [1..n -> Apps]
        BY DEF Inv, TypeOK
    <2>4. DOMAIN owner = 1..Len(owner)
        BY <2>3, SessionAssumption
    <2> QED
        BY <2>1, <2>2, <2>3, <2>4, SessionAssumption
<1>5. /\ seen'[p] = mem[p].token /\ \A q \in Runs : q # p => seen'[q] = seen[q]
      /\ seen' \in [Runs -> 0..MaxTokens]
    BY <1>2, <1>4 DEF Inv, TypeOK
<1>6. TypeOK'
    BY <1>1, <1>2, <1>3, <1>4, <1>5 DEF Inv, TypeOK
<1>7. PairKept'
    BY <1>2, <1>3 DEF Inv, PairKept, Issued
<1>8. \A q \in Runs : /\ q # p => seen[q] # mem[p].token
                      /\ q # p /\ mem[q] # Nothing => mem[q].token # mem[p].token
    BY <1>3 DEF Inv, SessionInv
<1>9. saved' \in 0..Len(owner') /\ \A q \in Runs : seen'[q] \in 0..Len(owner')
    BY <1>2, <1>4, <1>5 DEF Inv, SessionInv
<1>10. \A q \in Runs : pc'[q] \in Fresh => q # p /\ pc[q] \in Fresh
    BY <1>1 DEF Fresh
<1>11. SessionInv'
    BY <1>1, <1>2, <1>3, <1>5, <1>8, <1>9, <1>10 DEF Inv, SessionInv, Fresh
<1> QED
    BY <1>6, <1>7, <1>11 DEF Inv

\* The record that is written back is the last saved one, if no other was saved
\* since it was read.
LEMMA ConfigSavedInv == ASSUME Inv, NEW p \in Runs, ConfigSaved(p) PROVE Inv'
<1>1. /\ pc[p] = "rewriting" /\ Ends(p) /\ disk' = mem[p]
      /\ UNCHANGED <<owner, saved, crashes, lost>>
      /\ overtaken' = (overtaken \/ seen[p] # saved)
    BY DEF ConfigSaved
<1>2. /\ pc' \in [Runs -> Places] /\ opt' \in [Runs -> Options]
      /\ mem' \in [Runs -> Records] /\ peer' \in [Runs -> Peer]
      /\ seen' \in [Runs -> 0..MaxTokens]
      /\ pc'[p] = "off" /\ mem'[p] = Nothing /\ seen'[p] = 0
      /\ \A q \in Runs : q # p => /\ pc'[q] = pc[q] /\ mem'[q] = mem[q]
                                  /\ seen'[q] = seen[q]
    BY <1>1, EndsFacts DEF Inv
<1>3. mem[p] # Nothing /\ mem[p] \in Records /\ pc[p] \notin Fresh
    BY <1>1 DEF Inv, TypeOK, SessionInv, Fresh
<1>4. overtaken' \in BOOLEAN
    BY <1>1 DEF Inv, TypeOK
<1>5. TypeOK'
    BY <1>1, <1>2, <1>3, <1>4 DEF Inv, TypeOK, Peer
<1>6. PairKept'
    BY <1>1, <1>2, <1>3 DEF Inv, PairKept, Issued
<1>7. Len(owner) \in Nat
    BY DEF Inv, TypeOK
<1>8. ~lost' /\ ~overtaken' => ~lost /\ ~overtaken /\ disk'.token = saved
    BY <1>1, <1>3 DEF Inv, SessionInv
<1>9. \A q \in Runs : pc'[q] \in Fresh => q # p /\ pc[q] \in Fresh
    BY <1>2 DEF Fresh
<1>10. \A q \in Runs : pc[q] \in Fresh => /\ mem[q].token # 0
                                          /\ q # p => mem[q].token # mem[p].token
    BY <1>3, RecordType DEF Inv, TypeOK, SessionInv
<1>11. saved' \in 0..Len(owner') /\ \A q \in Runs : seen'[q] \in 0..Len(owner')
    BY <1>1, <1>2, <1>7 DEF Inv, SessionInv
<1>12. ~lost' /\ ~overtaken' =>
        /\ disk' # Nothing => disk'.token = saved'
        /\ disk' = Nothing => Writing' \/ saved' = 0
        /\ \A q \in Runs : pc'[q] \notin Fresh /\ mem'[q] # Nothing /\ seen'[q] = saved' =>
                mem'[q].token = saved'
    BY <1>1, <1>2, <1>3, <1>8 DEF Inv, SessionInv
<1>13. \A q \in Runs : pc'[q] \in {"working", "finished", "rewriting"} => mem'[q] # Nothing
    BY <1>2 DEF Inv, SessionInv
<1>14. \A q \in Runs : pc'[q] \in Fresh =>
        /\ mem'[q] # Nothing
        /\ mem'[q].token # saved'
        /\ disk' # Nothing => mem'[q].token # disk'.token
        /\ \A o \in Runs : /\ seen'[o] # mem'[q].token
                           /\ o # q /\ mem'[o] # Nothing => mem'[o].token # mem'[q].token
    BY <1>1, <1>2, <1>9, <1>10 DEF Inv, SessionInv
<1> QED
    BY <1>5, <1>6, <1>11, <1>12, <1>13, <1>14 DEF Inv, SessionInv

-----------------------------------------------------------------------------
\* Every step keeps the invariant.
LEMMA StepInv == Inv /\ [Next]_vars => Inv'
<1> SUFFICES ASSUME Inv, [Next]_vars PROVE Inv'
    OBVIOUS
<1>1. CASE UNCHANGED vars
    BY <1>1 DEF Inv, TypeOK, PairKept, SessionInv, Issued, Writing, vars
<1>2. ASSUME NEW p \in Runs, Step(p) \/ Arrive(p) \/ Hangup(p) \/ Crash(p) PROVE Inv'
    BY <1>2, MovesInv, ReadConfigInv, EndingInv, AuthInv, EmptiesInv, TokenSavedInv,
       ConfigSavedInv DEF Step
<1> QED
    BY <1>1, <1>2 DEF Next

\* The invariant holds of every behaviour.
LEMMA Invariance == Spec => []Inv
<1> QED
    BY InitInv, StepInv, PTL DEF Spec

\* Every record on the disk and in memory has its type, in every run.
THEOREM TypeCorrect == Spec => []TypeOK
<1>1. Inv => TypeOK
    BY DEF Inv
<1> QED
    BY <1>1, Invariance, PTL

\* A refresh token is never stored beside the id and secret of another application
\* (main.cc: the three are set together).
THEOREM PairsStayTogether == Spec => []PairKept
<1>1. Inv => PairKept
    BY DEF Inv
<1> QED
    BY <1>1, Invariance, PTL

\* The token that was obtained last is not lost but by a run that is killed while
\* it writes .grive, or that writes back what it had read before (Config::Save).
THEOREM LastTokenIsKept == Spec => []TokenKept
<1>1. Inv => (disk # Nothing => disk.token # 0)
    BY RecordType DEF Inv, TypeOK
<1>2. Inv => TokenKept
    BY <1>1 DEF Inv, SessionInv, TokenKept
<1> QED
    BY <1>2, Invariance, PTL
=============================================================================
