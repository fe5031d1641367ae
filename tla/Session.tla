------------------------------ MODULE Session ------------------------------
(***************************************************************************)
(* What a run of grive does around the synchronisation: it reads .grive,    *)
(* obtains a refresh token if it was started with -a (a browser brings the  *)
(* code to a socket of the run), refreshes the access token, and writes     *)
(* .grive again.  Several runs share the directory: the one of the timer,   *)
(* and the one that the user starts by hand, which takes no lock.           *)
(*                                                                          *)
(* A token stands for the record {id, secret, refresh_token} it came with:  *)
(* it is good for the application (id and secret) that obtained it.         *)
(***************************************************************************)
EXTENDS Integers, Sequences

CONSTANTS
    Runs,        \* the processes
    Apps,        \* pairs of id and secret that -i and -e may give
    BuiltIn,     \* the pair that grive is built with
    Nothing,     \* no record: .grive is missing, empty or malformed
    Peers,       \* who connects to the socket
    MaxTokens,   \* how many refresh tokens are granted
    MaxCrashes   \* how many runs are killed

AllPeers == {"browser", "denied", "stranger"}

ASSUME SessionAssumption ==
    /\ BuiltIn \in Apps
    /\ Nothing \notin [token: Nat, app: Apps] /\ Nothing \notin Apps
    /\ Peers \subseteq AllPeers
    /\ MaxTokens \in Nat /\ MaxCrashes \in Nat

VARIABLES
    disk,      \* .grive
    pc, opt,   \* where a run is, and how it was started: [auth, url, app]
    mem,       \* m_file of a run
    peer,      \* who has connected, and what has come from him
    owner,     \* the applications of the tokens that were granted
    saved,     \* history: the last token that a run with -a has written
    seen,      \* history: what saved was when a run read .grive
    crashes,   \* how many runs were killed
    lost,      \* history: one of them while it wrote .grive
    overtaken  \* history: a run has written what was no longer in .grive

vars == <<disk, pc, opt, mem, peer, owner, saved, seen, crashes, lost, overtaken>>

Records  == [token: 1..MaxTokens, app: Apps] \cup {Nothing}
Options  == [auth: BOOLEAN, url: BOOLEAN, app: Apps \cup {Nothing}]
NoOption == [auth |-> FALSE, url |-> FALSE, app |-> Nothing]
Arrivals == {"nothing", "cut", "whole"}
NoPeer   == [who |-> "browser", sent |-> "nothing", closed |-> FALSE]
Issued   == DOMAIN owner

Places   == {"off", "started", "read", "accepting", "reading", "parsed", "authorised",
             "emptied", "configured", "working", "finished", "rewriting"}

TypeOK ==
    /\ disk \in Records
    /\ pc \in [Runs -> Places]
    /\ opt \in [Runs -> Options]
    /\ mem \in [Runs -> Records]
    /\ peer \in [Runs -> [who: AllPeers, sent: Arrivals, closed: BOOLEAN]]
    /\ \E n \in 0..MaxTokens : owner \in [1..n -> Apps]
    /\ saved \in 0..MaxTokens /\ seen \in [Runs -> 0..MaxTokens]
    /\ crashes \in 0..MaxCrashes /\ lost \in BOOLEAN /\ overtaken \in BOOLEAN

Init ==
    /\ disk = Nothing
    /\ pc = [p \in Runs |-> "off"] /\ opt = [p \in Runs |-> NoOption]
    /\ mem = [p \in Runs |-> Nothing]
    /\ peer = [p \in Runs |-> NoPeer]
    /\ owner = <<>>
    /\ saved = 0 /\ seen = [p \in Runs |-> 0]
    /\ crashes = 0 /\ lost = FALSE /\ overtaken = FALSE

Goes(p, from, to) == pc[p] = from /\ pc' = [pc EXCEPT ![p] = to]

\* The process ends: what it had in memory is gone.
Ends(p) ==
    /\ pc' = [pc EXCEPT ![p] = "off"]
    /\ opt' = [opt EXCEPT ![p] = NoOption] /\ mem' = [mem EXCEPT ![p] = Nothing]
    /\ peer' = [peer EXCEPT ![p] = NoPeer] /\ seen' = [seen EXCEPT ![p] = 0]

-----------------------------------------------------------------------------
(* The start: Main and Config.                                              *)

Start(p) ==
    /\ Goes(p, "off", "started")
    /\ \E o \in Options : (o.url => o.auth) /\ opt' = [opt EXCEPT ![p] = o]
    /\ UNCHANGED <<disk, mem, peer, owner, saved, seen, crashes, lost, overtaken>>

\* Config::Read: whatever is wrong with the file, the record is empty then.
ReadConfig(p) ==
    /\ Goes(p, "started", IF opt[p].auth THEN "read" ELSE "configured")
    /\ mem' = [mem EXCEPT ![p] = disk]
    /\ seen' = [seen EXCEPT ![p] = saved]
    /\ UNCHANGED <<disk, opt, peer, owner, saved, crashes, lost, overtaken>>

-----------------------------------------------------------------------------
(* grive -a: MakeAuthURL and GetCode.                                       *)

\* A socket listens, on a free port or on the one of --port.
Listen(p) ==
    /\ ~opt[p].url
    /\ Goes(p, "read", "accepting")
    /\ UNCHANGED <<disk, opt, mem, peer, owner, saved, seen, crashes, lost, overtaken>>

\* One of the calls fails, and the socket is closed; or --print-url is done.
ListenEnds(p) ==
    /\ pc[p] = "read"
    /\ Ends(p)
    /\ UNCHANGED <<disk, owner, saved, crashes, lost, overtaken>>

\* The first who connects is the only one.
Accept(p) ==
    /\ Goes(p, "accepting", "reading")
    /\ \E who \in Peers :
        peer' = [peer EXCEPT ![p] = [who |-> who, sent |-> "nothing", closed |-> FALSE]]
    /\ UNCHANGED <<disk, opt, mem, owner, saved, seen, crashes, lost, overtaken>>

\* His request comes in one piece or in two.
Arrive(p) ==
    /\ pc[p] = "reading" /\ peer[p].sent # "whole" /\ ~peer[p].closed
    /\ \E sent \in {"cut", "whole"} \ {peer[p].sent} :
        peer' = [peer EXCEPT ![p].sent = sent]
    /\ UNCHANGED <<disk, pc, opt, mem, owner, saved, seen, crashes, lost, overtaken>>

Hangup(p) ==
    /\ pc[p] = "reading" /\ ~peer[p].closed
    /\ peer' = [peer EXCEPT ![p].closed = TRUE]
    /\ UNCHANGED <<disk, pc, opt, mem, owner, saved, seen, crashes, lost, overtaken>>

\* After poll() all that has come is read. The loop ends if the peer has closed
\* the connection, and else if find() is greater than 0: the place of the line
\* end, or npos if there is none.
ReadRequest(p) ==
    /\ Goes(p, "reading", "parsed")
    /\ peer[p].sent # "nothing" \/ peer[p].closed
    /\ UNCHANGED <<disk, opt, mem, peer, owner, saved, seen, crashes, lost, overtaken>>

\* The code that the request has: one cut off is another code.
HasCode(p) == peer[p].who = "browser" /\ peer[p].sent = "whole"

\* Mutant: Set of id and secret is left out.
AuthorisedKeepsId(p) ==
    [token |-> Len(owner) + 1, app |-> IF mem[p] = Nothing THEN BuiltIn ELSE mem[p].app]

\* Mutant: refresh_token is set to what is not granted yet.
AuthorisedUnset(p) == [token |-> 0, app |-> IF opt[p].app = Nothing THEN BuiltIn ELSE opt[p].app]

\* The pair from the command line, or else the one grive is built with.
AuthApp(p) == IF opt[p].app = Nothing THEN BuiltIn ELSE opt[p].app

\* config.Set of id, secret and refresh_token.
Authorised(p) == [token |-> Len(owner) + 1, app |-> AuthApp(p)]

\* Auth(): the server takes the code and grants a token; the connection is closed.
Auth(p) ==
    /\ Len(owner) < MaxTokens
    /\ HasCode(p)
    /\ Goes(p, "parsed", "authorised")
    /\ owner' = Append(owner, AuthApp(p))
    /\ mem' = [mem EXCEPT ![p] = Authorised(p)]
    /\ peer' = [peer EXCEPT ![p] = NoPeer]
    /\ UNCHANGED <<disk, opt, saved, seen, crashes, lost, overtaken>>

\* There is no code, the server does not take it, or its answer has no refresh
\* token: "Authentication failed", or an exception.
AuthFails(p) ==
    /\ pc[p] = "parsed"
    /\ Ends(p)
    /\ UNCHANGED <<disk, owner, saved, crashes, lost, overtaken>>

-----------------------------------------------------------------------------
(* Config::Save: the file is emptied when it is opened, then written.       *)

Empties(p, from, to) ==
    /\ Goes(p, from, to)
    /\ disk' = Nothing
    /\ UNCHANGED <<opt, mem, peer, owner, saved, seen, crashes, lost, overtaken>>

SaveToken(p) == Empties(p, "authorised", "emptied")

\* The token is on the disk; the run goes on as any other.
TokenSaved(p) ==
    /\ Goes(p, "emptied", "configured")
    /\ disk' = mem[p]
    /\ saved' = mem[p].token /\ seen' = [seen EXCEPT ![p] = mem[p].token]
    /\ UNCHANGED <<opt, mem, peer, owner, crashes, lost, overtaken>>

-----------------------------------------------------------------------------
(* The run itself.                                                          *)

\* Config::Get: the command line first.
Id(p) == IF opt[p].app # Nothing THEN opt[p].app ELSE mem[p].app

\* OAuth2::Refresh: the server takes a token from the application it is for.
Refresh(p) ==
    /\ mem[p] # Nothing
    /\ Id(p) = owner[mem[p].token]
    /\ Goes(p, "configured", "working")
    /\ UNCHANGED <<disk, opt, mem, peer, owner, saved, seen, crashes, lost, overtaken>>

\* There is no token, or the server refuses.
RefreshFails(p) ==
    /\ pc[p] = "configured"
    /\ Ends(p)
    /\ UNCHANGED <<disk, owner, saved, crashes, lost, overtaken>>

\* DetectChanges, Update and SaveState, or DryRun, are done.
Work(p) ==
    /\ Goes(p, "working", "finished")
    /\ UNCHANGED <<disk, opt, mem, peer, owner, saved, seen, crashes, lost, overtaken>>

WorkFails(p) ==
    /\ pc[p] = "working"
    /\ Ends(p)
    /\ UNCHANGED <<disk, owner, saved, crashes, lost, overtaken>>

\* Mutant: also one that is not let in.
SaveConfigAlways(p) ==
    \/ Empties(p, "finished", "rewriting")
    \/ Empties(p, "configured", "rewriting")

\* Every run that comes to its end writes .grive, as it has read it.
SaveConfig(p) == Empties(p, "finished", "rewriting")

ConfigSaved(p) ==
    /\ pc[p] = "rewriting"
    /\ disk' = mem[p]
    /\ overtaken' = (overtaken \/ seen[p] # saved)
    /\ Ends(p)
    /\ UNCHANGED <<owner, saved, crashes, lost>>

Crash(p) ==
    /\ pc[p] # "off" /\ crashes < MaxCrashes
    /\ crashes' = crashes + 1
    /\ lost' = (lost \/ pc[p] \in {"emptied", "rewriting"})
    /\ Ends(p)
    /\ UNCHANGED <<disk, owner, saved, overtaken>>

-----------------------------------------------------------------------------
Step(p) ==
    \/ Start(p) \/ ReadConfig(p) \/ Listen(p) \/ ListenEnds(p) \/ Accept(p)
    \/ ReadRequest(p) \/ Auth(p) \/ AuthFails(p) \/ SaveToken(p) \/ TokenSaved(p)
    \/ Refresh(p) \/ RefreshFails(p) \/ Work(p) \/ WorkFails(p)
    \/ SaveConfig(p) \/ ConfigSaved(p)

Next == \E p \in Runs : Step(p) \/ Arrive(p) \/ Hangup(p) \/ Crash(p)

Spec == Init /\ [][Next]_vars

-----------------------------------------------------------------------------
(* Properties.                                                              *)

\* Saving is going on.
Writing == \E p \in Runs : pc[p] \in {"emptied", "rewriting"}

\* A run has a token that is not saved yet.
Fresh == {"authorised", "emptied"}

\* The record on the disk and those in memory are of one piece: the token is
\* one that was granted, and to the application that is named beside it.
PairKept ==
    \A r \in {disk} \cup {mem[p] : p \in Runs} :
        r # Nothing => r.token \in Issued /\ owner[r.token] = r.app

\* The last token that was obtained and saved is the one in .grive, unless a run
\* was killed while it wrote the file, or a run that had read it before wrote
\* it back after (Config.cc:85: every run rewrites it).
TokenKept ==
    ~Writing /\ ~lost /\ ~overtaken =>
        IF saved = 0 THEN disk = Nothing ELSE disk # Nothing /\ disk.token = saved

\* What a run relies on while it goes on: its record is the one of the last
\* saved token as long as that is still the one it has seen, and a token that
\* was not saved yet is nobody else's.
SessionInv ==
    /\ saved \in 0..Len(owner) /\ \A p \in Runs : seen[p] \in 0..Len(owner)
    /\ ~lost /\ ~overtaken =>
        /\ disk # Nothing => disk.token = saved
        /\ disk = Nothing => Writing \/ saved = 0
        /\ \A p \in Runs : pc[p] \notin Fresh /\ mem[p] # Nothing /\ seen[p] = saved =>
                mem[p].token = saved
    /\ \A p \in Runs : pc[p] \in {"working", "finished", "rewriting"} => mem[p] # Nothing
    /\ \A p \in Runs : pc[p] \in Fresh =>
        /\ mem[p] # Nothing
        /\ mem[p].token # saved
        /\ disk # Nothing => mem[p].token # disk.token
        /\ \A q \in Runs : /\ seen[q] # mem[p].token
                           /\ q # p /\ mem[q] # Nothing => mem[q].token # mem[p].token
=============================================================================
