-------------------------- MODULE TransportProofs --------------------------
(***************************************************************************)
(* Theorems about Transport, for all kinds of requests, bodies and answers  *)
(* of any length, and any size of what is kept of an error; about the agent  *)
(* of macOS; and, at the end, what this and UploadBodyProofs say of the      *)
(* machines that are run beside Transport.                                  *)
(***************************************************************************)
EXTENDS MCTransport, Sequences, TLAPS

\* The invariant that the theorems rest on.
Inv == TypeOK /\ CallInv /\ DestInv

\* With HTTP/1.1 the character that HeaderCallback looks at tells the errors from
\* the good answers; with HTTP/2 it at least never takes 200 for an error.
LEMMA ErrorsRecognised ==
    /\ ~IsError(200)
    /\ \A s \in {401, 403, 404, 412, 429, 500, 503} : proto = "HTTP/1.1" => IsError(s)
<1>1. 200 \div 100 = 2 /\ 200 % 10 = 0
    OBVIOUS
<1>2. /\ 401 \div 100 = 4 /\ 403 \div 100 = 4 /\ 404 \div 100 = 4 /\ 412 \div 100 = 4
      /\ 429 \div 100 = 4 /\ 500 \div 100 = 5 /\ 503 \div 100 = 5
    OBVIOUS
<1>3. \A s \in {401, 403, 404, 412, 429, 500, 503} : s \div 100 >= 4
    BY <1>2
<1> QED
    BY <1>1, <1>3 DEF IsError, TenthCharacter

\* No header, and nothing in the destination.
LEMMA EmptyType ==
    /\ NoHeader \in [bearer: BOOLEAN, ifMatch: BOOLEAN]
    /\ Empty \in [dirty: BOOLEAN, parts: 0..Answer]
    /\ 0 \in 0..Parts /\ 0 \in 0..Cap
BY TransportAssumption DEF NoHeader, Empty

\* The first state.
LEMMA InitInv == Init => Inv
<1> SUFFICES ASSUME Init PROVE Inv
    OBVIOUS
<1>1. TypeOK
    <2>1. /\ 0 \in Intervals /\ 0 \in Statuses /\ 0 \in Nat /\ 0 \in 0..2
          /\ pc \in Ended
        BY DEF Init, Intervals, Statuses, Ended
    <2> QED
        BY <2>1, EmptyType, Zenon DEF Init, TypeOK
<1>2. CallInv /\ DestInv
    BY DEF Init, CallInv, DestInv, Empty
<1> QED
    BY <1>1, <1>2 DEF Inv

\* The wait stays one of those that double up to the longest.
LEMMA NextIntervalType == ASSUME interval \in Intervals PROVE NextInterval \in Intervals
BY DEF Intervals, NextInterval

\* A new request starts from nothing.
LEMMA RequestInv == ASSUME Inv, NEW k \in Kinds, Request(k) PROVE Inv'
<1>1. TypeOK'
    <2>1. 0 \in Intervals /\ 0 \in Statuses /\ 0 \in Nat /\ 0 \in 0..2
        BY DEF Intervals, Statuses
    <2> QED
        BY <2>1, EmptyType, Zenon DEF Inv, TypeOK, Request
<1>2. CallInv' /\ DestInv'
    BY DEF Inv, CallInv, DestInv, Request, Empty, Ended
<1> QED
    BY <1>1, <1>2 DEF Inv

\* Every attempt starts the body anew and forgets the last error.
LEMMA AttemptInv == ASSUME Inv, Attempt PROVE Inv'
<1>1. TypeOK'
    <2>1. hdr' \in [bearer: BOOLEAN, ifMatch: BOOLEAN]
        BY DEF Inv, TypeOK, Attempt, AppendHeader
    <2>2. err' \in BOOLEAN /\ kept' = 0 /\ first' = 0 /\ pos' = 0
        BY DEF Attempt, ResetError, SeekToBegin
    <2> QED
        BY <2>1, <2>2, EmptyType DEF Inv, TypeOK, Attempt, server
<1>2. CallInv'
    BY DEF Inv, CallInv, Attempt, AppendHeader, server
<1>3. DestInv'
    BY DEF Inv, DestInv, Attempt, ResetError, SeekToBegin, server
<1> QED
    BY <1>1, <1>2, <1>3 DEF Inv

\* An answer of the server, as it reaches HeaderCallback, keeps the types.
LEMMA RepliesType ==
    ASSUME Inv, NEW status \in Statuses \ {0}, NEW length \in Nat, Replies(status, length),
           executed' \in 0..2, whole' \in BOOLEAN, current' \in BOOLEAN
    PROVE  TypeOK'
<1>1. err' \in BOOLEAN
    BY DEF Replies, IsError
<1>2. reason' \in BOOLEAN
    BY DEF Replies
<1>3. long' \in BOOLEAN
    BY DEF Inv, TypeOK, Replies
<1> QED
    BY <1>1, <1>2, <1>3 DEF Inv, TypeOK, Replies, attempt

\* An error reaches an empty destination and an empty error text.
LEMMA ErrorInv ==
    ASSUME Inv, pc = "sending", NEW status \in {401, 403, 404, 412, 429, 500, 503},
           NEW length \in Errors, Replies(status, length), whole'
    PROVE  DestInv'
<1>1. length \in Nat
    BY TransportAssumption
<1>2. proto = "HTTP/1.1" => IsError(status)
    BY ErrorsRecognised
<1>3. status >= 400 /\ status \in Nat
    OBVIOUS
<1>4. /\ pc' = "receiving" /\ code' = status /\ left' = length /\ err' = IsError(status)
      /\ kept' = kept /\ dest' = dest /\ first' = first /\ proto' = proto
    BY DEF Replies, attempt
<1>0. long' = (long \/ (status >= 400 /\ length > Cap))
    BY DEF Replies
<1>5. proto' = "HTTP/1.1" => err' /\ (~long' => kept' + left' <= Cap)
    <2>1. ~long' => ~(status >= 400 /\ length > Cap)
        BY <1>0, ZenonT(30)
    <2>2. kept = 0 /\ Cap \in Nat
        BY TransportAssumption DEF Inv, DestInv
    <2> QED
        BY <1>1, <1>2, <1>3, <1>4, <2>1, <2>2, SMTT(30)
<1>6. proto' = "HTTP/1.1" /\ ~long' => ~dest'.dirty
    <2>1. proto = "HTTP/1.1" /\ ~long => ~dest.dirty
        BY DEF Inv, DestInv
    <2>2. ~long' => ~long
        BY <1>0, ZenonT(30)
    <2> QED
        BY <1>4, <2>1, <2>2
<1> QED
    BY <1>3, <1>4, <1>5, <1>6 DEF Inv, DestInv

\* The server carries a request out: once for all if it carries If-Match.
LEMMA ExecutesInv ==
    ASSUME Inv, pc = "sending", Executes
    PROVE  /\ executed' \in 1..2 /\ ~current' /\ current' \in BOOLEAN
           /\ whole' /\ whole' \in BOOLEAN
<1>1. executed' \in 1..2
    BY DEF Inv, TypeOK, Executes
<1>2. current' = FALSE /\ whole' = (whole /\ first = 0)
    BY DEF Executes
<1>3. whole /\ first = 0
    BY DEF Inv, DestInv
<1> QED
    BY <1>1, <1>2, <1>3

\* A request that was carried out, with a good answer.
LEMMA ServeInv == ASSUME Inv, Serve PROVE Inv'
<1>1. pc = "sending" /\ Executes /\ Replies(200, Answer) /\ Answer \in Nat
    BY TransportAssumption DEF Serve, Authorised
<1>2. executed' \in 1..2 /\ ~current' /\ current' \in BOOLEAN /\ whole' /\ whole' \in BOOLEAN
    BY <1>1, ExecutesInv
<1>3. 200 \in Statuses \ {0}
    BY DEF Statuses
<1>4. TypeOK'
    BY <1>1, <1>2, <1>3, RepliesType
<1>5. CallInv'
    BY <1>1, <1>2 DEF CallInv, Replies
<1>6. DestInv'
    BY <1>1, <1>2, ErrorsRecognised DEF Inv, TypeOK, DestInv, Replies, attempt
<1> QED
    BY <1>4, <1>5, <1>6 DEF Inv

\* An answer that is an error, whether the request was carried out or not.
LEMMA AnswersErrorInv ==
    ASSUME Inv, ServeAndFail \/ RefuseStale \/ RefuseToken \/ Refuse \/ Trouble
    PROVE  Inv'
<1> DEFINE Codes == {401, 403, 404, 412, 429, 500, 503}
<1>1. PICK status \in Codes, length \in Errors :
        pc = "sending" /\ Replies(status, length)
    BY DEF ServeAndFail, RefuseStale, RefuseToken, Refuse, Trouble, Authorised, Final,
           Temporary
<1>2. /\ executed' \in 0..2 /\ current' \in BOOLEAN /\ whole' /\ whole' \in BOOLEAN
      /\ executed' > 0 => ~current'
    <2>1. CASE Executes
        BY <1>1, <2>1, ExecutesInv
    <2>2. CASE UNCHANGED <<executed, whole, current>>
        BY <2>2 DEF Inv, TypeOK, CallInv, DestInv
    <2> QED
        BY <2>1, <2>2 DEF ServeAndFail, RefuseStale, RefuseToken, Refuse, Trouble
<1>3. status \in Statuses \ {0} /\ status >= 400 /\ length \in Nat
    BY TransportAssumption DEF Statuses, Final, Temporary
<1>4. TypeOK'
    BY <1>1, <1>2, <1>3, RepliesType
<1>5. CallInv'
    BY <1>1, <1>2, <1>3 DEF CallInv, Replies
<1>6. DestInv'
    BY <1>1, <1>2, ErrorInv
<1> QED
    BY <1>4, <1>5, <1>6 DEF Inv

\* A part of an answer goes where it belongs.
LEMMA ReceiveInv == ASSUME Inv, Receive PROVE Inv'
<1>1. CallInv'
    BY DEF Inv, CallInv, Receive, attempt, server
<1>2. CASE KeepError
    <2>1. kept' \in 0..Cap
        BY <1>2, TransportAssumption DEF Inv, TypeOK, KeepError
    <2>2. code >= 400
        BY <1>2 DEF Inv, TypeOK, DestInv, Receive, KeepError, Statuses, Final, Temporary
    <2>3. TypeOK'
        BY <1>2, <2>1 DEF Inv, TypeOK, Receive, KeepError, attempt, server, Ended
    <2>4. DestInv'
        BY <1>2, <2>2, TransportAssumption
           DEF Inv, TypeOK, DestInv, Receive, KeepError, attempt, server
    <2> QED
        BY <1>1, <2>3, <2>4 DEF Inv
<1>3. CASE Feed /\ code < 400
    <2>1. dest' = [dest EXCEPT !.parts = @ + 1] /\ kept' = kept
        BY <1>3 DEF Feed
    <2>2. dest.parts + 1 \in 0..Answer
        BY <1>3, TransportAssumption DEF Inv, TypeOK, DestInv, Receive
    <2>3. TypeOK'
        BY <2>1, <2>2 DEF Inv, TypeOK, Receive, attempt, server, Ended
    <2>4. dest'.parts = dest.parts + 1 /\ dest'.dirty = dest.dirty
        BY <2>1 DEF Inv, TypeOK
    <2>5. /\ left' = left - 1 /\ left \in Nat /\ dest.parts \in Nat /\ Answer \in Nat
          /\ ~err /\ dest.parts + left = Answer
        BY <1>3, TransportAssumption DEF Inv, TypeOK, DestInv, Receive
    <2>6. DestInv'
        <3>1. /\ pc' = "receiving" /\ code' = code /\ proto' = proto /\ err' = err
              /\ long' = long /\ first' = first /\ whole' = whole
            BY DEF Receive, attempt, server
        <3>2. dest'.parts + left' = Answer
            BY <2>4, <2>5
        <3>3. ~(code >= 400)
            BY <1>3 DEF Inv, TypeOK, Statuses, Final, Temporary
        <3>4. proto' = "HTTP/1.1" /\ ~long' => ~dest'.dirty
            BY <2>4, <3>1 DEF Inv, DestInv
        <3> QED
            BY <2>5, <3>1, <3>2, <3>3, <3>4 DEF Inv, DestInv
    <2> QED
        BY <1>1, <2>3, <2>6 DEF Inv
<1>4. CASE Feed /\ ~(code < 400)
    <2>1. dest' = [dest EXCEPT !.dirty = TRUE] /\ kept' = kept
        BY <1>4 DEF Feed
    <2>2. code >= 400
        BY <1>4 DEF Inv, TypeOK, Statuses, Final, Temporary
    <2>3. proto = "HTTP/1.1" => long
        BY <1>4, <2>2, TransportAssumption DEF Inv, TypeOK, DestInv, Receive, Feed
    <2>4. dest' \in [dirty: BOOLEAN, parts: 0..Answer] /\ dest'.parts = dest.parts
        BY <2>1 DEF Inv, TypeOK
    <2>5. left' \in Nat /\ left' = left - 1 /\ left \in Nat
        BY DEF Inv, TypeOK, Receive
    <2>6. TypeOK'
        BY <2>1, <2>4, <2>5 DEF Inv, TypeOK, Receive, attempt, server
    <2>7. long' = long /\ proto' = proto /\ kept \in Nat
        BY TransportAssumption DEF Inv, TypeOK, Receive
    <2>8. DestInv'
        <3>1. /\ pc' = "receiving" /\ pc = "receiving" /\ code' = code /\ err' = err
              /\ first' = first /\ whole' = whole
            BY DEF Receive, attempt, server
        <3>2. proto' = "HTTP/1.1" => long'
            BY <2>3, <2>7
        <3>3. ~(code < 400) /\ dest'.parts = 0
            BY <1>4, <2>2, <2>4, <3>1 DEF Inv, DestInv
        <3>4. proto' = "HTTP/1.1" => err'
            BY <2>2, <2>7, <3>1 DEF Inv, DestInv
        <3> QED
            BY <2>2, <3>1, <3>2, <3>3, <3>4 DEF Inv, DestInv
    <2> QED
        BY <1>1, <2>6, <2>8 DEF Inv
<1> QED
    BY <1>2, <1>3, <1>4 DEF Receive

\* The decisions after an answer change nothing but the place, the wait, the token
\* and the flag.
LEMMA DecisionInv ==
    ASSUME Inv, \/ Performed \/ RetryTemporary \/ RetryLimited \/ Unauthorised
                \/ Refresh \/ RefreshFails \/ Return \/ ThrowError \/ CurlFails
    PROVE  Inv'
<1>1. CASE Performed
    BY <1>1 DEF Inv, TypeOK, CallInv, DestInv, Performed, attempt, reply, server, Ended
<1>2. CASE RetryTemporary
    BY <1>2 DEF Inv, TypeOK, CallInv, DestInv, RetryTemporary, Retry, Temporary,
                attempt, reply, server, Ended
<1>3. CASE RetryLimited
    <2>1. code >= 400
        BY <1>3 DEF RetryLimited, RateLimited
    <2> QED
        BY <1>3, <2>1, NextIntervalType
           DEF Inv, TypeOK, CallInv, DestInv, RetryLimited, Retry, attempt, reply, server, Ended
<1>4. CASE Unauthorised
    BY <1>4 DEF Inv, TypeOK, CallInv, DestInv, Unauthorised, attempt, reply, server, Ended
<1>5. CASE Refresh \/ RefreshFails
    <2>1. /\ pc = "refresh" /\ pc' \in {"loop", "thrown"} /\ token' \in BOOLEAN
          /\ err' \in BOOLEAN /\ kept' = 0
        BY <1>5 DEF Inv, TypeOK, Refresh, RefreshFails, ResetError
    <2>2. UNCHANGED <<kind, proto, interval, hdr, first, pos, code, reason, left, dest, long,
                      executed, whole, current, calm>>
        BY <1>5 DEF Refresh, RefreshFails, attempt, server
    <2>3. TypeOK'
        BY <2>1, <2>2, EmptyType DEF Inv, TypeOK, Ended
    <2>4. CallInv' /\ DestInv'
        BY <2>1, <2>2 DEF Inv, CallInv, DestInv
    <2> QED
        BY <2>3, <2>4 DEF Inv
<1>6. CASE Return
    BY <1>6, TransportAssumption
       DEF Inv, TypeOK, CallInv, DestInv, Return, attempt, reply, server, Ended
<1>7. CASE ThrowError \/ CurlFails
    <2>1. pc' = "thrown" /\ UNCHANGED <<kind, proto, interval, token, attempt, reply, server>>
        BY <1>7 DEF ThrowError, CurlFails
    <2>2. TypeOK'
        BY <2>1 DEF Inv, TypeOK, attempt, reply, server, Ended
    <2>3. CallInv' /\ DestInv'
        BY <2>1 DEF Inv, CallInv, DestInv, attempt, reply, server
    <2> QED
        BY <2>2, <2>3 DEF Inv
<1> QED
    BY <1>1, <1>2, <1>3, <1>4, <1>5, <1>6, <1>7

\* What the server and the other clients do between two steps.
LEMMA EnvironmentInv ==
    ASSUME Inv, ReadBody \/ TokenExpires \/ VersionMoves \/ CalmsDown
    PROVE  Inv'
<1>1. CASE ReadBody
    BY <1>1, TransportAssumption
       DEF Inv, TypeOK, CallInv, DestInv, ReadBody, reply, server
<1>2. CASE TokenExpires
    <2>1. /\ token' = FALSE /\ hdr' = [hdr EXCEPT !.bearer = FALSE]
          /\ UNCHANGED <<pc, kind, proto, interval, first, pos, reply, server>>
        BY <1>2 DEF TokenExpires
    <2>2. hdr' \in [bearer: BOOLEAN, ifMatch: BOOLEAN] /\ hdr'.ifMatch = hdr.ifMatch
        BY <2>1 DEF Inv, TypeOK
    <2>3. TypeOK'
        BY <2>1, <2>2, Zenon DEF Inv, TypeOK, reply, server
    <2>4. CallInv' /\ DestInv'
        BY <2>1, <2>2 DEF Inv, CallInv, DestInv, reply, server
    <2> QED
        BY <2>3, <2>4 DEF Inv
<1>3. CASE VersionMoves \/ CalmsDown
    <2>1. /\ UNCHANGED <<pc, kind, proto, interval, token, attempt, reply, executed, whole>>
        BY <1>3 DEF VersionMoves, CalmsDown
    <2>2. current' \in BOOLEAN /\ calm' \in BOOLEAN /\ (current' => current)
        <3>1. CASE VersionMoves
            BY <3>1, Zenon DEF Inv, TypeOK, VersionMoves
        <3>2. CASE CalmsDown
            BY <3>2, Zenon DEF Inv, TypeOK, CalmsDown, server
        <3> QED
            BY <1>3, <3>1, <3>2
    <2>3. TypeOK'
        BY <2>1, <2>2 DEF Inv, TypeOK, attempt, reply
    <2>4. CallInv'
        BY <2>1, <2>2 DEF Inv, CallInv, attempt, reply
    <2>5. DestInv'
        BY <2>1 DEF Inv, DestInv, attempt, reply
    <2> QED
        BY <2>3, <2>4, <2>5 DEF Inv
<1> QED
    BY <1>1, <1>2, <1>3

\* Every step keeps the invariant.
LEMMA StepInv == Inv /\ [Next]_vars => Inv'
<1> SUFFICES ASSUME Inv, [Next]_vars PROVE Inv'
    OBVIOUS
<1>1. CASE \E k \in Kinds : Request(k)
    BY <1>1, RequestInv
<1>2. CASE Attempt
    BY <1>2, AttemptInv
<1>3. CASE Serve
    BY <1>3, ServeInv
<1>4. CASE ServeAndFail \/ RefuseStale \/ RefuseToken \/ Refuse \/ Trouble
    BY <1>4, AnswersErrorInv
<1>5. CASE Receive
    BY <1>5, ReceiveInv
<1>6. CASE \/ Performed \/ RetryTemporary \/ RetryLimited \/ Unauthorised
           \/ Refresh \/ RefreshFails \/ Return \/ ThrowError \/ CurlFails
    BY <1>6, DecisionInv
<1>7. CASE ReadBody \/ TokenExpires \/ VersionMoves \/ CalmsDown
    BY <1>7, EnvironmentInv
<1>8. CASE UNCHANGED vars
    BY <1>8 DEF Inv, TypeOK, CallInv, DestInv, vars, attempt, reply, server
<1> QED
    BY <1>1, <1>2, <1>3, <1>4, <1>5, <1>6, <1>7, <1>8 DEF Next, Client, Server, Answers

\* The invariant holds of every behaviour.
LEMMA Invariance == Spec => []Inv
<1> QED
    BY InitInv, StepInv, PTL DEF Spec

-----------------------------------------------------------------------------
\* The agents keep their types; the wait never grows beyond the longest one
\* (AuthAgent::CheckRetry).
THEOREM TypeCorrect == Spec => []TypeOK
<1>1. Inv => TypeOK
    BY DEF Inv
<1> QED
    BY <1>1, Invariance, PTL

\* The destination of a request never holds a part of an error, with HTTP/1.1 and
\* errors that are not longer than what is kept of them (CurlAgent::Receive).
THEOREM DestinationStaysClean == Spec => []DestinationClean
<1>1. Inv => DestinationClean
    BY DEF Inv, DestInv, DestinationClean
<1> QED
    BY <1>1, Invariance, PTL

\* Whatever was read of it in earlier attempts, the server gets the whole body
\* (CurlAgent::Request seeks to the beginning).
THEOREM BodyIsWhole == Spec => []BodyWhole
<1>1. Inv => BodyWhole
    BY DEF Inv, DestInv, BodyWhole
<1> QED
    BY <1>1, Invariance, PTL

-----------------------------------------------------------------------------
\* The initial states are initial states of the abstract call.
LEMMA RefinesInit == Init => Call!Init
BY DEF Init, Call!Init, Status

\* A new request begins a call.
LEMMA RefinesRequest == ASSUME NEW k \in Kinds, Request(k) PROVE Call!Begin
BY DEF Request, Call!Begin, Status, Ended

\* What the server does is one execution, or none.
LEMMA RefinesAnswers ==
    ASSUME Inv, Answers PROVE Call!Execute \/ UNCHANGED Call!callVars
<1>1. Status = "pending" /\ Status' = "pending" /\ UNCHANGED kind
    BY DEF Answers, Serve, ServeAndFail, RefuseStale, RefuseToken, Refuse, Trouble,
           Authorised, Replies, Status
<1>2. CASE Executes
    <2>1. kind \in Conditional => executed = 0
        BY <1>2 DEF Inv, TypeOK, CallInv, Executes, Matches, Answers, Serve, ServeAndFail,
                    RefuseStale, RefuseToken, Refuse, Trouble, Authorised
    <2> QED
        BY <1>1, <1>2, <2>1 DEF Call!Execute, Executes
<1>3. CASE UNCHANGED executed
    BY <1>1, <1>3 DEF Call!callVars
<1> QED
    BY <1>2, <1>3 DEF Answers, Serve, ServeAndFail, RefuseStale, RefuseToken, Refuse,
           Trouble

\* A request returns, or throws, as the abstract one does.
LEMMA RefinesEnd ==
    ASSUME Inv, Return \/ ThrowError \/ CurlFails \/ RefreshFails
    PROVE  Call!Return \/ Call!Throw
<1>1. CASE Return
    BY <1>1 DEF Inv, CallInv, Return, Call!Return, Status, server
<1>2. CASE ThrowError \/ CurlFails \/ RefreshFails
    BY <1>2 DEF ThrowError, CurlFails, RefreshFails, Call!Throw, Status, server
<1> QED
    BY <1>1, <1>2

\* All other steps change nothing that a caller sees.
LEMMA RefinesStutter ==
    ASSUME Inv, \/ Attempt \/ ReadBody \/ Receive \/ Performed \/ RetryTemporary
                \/ RetryLimited \/ Unauthorised \/ Refresh \/ TokenExpires \/ VersionMoves
                \/ CalmsDown \/ UNCHANGED vars
    PROVE  UNCHANGED Call!callVars
BY DEF Attempt, ReadBody, Receive, Performed, RetryTemporary, RetryLimited, Retry,
       Unauthorised, Refresh, TokenExpires, VersionMoves, CalmsDown, vars, attempt, reply,
       server, Call!callVars, Status

\* Every step is one of the abstract call, or none.
LEMMA RefinesStep == Inv /\ [Next]_vars => [Call!Next]_(Call!callVars)
<1> SUFFICES ASSUME Inv, [Next]_vars PROVE Call!Next \/ UNCHANGED Call!callVars
    OBVIOUS
<1>1. CASE \E k \in Kinds : Request(k)
    BY <1>1, RefinesRequest DEF Call!Next
<1>2. CASE Answers
    BY <1>2, RefinesAnswers DEF Call!Next
<1>3. CASE Return \/ ThrowError \/ CurlFails \/ RefreshFails
    BY <1>3, RefinesEnd DEF Call!Next
<1>4. CASE \/ Attempt \/ ReadBody \/ Receive \/ Performed \/ RetryTemporary
           \/ RetryLimited \/ Unauthorised \/ Refresh \/ TokenExpires \/ VersionMoves
           \/ CalmsDown \/ UNCHANGED vars
    BY <1>4, RefinesStutter
<1> QED
    BY <1>1, <1>2, <1>3, <1>4 DEF Next, Client, Server

\* AuthAgent and CurlAgent implement the call that the rest of grive relies on:
\* it returns only what was carried out, and with If-Match it is carried out once
\* at most (AuthAgent::Request).
THEOREM AgentsImplementCall == Spec => ImplementsRemoteCall
<1> QED
    BY RefinesInit, RefinesStep, Invariance, PTL DEF Spec, ImplementsRemoteCall, Call!Spec

-----------------------------------------------------------------------------
(* The requests of macOS: a call that nothing came across gets its own      *)
(* answer, for any number of calls and tasks.                               *)

MacBounded == MaxCalls \in Nat /\ MaxTasks \in Nat

\* What a task has been through.
TasksInv ==
    \A t \in DOMAIN task :
        /\ task[t].call \in 1..call
        /\ task[t].signal => task[t].state = "ended" /\ task[t].status # "none"
        /\ task[t].state = "answered" => task[t].status # "none"
        /\ task[t].state = "running" => task[t].status = "none"

\* Only the calls that were made have an outcome, and the one that is being made,
\* to which the last task belongs, has none yet.
CallsInv ==
    /\ \A c \in Mac!Calls :
        c > call => outcome[c] = "none" /\ got[c] = <<>> /\ c \notin overtaken
    /\ macPc \in {"waiting", "woken"} =>
        /\ call \in Mac!Calls /\ outcome[call] = "none"
        /\ Len(task) \in DOMAIN task /\ task[Len(task)].call = call

\* A call that nothing has come across so far: the tasks before its own have ended,
\* and the agent has what its own has brought.
OwnInv ==
    macPc \in {"waiting", "woken"} /\ call \notin overtaken =>
        LET n == Len(task) IN
        /\ Mac!TasksOf(call) = {n}
        /\ \A t \in DOMAIN task : t # n => task[t].state = "ended"
        /\ error <=> task[n].state = "ended" /\ task[n].status # "ok"
        /\ got[call] = IF task[n].state = "ended" /\ task[n].status = "ok" THEN <<n>> ELSE <<>>
        /\ macPc = "woken" => task[n].signal

MacInv == Mac!TypeOK /\ TasksInv /\ CallsInv /\ OwnInv /\ Mac!AnswerIsOwn

TaskRecords == [call: Mac!Calls, state: {"running", "answered", "ended"},
            status: Mac!Statuses \cup {"none"}, signal: BOOLEAN]

\* What the types say of the sequence of tasks, and of the index of the last.
LEMMA TaskFacts ==
    ASSUME MacBounded, Mac!TypeOK
    PROVE  /\ task \in Seq(TaskRecords) /\ Len(task) \in Nat /\ Len(task) <= MaxTasks
           /\ DOMAIN task = 1..Len(task) /\ DOMAIN task \subseteq 1..MaxTasks
           /\ \A t \in DOMAIN task : task[t] \in TaskRecords
           /\ call \in Nat
<1>1. task \in Seq(TaskRecords) /\ Len(task) <= MaxTasks
    BY DEF Mac!TypeOK, TaskRecords
<1>2. Len(task) \in Nat /\ DOMAIN task = 1..Len(task)
    BY <1>1
<1>3. \A t \in DOMAIN task : task[t] \in TaskRecords
    BY <1>1, <1>2
<1>4. call \in Nat
    BY DEF MacBounded, Mac!TypeOK
<1> QED
    BY <1>1, <1>2, <1>3, <1>4 DEF MacBounded

\* A call is made, or made again: one more task.
LEMMA RequestKeeps ==
    ASSUME MacBounded, MacInv, NEW c \in Mac!Calls, Mac!Request(c),
           \/ macPc = "idle" /\ c = call + 1
           \/ macPc = "woken" /\ c = call /\ call \in overtaken
    PROVE  MacInv'
<1> DEFINE n == Len(task) + 1
           new == [call |-> c, state |-> "running", status |-> "none", signal |-> FALSE]
<1>1. /\ task' = Append(task, new) /\ new \in TaskRecords
      /\ Len(task') = n /\ n \in Nat /\ n <= MaxTasks
      /\ DOMAIN task' = 1..n /\ DOMAIN task = 1..(n - 1) /\ task'[n] = new
      /\ \A t \in DOMAIN task : task'[t] = task[t]
    BY TaskFacts DEF Mac!Request, MacInv, TaskRecords, MacBounded
<1>2. /\ macPc' = "waiting" /\ call' = c /\ error' = FALSE
      /\ got' = got /\ outcome' = outcome
      /\ overtaken \subseteq overtaken' /\ overtaken' \subseteq overtaken \cup {c}
      /\ Mac!UnderWay => c \in overtaken'
    BY DEF Mac!Request
<1>3. Mac!TypeOK'
    <2>1. task' \in Seq(TaskRecords) /\ Len(task') <= MaxTasks
        BY <1>1, TaskFacts DEF MacInv
    <2>2. call' \in 0..MaxCalls /\ overtaken' \subseteq Mac!Calls
        BY <1>2 DEF MacInv, Mac!TypeOK, Mac!Calls, MacBounded
    <2> QED
        BY <1>2, <2>1, <2>2 DEF MacInv, Mac!TypeOK, TaskRecords
<1>4. TasksInv'
    <2>1. TasksInv /\ call \in Nat
        BY TaskFacts DEF MacInv
    <2>2. \A t \in DOMAIN task : task[t].call \in 1..c
        BY <2>1 DEF TasksInv, Mac!Calls
    <2> QED
        BY <1>1, <1>2, <2>1, <2>2 DEF TasksInv, Mac!Calls
<1>5. CallsInv'
    <2>1. outcome[c] = "none" /\ \A d \in Mac!Calls : d > c => d > call
        BY TaskFacts DEF MacInv, CallsInv, Mac!Calls
    <2>2. \A d \in Mac!Calls : d > c => d # c
        BY DEF Mac!Calls, MacBounded
    <2> QED
        BY <1>1, <1>2, <2>1, <2>2 DEF MacInv, CallsInv
<1>6. OwnInv'
    <2>1. SUFFICES ASSUME c \notin overtaken'
                   PROVE  OwnInv'
        BY <1>2 DEF OwnInv
    <2>2. macPc = "idle" /\ c = call + 1 /\ ~Mac!UnderWay
        BY <2>1, <1>2
    <2>3. \A t \in DOMAIN task : task[t].state = "ended" /\ task[t].call # c
        BY <2>2, TaskFacts DEF Mac!UnderWay, MacInv, TasksInv
    <2>4. got[c] = <<>>
        BY <2>2, TaskFacts DEF MacInv, CallsInv
    <2>5. Mac!TasksOf(c)' = {n}
        BY <1>1, <1>2, <2>3 DEF Mac!TasksOf
    <2> QED
        BY <1>1, <1>2, <2>3, <2>4, <2>5 DEF OwnInv
<1>7. Mac!AnswerIsOwn'
    <2>1. outcome[c] = "none"
        BY TaskFacts DEF MacInv, CallsInv
    <2>2. SUFFICES ASSUME NEW d \in Mac!Calls, d \notin overtaken', outcome'[d] # "none"
                   PROVE  \E t \in DOMAIN task' :
                            /\ Mac!TasksOf(d)' = {t} /\ task'[t].state = "ended"
                            /\ IF outcome'[d] = "returned"
                               THEN task'[t].status = "ok" /\ got'[d] = <<t>>
                               ELSE task'[t].status \in {"temporary", "refused"} /\ got'[d] = <<>>
        BY DEF Mac!AnswerIsOwn
    <2>3. d # c /\ d \notin overtaken /\ outcome[d] # "none"
        BY <1>2, <2>1, <2>2
    <2>4. PICK t \in DOMAIN task :
            /\ Mac!TasksOf(d) = {t} /\ task[t].state = "ended"
            /\ IF outcome[d] = "returned" THEN task[t].status = "ok" /\ got[d] = <<t>>
               ELSE task[t].status \in {"temporary", "refused"} /\ got[d] = <<>>
        BY <2>3 DEF MacInv, Mac!AnswerIsOwn
    <2>5. Mac!TasksOf(d)' = Mac!TasksOf(d)
        BY <1>1, <2>3 DEF Mac!TasksOf
    <2> QED
        BY <1>1, <1>2, <2>4, <2>5
<1> QED
    BY <1>3, <1>4, <1>5, <1>6, <1>7 DEF MacInv

\* What a handler does leaves the calls that have left alone.
LEMMA AnswersStay ==
    ASSUME MacBounded, MacInv, outcome' = outcome, overtaken' = overtaken,
           DOMAIN task' = DOMAIN task,
           \A t \in DOMAIN task : task'[t].call = task[t].call,
           \A t \in DOMAIN task : task[t].state = "ended" => task'[t] = task[t],
           \A c \in Mac!Calls : outcome[c] # "none" => got'[c] = got[c]
    PROVE  Mac!AnswerIsOwn' /\ \A c \in Mac!Calls : Mac!TasksOf(c)' = Mac!TasksOf(c)
<1>1. \A c \in Mac!Calls : Mac!TasksOf(c)' = Mac!TasksOf(c)
    BY DEF Mac!TasksOf
<1>2. SUFFICES ASSUME NEW d \in Mac!Calls, d \notin overtaken, outcome[d] # "none"
               PROVE  \E t \in DOMAIN task' :
                        /\ Mac!TasksOf(d)' = {t} /\ task'[t].state = "ended"
                        /\ IF outcome'[d] = "returned"
                           THEN task'[t].status = "ok" /\ got'[d] = <<t>>
                           ELSE task'[t].status \in {"temporary", "refused"} /\ got'[d] = <<>>
    BY <1>1 DEF Mac!AnswerIsOwn
<1>3. PICK t \in DOMAIN task :
        /\ Mac!TasksOf(d) = {t} /\ task[t].state = "ended"
        /\ IF outcome[d] = "returned" THEN task[t].status = "ok" /\ got[d] = <<t>>
           ELSE task[t].status \in {"temporary", "refused"} /\ got[d] = <<>>
    BY <1>2 DEF MacInv, Mac!AnswerIsOwn
<1> QED
    BY <1>1, <1>2, <1>3

\* A step of a handler: one task goes on, and the data or the flag with it.
LEMMA HandlerKeeps ==
    ASSUME MacBounded, MacInv, Mac!Handler
    PROVE  MacInv'
<1>1. PICK t \in 1..MaxTasks :
        \/ Mac!TaskFails(t) \/ Mac!ErrorComes(t) \/ Mac!DataComes(t)
        \/ \E s \in Mac!Statuses : Mac!StatusComes(t, s)
    BY DEF Mac!Handler
<1>2. /\ t \in DOMAIN task /\ task[t].state \in {"running", "answered"}
      /\ outcome' = outcome /\ overtaken' = overtaken /\ call' = call
    BY <1>1 DEF Mac!TaskFails, Mac!ErrorComes, Mac!DataComes, Mac!StatusComes, Mac!Goes
<1> DEFINE Becomes(to, s, b) ==
        task' = [task EXCEPT ![t] = [call |-> task[t].call, state |-> to, status |-> s,
                                     signal |-> b]]
<1>3. \/ Becomes("ended", "none", FALSE) /\ error' = TRUE
      \/ \E s \in Mac!Statuses : Becomes("answered", s, FALSE) /\ error' = error
      \/ /\ Becomes("ended", task[t].status, TRUE) /\ error' = TRUE
         /\ task[t].status \in Mac!Statuses \ {"ok"}
      \/ Becomes("ended", "ok", TRUE) /\ error' = error /\ Mac!DataComes(t)
    <2>1. CASE Mac!TaskFails(t)
        BY <2>1 DEF Mac!TaskFails, Mac!Goes
    <2>2. CASE Mac!ErrorComes(t)
        <3>1. task[t].status \in Mac!Statuses
            BY <2>2, <1>2, TaskFacts DEF Mac!ErrorComes, Mac!Goes, MacInv, TasksInv,
                   TaskRecords
        <3> QED
            BY <2>2, <3>1 DEF Mac!ErrorComes, Mac!Goes
    <2>3. CASE Mac!DataComes(t)
        BY <2>3 DEF Mac!DataComes, Mac!Goes
    <2>4. ASSUME NEW s \in Mac!Statuses, Mac!StatusComes(t, s)
          PROVE  Becomes("answered", s, FALSE) /\ error' = error
        BY <2>4 DEF Mac!StatusComes, Mac!Goes
    <2> QED
        BY <1>1, <2>1, <2>2, <2>3, <2>4
<1>4. PICK to \in {"answered", "ended"}, s \in Mac!Statuses \cup {"none"}, b \in BOOLEAN :
        /\ Becomes(to, s, b)
        /\ b => to = "ended" /\ s # "none"
        /\ to = "answered" => s # "none"
        /\ \/ to = "ended" /\ s # "ok" /\ error' = TRUE
           \/ to = "answered" /\ error' = error
           \/ to = "ended" /\ s = "ok" /\ error' = error /\ Mac!DataComes(t)
        /\ s = "ok" /\ to = "ended" => Mac!DataComes(t)
    <2> DEFINE Step(to, s, b) ==
            /\ Becomes(to, s, b)
            /\ b => to = "ended" /\ s # "none"
            /\ to = "answered" => s # "none"
            /\ \/ to = "ended" /\ s # "ok" /\ error' = TRUE
               \/ to = "answered" /\ error' = error
               \/ to = "ended" /\ s = "ok" /\ error' = error /\ Mac!DataComes(t)
            /\ s = "ok" /\ to = "ended" => Mac!DataComes(t)
    <2>1. CASE Becomes("ended", "none", FALSE) /\ error' = TRUE
        <3>1. Step("ended", "none", FALSE)
            BY <2>1
        <3> QED
            BY <3>1
    <2>2. ASSUME NEW s \in Mac!Statuses, Becomes("answered", s, FALSE) /\ error' = error
          PROVE  Step("answered", s, FALSE)
        BY <2>2 DEF Mac!Statuses
    <2>3. CASE /\ Becomes("ended", task[t].status, TRUE) /\ error' = TRUE
               /\ task[t].status \in Mac!Statuses \ {"ok"}
        <3>1. Step("ended", task[t].status, TRUE)
            BY <2>3 DEF Mac!Statuses
        <3> QED
            BY <2>3, <3>1
    <2>4. CASE Becomes("ended", "ok", TRUE) /\ error' = error /\ Mac!DataComes(t)
        <3>1. Step("ended", "ok", TRUE)
            BY <2>4
        <3> QED
            BY <3>1 DEF Mac!Statuses
    <2> QED
        BY <1>3, <2>1, <2>2, <2>3, <2>4
<1>5. /\ task' \in Seq(TaskRecords) /\ Len(task') = Len(task) /\ DOMAIN task' = DOMAIN task
      /\ \A u \in DOMAIN task : u # t => task'[u] = task[u]
      /\ task'[t] = [call |-> task[t].call, state |-> to, status |-> s, signal |-> b]
      /\ task'[t] \in TaskRecords /\ task'[t].call = task[t].call
    <2>1. [call |-> task[t].call, state |-> to, status |-> s, signal |-> b] \in TaskRecords
        BY <1>2, TaskFacts DEF MacInv, TaskRecords
    <2>2. task \in Seq(TaskRecords)
        BY TaskFacts DEF MacInv
    <2> QED
        BY <1>4, <1>2, <2>1, <2>2
<1>6. \/ macPc = "idle" /\ macPc' \in {"idle", "crashed"} /\ got' = got
      \/ macPc \in {"waiting", "woken"} /\ macPc' = macPc /\ got' = got
      \/ macPc \in {"waiting", "woken"} /\ macPc' = macPc /\ Mac!DataComes(t)
         /\ got' = [got EXCEPT ![call] = Append(@, t)]
    BY <1>1 DEF Mac!TaskFails, Mac!ErrorComes, Mac!DataComes, Mac!StatusComes, Mac!Goes,
           Mac!Running, MacInv, Mac!TypeOK
<1>7. \A c \in Mac!Calls : outcome[c] # "none" => got'[c] = got[c]
    BY <1>6 DEF MacInv, CallsInv, Mac!TypeOK
<1>8. Mac!AnswerIsOwn' /\ \A c \in Mac!Calls : Mac!TasksOf(c)' = Mac!TasksOf(c)
    BY <1>2, <1>5, <1>7, AnswersStay
<1>9. Mac!TypeOK'
    <2>1. got' \in [Mac!Calls -> Seq(1..MaxTasks)]
        <3>1. got \in [Mac!Calls -> Seq(1..MaxTasks)]
            BY DEF MacInv, Mac!TypeOK
        <3>2. CASE got' = got
            BY <3>1, <3>2
        <3>3. CASE got' = [got EXCEPT ![call] = Append(@, t)] /\ macPc \in {"waiting", "woken"}
            <4>1. call \in Mac!Calls
                BY <3>3 DEF MacInv, CallsInv
            <4>2. Append(got[call], t) \in Seq(1..MaxTasks)
                BY <3>1, <4>1
            <4> QED
                BY <3>1, <3>3, <4>1, <4>2
        <3> QED
            BY <1>6, <3>2, <3>3
    <2>2. error' \in BOOLEAN
        BY <1>3 DEF MacInv, Mac!TypeOK
    <2>3. macPc' \in {"idle", "waiting", "woken", "ended", "crashed"}
        BY <1>6
    <2> QED
        BY <1>2, <1>5, <2>1, <2>2, <2>3 DEF MacInv, Mac!TypeOK, TaskRecords
<1>10. TasksInv'
    <2>1. \A u \in DOMAIN task : task[u].call \in 1..call
        BY DEF MacInv, TasksInv
    <2>2. /\ task'[t].signal => task'[t].state = "ended" /\ task'[t].status # "none"
          /\ task'[t].state = "answered" => task'[t].status # "none"
          /\ task'[t].state # "running"
        BY <1>5, <1>4
    <2>3. SUFFICES ASSUME NEW u \in DOMAIN task
                   PROVE  /\ task'[u].call \in 1..call
                          /\ task'[u].signal => task'[u].state = "ended" /\ task'[u].status # "none"
                          /\ task'[u].state = "answered" => task'[u].status # "none"
                          /\ task'[u].state = "running" => task'[u].status = "none"
        BY <1>2, <1>5 DEF TasksInv
    <2>4. CASE u = t
        BY <1>5, <2>1, <2>2, <2>4
    <2>5. CASE u # t
        BY <1>5, <2>5 DEF MacInv, TasksInv
    <2> QED
        BY <2>4, <2>5
<1>11. CallsInv'
    <2>1. \A c \in Mac!Calls : c > call => got'[c] = got[c]
        <3>1. \A c \in Mac!Calls : c > call => c # call
            BY TaskFacts DEF MacInv, Mac!Calls, MacBounded
        <3> QED
            BY <1>6, <3>1 DEF MacInv, Mac!TypeOK
    <2>2. macPc' \in {"waiting", "woken"} =>
            /\ call \in Mac!Calls /\ outcome[call] = "none"
            /\ Len(task) \in DOMAIN task /\ task'[Len(task)].call = call
        <3>1. SUFFICES ASSUME macPc \in {"waiting", "woken"}
                       PROVE  /\ call \in Mac!Calls /\ outcome[call] = "none"
                              /\ Len(task) \in DOMAIN task /\ task'[Len(task)].call = call
            BY <1>6
        <3>2. /\ call \in Mac!Calls /\ outcome[call] = "none"
              /\ Len(task) \in DOMAIN task /\ task[Len(task)].call = call
            BY <3>1 DEF MacInv, CallsInv
        <3> QED
            BY <1>5, <3>2
    <2> QED
        BY <1>2, <1>5, <2>1, <2>2 DEF MacInv, CallsInv
<1>12. OwnInv'
    <2> DEFINE n == Len(task)
    <2>1. SUFFICES ASSUME macPc \in {"waiting", "woken"}, call \notin overtaken PROVE OwnInv'
        BY <1>2, <1>6 DEF OwnInv
    <2>2. /\ Mac!TasksOf(call) = {n} /\ n \in DOMAIN task /\ call \in Mac!Calls
          /\ \A u \in DOMAIN task : u # n => task[u].state = "ended"
          /\ error <=> task[n].state = "ended" /\ task[n].status # "ok"
          /\ got[call] = IF task[n].state = "ended" /\ task[n].status = "ok" THEN <<n>> ELSE <<>>
          /\ macPc = "woken" => task[n].signal
        BY <2>1 DEF MacInv, OwnInv, CallsInv
    <2>3. t = n /\ macPc = "waiting" /\ ~error /\ got[call] = <<>>
        BY <1>2, <2>1, <2>2 DEF MacInv, TasksInv
    <2>4. error' <=> task'[n].state = "ended" /\ task'[n].status # "ok"
        BY <1>4, <1>5, <2>3
    <2>5. got'[call] = IF task'[n].state = "ended" /\ task'[n].status = "ok"
                       THEN <<n>> ELSE <<>>
        <3>1. CASE to = "ended" /\ s = "ok"
            <4>1. got' = [got EXCEPT ![call] = Append(@, t)]
                BY <1>4, <2>1, <3>1 DEF Mac!DataComes
            <4>2. Append(got[call], t) = <<n>>
                BY <2>3
            <4> QED
                BY <1>5, <2>2, <2>3, <3>1, <4>1, <4>2 DEF MacInv, Mac!TypeOK
        <3>2. CASE ~(to = "ended" /\ s = "ok")
            <4>1. ~Mac!DataComes(t)
                BY <1>5, <3>2 DEF Mac!DataComes, Mac!Goes
            <4> QED
                BY <1>5, <1>6, <2>1, <2>3, <3>2, <4>1
        <3> QED
            BY <3>1, <3>2
    <2>6. /\ macPc' = "waiting" /\ call' = call /\ Len(task') = n
          /\ Mac!TasksOf(call)' = {n}
          /\ \A u \in DOMAIN task' : u # n => task'[u].state = "ended"
        BY <1>2, <1>5, <1>6, <1>8, <2>2, <2>3 DEF Mac!TasksOf
    <2> QED
        BY <2>4, <2>5, <2>6 DEF OwnInv
<1> QED
    BY <1>8, <1>9, <1>10, <1>11, <1>12 DEF MacInv

\* The call leaves, with a return or an exception.
LEMMA LeavingKeeps ==
    ASSUME MacBounded, MacInv, Mac!Throws \/ Mac!Returns
    PROVE  MacInv'
<1> DEFINE n == Len(task)
<1>1. /\ macPc = "woken" /\ macPc' = "idle" /\ call \in Mac!Calls /\ outcome[call] = "none"
      /\ UNCHANGED <<call, task, error, got, overtaken>>
      /\ n \in DOMAIN task
    BY DEF Mac!Throws, Mac!Returns, Mac!Leaves, MacInv, CallsInv
<1>2. /\ outcome' \in [Mac!Calls -> {"none", "returned", "thrown"}]
      /\ outcome'[call] # "none"
      /\ \A c \in Mac!Calls : c # call => outcome'[c] = outcome[c]
    BY <1>1 DEF Mac!Throws, Mac!Returns, Mac!Leaves, MacInv, Mac!TypeOK
<1>3. \A c \in Mac!Calls : Mac!TasksOf(c)' = Mac!TasksOf(c)
    BY <1>1 DEF Mac!TasksOf
<1>4. Mac!TypeOK' /\ TasksInv' /\ OwnInv'
    BY <1>1, <1>2 DEF MacInv, Mac!TypeOK, TasksInv, OwnInv
<1>5. CallsInv'
    BY <1>1, <1>2, TaskFacts DEF MacInv, CallsInv
<1>6. ASSUME call \notin overtaken
      PROVE  /\ Mac!TasksOf(call) = {n} /\ task[n].state = "ended"
             /\ IF outcome'[call] = "returned" THEN task[n].status = "ok" /\ got[call] = <<n>>
                ELSE task[n].status \in {"temporary", "refused"} /\ got[call] = <<>>
    <2>1. /\ Mac!TasksOf(call) = {n} /\ task[n].signal
          /\ error <=> task[n].state = "ended" /\ task[n].status # "ok"
          /\ got[call] = IF task[n].state = "ended" /\ task[n].status = "ok" THEN <<n>> ELSE <<>>
        BY <1>1, <1>6 DEF MacInv, OwnInv
    <2>2. task[n].state = "ended" /\ task[n].status \in Mac!Statuses
        BY <2>1, <1>1, TaskFacts DEF MacInv, TasksInv, TaskRecords
    <2>3. CASE Mac!Throws
        BY <1>1, <2>1, <2>2, <2>3 DEF Mac!Throws, Mac!Leaves, Mac!status, Mac!Statuses,
               MacInv, Mac!TypeOK
    <2>4. CASE Mac!Returns
        BY <1>1, <2>1, <2>2, <2>4 DEF Mac!Returns, Mac!Leaves, Mac!status, Mac!Statuses,
               MacInv, Mac!TypeOK
    <2> QED
        BY <2>1, <2>2, <2>3, <2>4
<1>7. Mac!AnswerIsOwn'
    BY <1>1, <1>2, <1>3, <1>6 DEF MacInv, Mac!AnswerIsOwn
<1> QED
    BY <1>4, <1>5, <1>7 DEF MacInv

LEMMA MacInitially == ASSUME MacBounded, Mac!Init PROVE MacInv
<1>1. task = <<>> /\ task \in Seq(TaskRecords) /\ Len(task) = 0 /\ DOMAIN task = {}
    BY DEF Mac!Init
<1>2. got \in [Mac!Calls -> Seq(1..MaxTasks)]
    BY DEF Mac!Init
<1>3. Mac!TypeOK
    <2>1. call \in 0..MaxCalls /\ Len(task) <= MaxTasks
        BY <1>1 DEF Mac!Init, MacBounded
    <2>2. outcome \in [Mac!Calls -> {"none", "returned", "thrown"}]
        BY DEF Mac!Init
    <2> QED
        BY <1>1, <1>2, <2>1, <2>2 DEF Mac!Init, Mac!TypeOK, TaskRecords
<1>4. TasksInv /\ CallsInv /\ OwnInv /\ Mac!AnswerIsOwn
    BY <1>1 DEF Mac!Init, TasksInv, CallsInv, OwnInv, Mac!AnswerIsOwn
<1> QED
    BY <1>3, <1>4 DEF MacInv

LEMMA MacStepwise ==
    ASSUME MacBounded, MacInv, [Mac!Next]_(Mac!vars)
    PROVE  MacInv'
<1>1. CASE Mac!NextCall
    <2>1. call + 1 \in Mac!Calls /\ macPc = "idle" /\ Mac!Request(call + 1)
        BY <1>1, TaskFacts DEF Mac!NextCall, MacInv, Mac!Calls, MacBounded
    <2> QED
        BY <2>1, RequestKeeps
<1>2. CASE Mac!Retries
    <2>1. call \in Mac!Calls /\ macPc = "woken" /\ Mac!Request(call)
        BY <1>2 DEF Mac!Retries, MacInv, CallsInv
    <2>2. call \in overtaken
        BY <1>2, <2>1 DEF Mac!Retries, Mac!status, MacInv, OwnInv, TasksInv, CallsInv
    <2> QED
        BY <2>1, <2>2, RequestKeeps
<1>3. CASE Mac!Throws \/ Mac!Returns
    BY <1>3, LeavingKeeps
<1>4. CASE Mac!Handler
    BY <1>4, HandlerKeeps
<1>5. CASE Mac!Wakes
    BY <1>5, ZenonT(30) DEF Mac!Wakes, MacInv, Mac!TypeOK, TasksInv, CallsInv, OwnInv,
           Mac!AnswerIsOwn, Mac!TasksOf
<1>6. CASE Mac!GivesUp
    <2>1. call \in Mac!Calls /\ outcome[call] = "none" /\ call \in Nat
        BY <1>6, TaskFacts DEF Mac!GivesUp, MacInv, CallsInv
    <2>2. /\ macPc' = "woken" /\ overtaken' = overtaken \cup {call}
          /\ UNCHANGED <<call, task, error, got, outcome>>
        BY <1>6 DEF Mac!GivesUp
    <2>3. Mac!AnswerIsOwn'
        BY <2>2 DEF MacInv, Mac!AnswerIsOwn, Mac!TasksOf
    <2>4. CallsInv'
        <3>1. \A c \in Mac!Calls : c > call => c # call
            BY DEF Mac!Calls, MacBounded
        <3> QED
            BY <1>6, <2>1, <2>2, <3>1 DEF Mac!GivesUp, MacInv, CallsInv
    <2> QED
        BY <2>1, <2>2, <2>3, <2>4 DEF MacInv, Mac!TypeOK, TasksInv, OwnInv
<1>7. CASE Mac!Ends
    BY <1>7, ZenonT(30) DEF Mac!Ends, MacInv, Mac!TypeOK, TasksInv, CallsInv, OwnInv, Mac!AnswerIsOwn,
           Mac!TasksOf
<1>8. CASE UNCHANGED Mac!vars
    BY <1>8, ZenonT(30) DEF Mac!vars, MacInv, Mac!TypeOK, TasksInv, CallsInv, OwnInv, Mac!AnswerIsOwn,
           Mac!TasksOf
<1> QED
    BY <1>1, <1>2, <1>3, <1>4, <1>5, <1>6, <1>7, <1>8 DEF Mac!Next

\* The types; and a call that nothing came across returns with its own answer and
\* nothing else, or throws because the server refused it, whatever the calls before
\* it have left in the agent (NSURLSessionAgent.mm:30, 88-126).
THEOREM AnswersAreOwn ==
    ASSUME MacBounded PROVE Mac!Spec => [](Mac!TypeOK /\ Mac!AnswerIsOwn)
<1>1. Mac!Init => MacInv
    BY MacInitially
<1>2. MacInv /\ [Mac!Next]_(Mac!vars) => MacInv'
    BY MacStepwise
<1>3. MacInv => Mac!TypeOK /\ Mac!AnswerIsOwn
    BY DEF MacInv
<1> QED
    BY <1>1, <1>2, <1>3, PTL DEF Mac!Spec

-----------------------------------------------------------------------------
(* The other machines, as they are run beside Transport.                    *)

BodyProofs == INSTANCE UploadBodyProofs WITH pc <- bodyPc

\* What the run calls Body is what the theorems of UploadBodyProofs are about.
LEMMA BodyIsBody ==
    /\ Body!Init => BodyProofs!Init
    /\ Body!Next => BodyProofs!Next
    /\ UNCHANGED body => UNCHANGED BodyProofs!vars
BY DEF Body!Init, Body!Next, Body!stream, Body!call, Body!past, Body!Files, Body!Bytes,
       Body!Start, Body!Lesser, Body!StringOf, Body!FileSize, Body!Size,
       Body!Change, Body!CutOff, Body!Lengthen, Body!Overwrite,
       Body!OpenForRead, Body!OpenFile, Body!Append3, Body!AppendParts,
       Body!Close, Body!StartOf, Body!PartAt, Body!Clamp, Body!FileSeek,
       Body!StringSeek, Body!SeekPart, Body!Seek, Body!Read, Body!FileRead,
       Body!StringRead, Body!PartBytes, Body!Zeros, Body!WantedAll, Body!Wanted,
       Body!Padding, Body!NextPart, Body!ReadPart, Body!ReadReturns, Body!User,
       Body!Reading, BodyProofs!Init, BodyProofs!Next, BodyProofs!stream,
       BodyProofs!call, BodyProofs!past, BodyProofs!Files, BodyProofs!Bytes,
       BodyProofs!Start, BodyProofs!Lesser, BodyProofs!StringOf,
       BodyProofs!FileSize, BodyProofs!Size, BodyProofs!Change,
       BodyProofs!CutOff, BodyProofs!Lengthen, BodyProofs!Overwrite,
       BodyProofs!OpenForRead, BodyProofs!OpenFile, BodyProofs!Append3,
       BodyProofs!AppendParts, BodyProofs!Close, BodyProofs!StartOf,
       BodyProofs!PartAt, BodyProofs!Clamp, BodyProofs!FileSeek,
       BodyProofs!StringSeek, BodyProofs!SeekPart, BodyProofs!Seek,
       BodyProofs!Read, BodyProofs!FileRead, BodyProofs!StringRead,
       BodyProofs!PartBytes, BodyProofs!Zeros, BodyProofs!WantedAll,
       BodyProofs!Wanted, BodyProofs!Padding, BodyProofs!NextPart,
       BodyProofs!ReadPart, BodyProofs!ReadReturns, BodyProofs!User,
       BodyProofs!Reading, BodyProofs!vars, body

\* An execution of the machines is one of each of them.
LEMMA MachinesRun == MCSpec => Spec /\ BodyProofs!Spec /\ Mac!Spec
<1>1. MCInit => Init /\ BodyProofs!Init /\ Mac!Init
    BY BodyIsBody DEF MCInit
<1>2. [MCNext]_mcvars => /\ [Next]_vars
                         /\ [BodyProofs!Next]_(BodyProofs!vars)
                         /\ [Mac!Next]_(Mac!vars)
    BY BodyIsBody DEF MCNext, mcvars, CallStep, BodyStep, MacStep, mac, Mac!vars
<1> QED
    BY <1>1, <1>2, PTL DEF MCSpec, Spec, BodyProofs!Spec, Mac!Spec

\* What every upload sends is the body that was announced, for parts of any size, any
\* changes of the file and any order of reads and seeks (ConcatStream::Read, Seek).
THEOREM BodiesAreAnnounced == ASSUME BodyProofs!Sane PROVE MCSpec => []BodyAsAnnounced
<1>1. BodyProofs!TypeOK => Body!TypeOK
    BY DEF Body!TypeOK, Body!Files, Body!Bytes, Body!Size, BodyProofs!TypeOK,
           BodyProofs!Files, BodyProofs!Bytes, BodyProofs!Size
<1>2. BodyProofs!InPlace => Body!InPlace
    BY DEF Body!InPlace, Body!Rest, Body!Body, BodyProofs!InPlace, BodyProofs!Rest,
           BodyProofs!Body
<1>3. BodyProofs!LengthKept /\ BodyProofs!ReadBounded => Body!LengthKept /\ Body!ReadBounded
    BY DEF Body!LengthKept, Body!ReadBounded, Body!Size, BodyProofs!LengthKept,
           BodyProofs!ReadBounded, BodyProofs!Size
<1> QED
    BY <1>1, <1>2, <1>3, MachinesRun, BodyProofs!BodyIsAnnounced, PTL DEF BodyAsAnnounced

\* On macOS a call that nothing came across returns with its own answer, for any
\* number of calls and tasks (NSURLSessionAgent.mm:88-126).
THEOREM MacAnswersAreOwn == ASSUME MacBounded PROVE MCSpec => []AnswerIsOwn
<1> QED
    BY MachinesRun, AnswersAreOwn, PTL DEF AnswerIsOwn
=============================================================================
