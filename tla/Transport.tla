----------------------------- MODULE Transport -----------------------------
(***************************************************************************)
(* One request after another through AuthAgent and CurlAgent: the header    *)
(* with the access token, the body that is sent from its beginning in every *)
(* attempt, the status line that decides where the answer goes, and the     *)
(* loop that tries again, waits, or refreshes the token.                    *)
(*                                                                          *)
(* The server may answer before it has read the whole body. While there is  *)
(* trouble it fails, limits the rate and lets tokens expire as it likes; it *)
(* is calm from some point on.                                              *)
(***************************************************************************)
EXTENDS Integers

CONSTANTS
    Kinds,        \* the kinds of requests
    Conditional,  \* those that carry If-Match
    Protocols,    \* the versions of HTTP that may be agreed on
    Parts,        \* the body of a request, in calls of the read callback
    Answer,       \* the body of a good answer, in calls of the write callback
    Errors,       \* how long the body of an error may be, likewise
    Cap           \* how much of it the agent keeps (64 KiB)

ASSUME TransportAssumption ==
    /\ Conditional \subseteq Kinds
    /\ Protocols \subseteq {"HTTP/1.1", "HTTP/2"}
    /\ Parts \in Nat /\ Answer \in Nat /\ Errors \subseteq Nat /\ Cap \in Nat

VARIABLES
    pc,        \* where the request is
    kind,      \* the request
    proto,     \* the version of HTTP
    interval,  \* m_interval
    token,     \* whether the server still takes m_access
    hdr,       \* the header of this attempt: [bearer, ifMatch]
    first,     \* the position of `in` when this attempt started
    pos,       \* and where it is now
    code,      \* the status of the answer
    reason,    \* whether its body names a rate limit
    left,      \* what is still to come of it
    err,       \* CurlAgent's flag: the answer is an error
    kept,      \* the size of error_data
    dest,      \* what went to the destination: [dirty, parts]
    long,      \* history: the server sent an error longer than what is kept
    executed,  \* how often the server has carried the request out, up to 2
    whole,     \* every time with the whole body
    current,   \* the version that If-Match names is the current one
    calm       \* the server has no more trouble

attempt == <<hdr, first, pos>>
reply   == <<code, reason, left, err, kept, dest, long>>
server  == <<executed, whole, current, calm>>
vars    == <<pc, kind, proto, interval, token, attempt, reply, server>>

Ended     == {"idle", "returned", "thrown"}
Intervals == {0, 1, 2, 4, 8, 16, 32, 64, 120}
Final     == {404}          \* errors that stay as they are
Temporary == {500, 503}
Statuses  == {0, 200, 401, 403, 412, 429} \cup Final \cup Temporary

TypeOK ==
    /\ pc \in Ended \cup {"loop", "sending", "receiving", "check", "refresh"}
    /\ kind \in Kinds /\ proto \in Protocols
    /\ interval \in Intervals
    /\ token \in BOOLEAN
    /\ hdr \in [bearer: BOOLEAN, ifMatch: BOOLEAN]
    /\ first \in 0..Parts /\ pos \in 0..Parts
    /\ code \in Statuses /\ reason \in BOOLEAN
    /\ left \in Nat
    /\ err \in BOOLEAN /\ kept \in 0..Cap
    /\ dest \in [dirty: BOOLEAN, parts: 0..Answer] /\ long \in BOOLEAN
    /\ executed \in 0..2
    /\ whole \in BOOLEAN /\ current \in BOOLEAN /\ calm \in BOOLEAN

NoHeader == [bearer |-> FALSE, ifMatch |-> FALSE]
Empty    == [dirty |-> FALSE, parts |-> 0]

Init ==
    /\ pc = "idle" /\ kind \in Kinds /\ proto \in Protocols
    /\ interval = 0 /\ token = TRUE
    /\ hdr = NoHeader /\ first = 0 /\ pos = 0
    /\ code = 0 /\ reason = FALSE /\ left = 0
    /\ err = FALSE /\ kept = 0 /\ dest = Empty /\ long = FALSE
    /\ executed = 0 /\ whole = TRUE /\ current = TRUE /\ calm = FALSE

-----------------------------------------------------------------------------
(* The loop of AuthAgent::Request.                                          *)

\* A caller makes the body, an empty destination, and the header of a request.
Request(k) ==
    /\ pc \in Ended
    /\ pc' = "loop" /\ kind' = k
    /\ interval' = 0
    /\ first' = 0 /\ pos' = 0 /\ hdr' = NoHeader
    /\ code' = 0 /\ reason' = FALSE /\ left' = 0 /\ dest' = Empty /\ long' = FALSE
    /\ executed' = 0 /\ whole' = TRUE /\ current' = TRUE
    /\ UNCHANGED <<proto, token, err, kept, calm>>

\* Mutants: the caller's header is left out; the token is added once only.
AppendHeaderBare == [bearer |-> token, ifMatch |-> FALSE]
AppendHeaderOnce == [bearer |-> IF code = 0 THEN token ELSE hdr.bearer,
                     ifMatch |-> kind \in Conditional]

\* The caller's header and the token as it is now.
AppendHeader == [bearer |-> token, ifMatch |-> kind \in Conditional]

SeekLeftOut == pos   \* mutant
SeekToBegin == 0     \* in->Seek(0, 0)

\* CurlAgent::Init: the flag and the text of the last error are forgotten.
ResetError == err' = FALSE /\ kept' = 0

Attempt ==
    /\ pc = "loop"
    /\ pc' = "sending"
    /\ hdr' = AppendHeader
    /\ first' = SeekToBegin /\ pos' = SeekToBegin
    /\ ResetError
    /\ UNCHANGED <<kind, proto, interval, token, code, reason, left, dest, long, server>>

\* libcurl takes the next part of the body.
ReadBody ==
    /\ pc = "sending" /\ pos < Parts
    /\ pos' = pos + 1
    /\ UNCHANGED <<pc, kind, proto, interval, token, hdr, first, reply, server>>

-----------------------------------------------------------------------------
(* The server.                                                              *)

\* The character that HeaderCallback compares with '4': the first digit of
\* the code after "HTTP/1.1 ", its last one after "HTTP/2 ", by which 404 is an error
\* and 401, 403, 412, 500 and 503 are not.
TenthCharacter(status) ==
    IF proto = "HTTP/1.1" THEN status \div 100 ELSE status % 10

FromFive(status) == TenthCharacter(status) >= 5   \* mutant
IsError(status) == TenthCharacter(status) >= 4

Replies(status, length) ==
    /\ pc' = "receiving"
    /\ code' = status /\ left' = length
    /\ reason' \in IF status = 403 THEN BOOLEAN ELSE {status = 429}
    /\ err' = IsError(status)
    /\ long' = (long \/ (status >= 400 /\ length > Cap))
    /\ UNCHANGED <<kind, proto, interval, token, attempt, kept, dest, calm>>

Authorised == pc = "sending" /\ hdr.bearer
Matches    == hdr.ifMatch => current

Executes ==
    /\ pos = Parts
    /\ Matches
    /\ executed' = IF executed < 2 THEN executed + 1 ELSE executed
    /\ whole' = (whole /\ first = 0)
    /\ current' = FALSE

Serve ==
    /\ Authorised
    /\ Executes
    /\ Replies(200, Answer)

\* It has done what was asked, and answers as if it had not.
ServeAndFail ==
    /\ Authorised /\ ~calm
    /\ Executes
    /\ \E status \in Temporary, length \in Errors : Replies(status, length)

RefuseStale ==
    /\ Authorised /\ ~Matches
    /\ \E length \in Errors : Replies(412, length)
    /\ UNCHANGED <<executed, whole, current>>

RefuseToken ==
    /\ pc = "sending" /\ ~hdr.bearer
    /\ \E length \in Errors : Replies(401, length)
    /\ UNCHANGED <<executed, whole, current>>

Refuse ==
    /\ Authorised
    /\ \E status \in Final, length \in Errors : Replies(status, length)
    /\ UNCHANGED <<executed, whole, current>>

Trouble ==
    /\ Authorised /\ ~calm
    /\ \E status \in {403, 429} \cup Temporary, length \in Errors : Replies(status, length)
    /\ UNCHANGED <<executed, whole, current>>

Answers == Serve \/ ServeAndFail \/ RefuseStale \/ RefuseToken \/ Refuse \/ Trouble

TokenExpires ==
    /\ ~calm /\ token
    /\ token' = FALSE
    /\ hdr' = [hdr EXCEPT !.bearer = FALSE]
    /\ UNCHANGED <<pc, kind, proto, interval, first, pos, reply, server>>

\* Another client makes a new version.
VersionMoves ==
    /\ current
    /\ current' = FALSE
    /\ UNCHANGED <<pc, kind, proto, interval, token, attempt, reply, executed, whole, calm>>

CalmsDown ==
    /\ ~calm
    /\ calm' = TRUE
    /\ UNCHANGED <<pc, kind, proto, interval, token, attempt, reply, executed, whole, current>>

-----------------------------------------------------------------------------
(* The answer.                                                              *)

\* CurlAgent::Receive.
KeepError ==
    /\ err /\ kept < Cap
    /\ kept' = kept + 1
    /\ UNCHANGED dest

Feed ==
    /\ ~(err /\ kept < Cap)
    /\ dest' = IF code < 400 THEN [dest EXCEPT !.parts = @ + 1]
               ELSE [dest EXCEPT !.dirty = TRUE]
    /\ UNCHANGED kept

Receive ==
    /\ pc = "receiving" /\ left > 0
    /\ left' = left - 1
    /\ KeepError \/ Feed
    /\ UNCHANGED <<pc, kind, proto, interval, token, attempt, code, reason, err, long, server>>

\* curl_easy_perform has returned; grive looks at the status.
Performed ==
    /\ pc = "receiving" /\ left = 0
    /\ pc' = "check"
    /\ UNCHANGED <<kind, proto, interval, token, attempt, reply, server>>

\* curl_easy_perform fails: ExecCurl throws, and nothing catches it before the
\* caller does. The server may have done its part.
CurlFails ==
    /\ pc \in {"sending", "receiving"}
    /\ pc' = "thrown"
    /\ UNCHANGED <<kind, proto, interval, token, attempt, reply, server>>

-----------------------------------------------------------------------------
(* CheckRetry and CheckHttpResponse.                                        *)

RateLimited == code = 429 \/ (code = 403 /\ reason /\ kept > 0)

Unlimited == IF interval <= 0 THEN 1 ELSE interval * 2   \* mutant

\* The wait, in seconds.
NextInterval == IF interval <= 0 THEN 1
                ELSE IF interval < 64 THEN interval * 2 ELSE 120

Retry == pc = "check" /\ pc' = "loop"

RetryTemporary ==
    /\ Retry /\ code \in Temporary
    /\ UNCHANGED <<kind, proto, interval, token, attempt, reply, server>>

RetryLimited ==
    /\ Retry /\ RateLimited
    /\ interval' = NextInterval
    /\ UNCHANGED <<kind, proto, token, attempt, reply, server>>

Unauthorised ==
    /\ pc = "check" /\ code = 401
    /\ pc' = "refresh"
    /\ UNCHANGED <<kind, proto, interval, token, attempt, reply, server>>

\* OAuth2::Refresh sends its request through the same CurlAgent.
Refresh ==
    /\ pc = "refresh"
    /\ pc' = "loop" /\ token' = TRUE
    /\ ResetError
    /\ UNCHANGED <<kind, proto, interval, attempt, code, reason, left, dest, long, server>>

\* It throws AuthFailed, or what CurlAgent throws.
RefreshFails ==
    /\ pc = "refresh"
    /\ pc' = "thrown"
    /\ ResetError
    /\ UNCHANGED <<kind, proto, interval, token, attempt, code, reason, left, dest, long, server>>

Return ==
    /\ pc = "check" /\ code < 400
    /\ pc' = "returned"
    /\ UNCHANGED <<kind, proto, interval, token, attempt, reply, server>>

ThrowError ==
    /\ pc = "check" /\ code >= 400
    /\ ~(code \in Temporary \cup {401} \/ RateLimited)
    /\ pc' = "thrown"
    /\ UNCHANGED <<kind, proto, interval, token, attempt, reply, server>>

-----------------------------------------------------------------------------
Client ==
    \/ Attempt \/ ReadBody \/ Receive \/ Performed
    \/ RetryTemporary \/ RetryLimited \/ Unauthorised \/ Refresh \/ RefreshFails
    \/ Return \/ ThrowError

Server == Answers \/ TokenExpires \/ VersionMoves \/ CalmsDown

Next == (\E k \in Kinds : Request(k)) \/ Client \/ CurlFails \/ Server

Spec == Init /\ [][Next]_vars

\* The program goes on, and the server answers every request that it got.
FairSpec == Spec /\ WF_vars(Client) /\ WF_vars(Answers)

-----------------------------------------------------------------------------
(* Properties.                                                              *)

\* The retry loop keeps what callers rely on (RemoteCall): a request returns
\* only when it was carried out, and one with If-Match is carried out once at
\* most, although it is sent again after the server has stored it and failed.
Status == CASE pc = "idle" -> "none"
            [] pc \in {"returned", "thrown"} -> pc
            [] OTHER -> "pending"

Call == INSTANCE RemoteCall WITH status <- Status
ImplementsRemoteCall == Call!Spec

\* What the refinement rests on: a good answer follows an execution, and after
\* one the version that If-Match names is no longer current.
CallInv ==
    /\ pc \in {"receiving", "check"} /\ code < 400 => executed > 0
    /\ executed > 0 => ~current
    /\ pc = "sending" => hdr.ifMatch = (kind \in Conditional)

\* What DestinationClean rests on: the destination gets nothing but good answers
\* and what is too long of an error, and errors are recognised with HTTP/1.1.
DestInv ==
    /\ pc = "idle" => dest = Empty
    /\ pc \in {"loop", "sending", "refresh"} => dest.parts = 0
    /\ pc = "sending" => ~err /\ kept = 0
    /\ pc \in {"receiving", "check"} /\ code >= 400 => dest.parts = 0
    /\ pc \in {"receiving", "check"} /\ code < 400 => ~err /\ dest.parts + left = Answer
    /\ pc = "receiving" /\ code >= 400 /\ proto = "HTTP/1.1" =>
        err /\ (~long => kept + left <= Cap)
    /\ pc = "check" => left = 0
    /\ proto = "HTTP/1.1" /\ ~long => ~dest.dirty
    /\ pc = "returned" => dest.parts = Answer
    /\ first = 0 /\ whole

\* With HTTP/1.1, and as long as no error was longer than what is kept of it,
\* the destination of a request that returned holds the answer and nothing
\* else, whatever attempts came before (CurlAgent.cc:146).
DestinationClean ==
    /\ proto = "HTTP/1.1" /\ ~long => ~dest.dirty
    /\ pc = "returned" => dest.parts = Answer

\* No part of an error ever goes to the destination (CurlAgent.cc:151: "Do not
\* feed error responses to destination stream").
ErrorsKeptOut == ~dest.dirty

\* Whenever the server carries a request out it has got the whole body, from
\* its beginning, also when an earlier attempt broke off in the middle.
BodyWhole == whole

\* Once the server is calm a request ends: the waits, the token refresh and the
\* retries lead somewhere.
Ends == (calm /\ pc \notin Ended) ~> pc \in Ended
=============================================================================
