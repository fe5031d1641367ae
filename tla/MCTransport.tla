---------------------------- MODULE MCTransport ----------------------------
(***************************************************************************)
(* The machines that move bytes between grive and the server, each in       *)
(* executions of its own: the requests (Transport), the body of an upload   *)
(* (UploadBody), and the requests as the agent of macOS makes them          *)
(* (NSURLSessionAgent).                                                     *)
(***************************************************************************)
EXTENDS Transport

CONSTANTS
    Opening, Closing, Zero, Old, New,     \* bytes of an upload
    HeadSize, TailSize, MaxSize, MaxChanges, Asks, Offsets,
    MaxCalls, MaxTasks                    \* macOS

VARIABLES
    part,   \* the machine that this execution runs
    bodyPc, file, changes, declared, streams, sizes, cur, mpos, at,
    asked, done, out, from, fixed, cut, touched,
    macPc, call, task, error, got, outcome, overtaken

body   == <<bodyPc, file, changes, declared, streams, sizes, cur, mpos, at,
            asked, done, out, from, fixed, cut, touched>>
mac    == <<macPc, call, task, error, got, outcome, overtaken>>
mcvars == <<part, vars, body, mac>>

AllKinds   == {"download", "create", "update"}
OnlyUpdate == {"update"}

Body == INSTANCE UploadBody WITH pc <- bodyPc
Mac  == INSTANCE NSURLSessionAgent WITH pc <- macPc

\* A machine that does not run stands still in one of its initial states.
MCInit ==
    /\ part \in {"call", "body", "mac"}
    /\ Init /\ (part # "call" => kind = "create" /\ proto = "HTTP/1.1")
    /\ Body!Init /\ (part # "body" => file = <<>>)
    /\ Mac!Init

CallStep == part = "call" /\ Next /\ UNCHANGED <<part, body, mac>>
BodyStep == part = "body" /\ Body!Next /\ UNCHANGED <<part, vars, mac>>
MacStep  == part = "mac" /\ Mac!Next /\ UNCHANGED <<part, vars, body>>

MCNext == CallStep \/ BodyStep \/ MacStep

MCSpec ==
    /\ MCInit /\ [][MCNext]_mcvars
    /\ WF_vars(part = "call" /\ Client) /\ WF_vars(part = "call" /\ Answers)
    /\ WF_body(part = "body" /\ Body!Reading)

-----------------------------------------------------------------------------
(* The properties of the other machines.                                    *)

\* The body of an upload is what was announced: every byte belongs where it is, there
\* are as many as the sizes of the parts say, and Read gives no more than it was asked
\* for as long as the file is not cut off (ConcatStream::Read and Seek).
BodyAsAnnounced == Body!TypeOK /\ Body!InPlace /\ Body!LengthKept /\ Body!ReadBounded

\* Once the server is calm a request ends: the waits, the token refresh and the
\* retries lead somewhere (AuthAgent.cc:85-92); and every call of ConcatStream::Read
\* comes to an end.
RequestsEnd == Ends /\ Body!ReadEnds

\* On macOS, a call that no other task and no timeout came across returns with its own
\* answer and nothing else, or throws because the server refused it
\* (NSURLSessionAgent.mm:88-126).
AnswerIsOwn == Mac!TypeOK /\ Mac!AnswerIsOwn
=============================================================================
