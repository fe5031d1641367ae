-------------------------- MODULE NSURLSessionAgent --------------------------
(***************************************************************************)
(* The transport of macOS, below AuthAgent: one call of grive after another *)
(* starts a task, and waits at most 30 seconds for its completion handler,  *)
(* which runs in a thread of its own.  A task that the wait was given up    *)
(* for goes on: its handler meets the members of the agent as the calls     *)
(* after it have left them.                                                 *)
(*                                                                          *)
(* What the server does with a request, the rewinding of a body and the     *)
(* refresh of the token are in Transport.                                   *)
(***************************************************************************)
EXTENDS Naturals, Sequences

CONSTANTS
    MaxCalls,   \* how many calls grive makes
    MaxTasks    \* how many tasks there may be, retries included

VARIABLES
    pc,         \* "idle", "waiting", "woken", "ended" or "crashed"
    call,       \* the call that is made, or was the last one; it has m_pimpl->dest
    task,       \* the tasks so far: [call, state, status, signal]
    error,      \* m_pimpl->error
    got,        \* the tasks whose data is in the destination of each call
    outcome,    \* of each call: "none", "returned" or "thrown"
    overtaken   \* history: the calls whose wait was given up, or that began while
                \* another task was still under way

vars == <<pc, call, task, error, got, outcome, overtaken>>

Calls    == 1..MaxCalls
Statuses == {"ok", "temporary", "refused"}   \* 2xx; 500, 503, 429, 401; the others

TypeOK ==
    /\ pc \in {"idle", "waiting", "woken", "ended", "crashed"}
    /\ call \in 0..MaxCalls
    /\ task \in Seq([call: Calls, state: {"running", "answered", "ended"},
                     status: Statuses \cup {"none"}, signal: BOOLEAN])
    /\ Len(task) <= MaxTasks
    /\ error \in BOOLEAN
    /\ got \in [Calls -> Seq(1..MaxTasks)]
    /\ outcome \in [Calls -> {"none", "returned", "thrown"}]
    /\ overtaken \subseteq Calls

Init ==
    /\ pc = "idle" /\ call = 0
    /\ task = <<>> /\ error = FALSE
    /\ got = [c \in Calls |-> <<>>]
    /\ outcome = [c \in Calls |-> "none"]
    /\ overtaken = {}

-----------------------------------------------------------------------------
(* The thread of grive.                                                     *)

UnderWay == \E t \in DOMAIN task : task[t].state # "ended"

\* Init of the agent, and the task that is resumed.
Request(c) ==
    /\ Len(task) < MaxTasks
    /\ pc' = "waiting" /\ call' = c
    /\ task' = Append(task, [call |-> c, state |-> "running",
                             status |-> "none", signal |-> FALSE])
    /\ error' = FALSE
    /\ overtaken' = overtaken \cup (IF UnderWay THEN {c} ELSE {})
    /\ UNCHANGED <<got, outcome>>

\* The next call of AuthAgent::Request.
NextCall == pc = "idle" /\ call < MaxCalls /\ Request(call + 1)

Wakes ==
    /\ pc = "waiting" /\ task[Len(task)].signal
    /\ pc' = "woken"
    /\ UNCHANGED <<call, task, error, got, outcome, overtaken>>

\* The 30 seconds are over.  What the wait answers is looked at by nobody.
GivesUp ==
    /\ pc = "waiting" /\ ~task[Len(task)].signal
    /\ pc' = "woken"
    /\ overtaken' = overtaken \cup {call}
    /\ UNCHANGED <<call, task, error, got, outcome>>

Leaves(how) ==
    /\ pc' = "idle"
    /\ outcome' = [outcome EXCEPT ![call] = how]
    /\ UNCHANGED <<call, task, error, got, overtaken>>

status == task[Len(task)].status

\* The agent throws, or AuthAgent does so for a status of 400 or above.
Throws == pc = "woken" /\ (error \/ status = "refused") /\ Leaves("thrown")

\* A status of 0, which is that of a task without an answer, is no error.
Returns == pc = "woken" /\ ~error /\ status \in {"ok", "none"} /\ Leaves("returned")

\* CheckRetry gets to see an error only if the wait was given up between the two
\* steps of the handler.
Retries == pc = "woken" /\ ~error /\ status = "temporary" /\ Request(call)

\* All calls were made, or grive is killed.
Ends ==
    /\ pc \notin {"ended", "crashed"}
    /\ pc' = "ended"
    /\ UNCHANGED <<call, task, error, got, outcome, overtaken>>

-----------------------------------------------------------------------------
(* The completion handler of a task.                                        *)

Running == pc \notin {"ended", "crashed"}

Goes(t, from, to, s, signals) ==
    /\ Running /\ t \in DOMAIN task /\ task[t].state = from
    /\ task' = [task EXCEPT ![t] = [call |-> @.call, state |-> to, status |-> s,
                                   signal |-> signals]]

\* An NSError: the flag, and no signal.
TaskFails(t) ==
    /\ Goes(t, "running", "ended", "none", FALSE)
    /\ error' = TRUE
    /\ UNCHANGED <<pc, call, got, outcome, overtaken>>

\* Mutant: the handler signals as soon as it has the status.
SignalsEarly(t, s) ==
    /\ Goes(t, "running", "answered", s, TRUE)
    /\ UNCHANGED <<pc, call, error, got, outcome, overtaken>>

StatusComes(t, s) ==
    /\ Goes(t, "running", "answered", s, FALSE)
    /\ UNCHANGED <<pc, call, error, got, outcome, overtaken>>

ErrorComes(t) ==
    /\ t \in DOMAIN task /\ task[t].status # "ok"
    /\ Goes(t, "answered", "ended", task[t].status, TRUE)
    /\ error' = TRUE
    /\ UNCHANGED <<pc, call, got, outcome, overtaken>>

\* What was received goes to m_pimpl->dest, whose ever it is.  That of a call that
\* has left is gone: nothing happens, or the process dies.
DataComes(t) ==
    /\ t \in DOMAIN task /\ task[t].status = "ok"
    /\ Goes(t, "answered", "ended", "ok", TRUE)
    /\ IF pc = "idle" THEN pc' \in {pc, "crashed"} /\ UNCHANGED got
       ELSE got' = [got EXCEPT ![call] = Append(@, t)] /\ UNCHANGED pc
    /\ UNCHANGED <<call, error, outcome, overtaken>>

Handler ==
    \E t \in 1..MaxTasks :
        \/ TaskFails(t) \/ ErrorComes(t) \/ DataComes(t)
        \/ \E s \in Statuses : StatusComes(t, s)

-----------------------------------------------------------------------------
Next ==
    \/ NextCall \/ Wakes \/ GivesUp \/ Throws \/ Returns \/ Retries \/ Ends
    \/ Handler
    \/ ~Running /\ UNCHANGED vars

Spec == Init /\ [][Next]_vars

-----------------------------------------------------------------------------
(* Properties.                                                              *)

TasksOf(c) == {t \in DOMAIN task : task[t].call = c}

\* A call that no other task and no timeout came across has sent one task, and it
\* returned with the answer of this task and nothing else, or has thrown because
\* the server refused it: what earlier calls left in the agent is no part of it
\* (NSURLSessionAgent.mm:30, 88-126).
AnswerIsOwn ==
    \A c \in Calls \ overtaken : outcome[c] # "none" =>
        \E t \in DOMAIN task :
            /\ TasksOf(c) = {t} /\ task[t].state = "ended"
            /\ IF outcome[c] = "returned" THEN task[t].status = "ok" /\ got[c] = <<t>>
               ELSE task[t].status \in {"temporary", "refused"} /\ got[c] = <<>>
=============================================================================
