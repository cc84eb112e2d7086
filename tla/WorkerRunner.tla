---------------------------- MODULE WorkerRunner ----------------------------
(***************************************************************************)
(* A worker process against the worker protocol of the control plane: the  *)
(* claim loop of WorkerRunner, the task and the heartbeat loop of every    *)
(* claimed attempt, the bounded retries of the protocol client, graceful   *)
(* shutdown and a kill of the process.  The TypeScript and the Python SDK  *)
(* are two programs with one protocol: sdk says which of them runs.        *)
(*                                                                         *)
(* Time is counted down: the remaining lease, the time a heartbeat loop    *)
(* still sleeps, the time a request may still take.  A tick is about the   *)
(* request timeout; the milliseconds between two tries take no tick.  The  *)
(* components the worker runs are external: they end when they like, with  *)
(* a result or an exception.  The row of the region is not modelled: it may*)
(* be found cancelling at any time.  No program hands run() an AbortSignal *)
(* of its own, so that there is none here.                                 *)
(***************************************************************************)
EXTENDS Integers, FiniteSets

CONSTANTS
    Attempt,      \* the attempts the scheduler may lease
    Sdks,         \* the SDKs considered, a subset of {"ts", "py"}
    Concurrency,  \* tasks a runner runs at a time
    Lease,        \* ticks of a lease
    Interval,     \* ticks between two heartbeats of the Python SDK
    Timeout,      \* ticks after which the client gives a request up
    Retries,      \* further tries of a request that may be repeated
    Grace,        \* ticks a Python runner waits for its tasks on shutdown
    Fenced,       \* the client answers claims after the stop itself, with no work
    Slack,        \* ticks after its end for which a lease is still counted
    MaxFault      \* bound: failed tries and kills

ASSUME WorkerAssumption ==
    /\ Sdks \subseteq {"ts", "py"} /\ Sdks # {}
    /\ {Concurrency, Lease, Interval, Timeout, Slack} \subseteq Nat \ {0}
    /\ {Retries, Grace, MaxFault} \subseteq Nat /\ Fenced \in BOOLEAN
    /\ Attempt \cap {"runner", "none", "no_work", "inactive", "lease_expired",
                     "continue", "cancel", "terminal", "accepted", "conflict"} = {}

VARIABLES
    sdk,       \* the SDK of the worker, which never changes
    attempt,   \* [a] the attempt in the database: status, lease, result
    loop,      \* where the claim loop stands
    stopping,  \* stop() or request_stop() was called
    drain,     \* ticks left to a Python shutdown
    work,      \* [a] the task of the worker for the attempt
    call,      \* [c] the request a loop or a task waits for
    late,      \* requests nobody waits for and the server may yet handle
    faults     \* failed tries and kills so far

vars == <<sdk, attempt, loop, stopping, drain, work, call, late, faults>>

Never == -1
Outcome == {"completed", "failed"}
Claimer == <<"runner", "claim">>
Caller == {Claimer} \cup (Attempt \X {"beat", "task"})
Op == {"claim", "heartbeat", "cancellation", "result"}
Idle == [op |-> "none", try |-> 0, wait |-> 0, answer |-> "none", left |-> 0]
Answer == Attempt \cup {"none", "no_work", "inactive", "lease_expired", "continue",
                        "cancel", "terminal", "accepted", "conflict"}
NoTask == [step |-> "none", outcome |-> "none", aborted |-> FALSE, due |-> Never,
           sent |-> {}]

Active == {a \in Attempt : work[a].step \in {"run", "submit"}}
Waiting(c) == call[c].op # "none"

Init ==
    /\ sdk \in Sdks
    /\ attempt = [a \in Attempt |-> [status |-> "ready", lease |-> 0, result |-> "none"]]
    /\ loop = "waiting" /\ stopping = FALSE /\ drain = Never
    /\ work = [a \in Attempt |-> NoTask]
    /\ call = [c \in Caller |-> Idle]
    /\ late = {} /\ faults = 0

-----------------------------------------------------------------------------
(* The control plane.                                                      *)

LeasedRow(row) == [status |-> "leased", lease |-> Lease, result |-> row.result]
EndedRow(result) == [status |-> "ended", lease |-> 0, result |-> result]

\* Why activeAttempt refuses a request for the attempt.
Refusal(a) ==
    CASE attempt[a].status # "leased" -> "inactive"
      [] attempt[a].status = "leased" /\ attempt[a].lease <= 0 -> "lease_expired"
      [] OTHER -> "none"

\* leaseNextAttempt picks a ready attempt.
ServeClaim ==
    LET ready == {a \in Attempt : attempt[a].status = "ready"}
    IN  IF ready = {} THEN {[answer |-> "no_work", attempt |-> attempt]}
        ELSE {[answer |-> a, attempt |-> [attempt EXCEPT ![a] = LeasedRow(@)]] : a \in ready}

\* In a region that is cancelling a lease is renewed, but the work is called off.
ServeHeartbeat(a) ==
    IF Refusal(a) # "none" THEN {[answer |-> Refusal(a), attempt |-> attempt]}
    ELSE {[answer |-> w, attempt |-> [attempt EXCEPT ![a] = LeasedRow(@)]] : w \in {"continue", "cancel"}}

ServeCancellation(a) ==
    {[answer |-> w, attempt |-> attempt] :
        w \in IF Refusal(a) = "none" THEN {"continue", "cancel"} ELSE {"terminal"}}

\* The handoff of a result: a repeated one is compared with the first before
\* the lease is looked at; a new one ends the attempt.
ServeResult(a, r) ==
    CASE attempt[a].result = r -> [answer |-> "accepted", attempt |-> attempt]
      [] attempt[a].result \notin {r, "none"} -> [answer |-> "conflict", attempt |-> attempt]
      [] OTHER ->
           IF Refusal(a) # "none" THEN [answer |-> Refusal(a), attempt |-> attempt]
           ELSE [answer |-> "accepted",
                 attempt |-> [attempt EXCEPT ![a] = EndedRow(r)]]

\* The answers the server may give to a request, with what it does to the attempts.
Served(q) ==
    CASE q.op = "claim" -> ServeClaim
      [] q.op = "heartbeat" -> ServeHeartbeat(q.attempt)
      [] q.op = "cancellation" -> ServeCancellation(q.attempt)
      [] q.op = "result" -> {ServeResult(q.attempt, q.outcome)}

\* The request a caller waits for.  Claims that fail are told apart: each of
\* them may lease an attempt of its own.
Request(c) ==
    [op |-> call[c].op, attempt |-> c[1],
     outcome |-> IF call[c].op = "result" THEN work[c[1]].outcome ELSE "none",
     id |-> IF c = Claimer THEN faults ELSE 0]

\* The TypeScript runner reads in an envelope or a renewal what is left of the lease.
Answered(k, answer) ==
    [op |-> k.op, try |-> k.try, wait |-> k.wait, answer |-> answer,
     left |-> IF k.op \in {"claim", "heartbeat"} /\ sdk = "ts" THEN Lease ELSE 0]

Serve(c) ==
    /\ Waiting(c) /\ call[c].answer = "none"
    /\ \E s \in Served(Request(c)) :
         /\ attempt' = s.attempt
         /\ call' = [call EXCEPT ![c] = Answered(@, s.answer)]
    /\ UNCHANGED <<sdk, loop, stopping, drain, work, late, faults>>

\* A request the client gave up is handled after all.
ServeLate(q) ==
    /\ \E s \in Served(q) : attempt' = s.attempt
    /\ late' = late \ {q}
    /\ UNCHANGED <<sdk, loop, stopping, drain, work, call, faults>>

\* cancelRun, or the recovery of a restarted control plane, ends the attempt.
EndAttempt(a) ==
    /\ attempt[a].status = "leased"
    /\ attempt' = [attempt EXCEPT ![a] = EndedRow(@.result)]
    /\ UNCHANGED <<sdk, loop, stopping, drain, work, call, late, faults>>

-----------------------------------------------------------------------------
(* The protocol client.                                                    *)

Asked(op) == [op |-> op, try |-> 0, wait |-> Timeout, answer |-> "none", left |-> 0]

\* Requests of the callers C that the server has not handled and that may
\* change something there.
Unserved(C) ==
    {Request(c) : c \in {k \in C : /\ Waiting(k) /\ call[k].answer = "none"
                                   /\ call[k].op # "cancellation"
                                   /\ k # Claimer => attempt[k[1]].status = "leased"}}

\* How often a request is tried.
Tries(op) == IF op = "claim" /\ sdk = "ts" THEN Retries + 2 ELSE Retries + 1

MayRetry(c) == call[c].try + 1 < Tries(call[c].op)
Again(k) ==
    [op |-> k.op, try |-> k.try + 1, wait |-> Timeout, answer |-> "none", left |-> k.left]
Retried(c) == [call EXCEPT ![c] = Again(@)]

\* Of the refusals only an expired lease is marked as worth another try.
RetryableAnswer(w) == w = "lease_expired"

-----------------------------------------------------------------------------
(* The end of a task and of a heartbeat loop.                              *)

\* The callers that belong to a set of attempts.
CallersOf(A) == A \X {"beat", "task"}

\* A task whose controller is aborted, which ends its heartbeat loop, and one that
\* is over as well.
Aborted(w) ==
    [step |-> w.step, outcome |-> w.outcome, aborted |-> TRUE, due |-> Never, sent |-> w.sent]
Finished(w) ==
    [step |-> "over", outcome |-> w.outcome, aborted |-> TRUE, due |-> Never, sent |-> w.sent]

\* The tasks of the attempts A are over: their controllers are aborted and
\* what they wait for is given up.
Ended(A) ==
    /\ work' = [a \in Attempt |-> IF a \in A THEN Finished(work[a]) ELSE work[a]]
    /\ late' = late \cup Unserved(CallersOf(A))
    /\ call' = [c \in Caller |-> IF c \in CallersOf(A) THEN Idle ELSE call[c]]

\* The heartbeat loop of the Python SDK sets two events; the request of the
\* task goes on.
AbortPy(a) ==
    /\ work' = [work EXCEPT ![a] = Aborted(@)]
    /\ call' = [call EXCEPT ![<<a, "beat">>] = Idle]
    /\ UNCHANGED late

\* Mutant: the requests of a task are not tied to the signal of its controller.
AbortTs_KeepsRequests(a) == AbortPy(a)
\* The heartbeat loop of the TypeScript SDK aborts the controller: the request
\* of the task fails at once; a component goes on until it returns.
AbortTs(a) ==
    IF work[a].step = "submit" THEN Ended({a}) ELSE AbortPy(a)

Abort(a) == IF sdk = "ts" THEN AbortTs(a) ELSE AbortPy(a)

\* Half of a lease, at least the one millisecond the loop sleeps.
HalfOf(left) == IF left < 2 THEN 1 ELSE left \div 2

-----------------------------------------------------------------------------
(* The claim loop.                                                         *)

\* Where the loop goes with n active tasks.  The TypeScript runner looks at the
\* stop at the head of its outer loop only: it goes on to claim up to its
\* concurrency, unless its client is fenced, as that of the demo worker is.
Onward(n, head) ==
    IF stopping /\ (head \/ sdk = "py") THEN "draining"
    ELSE IF n >= Concurrency \/ (stopping /\ Fenced) THEN "waiting"
    ELSE "claiming"

Claiming(l) == IF l = "claiming" THEN Asked("claim") ELSE Idle

\* Mutant: a shutdown has no bound.
Draining_Unbounded(l) == drain' = Never
Draining(l) == drain' = IF l = "draining" /\ sdk = "py" THEN Grace ELSE Never

\* The poll delay is over or a task has ended.
Wake ==
    /\ loop = "waiting"
    /\ loop' = Onward(Cardinality(Active), TRUE)
    /\ loop' # "waiting"
    /\ call' = [call EXCEPT ![Claimer] = Claiming(loop')]
    /\ Draining(loop')
    /\ UNCHANGED <<sdk, attempt, stopping, work, late, faults>>

\* The task and the heartbeat loop of an envelope whose lease has left ticks:
\* the TypeScript loop sleeps half of what remains, the Python loop beats at once.
Started(left) ==
    [step |-> "run", outcome |-> "none", aborted |-> FALSE,
     due |-> IF sdk = "py" THEN 0 ELSE HalfOf(left), sent |-> {}]

\* Mutant: a claim that is answered after the stop is dropped.
Claimed_DroppedByStop(a) ==
    /\ loop' = Onward(Cardinality(Active) + 1, FALSE)
    /\ work' = IF stopping THEN work ELSE [work EXCEPT ![a] = Started(call[Claimer].left)]
    /\ call' = [call EXCEPT ![Claimer] = Claiming(loop')]
    /\ Draining(loop')
    /\ UNCHANGED late
\* An envelope arrives: its task starts, and the loop goes on.
Claimed(a) ==
    /\ loop' = Onward(Cardinality(Active) + 1, FALSE)
    /\ work' = [work EXCEPT ![a] = Started(call[Claimer].left)]
    /\ call' = [call EXCEPT ![Claimer] = Claiming(loop')]
    /\ Draining(loop')
    /\ UNCHANGED late

\* No work, or the claim failed: the loop waits for the poll delay.
NotClaimed ==
    /\ loop' = "waiting"
    /\ call' = [call EXCEPT ![Claimer] = Idle]
    /\ UNCHANGED <<drain, work, late>>

Stop ==
    /\ ~stopping /\ stopping' = TRUE
    /\ UNCHANGED <<sdk, attempt, loop, drain, work, call, late, faults>>

\* All tasks have ended, or the time a Python shutdown gives them is over and
\* they are cancelled.
Stopped ==
    /\ loop = "draining" /\ (Active = {} \/ drain = 0)
    /\ loop' = "stopped" /\ drain' = Never
    /\ Ended(Active)
    /\ UNCHANGED <<sdk, attempt, stopping, faults>>

\* The process dies with all it was doing.
Kill ==
    /\ loop # "stopped" /\ faults < MaxFault
    /\ loop' = "stopped" /\ stopping' = TRUE /\ drain' = Never
    /\ work' = [a \in Attempt |-> IF a \in Active THEN Finished(work[a]) ELSE work[a]]
    /\ late' = late \cup Unserved(Caller)
    /\ call' = [c \in Caller |-> Idle]
    /\ faults' = faults + 1
    /\ UNCHANGED <<sdk, attempt>>

-----------------------------------------------------------------------------
(* The heartbeat loop.                                                     *)

Beat(a) ==
    /\ a \in Active /\ work[a].due = 0
    /\ work' = [work EXCEPT ![a].due = Never]
    /\ call' = [call EXCEPT ![<<a, "beat">>] = Asked("heartbeat")]
    /\ UNCHANGED <<sdk, attempt, loop, stopping, drain, late, faults>>

Renewed(a) ==
    /\ work' = [work EXCEPT ![a].due = IF sdk = "py" THEN Interval
                                       ELSE HalfOf(call[<<a, "beat">>].left)]
    /\ call' = [call EXCEPT ![<<a, "beat">>] = Idle]
    /\ UNCHANGED late

-----------------------------------------------------------------------------
(* The task of an attempt.                                                 *)

\* Mutant: a submission that fails is reported like a component that failed.
Over_ReportsFailure(a) ==
    IF call[<<a, "task">>].op = "result" /\ work[a].outcome = "completed" /\ ~work[a].aborted
    THEN /\ work' = [work EXCEPT ![a].outcome = "failed"]
         /\ call' = [call EXCEPT ![<<a, "task">>] = Asked("cancellation")]
         /\ UNCHANGED late
    ELSE Ended({a})
\* The task returns, whatever became of its submission.
Over(a) == Ended({a})

\* A task that has the outcome o to submit.
Returned(w, o) ==
    [step |-> "submit", outcome |-> o, aborted |-> w.aborted, due |-> w.due, sent |-> w.sent]

\* The component returns a result or throws: after a cancellation or a lost
\* lease the task ends, otherwise it asks whether it may still submit.
ComponentEnds(a) ==
    /\ work[a].step = "run"
    /\ \/ work[a].aborted /\ Over(a)
       \/ /\ ~work[a].aborted
          /\ \E o \in Outcome : work' = [work EXCEPT ![a] = Returned(@, o)]
          /\ call' = [call EXCEPT ![<<a, "task">>] = Asked("cancellation")]
          /\ UNCHANGED late
    /\ UNCHANGED <<sdk, attempt, loop, stopping, drain, faults>>

\* The observation lets the task submit.
Submit(a) ==
    /\ work' = [work EXCEPT ![a].sent = @ \cup {work[a].outcome}]
    /\ call' = [call EXCEPT ![<<a, "task">>] = Asked("result")]
    /\ UNCHANGED late

-----------------------------------------------------------------------------
(* Answers and failures of requests.                                       *)

\* What the caller c does with the answer w, which it does not repeat.
Handle(c, w) ==
    LET a == c[1]
    IN  CASE call[c].op = "claim" -> IF w \in Attempt THEN Claimed(w) ELSE NotClaimed
          [] call[c].op = "heartbeat" -> IF w = "continue" THEN Renewed(a) ELSE Abort(a)
          [] call[c].op = "cancellation" -> IF w = "continue" THEN Submit(a) ELSE Over(a)
          [] call[c].op = "result" -> Over(a)

Deliver(c) ==
    /\ Waiting(c) /\ call[c].answer # "none"
    /\ IF RetryableAnswer(call[c].answer) /\ MayRetry(c)
       THEN call' = Retried(c) /\ UNCHANGED <<loop, drain, work, late>>
       ELSE /\ Handle(c, call[c].answer)
            /\ (call[c].op # "claim" => UNCHANGED <<loop, drain>>)
    /\ UNCHANGED <<sdk, attempt, stopping, faults>>

\* A try fails: it takes too long, the connection breaks, the server answers
\* with a 5xx status.  The server may have handled the request or handle it later.
TryFails(c) ==
    /\ Waiting(c) /\ faults < MaxFault
    /\ faults' = faults + 1
    /\ IF MayRetry(c)
       THEN /\ call' = Retried(c)
            /\ late' = late \cup Unserved({c})
            /\ UNCHANGED <<loop, drain, work>>
       ELSE LET a == c[1]
            IN  CASE call[c].op = "claim" ->
                       /\ loop' = "waiting" /\ call' = [call EXCEPT ![c] = Idle]
                       /\ late' = late \cup Unserved({c}) /\ UNCHANGED <<drain, work>>
                  [] call[c].op = "heartbeat" -> Abort(a) /\ UNCHANGED <<loop, drain>>
                  [] call[c].op \in {"cancellation", "result"} -> Over(a) /\ UNCHANGED <<loop, drain>>
    /\ UNCHANGED <<sdk, attempt, stopping>>

\* What a tick later is left of a timer, a lease, a task and a request.
Less(n) == IF n = Never THEN Never ELSE n - 1
LaterRow(row) ==
    [status |-> row.status, result |-> row.result,
     lease |-> IF row.status = "leased" /\ row.lease > -Slack THEN row.lease - 1 ELSE row.lease]
LaterTask(w) ==
    [step |-> w.step, outcome |-> w.outcome, aborted |-> w.aborted, due |-> Less(w.due),
     sent |-> w.sent]
LaterCall(k) ==
    [op |-> k.op, try |-> k.try, wait |-> k.wait - 1, answer |-> k.answer,
     left |-> IF k.left = 0 THEN 0 ELSE k.left - 1]

\* Time passes unless a timer has run out.
Tick ==
    /\ drain # 0
    /\ \A c \in Caller : Waiting(c) => call[c].wait > 0
    /\ \A a \in Attempt : work[a].due # 0
    /\ attempt' = [a \in Attempt |-> LaterRow(attempt[a])]
    /\ work' = [a \in Attempt |-> LaterTask(work[a])]
    /\ call' = [c \in Caller |-> IF Waiting(c) THEN LaterCall(call[c]) ELSE Idle]
    /\ drain' = Less(drain)
    /\ UNCHANGED <<sdk, loop, stopping, late, faults>>

Next ==
    \/ \E c \in Caller : Serve(c) \/ Deliver(c) \/ TryFails(c)
    \/ \E q \in late : ServeLate(q)
    \/ \E a \in Attempt : EndAttempt(a) \/ Beat(a) \/ ComponentEnds(a)
    \/ Wake \/ Stop \/ Stopped \/ Kill \/ Tick

\* The event loop runs what is due and the server handles the requests it
\* has.  A component of the TypeScript SDK ends by itself; that a Python
\* component ends is not assumed.
Fairness ==
    /\ WF_vars(Tick) /\ WF_vars(Wake) /\ WF_vars(Stopped)
    /\ \A c \in Caller : WF_vars(Serve(c)) /\ WF_vars(Deliver(c))
    /\ \A a \in Attempt : WF_vars(Beat(a)) /\ WF_vars(sdk = "ts" /\ ComponentEnds(a))

Spec == Init /\ [][Next]_vars /\ Fairness

-----------------------------------------------------------------------------
TypeOK ==
    /\ sdk \in Sdks
    /\ attempt \in [Attempt -> [status : {"ready", "leased", "ended"}, lease : -Slack..Lease,
                                result : Outcome \cup {"none"}]]
    /\ loop \in {"waiting", "claiming", "draining", "stopped"}
    /\ stopping \in BOOLEAN /\ drain \in Never..Grace
    /\ work \in [Attempt -> [step : {"none", "run", "submit", "over"}, outcome : Outcome \cup {"none"},
                             aborted : BOOLEAN, due : Never..(Lease + Interval), sent : SUBSET Outcome]]
    /\ call \in [Caller -> [op : Op \cup {"none"}, try : 0..(Retries + 1), wait : 0..Timeout,
                            answer : Answer, left : 0..Lease]]
    /\ faults \in 0..MaxFault
    /\ Cardinality(Active) <= Concurrency
    /\ \A a \in Attempt : call[<<a, "beat">>].try <= Retries

\* One result is sent for an attempt, however many requests carry it: a
\* submission that fails is never followed by a report of failure, which the
\* server would refuse as a conflicting result, or take in its place.
OneResultPerAttempt == \A a \in Attempt : Cardinality(work[a].sent) <= 1

\* Every attempt that is leased to the worker without a task for it, and that
\* no answer still brings, is the work of a failed claim or of a kill: such an
\* attempt is taken back by a restart of the control plane only.
OrphansAreFaults ==
    Cardinality({a \in Attempt : /\ attempt[a].status = "leased" /\ work[a].step = "none"
                                 /\ call[Claimer].answer # a}) <= faults

\* In the TypeScript SDK no result is sent once the task knows that its lease is
\* lost or its attempt cancelled: its requests end with the controller.
SubmissionFencedTs ==
    [][sdk = "ts" => \A a \in Attempt : work[a].aborted => work'[a].sent = work[a].sent]_vars

\* A stop ends the worker: no task and no request keeps it for ever.
StopEnds == stopping ~> loop = "stopped"

=============================================================================
