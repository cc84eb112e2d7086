---------------------------- MODULE OperatorRuns ----------------------------
(***************************************************************************)
(* A run as its operators see it: the answers of the operator API while    *)
(* workers' results are committed and the run is cancelled.                *)
(*                                                                         *)
(* Every answer is put together from several SQL statements, each with its *)
(* own snapshot (READ COMMITTED), so it need not be one of a single        *)
(* moment: what the statements see of the transactions below decides what  *)
(* an operator can rely on:                                                *)
(*   - a commit (ExecutionCommitService.commit) locks the attempt and the  *)
(*     execution, then the region FOR UPDATE, then writes;                 *)
(*   - a cancellation (OperatorCommandService.cancelRun) locks the row of  *)
(*     the run, inserts its command, whose foreign key takes the region    *)
(*     FOR KEY SHARE and so waits for a commit that holds it, inserts its  *)
(*     event, and then locks deliveries and executions: the opposite       *)
(*     order, so the two can deadlock and Postgres aborts one of them.     *)
(* The id of an event is a UUIDv7: made before the row is visible.  What   *)
(* keeps a reader's cursor from passing an event that is not visible yet   *)
(* is only that ids are made while the region is held.  Ids are taken from *)
(* one clock that never stands still or goes back; createUuidV7 has no more*)
(* than the milliseconds of the host and random bits after them.           *)
(*                                                                         *)
(* One region, one run, and one command with the correlation of the run:   *)
(* the API lets a caller choose the correlation of a command, but the      *)
(* acceptance of a second one holds the region FOR KEY SHARE only, so      *)
(* nothing orders its event.  No component joins inputs: every delivery has*)
(* an execution of its own, where the inputs a trigger is joined with would*)
(* share its execution and have no row in executions.  Leases do not expire*)
(* and the poll is one step: ExecutionLifecycle has the rest.              *)
(***************************************************************************)
EXTENDS Naturals, FiniteSets

CONSTANTS
    Deliveries,    \* ids of the deliveries the run can have
    Routed,        \* those the command of the run is routed to
    Requests,      \* clientRequestIds of cancellations
    Artifacts,     \* ids of the artifacts executions can publish
    Limit,         \* rows of a page
    MaxFailures,   \* attempts of an execution that may fail
    MaxCalls       \* cancellations that reach the database

ASSUME DeliveriesAssumption ==
    /\ Deliveries \subseteq Nat \ {0} /\ IsFiniteSet(Deliveries)
    /\ Routed \subseteq Deliveries /\ Routed # {}
ASSUME BoundsAssumption ==
    /\ Artifacts \subseteq Nat \ {0} /\ Artifacts # {}
    /\ Limit \in Nat \ {0} /\ MaxFailures \in Nat /\ MaxCalls \in Nat

VARIABLES
    delivery,      \* status of each delivery
    execution,     \* status of its execution; "cancelled" is failed with the
                   \* code operator_cancelled
    failures,      \* its attempts that failed
    published,     \* id of the event of its output, 0 if there is none
    artifact,      \* id of the artifact it published, 0 if there is none
    approval,      \* the approval its external action asks for
    events,        \* ids of the run's events that are committed
    clock,         \* the next UUIDv7
    commit,        \* phase of the commit transaction of each delivery
    cancel,        \* phase of the cancellation of each request
    output,        \* id a commit has made for its event, 0 if there is none
    notice,        \* id a cancellation has made for its event
    seen,          \* the deliveries the cancellation under way has locked
    done,          \* requests whose cancellation is committed
    calls,         \* cancellations begun
    reader,        \* what the client of the API is reading
    received,      \* ids of the events the client has handled
    resume         \* the resume cursor it has kept

database == <<delivery, execution, failures, published, artifact, approval, events>>
writers == <<clock, commit, cancel, output, notice, seen, done, calls>>
client == <<reader, received, resume>>
vars == <<database, writers, client>>

TerminalDeliveries == {"completed", "dead_lettered", "cancelled"}
DeliveryStatuses == {"none", "ready", "leased"} \cup TerminalDeliveries
ExecutionStatuses == {"none", "running", "completed", "failed", "cancelled"}
CommitPhases == {"idle", "executing", "publishing", "failing"}
CancelPhases == {"idle", "begun", "holding", "collected"}
TerminalStatuses == {"completed", "failed", "cancelled"}

Idle == [op |-> "idle"]
NoRows == [d \in Deliveries |-> "none"]

-----------------------------------------------------------------------------
(* The transactions.                                                       *)

CommitHoldsRegion == \E d \in Deliveries : commit[d] \in {"publishing", "failing"}
CancelHoldsRegion == \E r \in Requests : cancel[r] \in {"holding", "collected"}

\* EventService.insert in a transaction: the event is visible when it commits.
EventCommitted(id) == events' = events \cup {id}

\* The poll: a ready delivery that no cancellation has locked is leased and its
\* execution runs.  The delivery of a retry keeps its execution.
Lease(d) ==
    /\ delivery[d] = "ready"
    /\ d \notin seen
    /\ delivery' = [delivery EXCEPT ![d] = "leased"]
    /\ execution' = [execution EXCEPT ![d] = "running"]
    /\ UNCHANGED <<failures, published, artifact, approval, events, writers, client>>

\* A result has been submitted: its commit locks the attempt and the execution,
\* which must still run.
LockExecution(d) ==
    /\ commit[d] = "idle"
    /\ delivery[d] = "leased"
    /\ execution[d] = "running"
    /\ commit' = [commit EXCEPT ![d] = "executing"]
    /\ UNCHANGED <<database, clock, cancel, output, notice, seen, done, calls, client>>

\* Mutant: the commit takes the region FOR NO KEY UPDATE, which lets the foreign
\* key of a cancellation's command pass.
LockRegion_NoKey(d) ==
    /\ commit[d] = "executing"
    /\ ~CommitHoldsRegion
    /\ \/ /\ commit' = [commit EXCEPT ![d] = "publishing"]
          /\ output' = [output EXCEPT ![d] = clock]
          /\ clock' = clock + 1
       \/ /\ commit' = [commit EXCEPT ![d] = "failing"]
          /\ UNCHANGED <<output, clock>>
    /\ UNCHANGED <<database, cancel, notice, seen, done, calls, client>>

\* The commit takes the region FOR UPDATE.  A completed result then publishes
\* its output: the event gets its id.
LockRegion(d) ==
    /\ commit[d] = "executing"
    /\ ~CommitHoldsRegion
    /\ ~CancelHoldsRegion
    /\ \/ /\ commit' = [commit EXCEPT ![d] = "publishing"]
          /\ output' = [output EXCEPT ![d] = clock]
          /\ clock' = clock + 1
       \/ /\ commit' = [commit EXCEPT ![d] = "failing"]
          /\ UNCHANGED <<output, clock>>
    /\ UNCHANGED <<database, cancel, notice, seen, done, calls, client>>

\* The end of the commit of a completed result: the output is visible and is
\* routed to the deliveries of `children`.
Complete(d) ==
    /\ commit[d] = "publishing"
    /\ \E a \in Artifacts : artifact' = [artifact EXCEPT ![d] = a]
    /\ \E children \in SUBSET {c \in Deliveries : delivery[c] = "none"} :
          delivery' = [c \in Deliveries |->
                          IF c = d THEN "completed"
                          ELSE IF c \in children THEN "ready" ELSE delivery[c]]
    /\ execution' = [execution EXCEPT ![d] = "completed"]
    /\ published' = [published EXCEPT ![d] = output[d]]
    /\ EventCommitted(output[d])
    /\ commit' = [commit EXCEPT ![d] = "idle"]
    /\ output' = [output EXCEPT ![d] = 0]
    /\ UNCHANGED <<failures, approval, clock, cancel, notice, seen, done, calls, client>>

\* The end of the commit of a failed result: a retry, or the dead letter.
Fail(d) ==
    /\ commit[d] = "failing"
    /\ failures' = [failures EXCEPT ![d] = @ + 1]
    /\ \/ /\ failures[d] + 1 < MaxFailures
          /\ delivery' = [delivery EXCEPT ![d] = "ready"]
          /\ UNCHANGED execution
       \/ /\ delivery' = [delivery EXCEPT ![d] = "dead_lettered"]
          /\ execution' = [execution EXCEPT ![d] = "failed"]
    /\ commit' = [commit EXCEPT ![d] = "idle"]
    /\ UNCHANGED <<published, artifact, approval, events, clock, cancel, output, notice,
                   seen, done, calls, client>>

\* A request to cancel the run has the row of the run.  A request that is
\* committed is answered from what it left ("replayed") and changes nothing.
BeginCancel(r) ==
    /\ r \notin done
    /\ \A q \in Requests : cancel[q] = "idle"
    /\ calls < MaxCalls
    /\ cancel' = [cancel EXCEPT ![r] = "begun"]
    /\ calls' = calls + 1
    /\ UNCHANGED <<database, clock, commit, output, notice, seen, done, client>>

\* Its command is inserted: the foreign key holds the region until the end, and
\* waits for a commit that has it.  The event of the cancellation gets its id.
HoldRegion(r) ==
    /\ cancel[r] = "begun"
    /\ ~CommitHoldsRegion
    /\ cancel' = [cancel EXCEPT ![r] = "holding"]
    /\ notice' = [notice EXCEPT ![r] = clock]
    /\ clock' = clock + 1
    /\ UNCHANGED <<database, commit, output, seen, done, calls, client>>

\* The deliveries of the run, as one snapshot has them, are locked.
CollectDeliveries(r) ==
    /\ cancel[r] = "holding"
    /\ cancel' = [cancel EXCEPT ![r] = "collected"]
    /\ seen' = {d \in Deliveries : delivery[d] # "none"}
    /\ UNCHANGED <<database, clock, commit, output, notice, done, calls, client>>

\* Mutant: the cancellation skips the executions that are locked.
EndCancel_SkipLocked(r) ==
    LET free == {d \in seen : commit[d] = "idle"} IN
    /\ cancel[r] = "collected"
    /\ delivery' = [d \in Deliveries |->
                       IF d \in free /\ delivery[d] \in {"ready", "leased"}
                       THEN "cancelled" ELSE delivery[d]]
    /\ execution' = [d \in Deliveries |->
                       IF d \in free /\ execution[d] = "running"
                       THEN "cancelled" ELSE execution[d]]
    /\ EventCommitted(notice[r])
    /\ cancel' = [cancel EXCEPT ![r] = "idle"]
    /\ notice' = [notice EXCEPT ![r] = 0]
    /\ seen' = {}
    /\ done' = done \cup {r}
    /\ UNCHANGED <<failures, published, artifact, approval, clock, commit, output, calls,
                   client>>

\* The executions of these deliveries are locked, which waits for the commits
\* that have them; what is not terminal is cancelled.
EndCancel(r) ==
    /\ cancel[r] = "collected"
    /\ \A d \in seen : commit[d] = "idle"
    /\ delivery' = [d \in Deliveries |->
                       IF d \in seen /\ delivery[d] \in {"ready", "leased"}
                       THEN "cancelled" ELSE delivery[d]]
    /\ execution' = [d \in Deliveries |->
                       IF d \in seen /\ execution[d] = "running"
                       THEN "cancelled" ELSE execution[d]]
    /\ EventCommitted(notice[r])
    /\ cancel' = [cancel EXCEPT ![r] = "idle"]
    /\ notice' = [notice EXCEPT ![r] = 0]
    /\ seen' = {}
    /\ done' = done \cup {r}
    /\ UNCHANGED <<failures, published, artifact, approval, clock, commit, output, calls,
                   client>>

\* A commit that waits for the region and a cancellation that waits for its
\* execution: Postgres aborts one.  The worker sends the result again, the
\* operator the request.
AbortCommit(d) ==
    /\ commit[d] = "executing"
    /\ \E r \in Requests : cancel[r] = "collected"
    /\ commit' = [commit EXCEPT ![d] = "idle"]
    /\ UNCHANGED <<database, clock, cancel, output, notice, seen, done, calls, client>>

AbortCancel(r) ==
    /\ cancel[r] = "collected"
    /\ \E d \in seen : commit[d] = "executing"
    /\ cancel' = [cancel EXCEPT ![r] = "idle"]
    /\ notice' = [notice EXCEPT ![r] = 0]
    /\ seen' = {}
    /\ UNCHANGED <<database, clock, commit, output, done, calls, client>>

\* The external action of a completed execution asks for an approval.
RequestApproval(d) ==
    /\ execution[d] = "completed"
    /\ approval[d] = "none"
    /\ approval' = [approval EXCEPT ![d] = "requested"]
    /\ UNCHANGED <<delivery, execution, failures, published, artifact, events, writers, client>>

DecideApproval(d) ==
    /\ approval[d] = "requested"
    /\ approval' = [approval EXCEPT ![d] = "decided"]
    /\ UNCHANGED <<delivery, execution, failures, published, artifact, events, writers, client>>

-----------------------------------------------------------------------------
(* Answers of several statements.                                          *)

\* The status of a run by the statuses of its deliveries and of the executions
\* of these.
RunStatus(deliveries, executions) ==
    LET Some(statuses, rows) ==
            \E d \in Deliveries : deliveries[d] # "none" /\ rows[d] \in statuses
    IN CASE Some({"running"}, executions) -> "running"
         [] ~Some({"running"}, executions) /\ Some({"ready", "leased"}, deliveries) -> "queued"
         [] OTHER ->
              IF Some({"cancelled"}, executions) \/ Some({"cancelled"}, deliveries) THEN "cancelled"
              ELSE IF Some({"failed"}, executions) THEN "failed"
              ELSE IF Some({"completed"}, executions) THEN "completed"
              ELSE "accepted"

\* getRunStatus, getRunTopology and inspectRunTrace read the deliveries of the
\* run, then the executions, then outputs and events; each ends where its
\* answer has what it needs.
ReadDeliveries ==
    /\ reader = Idle
    /\ reader' = [op |-> "executions", deliveries |-> delivery]
    /\ UNCHANGED <<database, writers, received, resume>>

\* Mutant: the executions are read before the deliveries.
ReadExecutions_First ==
    /\ \/ /\ reader = Idle
          /\ reader' = [op |-> "deliveries", executions |-> execution]
       \/ /\ reader.op = "deliveries"
          /\ reader' = [op |-> "events", deliveries |-> delivery,
                        executions |-> reader.executions]
    /\ UNCHANGED <<database, writers, received, resume>>

ReadExecutions ==
    /\ reader.op = "executions"
    /\ reader' = [op |-> "events", deliveries |-> reader.deliveries,
                  executions |-> execution]
    /\ UNCHANGED <<database, writers, received, resume>>

ReadEvents ==
    /\ reader.op = "events"
    /\ reader' = [op |-> "answer", deliveries |-> reader.deliveries,
                  executions |-> reader.executions, events |-> events]
    /\ UNCHANGED <<database, writers, received, resume>>

\* The relations of the topology: connections and components are as old as the
\* revision, so these are the deliveries and the executions it has.  The source
\* of execution_delivery is a delivery that need not be in the answer.
Relations(deliveries, executions) ==
         {<<"delivery_target", d>> : d \in {c \in Deliveries : deliveries[c] # "none"}}
    \cup {<<"execution_delivery", d>> : d \in {c \in Deliveries : executions[c] # "none"}}

\* What the rows that have been read say.
StatusAnswer == RunStatus(reader.deliveries, reader.executions)
TopologyAnswer == Relations(reader.deliveries, reader.executions)

-----------------------------------------------------------------------------
(* Pages.                                                                  *)

\* The n smallest members of a set of ids.
Smallest(S, n) == {x \in S : Cardinality({y \in S : y < x}) < n}
Largest(S) == CHOOSE x \in S : \A y \in S : y <= x

\* The rows of the lists that are ordered by id: an artifact has one row however
\* many executions published it, and may be older than the run.
ArtifactRows == {artifact[d] : d \in Deliveries} \ {0}
ApprovalRows == {d \in Deliveries : approval[d] = "requested"}
Rows(list) ==
    CASE list = "events" -> events
      [] list = "artifacts" -> ArtifactRows
      [] list = "approvals" -> ApprovalRows

\* The place of an alert in the order of the keys severity, kind and id.
AlertKey(kind, d) == kind * (1 + Largest(Deliveries)) + d

\* The alerts of the run: dead letters, failed executions, approvals required and
\* repeated failures.  Blocked regions, budget pressure and stale projections
\* come, and go, as approvals do.
Alerts(deliveries, executions) ==
         {AlertKey(1, d) : d \in {c \in Deliveries : deliveries[c] = "dead_lettered"}}
    \cup {AlertKey(2, d) : d \in {c \in Deliveries : executions[c] = "failed"}}
    \cup {AlertKey(3, d) : d \in {c \in Deliveries : approval[c] = "requested"}}
    \cup {AlertKey(4, d) : d \in {c \in Deliveries :
                                    executions[c] # "none" /\ failures[c] >= 2}}

\* The cursor a client sends first: that of the events is the one it has kept,
\* which names the run and the last event it has.
Cursor(list) == IF list = "events" THEN resume ELSE 0

\* A client starts to read a list.
StartPass(list) ==
    /\ reader = Idle
    /\ LET rows == IF list = "alerts" THEN Alerts(delivery, execution) ELSE Rows(list)
       IN reader' = [op |-> "page", list |-> list, cursor |-> Cursor(list), got |-> {},
                     there |-> {x \in rows : x > Cursor(list)}, twice |-> FALSE,
                     first |-> "none", rows |-> NoRows]
    /\ UNCHANGED <<database, writers, received, resume>>

\* The client has a page with these items of these rows: the cursor of the next
\* one is that of the last item.
Received(items, rows, more, cursor) ==
    reader' = [reader EXCEPT
                 !.op = IF more THEN "page" ELSE "end",
                 !.first = "none", !.rows = NoRows,
                 !.cursor = cursor,
                 !.got = @ \cup items,
                 !.there = @ \cap rows,
                 !.twice = @ \/ items \cap reader.got # {}]

\* One page of a list that is ordered by id.  The client of the run's events
\* keeps the resume cursor when it has caught up.
Page(list) ==
    /\ reader.op = "page" /\ reader.list = list /\ list # "alerts"
    /\ LET rows == Smallest({x \in Rows(list) : x > reader.cursor}, Limit + 1)
           items == Smallest(rows, Limit)
           cursor == IF items = {} THEN reader.cursor ELSE Largest(items)
           more == Cardinality(rows) > Limit
       IN /\ Received(items, Rows(list), more, cursor)
          /\ IF list = "events"
             THEN /\ received' = received \cup items
                  /\ resume' = IF more THEN resume ELSE cursor
             ELSE UNCHANGED <<received, resume>>
    /\ UNCHANGED <<database, writers>>

\* The statements of a page of alerts run side by side: the first one reads
\* either the deliveries or the executions.
ReadAlerts ==
    /\ reader.op = "page" /\ reader.list = "alerts"
    /\ \E first \in {"deliveries", "executions"} :
          reader' = [reader EXCEPT !.op = "project", !.first = first,
                        !.rows = IF first = "deliveries" THEN delivery ELSE execution]
    /\ UNCHANGED <<database, writers, received, resume>>

\* The projection of the alerts when the other statements have been read.
Projected == IF reader.first = "deliveries" THEN Alerts(reader.rows, execution)
                                            ELSE Alerts(delivery, reader.rows)

\* Mutant: the cursor is the number of alerts the client has.
After_Offset(alerts) == alerts \ Smallest(alerts, Cardinality(reader.got))

\* The alerts after the one the cursor names.
After(alerts) == {x \in alerts : x > reader.cursor}

\* A page of alerts: of the projection, after the alert the cursor names; when
\* that one has gone the cursor has expired and the client starts again.
PageOfAlerts ==
    /\ reader.op = "project"
    /\ IF reader.cursor # 0 /\ reader.cursor \notin Projected
       THEN reader' = Idle
       ELSE LET items == Smallest(After(Projected), Limit)
                cursor == IF items = {} THEN reader.cursor ELSE Largest(items)
            IN Received(items, Projected, After(Projected) # items, cursor)
    /\ UNCHANGED <<database, writers, received, resume>>

\* The client has its answer, or is restarted before: what it had not kept is
\* lost.
Forget ==
    /\ reader # Idle
    /\ reader' = Idle
    /\ UNCHANGED <<database, writers, received, resume>>

-----------------------------------------------------------------------------
Init ==
    /\ delivery = [d \in Deliveries |-> IF d \in Routed THEN "ready" ELSE "none"]
    /\ execution = [d \in Deliveries |-> "none"]
    /\ failures = [d \in Deliveries |-> 0]
    /\ published = [d \in Deliveries |-> 0]
    /\ artifact = [d \in Deliveries |-> 0]
    /\ approval = [d \in Deliveries |-> "none"]
    /\ events = {1}                          \* command.accepted
    /\ clock = 2
    /\ commit = [d \in Deliveries |-> "idle"]
    /\ cancel = [r \in Requests |-> "idle"]
    /\ output = [d \in Deliveries |-> 0]
    /\ notice = [r \in Requests |-> 0]
    /\ seen = {}
    /\ done = {}
    /\ calls = 0
    /\ reader = Idle
    /\ received = {}
    /\ resume = 0

Lists == {"events", "artifacts", "approvals", "alerts"}

Write ==
    \/ \E d \in Deliveries :
          Lease(d) \/ LockExecution(d) \/ LockRegion(d) \/ Complete(d) \/ Fail(d)
            \/ AbortCommit(d) \/ RequestApproval(d) \/ DecideApproval(d)
    \/ \E r \in Requests :
          BeginCancel(r) \/ HoldRegion(r) \/ CollectDeliveries(r) \/ EndCancel(r)
            \/ AbortCancel(r)

Read ==
    \/ ReadDeliveries \/ ReadExecutions \/ ReadEvents
    \/ \E list \in Lists : StartPass(list) \/ Page(list)
    \/ ReadAlerts \/ PageOfAlerts
    \/ Forget

Next == Write \/ Read

Spec == Init /\ [][Next]_vars

-----------------------------------------------------------------------------
(* Properties.                                                             *)

\* The database and the cursors are of the types the schema gives them.
TypeOK ==
    /\ delivery \in [Deliveries -> DeliveryStatuses]
    /\ execution \in [Deliveries -> ExecutionStatuses]
    /\ failures \in [Deliveries -> Nat]
    /\ published \in [Deliveries -> Nat]
    /\ artifact \in [Deliveries -> Artifacts \cup {0}]
    /\ approval \in [Deliveries -> {"none", "requested", "decided"}]
    /\ events \subseteq Nat \ {0}
    /\ clock \in Nat \ {0}
    /\ commit \in [Deliveries -> CommitPhases]
    /\ cancel \in [Requests -> CancelPhases]
    /\ output \in [Deliveries -> Nat]
    /\ notice \in [Requests -> Nat]
    /\ seen \subseteq Deliveries
    /\ done \subseteq Requests
    /\ calls \in Nat
    /\ received \subseteq Nat
    /\ resume \in Nat

\* A committed cancellation leaves nothing of the run to do, and nothing comes
\* back: neither a commit that was under way when cancelRun took its snapshot
\* nor the deliveries such a commit would route.  cancelRun does not look for
\* them; the foreign key of its command and the row locks do.
CancelReachesEverything ==
    done # {} =>
        \A d \in Deliveries : /\ delivery[d] \in TerminalDeliveries \cup {"none"}
                              /\ execution[d] # "running"

\* A delivery the answer knows only by its execution.
Missing(d) == /\ <<"execution_delivery", d>> \in TopologyAnswer
              /\ <<"delivery_target", d>> \notin TopologyAnswer

\* An answer of several statements lags behind itself only while it shows open
\* work.  A terminal status of getRunStatus is, and stays, the status of the run.
\* A relation of getRunTopology to a delivery that is missing, since that was
\* routed and leased between the statements, comes with a delivery that is ready
\* or leased.  The other way round there is no gap: what was taken up comes with
\* its execution in a status that fits, what has completed with the event of its
\* output in inspectRunTrace.
AnswersLagOnlyWhileOpen ==
    reader.op = "answer" =>
        /\ StatusAnswer \in TerminalStatuses => StatusAnswer = RunStatus(delivery, execution)
        /\ (\E d \in Deliveries : Missing(d)) =>
              \E c \in Deliveries : reader.deliveries[c] \in {"ready", "leased"}
        /\ \A d \in Deliveries :
              /\ reader.deliveries[d] \in {"leased", "completed", "dead_lettered"} =>
                    <<"execution_delivery", d>> \in TopologyAnswer
              /\ reader.deliveries[d] = "completed" => reader.executions[d] = "completed"
              /\ reader.deliveries[d] = "dead_lettered" => reader.executions[d] = "failed"
              /\ reader.executions[d] = "completed" => published[d] \in reader.events

\* A client that polls the run's events with the resume cursor it has kept has
\* handled every event the cursor has passed, whatever was being committed when
\* it read, and however often it is restarted.
NoEventIsMissed == \A x \in events : x <= resume => x \in received

\* A client that reads a list to its end has every row that was there all the
\* time, and none twice, while rows come, go and are decided between its pages.
PassIsComplete ==
    reader.op = "end" => reader.there \subseteq reader.got /\ ~reader.twice
=============================================================================
