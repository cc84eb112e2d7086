------------------------- MODULE ExecutionLifecycle -------------------------
(***************************************************************************)
(* The durable execution core of one region: deliveries, executions,       *)
(* attempts, worker result submissions and concurrency reservations, as    *)
(* the rows of PostgreSQL tables.  An action is one database transaction   *)
(* of ExecutionLeaseService, WorkerProtocolService, ExecutionCommitService,*)
(* OperatorCommandService or StartupRecoveryService; workers, operators    *)
(* and crashes are the environment.                                        *)
(*                                                                         *)
(* Abstractions.  A timestamp is the number of ticks left until it is      *)
(* reached, 0 once it has passed ("x <= now" is "x = 0").  An execution is *)
(* named by its trigger delivery: executions.delivery_id is unique.  A     *)
(* lease token is named by the attempt it was minted for: an attempt is    *)
(* leased once and tokens are 32 fresh random bytes.  A payload, an        *)
(* artifact or an event is left out; a result is the way it ends.          *)
(***************************************************************************)
EXTENDS Integers, FiniteSets, Functions

CONSTANTS
  Delivery,          \* delivery ids (UUIDv7), which order candidates
  Component,         \* component instances of the active topology
  Port,              \* input port names
  Run,               \* correlation ids
  Required,          \* Component -> its required input ports
  Optional,          \* Component -> its optional input ports
  Expected,          \* slot -> deliveries that complete the port (fan-in)
  Ingress,           \* the slots each command type is routed to
  Routes,            \* Component -> the slots its output is routed to
  Results,           \* the ways a worker may end an attempt
  MaxAttempts,       \* MAX_ATTEMPTS of the recovery service
  RetryBackoff,      \* RETRY_BACKOFF_MS of the commit service, in ticks
  LeaseTicks,        \* lease duration
  RecheckTicks,      \* INCOMPLETE_GROUP_RECHECK_MS
  ConcurrencyLimit,  \* the region's concurrent_executions budget
  ResultBatch,       \* resultCommitBatchSize
  MaxCommands,       \* bound on accepted commands
  MaxCrashes         \* bound on control-plane crashes

Slot == Component \X Port
Group == Component \X Run
Attempt == Delivery \X (1..MaxAttempts)
NoAttempt == <<0, 0>>

ASSUME DeliveryAssumption == Delivery \subseteq Nat \ {0}

ASSUME TopologyAssumption ==
  /\ Required \in [Component -> SUBSET Port]
  /\ Optional \in [Component -> SUBSET Port]
  /\ Expected \in [Slot -> Nat \ {0}]
  /\ Ingress \subseteq SUBSET Slot
  /\ Routes \in [Component -> SUBSET Slot]

ASSUME PolicyAssumption ==
  /\ Results \subseteq {"completed", "retryable", "failed", "cancelled", "invalid"}
  /\ MaxAttempts \in Nat \ {0}
  /\ RetryBackoff \in [1..(MaxAttempts - 1) -> Nat]
  /\ LeaseTicks \in Nat \ {0}
  /\ RecheckTicks \in Nat \ {0}
  /\ ConcurrencyLimit \in Nat
  /\ ResultBatch \in Nat
  /\ MaxCommands \in Nat
  /\ MaxCrashes \in Nat

VARIABLES
  commands, \* number of rows in commands
  region,   \* regions.lifecycle_status
  epoch,    \* regions.lifecycle_epoch
  del,      \* deliveries
  exe,      \* executions, with their execution_inputs
  att,      \* execution_attempts
  sub,      \* worker_result_submissions
  out,      \* attempts whose outputs are committed, be they none
  resv,     \* resource_reservations of concurrent_executions
  phase,    \* what the control-plane process is doing
  todo,     \* attempts the current recovery step has still to visit
  crashes   \* crashes so far

rows == <<del, exe, att, sub, out, resv>>
control == <<phase, todo, crashes>>
lifecycle == <<commands, region, epoch>>
vars == <<lifecycle, rows, control>>

Absent == "absent"
ActiveStatus == {"leased", "running"}
OpenStatus == {"pending"} \cup ActiveStatus

DeliveryRow == [comp : Component \cup {Absent}, port : Port \cup {Absent},
                run : Run \cup {Absent},
                status : {Absent, "ready", "leased", "completed", "dead_lettered", "cancelled"},
                due : Nat, lease : Nat, token : Attempt \cup {NoAttempt}]
ExecutionRow == [status : {Absent, "running", "completed", "failed"},
                 inputs : SUBSET Delivery, epoch : Nat]
AttemptRow == [status : {Absent, "completed", "failed", "cancelled", "abandoned"} \cup OpenStatus,
               lease : Nat, due : Nat]
SubmissionRow == [state : {"none", "pending", "committed"}, result : Results \cup {"none"}]

NoDelivery == [comp |-> Absent, port |-> Absent, run |-> Absent, status |-> Absent,
               due |-> 0, lease |-> 0, token |-> NoAttempt]
NoSubmission == [state |-> "none", result |-> "none"]

TypeOK ==
  /\ commands \in 0..MaxCommands
  /\ region \in {"running", "cancelling", "cancelled"}
  /\ epoch \in Nat
  /\ del \in [Delivery -> DeliveryRow]
  /\ exe \in [Delivery -> ExecutionRow]
  /\ att \in [Attempt -> AttemptRow]
  /\ sub \in [Attempt -> SubmissionRow]
  /\ out \subseteq Attempt
  /\ resv \in [Delivery -> {"none", "reserved", "released"}]
  /\ phase \in {"up", "down", "committing", "abandoning", "exposing", "settling"}
  /\ todo \subseteq Attempt
  /\ crashes \in 0..MaxCrashes

Exists(d) == del[d].status # Absent
Active(a) == att[a].status \in ActiveStatus
Open(a) == att[a].status \in OpenStatus
Inputs(a) == exe[a[1]].inputs

-----------------------------------------------------------------------------
(* Row updates shared by the transactions.                                 *)

Unleased(row, status) == [row EXCEPT !.status = status, !.lease = 0, !.token = NoAttempt]
Readied(row, ticks) == [Unleased(row, "ready") EXCEPT !.due = ticks]
Leased(row, a) == [row EXCEPT !.status = "leased", !.lease = LeaseTicks, !.token = a]
EndedAttempt(status) == [status |-> status, lease |-> 0, due |-> 0]
PendingAttempt(ticks) == [status |-> "pending", lease |-> 0, due |-> ticks]
NewDelivery(slot, run) ==
  [comp |-> slot[1], port |-> slot[2], run |-> run,
   status |-> "ready", due |-> 0, lease |-> 0, token |-> NoAttempt]

\* Mutants: the attempt that ends is forgotten; no attempt is inserted.
WithReplacement_KeepsActive(table, a, ticks) ==
  [att EXCEPT ![<<a[1], a[2] + 1>>] = PendingAttempt(ticks)]
WithReplacement_Omitted(table, a, ticks) == table

\* Insert attempt n + 1 unless the row exists ("on conflict do nothing").
WithReplacement(table, a, ticks) ==
  LET b == <<a[1], a[2] + 1>>
  IN  IF table[b].status = Absent
      THEN [table EXCEPT ![b] = PendingAttempt(ticks)]
      ELSE table

\* The trigger on executions that releases reservations at a terminal status.
ReleaseTerminalAdmission ==
  resv' = [e \in Delivery |->
             IF /\ exe'[e].status \in {"completed", "failed"}
                /\ exe'[e].status # exe[e].status
                /\ resv[e] = "reserved"
             THEN "released" ELSE resv[e]]

Unused == {d \in Delivery : ~Exists(d)}

\* The ways to insert one delivery per slot.  Ids are random within a millisecond,
\* so a delivery may sort before one that was there already.
Insertions(slots) == UNION {Bijection(ids, slots) : ids \in SUBSET Unused}

\* The ways to publish any number of staged artifacts, none included, each routed
\* to slots connected to its output port; which port an artifact is staged for is
\* the worker's choice, so a connected slot may get none, one or several of them.
\* Where one port leads to several slots this allows more than the code does.
Emissions(slots) == UNION {[ids -> slots] : ids \in {S \in SUBSET Unused : IsFiniteSet(S)}}

-----------------------------------------------------------------------------
(* Commands: one delivery per ingress slot of the command type.            *)

SubmitCommand(run, slots) ==
  /\ phase = "up"
  /\ commands < MaxCommands
  /\ commands' = commands + 1
  /\ \E new \in Insertions(slots) :
       del' = [d \in Delivery |-> IF d \in DOMAIN new THEN NewDelivery(new[d], run) ELSE del[d]]
  /\ UNCHANGED <<region, epoch, exe, att, sub, out, resv, control>>

-----------------------------------------------------------------------------
(* Leasing.  A group is what one poll joins: component and correlation.    *)

Due(g) == {d \in Delivery : /\ del[d].status = "ready" /\ del[d].due = 0
                            /\ del[d].comp = g[1] /\ del[d].run = g[2]}
OnPort(g, p) == {d \in Due(g) : del[d].port = p}
\* Mutant: a port is complete with at least the expected deliveries.
Filled_AtLeast(g, p) == Cardinality(OnPort(g, p)) >= Expected[<<g[1], p>>]
Filled(g, p) == Cardinality(OnPort(g, p)) = Expected[<<g[1], p>>]
Overfilled(g, p) == Cardinality(OnPort(g, p)) > Expected[<<g[1], p>>]

PortsComplete(g) ==
  /\ \A p \in Required[g[1]] : Filled(g, p)
  /\ \A p \in Optional[g[1]] : ~Overfilled(g, p)

Selected(g) ==
  UNION {OnPort(g, p) : p \in Required[g[1]] \cup {q \in Optional[g[1]] : Filled(g, q)}}

IsTrigger(e, S) == e \in S /\ \A d \in S : e <= d

Reserved == {e \in Delivery : resv[e] = "reserved"}
Admitted == Cardinality(Reserved) < ConcurrencyLimit

\* The pending attempt a retry of e leases: the lowest one whose start has come.
DueAttempts(e) == {n \in 1..MaxAttempts : att[<<e, n>>].status = "pending" /\ att[<<e, n>>].due = 0}
IsNextAttempt(e, n) == n \in DueAttempts(e) /\ \A k \in DueAttempts(e) : n <= k

MayStart(g, e) ==
  /\ region = "running" /\ PortsComplete(g) /\ IsTrigger(e, Selected(g))
  /\ exe[e].status = Absent /\ Admitted

Resumes(g, e) ==
  exe[e].status # Absent /\ exe[e].inputs = Selected(g) /\ exe[e].epoch = epoch

MayRetry(g, e, n) ==
  /\ region = "running" /\ PortsComplete(g) /\ IsTrigger(e, Selected(g))
  /\ Resumes(g, e) /\ exe[e].status = "running"
  /\ resv[e] # "none" \/ Admitted
  /\ IsNextAttempt(e, n)

\* The insert of a second execution for a trigger delivery violates
\* executions.delivery_id unique: the whole poll fails.
PollFails(g) ==
  /\ region = "running" /\ PortsComplete(g)
  /\ \E e \in Delivery : /\ IsTrigger(e, Selected(g))
                         /\ exe[e].status # Absent
                         /\ ~Resumes(g, e)

Deferrable(g) ==
  /\ Due(g) # {}
  /\ ~PollFails(g)
  /\ \A e \in Delivery : ~MayStart(g, e) /\ \A n \in 1..MaxAttempts : ~MayRetry(g, e, n)

\* deferGroup for each group of gs; lease the inputs of g to a.
Deferred(gs, d) == \E h \in gs : d \in Due(h)
DeferGroups(gs) ==
  [d \in Delivery |-> IF Deferred(gs, d) THEN [del[d] EXCEPT !.due = RecheckTicks] ELSE del[d]]
LeaseInputs(g, a, gs) ==
  [d \in Delivery |-> IF d \in Selected(g) THEN Leased(del[d], a) ELSE DeferGroups(gs)[d]]

\* A poll that starts an execution, after deferring the groups it tried before.
LeaseFirstAttempt(g, e, gs) ==
  /\ phase = "up"
  /\ MayStart(g, e)
  /\ exe' = [exe EXCEPT ![e] = [status |-> "running", inputs |-> Selected(g), epoch |-> epoch]]
  /\ att' = [att EXCEPT ![<<e, 1>>] = [status |-> "leased", lease |-> LeaseTicks, due |-> 0]]
  /\ resv' = [resv EXCEPT ![e] = "reserved"]
  /\ del' = LeaseInputs(g, <<e, 1>>, gs)
  /\ UNCHANGED <<lifecycle, sub, out, control>>

\* A poll that leases the pending attempt of an execution it resumes.
LeaseRetry(g, e, n, gs) ==
  /\ phase = "up"
  /\ MayRetry(g, e, n)
  /\ att' = [att EXCEPT ![<<e, n>>] = [status |-> "leased", lease |-> LeaseTicks, due |-> 0]]
  /\ resv' = [resv EXCEPT ![e] = IF resv[e] = "none" THEN "reserved" ELSE resv[e]]
  /\ del' = LeaseInputs(g, <<e, n>>, gs)
  /\ UNCHANGED <<lifecycle, exe, sub, out, control>>

\* A poll that leases nothing and defers every group it tried.
PollFindsNothing(gs) ==
  /\ phase = "up"
  /\ gs # {}
  /\ del' = DeferGroups(gs)
  /\ UNCHANGED <<lifecycle, exe, att, sub, out, resv, control>>

LeaseNextAttempt ==
  \E gs \in SUBSET {g \in Group : Deferrable(g)} :
    \/ PollFindsNothing(gs)
    \/ \E g \in Group \ gs, e \in Delivery :
         \/ LeaseFirstAttempt(g, e, gs)
         \/ \E n \in 1..MaxAttempts : LeaseRetry(g, e, n, gs)

-----------------------------------------------------------------------------
(* The worker protocol.                                                    *)

\* activeAttempt: the region's status is not looked at, only its epoch.
ActiveAttempt(a) ==
  /\ Active(a)
  /\ exe[a[1]].epoch = epoch
  /\ att[a].lease > 0

\* Mutant: without the trigger the inputs keep their first expiry.
Heartbeat_NoTrigger(a) ==
  /\ phase = "up"
  /\ ActiveAttempt(a)
  /\ att' = [att EXCEPT ![a].status = "running", ![a].lease = LeaseTicks]
  /\ UNCHANGED <<lifecycle, del, exe, sub, out, resv, control>>

\* The trigger on execution_attempts carries the new expiry to the inputs.
Heartbeat(a) ==
  /\ phase = "up"
  /\ ActiveAttempt(a)
  /\ att' = [att EXCEPT ![a].status = "running", ![a].lease = LeaseTicks]
  /\ del' = [d \in Delivery |->
               IF d \in Inputs(a) /\ del[d].status = "leased" /\ del[d].token = a
               THEN [del[d] EXCEPT !.lease = LeaseTicks] ELSE del[d]]
  /\ UNCHANGED <<lifecycle, exe, sub, out, resv, control>>

\* First transaction of submitResult: the result is durable, not yet committed.
HandOffResult(a, result) ==
  /\ phase = "up"
  /\ sub[a].state = "none"
  /\ ActiveAttempt(a)
  /\ sub' = [sub EXCEPT ![a] = [state |-> "pending", result |-> result]]
  /\ UNCHANGED <<lifecycle, del, exe, att, out, resv, control>>

-----------------------------------------------------------------------------
(* Committing a handed-off result.                                         *)

Pending(a) == sub[a].state = "pending"

Authoritative(a, allowExpired) ==
  /\ Active(a)
  /\ exe[a[1]].status = "running"
  /\ Inputs(a) # {}
  /\ allowExpired \/ att[a].lease > 0
  /\ exe[a[1]].epoch = epoch
  /\ region = "running"
  /\ \A d \in Inputs(a) : del[d].status = "leased" /\ del[d].token = a

Commits(a, allowExpired, results) ==
  Pending(a) /\ Authoritative(a, allowExpired) /\ sub[a].result \in results

Retries(a) == sub[a].result = "retryable" /\ a[2] \in DOMAIN RetryBackoff

\* Mutant: only the trigger delivery is completed.
Complete_TriggerOnly(a, allowExpired) ==
  /\ Commits(a, allowExpired, {"completed"})
  /\ del' = [del EXCEPT ![a[1]] = Unleased(@, "completed")]
  /\ att' = [att EXCEPT ![a] = EndedAttempt("completed")]
  /\ exe' = [exe EXCEPT ![a[1]].status = "completed"]
  /\ out' = out \cup {a}
  /\ sub' = [sub EXCEPT ![a].state = "committed"]
  /\ ReleaseTerminalAdmission
  /\ UNCHANGED lifecycle

Complete(a, allowExpired) ==
  /\ Commits(a, allowExpired, {"completed"})
  /\ \E new \in Emissions(Routes[del[a[1]].comp]) :
       del' = [d \in Delivery |->
                 IF d \in Inputs(a) THEN Unleased(del[d], "completed")
                 ELSE IF d \in DOMAIN new THEN NewDelivery(new[d], del[a[1]].run)
                 ELSE del[d]]
  /\ att' = [att EXCEPT ![a] = EndedAttempt("completed")]
  /\ exe' = [exe EXCEPT ![a[1]].status = "completed"]
  /\ out' = out \cup {a}
  /\ sub' = [sub EXCEPT ![a].state = "committed"]
  /\ ReleaseTerminalAdmission
  /\ UNCHANGED lifecycle

ScheduleRetry(a, allowExpired) ==
  /\ Commits(a, allowExpired, {"retryable"})
  /\ Retries(a)
  /\ att' = WithReplacement([att EXCEPT ![a] = EndedAttempt("failed")], a, RetryBackoff[a[2]])
  /\ del' = [d \in Delivery |->
               IF d \in Inputs(a) THEN Readied(del[d], RetryBackoff[a[2]]) ELSE del[d]]
  /\ sub' = [sub EXCEPT ![a].state = "committed"]
  /\ UNCHANGED <<lifecycle, exe, out, resv>>

DeadLetter(a, allowExpired) ==
  /\ Commits(a, allowExpired, {"retryable", "failed"})
  /\ ~Retries(a)
  /\ att' = [att EXCEPT ![a] = EndedAttempt("failed")]
  /\ exe' = [exe EXCEPT ![a[1]].status = "failed"]
  /\ del' = [d \in Delivery |->
               IF d \in Inputs(a) THEN Unleased(del[d], "dead_lettered") ELSE del[d]]
  /\ sub' = [sub EXCEPT ![a].state = "committed"]
  /\ ReleaseTerminalAdmission
  /\ UNCHANGED <<lifecycle, out>>

\* Mutant: the refused submission is not deleted.
RejectSubmission_Keeps(a, allowExpired) ==
  /\ Pending(a)
  /\ ~Authoritative(a, allowExpired) \/ sub[a].result = "invalid"
  /\ UNCHANGED <<lifecycle, rows>>

\* An ExecutionCommitError below 500 rolls back and deletes the submission.
RejectSubmission(a, allowExpired) ==
  /\ Pending(a)
  /\ ~Authoritative(a, allowExpired) \/ sub[a].result = "invalid"
  /\ sub' = [sub EXCEPT ![a] = NoSubmission]
  /\ UNCHANGED <<lifecycle, del, exe, att, out, resv>>

Commit(a, allowExpired) ==
  \/ Complete(a, allowExpired)
  \/ ScheduleRetry(a, allowExpired)
  \/ DeadLetter(a, allowExpired)
  \/ RejectSubmission(a, allowExpired)

\* A cancelled attempt row with a failure violates
\* execution_attempts_failed_failure_check: the transaction aborts with a
\* database error and the submission stays pending.
CommitAborts(a, allowExpired) == Commits(a, allowExpired, {"cancelled"})

\* Second transaction of submitResult, also reached by every identical retry.
CommitSubmittedResult(a) ==
  /\ phase = "up"
  /\ Commit(a, FALSE)
  /\ UNCHANGED control

-----------------------------------------------------------------------------
(* Operators.                                                              *)

RunExecutions(run) == {e \in Delivery : Exists(e) /\ del[e].run = run /\ exe[e].status # Absent}

EndOpenAttempts(executions, status) ==
  att' = [a \in Attempt |->
            IF a[1] \in executions /\ Open(a) THEN EndedAttempt(status) ELSE att[a]]

\* Mutant: cancelled work leaves its executions running.
FailRunning_Omitted(executions) == exe' = exe

FailRunning(executions) ==
  exe' = [e \in Delivery |->
            IF e \in executions /\ exe[e].status = "running"
            THEN [exe[e] EXCEPT !.status = "failed"] ELSE exe[e]]

CancelDeliveries(S) ==
  del' = [d \in Delivery |->
            IF d \in S /\ del[d].status \in {"ready", "leased"}
            THEN Unleased(del[d], "cancelled") ELSE del[d]]

CancelRun(run) ==
  /\ phase = "up"
  /\ \E d \in Delivery : Exists(d) /\ del[d].run = run
  /\ EndOpenAttempts(RunExecutions(run), "cancelled")
  /\ FailRunning(RunExecutions(run))
  /\ CancelDeliveries({d \in Delivery : Exists(d) /\ del[d].run = run})
  /\ ReleaseTerminalAdmission
  /\ UNCHANGED <<lifecycle, sub, out, control>>

\* Set from outside the services: an administrator's update of the region row.
RequestRegionCancellation ==
  /\ phase = "up"
  /\ region = "running"
  /\ region' = "cancelling"
  /\ UNCHANGED <<commands, epoch, rows, control>>

-----------------------------------------------------------------------------
(* Crash and startup recovery.  The server listens once recovery is over.  *)

Crash ==
  /\ phase # "down"
  /\ crashes < MaxCrashes
  /\ phase' = "down"
  /\ todo' = {}
  /\ crashes' = crashes + 1
  /\ UNCHANGED <<lifecycle, rows>>

FirstBatch(S) ==
  {T \in SUBSET S : /\ Cardinality(T) <= ResultBatch
                    /\ T = S \/ Cardinality(T) = ResultBatch}

\* Mutant: expired attempts are abandoned before results are committed.
Restart_AbandonsFirst ==
  /\ phase = "down"
  /\ phase' = "abandoning"
  /\ todo' = {a \in Attempt : Active(a) /\ att[a].lease = 0}
  /\ UNCHANGED <<lifecycle, rows, crashes>>

Restart ==
  /\ phase = "down"
  /\ phase' = "committing"
  /\ todo' \in FirstBatch({a \in Attempt : Pending(a)})
  /\ UNCHANGED <<lifecycle, rows, crashes>>

RecoverSubmission(a) ==
  /\ phase = "committing"
  /\ a \in todo
  /\ Commit(a, TRUE)
  /\ todo' = todo \ {a}
  /\ UNCHANGED <<phase, crashes>>

\* Any other error is rethrown: recovery, and with it startup, fails.
RecoveryAborts ==
  /\ phase = "committing"
  /\ \E a \in todo : CommitAborts(a, TRUE)
  /\ phase' = "down"
  /\ todo' = {}
  /\ UNCHANGED <<lifecycle, rows, crashes>>

ScanExpiredAttempts ==
  /\ phase = "committing"
  /\ todo = {}
  /\ phase' = "abandoning"
  /\ todo' = {a \in Attempt : Active(a) /\ att[a].lease = 0}
  /\ UNCHANGED <<lifecycle, rows, crashes>>

MayReplace(a) ==
  exe[a[1]].status = "running" /\ region = "running" /\ a[2] < MaxAttempts

AbandonAndReplace(a) ==
  /\ phase = "abandoning"
  /\ a \in todo
  /\ MayReplace(a)
  /\ att' = WithReplacement([att EXCEPT ![a] = EndedAttempt("abandoned")], a, 0)
  /\ del' = [d \in Delivery |-> IF d \in Inputs(a) THEN Readied(del[d], 0) ELSE del[d]]
  /\ todo' = todo \ {a}
  /\ UNCHANGED <<lifecycle, exe, sub, out, resv, phase, crashes>>

AbandonAndFail(a) ==
  /\ phase = "abandoning"
  /\ a \in todo
  /\ ~MayReplace(a)
  /\ att' = [att EXCEPT ![a] = EndedAttempt("abandoned")]
  /\ FailRunning({a[1]})
  /\ del' = [d \in Delivery |->
               IF d \in Inputs(a) /\ exe[a[1]].status = "running"
               THEN Unleased(del[d], "dead_lettered") ELSE del[d]]
  /\ ReleaseTerminalAdmission
  /\ todo' = todo \ {a}
  /\ UNCHANGED <<lifecycle, sub, out, phase, crashes>>

EndAbandoning ==
  /\ phase = "abandoning"
  /\ todo = {}
  /\ phase' = "exposing"
  /\ UNCHANGED <<lifecycle, rows, todo, crashes>>

ExposeOrphanedDeliveries ==
  /\ phase = "exposing"
  /\ del' = [d \in Delivery |->
               IF del[d].status = "leased" /\ del[d].lease = 0 /\ region = "running"
               THEN Readied(del[d], 0) ELSE del[d]]
  /\ phase' = "settling"
  /\ UNCHANGED <<lifecycle, exe, att, sub, out, resv, todo, crashes>>

SettleCancellingRegion ==
  /\ phase = "settling"
  /\ region = "cancelling"
  /\ EndOpenAttempts(Delivery, "cancelled")
  /\ FailRunning(Delivery)
  /\ CancelDeliveries(Delivery)
  /\ ReleaseTerminalAdmission
  /\ region' = "cancelled"
  /\ epoch' = epoch + 1
  /\ phase' = "up"
  /\ UNCHANGED <<commands, sub, out, todo, crashes>>

FinishRecovery ==
  /\ phase = "settling"
  /\ region # "cancelling"
  /\ phase' = "up"
  /\ UNCHANGED <<lifecycle, rows, todo, crashes>>

-----------------------------------------------------------------------------
(* Time.  Recovery reads the clock once, so no tick falls inside it.       *)

Left(ticks) == IF ticks > 0 THEN ticks - 1 ELSE 0

Tick ==
  /\ phase \in {"up", "down"}
  /\ \/ \E d \in Delivery : del[d].due > 0 \/ del[d].lease > 0
     \/ \E a \in Attempt : att[a].due > 0 \/ att[a].lease > 0
  /\ del' = [d \in Delivery |-> [del[d] EXCEPT !.due = Left(@), !.lease = Left(@)]]
  /\ att' = [a \in Attempt |-> [att[a] EXCEPT !.due = Left(@), !.lease = Left(@)]]
  /\ UNCHANGED <<lifecycle, exe, sub, out, resv, control>>

-----------------------------------------------------------------------------
Init ==
  /\ commands = 0
  /\ region = "running"
  /\ epoch = 0
  /\ del = [d \in Delivery |-> NoDelivery]
  /\ exe = [e \in Delivery |-> [status |-> Absent, inputs |-> {}, epoch |-> 0]]
  /\ att = [a \in Attempt |-> EndedAttempt(Absent)]
  /\ sub = [a \in Attempt |-> NoSubmission]
  /\ out = {}
  /\ resv = [e \in Delivery |-> "none"]
  /\ phase = "up"
  /\ todo = {}
  /\ crashes = 0

Next ==
  \/ \E run \in Run, slots \in Ingress : SubmitCommand(run, slots)
  \/ LeaseNextAttempt
  \/ \E a \in Attempt : Heartbeat(a)
  \/ \E a \in Attempt, result \in Results : HandOffResult(a, result)
  \/ \E a \in Attempt : CommitSubmittedResult(a)
  \/ \E run \in Run : CancelRun(run)
  \/ RequestRegionCancellation
  \/ Crash
  \/ Restart
  \/ \E a \in Attempt : RecoverSubmission(a)
  \/ RecoveryAborts
  \/ ScanExpiredAttempts
  \/ \E a \in Attempt : AbandonAndReplace(a) \/ AbandonAndFail(a)
  \/ EndAbandoning
  \/ ExposeOrphanedDeliveries
  \/ SettleCancellingRegion
  \/ FinishRecovery
  \/ Tick

Spec == Init /\ [][Next]_vars

\* Startup recovery runs to its end unless the process dies again.
Recover ==
  \/ Restart
  \/ \E a \in Attempt : RecoverSubmission(a) \/ AbandonAndReplace(a) \/ AbandonAndFail(a)
  \/ RecoveryAborts \/ ScanExpiredAttempts \/ EndAbandoning
  \/ ExposeOrphanedDeliveries \/ SettleCancellingRegion \/ FinishRecovery

\* A poll that leases g without deferring another group.
LeaseGroup(g) ==
  \E e \in Delivery :
    \/ LeaseFirstAttempt(g, e, {})
    \/ \E n \in 1..MaxAttempts : LeaseRetry(g, e, n, {})

\* Time passes, a supervisor restarts the process, idle workers poll every
\* 250 ms and oldest work comes first, and a worker whose submission is not
\* answered repeats it.  Nothing obliges a worker to heartbeat or to answer.
Fairness ==
  /\ WF_vars(Tick)
  /\ WF_vars(Recover)
  /\ \A g \in Group : WF_vars(LeaseGroup(g))
  /\ \A a \in Attempt : WF_vars(CommitSubmittedResult(a))

FairSpec == Spec /\ Fairness

-----------------------------------------------------------------------------
(* Safety.                                                                 *)

\* A delivery is leased exactly while the attempt that holds its token is
\* active, for exactly as long as that attempt's own lease, and an active
\* attempt holds every input of its execution.  Heartbeats renew the attempt
\* only; the trigger, retries, recovery and cancellations must keep step.
LeaseCoherence ==
  /\ \A d \in Delivery : del[d].status = "leased" =>
       \E a \in Attempt : del[d].token = a /\ Active(a) /\ d \in Inputs(a)
  /\ \A a \in Attempt : Active(a) => \A d \in Inputs(a) :
       del[d].status = "leased" /\ del[d].token = a /\ del[d].lease = att[a].lease

\* Attempts of an execution are numbered without gaps and one starts only
\* when every earlier one has ended: two workers never hold the same
\* execution, whether the retry came from a failure or from recovery.
AttemptChain ==
  \A a \in Attempt : att[a].status # Absent =>
    \A k \in 1..(a[2] - 1) :
      att[<<a[1], k>>].status \in {"failed", "abandoned", "cancelled"}

\* Outputs are written once per execution, by the attempt that completed it,
\* and an input is consumed by one completed execution only, however many
\* executions it was selected for.
ProcessedOnce ==
  /\ \A a \in Attempt : a \in out <=> att[a].status = "completed"
  /\ \A e \in Delivery : exe[e].status = "completed" =>
       \E n \in 1..MaxAttempts : <<e, n>> \in out
  /\ \A a, b \in out : Inputs(a) \cap Inputs(b) # {} => a = b
  /\ \A d \in Delivery : del[d].status = "completed" <=> \E a \in out : d \in Inputs(a)

\* A unit of the region's concurrency budget is held exactly as long as the
\* execution runs, whichever transaction ended it, and never oversubscribed.
AdmissionFollowsExecution ==
  /\ \A e \in Delivery : resv[e] = "reserved" <=> exe[e].status = "running"
  /\ Cardinality({e \in Delivery : exe[e].status = "running"}) <= ConcurrencyLimit

\* Once startup recovery has run its abandoning step the server comes up
\* without an attempt whose lease has expired, and it never settles a
\* cancelled region that still has open work.
RecoveryLeavesNoExpiredLease ==
  /\ phase \in {"exposing", "settling"} => \A a \in Attempt : Active(a) => att[a].lease > 0
  /\ region = "cancelled" => /\ \A a \in Attempt : ~Open(a)
                             /\ \A e \in Delivery : exe[e].status # "running"

\* A later execution took the inputs of e together with inputs of optional ports.
Outgrown(e) ==
  \E f \in Delivery :
    /\ exe[f].status # Absent
    /\ exe[e].inputs \subseteq exe[f].inputs /\ exe[e].inputs # exe[f].inputs
    /\ \A d \in exe[f].inputs \ exe[e].inputs : del[d].port \in Optional[del[e].comp]

\* A running execution can always be driven on: it has one open attempt, whose
\* inputs are leased to it, or all ready for the retry it waits for.  Only an
\* optional input that arrives late can take them away, to a larger execution.
RunningIsResumable ==
  \A e \in Delivery : exe[e].status = "running" =>
    \/ Outgrown(e)
    \/ \E n \in 1..MaxAttempts :
         /\ Open(<<e, n>>)
         /\ \A d \in exe[e].inputs :
              IF att[<<e, n>>].status = "pending"
              THEN del[d].status = "ready"
              ELSE del[d].status = "leased" /\ del[d].token = <<e, n>>

\* A poll runs into the unique key of executions.delivery_id in one case only: the
\* trigger waits for a retry, and optional inputs have come to its group since.
PollFailsOnLateInput ==
  \A g \in Group : PollFails(g) =>
    \E e \in Selected(g) :
      /\ IsTrigger(e, Selected(g)) /\ exe[e].status = "running"
      /\ exe[e].inputs \subseteq Selected(g) /\ exe[e].inputs # Selected(g)
      /\ \A d \in Selected(g) \ exe[e].inputs : del[d].port \in Optional[g[1]]

-----------------------------------------------------------------------------
(* What the safety properties rest on.                                     *)

\* An execution has its trigger among its inputs, all of one correlation, and
\* an attempt that is not over belongs to a running execution.
ExecutionRows ==
  /\ \A d \in Delivery : Exists(d) => del[d].comp \in Component /\ del[d].run \in Run
  /\ \A e \in Delivery : exe[e].status # Absent =>
       /\ e \in exe[e].inputs
       /\ \A d \in exe[e].inputs : Exists(d) /\ del[d].run = del[e].run
  /\ \A a \in Attempt :
       /\ att[a].status # Absent => exe[a[1]].status # Absent
       /\ Open(a) => exe[a[1]].status = "running"

\* What recovery still has to abandon is what has expired.
ScanIsCurrent ==
  phase = "abandoning" => \A a \in Attempt : a \in todo <=> Active(a) /\ att[a].lease = 0

\* The inductive invariant: no single one of the safety properties is
\* inductive, because each transaction trusts what the others have left.
InductiveInvariant ==
  /\ TypeOK
  /\ ExecutionRows
  /\ LeaseCoherence
  /\ AttemptChain
  /\ ProcessedOnce
  /\ AdmissionFollowsExecution /\ IsFiniteSet(Reserved)
  /\ ScanIsCurrent
  /\ RecoveryLeavesNoExpiredLease

-----------------------------------------------------------------------------
(* What a step may never do.                                               *)

DeliveryEnded(d) == del[d].status \in {"completed", "dead_lettered", "cancelled"}
ExecutionEnded(e) == exe[e].status \in {"completed", "failed"}
AttemptEnded(a) == att[a].status \in {"completed", "failed", "cancelled", "abandoned"}

\* Terminal rows stay as they are, although several updates of the code
\* select rows by id without looking at their status.
TerminalIsFinal ==
  [][/\ \A d \in Delivery : DeliveryEnded(d) => del'[d].status = del[d].status
     /\ \A e \in Delivery : ExecutionEnded(e) => exe'[e] = exe[e]
     /\ \A a \in Attempt : AttemptEnded(a) => att'[a].status = att[a].status]_vars

\* A result handed off for a live attempt is decided by a commit; recovery
\* never abandons the attempt over it.
HandedOffResultIsDecided ==
  [][\A a \in Attempt :
       sub[a].state = "pending" /\ Active(a) => att'[a].status # "abandoned"]_vars

-----------------------------------------------------------------------------
(* What must happen, under FairSpec.                                       *)

\* A result accepted for commit is committed or refused in the end, through
\* crashes of the control plane and expiry of the lease.
HandedOffResultSettles ==
  \A a \in Attempt : (sub[a].state = "pending") ~> (sub[a].state # "pending")

\* Ready work of a running region does not stay ready for ever: deferrals,
\* backoff and restarts delay a lease but never lose it.
ReadyWorkIsTaken ==
  \A d \in Delivery :
    (del[d].status = "ready") ~> (del[d].status # "ready" \/ region # "running")

=============================================================================
