---------------------- MODULE ExecutionLifecycle_proofs ----------------------
(* Safety of the durable execution core, for every topology and policy.    *)
EXTENDS ExecutionLedger, FiniteSetTheorems, TLAPS

-----------------------------------------------------------------------------
(* The helpers the transactions are built from.                            *)

\* Ending the lease of a delivery, field by field.
LEMMA UnleasedTyped ==
  ASSUME NEW row \in DeliveryRow,
         NEW status \in {"ready", "completed", "dead_lettered", "cancelled"}
  PROVE  /\ Unleased(row, status) \in DeliveryRow
         /\ Unleased(row, status).status = status
         /\ Unleased(row, status).comp = row.comp
         /\ Unleased(row, status).run = row.run
         /\ Unleased(row, status).port = row.port
         /\ Unleased(row, status).due = row.due
  BY DEF DeliveryRow, Unleased, NoAttempt

\* What a lease writes into a delivery.
LEMMA LeaseUpdates ==
  ASSUME NEW row \in DeliveryRow, NEW a \in Attempt
  PROVE  /\ Leased(row, a) \in DeliveryRow
         /\ Leased(row, a).status = "leased"
         /\ Leased(row, a).token = a
         /\ Leased(row, a).lease = LeaseTicks
         /\ Leased(row, a).due = row.due
  BY PolicyAssumption DEF DeliveryRow, Leased, NoAttempt

\* A delivery is born ready, in its slot and correlation.
LEMMA NewRows ==
  ASSUME NEW slot \in Slot, NEW run \in Run
  PROVE  /\ NewDelivery(slot, run) \in DeliveryRow
         /\ NewDelivery(slot, run).status = "ready"
         /\ NewDelivery(slot, run).comp \in Component
         /\ NewDelivery(slot, run).run = run
  BY DEF DeliveryRow, NewDelivery, Slot, NoAttempt

\* Inserted deliveries take ids without a row and go to the slots asked for.
LEMMA InsertionFacts ==
  ASSUME NEW slots, NEW new \in Insertions(slots) \cup Emissions(slots)
  PROVE  /\ DOMAIN new \subseteq Delivery
         /\ \A d \in DOMAIN new : ~Exists(d) /\ new[d] \in slots
<1>1. PICK ids \in SUBSET Unused : new \in Bijection(ids, slots) \cup [ids -> slots]
  BY DEF Insertions, Emissions
<1>2. new \in [ids -> slots]
  BY <1>1 DEF Bijection, Injection
<1>3. ids \subseteq Delivery /\ \A d \in ids : ~Exists(d)
  BY <1>1 DEF Unused
<1> QED
  BY <1>2, <1>3

\* The components of an attempt name.
LEMMA AttemptFacts ==
  ASSUME NEW a \in Attempt
  PROVE  a[1] \in Delivery /\ a[2] \in 1..MaxAttempts /\ a[2] \in Nat /\ a = <<a[1], a[2]>>
  BY DEF Attempt

\* Deferral, renewal and the passing of time touch nothing but times.
LEMMA DeliveryTimes ==
  ASSUME NEW row \in DeliveryRow, NEW ticks \in Nat
  PROVE  /\ [row EXCEPT !.due = ticks] \in DeliveryRow
         /\ [row EXCEPT !.lease = ticks] \in DeliveryRow
  BY DEF DeliveryRow

\* A heartbeat leaves an attempt active, with a full lease.
LEMMA Renewal ==
  ASSUME NEW row \in AttemptRow
  PROVE  /\ [row EXCEPT !.status = "running", !.lease = LeaseTicks] \in AttemptRow
         /\ [row EXCEPT !.status = "running", !.lease = LeaseTicks].status = "running"
         /\ [row EXCEPT !.status = "running", !.lease = LeaseTicks].lease = LeaseTicks
<1>1. LeaseTicks \in Nat /\ "running" \in OpenStatus
  BY PolicyAssumption DEF OpenStatus, ActiveStatus
<1> QED
  BY <1>1 DEF AttemptRow

\* An execution that ends keeps its inputs and its epoch.
LEMMA ExecutionUpdate ==
  ASSUME NEW row \in ExecutionRow, NEW status \in {"completed", "failed"}
  PROVE  /\ [row EXCEPT !.status = status] \in ExecutionRow
         /\ [row EXCEPT !.status = status].status = status
         /\ [row EXCEPT !.status = status].inputs = row.inputs
         /\ [row EXCEPT !.status = status].epoch = row.epoch
  BY DEF ExecutionRow

\* The row of an attempt that has ended.
LEMMA EndedRow ==
  ASSUME NEW status \in {Absent, "completed", "failed", "cancelled", "abandoned"}
  PROVE  /\ EndedAttempt(status) \in AttemptRow
         /\ EndedAttempt(status).status = status
         /\ EndedAttempt(status).lease = 0
  BY DEF EndedAttempt, AttemptRow

\* Replacing an attempt only ever turns an absent row into a pending one.
LEMMA Replacement ==
  ASSUME NEW table \in [Attempt -> AttemptRow], NEW a \in Attempt, NEW ticks \in Nat
  PROVE  /\ WithReplacement(table, a, ticks) \in [Attempt -> AttemptRow]
         /\ \A b \in Attempt :
              \/ WithReplacement(table, a, ticks)[b] = table[b]
              \/ /\ b = <<a[1], a[2] + 1>>
                 /\ table[b].status = Absent
                 /\ WithReplacement(table, a, ticks)[b] = PendingAttempt(ticks)
<1>1. PendingAttempt(ticks) \in AttemptRow
  BY DEF PendingAttempt, AttemptRow, OpenStatus
<1> QED
  BY <1>1 DEF WithReplacement

-----------------------------------------------------------------------------
(* A step is one of these transactions, or leaves every row as it is.      *)

RowStep ==
  \/ \E run \in Run, slots \in Ingress : SubmitCommand(run, slots)
  \/ \E g \in Group, e \in Delivery, gs \in SUBSET Group : LeaseFirstAttempt(g, e, gs)
  \/ \E g \in Group, e \in Delivery, n \in 1..MaxAttempts, gs \in SUBSET Group :
       LeaseRetry(g, e, n, gs)
  \/ \E gs \in SUBSET Group : PollFindsNothing(gs)
  \/ \E a \in Attempt : Heartbeat(a)
  \/ \E a \in Attempt, result \in Results : HandOffResult(a, result)
  \/ \E a \in Attempt, x \in BOOLEAN : Complete(a, x) /\ phase' = phase
  \/ \E a \in Attempt, x \in BOOLEAN : ScheduleRetry(a, x) /\ phase' = phase
  \/ \E a \in Attempt, x \in BOOLEAN : DeadLetter(a, x) /\ phase' = phase
  \/ \E a \in Attempt, x \in BOOLEAN : RejectSubmission(a, x) /\ phase' = phase
  \/ \E run \in Run : CancelRun(run)
  \/ \E a \in Attempt : AbandonAndReplace(a)
  \/ \E a \in Attempt : AbandonAndFail(a)
  \/ ExposeOrphanedDeliveries
  \/ SettleCancellingRegion
  \/ Tick
  \/ UNCHANGED rows

\* Every step of the specification is one of them.
LEMMA StepIsRowStep ==
  ASSUME [Next]_vars
  PROVE  RowStep
<1>1. CASE LeaseNextAttempt
  BY <1>1 DEF LeaseNextAttempt, RowStep
<1>2. CASE \E a \in Attempt : CommitSubmittedResult(a) \/ RecoverSubmission(a)
  BY <1>2 DEF CommitSubmittedResult, RecoverSubmission, Commit, control, RowStep
<1>3. CASE \/ RequestRegionCancellation \/ Crash \/ Restart \/ RecoveryAborts
           \/ ScanExpiredAttempts \/ EndAbandoning \/ FinishRecovery \/ UNCHANGED vars
  <2>1. UNCHANGED rows
    BY <1>3 DEF RequestRegionCancellation, Crash, Restart, RecoveryAborts,
       ScanExpiredAttempts, EndAbandoning, FinishRecovery, vars
  <2> QED
    BY <2>1 DEF RowStep
<1>4. CASE \/ \E run \in Run, slots \in Ingress : SubmitCommand(run, slots)
           \/ \E a \in Attempt : Heartbeat(a)
           \/ \E a \in Attempt, result \in Results : HandOffResult(a, result)
           \/ \E run \in Run : CancelRun(run)
           \/ \E a \in Attempt : AbandonAndReplace(a) \/ AbandonAndFail(a)
           \/ ExposeOrphanedDeliveries \/ SettleCancellingRegion \/ Tick
  BY <1>4 DEF RowStep
<1> QED
  BY <1>1, <1>2, <1>3, <1>4 DEF Next

-----------------------------------------------------------------------------
(* Type correctness.                                                       *)

RowsTyped ==
  /\ del \in [Delivery -> DeliveryRow]
  /\ exe \in [Delivery -> ExecutionRow]
  /\ att \in [Attempt -> AttemptRow]
  /\ sub \in [Attempt -> SubmissionRow]
  /\ out \subseteq Attempt
  /\ resv \in [Delivery -> {"none", "reserved", "released"}]

ControlTyped ==
  /\ commands \in 0..MaxCommands
  /\ region \in {"running", "cancelling", "cancelled"}
  /\ epoch \in Nat
  /\ phase \in {"up", "down", "committing", "abandoning", "exposing", "settling"}
  /\ todo \subseteq Attempt
  /\ crashes \in 0..MaxCrashes

LEMMA TypeParts == TypeOK <=> RowsTyped /\ ControlTyped
  BY DEF TypeOK, RowsTyped, ControlTyped

\* The process and lifecycle variables stay in their types.
LEMMA ControlStep ==
  ASSUME TypeOK, [Next]_vars
  PROVE  ControlTyped'
<1> USE DEF TypeOK, ControlTyped, control, lifecycle
<1>1. CASE LeaseNextAttempt
  BY <1>1 DEF LeaseNextAttempt, LeaseFirstAttempt, LeaseRetry, PollFindsNothing
<1>2. CASE \E a \in Attempt : CommitSubmittedResult(a) \/ RecoverSubmission(a)
  BY <1>2 DEF CommitSubmittedResult, RecoverSubmission, Commit, Complete, ScheduleRetry,
     DeadLetter, RejectSubmission
<1>3. CASE Restart
  BY <1>3 DEF Restart, FirstBatch
<1>4. CASE RequestRegionCancellation \/ RecoveryAborts \/ EndAbandoning \/ FinishRecovery
  BY <1>4 DEF RequestRegionCancellation, RecoveryAborts, EndAbandoning, FinishRecovery
<1>5. CASE \E run \in Run, slots \in Ingress : SubmitCommand(run, slots)
  BY <1>5, PolicyAssumption DEF SubmitCommand
<1>6. CASE Crash
  BY <1>6, PolicyAssumption DEF Crash
<1>7. CASE ScanExpiredAttempts
  BY <1>7 DEF ScanExpiredAttempts
<1>8. CASE \E a \in Attempt : AbandonAndReplace(a) \/ AbandonAndFail(a)
  BY <1>8 DEF AbandonAndReplace, AbandonAndFail
<1>9. CASE ExposeOrphanedDeliveries \/ Tick
  BY <1>9 DEF ExposeOrphanedDeliveries, Tick
<1>10. CASE \E a \in Attempt : Heartbeat(a)
  BY <1>10 DEF Heartbeat
<1>11. CASE \E a \in Attempt, result \in Results : HandOffResult(a, result)
  BY <1>11 DEF HandOffResult
<1>12. CASE \E run \in Run : CancelRun(run)
  BY <1>12 DEF CancelRun
<1>13. CASE SettleCancellingRegion
  BY <1>13 DEF SettleCancellingRegion
<1>14. CASE UNCHANGED vars
  BY <1>14 DEF vars
<1> QED
  BY <1>1, <1>2, <1>3, <1>4, <1>5, <1>6, <1>7, <1>8, <1>9, <1>10, <1>11, <1>12, <1>13,
     <1>14 DEF Next

\* The trigger on executions touches reservations only.
LEMMA ReleaseTyped ==
  ASSUME RowsTyped, ReleaseTerminalAdmission
  PROVE  resv' \in [Delivery -> {"none", "reserved", "released"}]
  BY DEF RowsTyped, ReleaseTerminalAdmission

\* Ending attempts, failing executions and cancelling deliveries in bulk.
LEMMA BulkTyped ==
  ASSUME RowsTyped, NEW S, NEW E,
         EndOpenAttempts(E, "cancelled"), FailRunning(E), CancelDeliveries(S)
  PROVE  /\ del' \in [Delivery -> DeliveryRow]
         /\ exe' \in [Delivery -> ExecutionRow]
         /\ att' \in [Attempt -> AttemptRow]
<1>1. del' \in [Delivery -> DeliveryRow]
  <2>1. \A d \in Delivery : Unleased(del[d], "cancelled") \in DeliveryRow
    BY UnleasedTyped DEF RowsTyped
  <2> QED
    BY <2>1 DEF RowsTyped, CancelDeliveries
<1>2. exe' \in [Delivery -> ExecutionRow]
  <2>1. \A e \in Delivery : [exe[e] EXCEPT !.status = "failed"] \in ExecutionRow
    BY ExecutionUpdate DEF RowsTyped
  <2> QED
    BY <2>1 DEF RowsTyped, FailRunning
<1>3. att' \in [Attempt -> AttemptRow]
  BY EndedRow DEF RowsTyped, EndOpenAttempts
<1> QED
  BY <1>1, <1>2, <1>3

\* Every transaction keeps the rows in their types.
LEMMA RowsStep ==
  ASSUME TypeOK, ExecutionRows, RowStep
  PROVE  RowsTyped'
<1> USE DEF RowsTyped
<1>t. RowsTyped
  BY TypeParts
<1>1. ASSUME NEW run \in Run, NEW slots \in Ingress, SubmitCommand(run, slots)
      PROVE  RowsTyped'
  <2>1. PICK new \in Insertions(slots) :
          del' = [d \in Delivery |-> IF d \in DOMAIN new THEN NewDelivery(new[d], run) ELSE del[d]]
    BY <1>1 DEF SubmitCommand
  <2>2. \A d \in DOMAIN new : new[d] \in Slot
    BY <2>1, InsertionFacts, TopologyAssumption
  <2>3. \A d \in DOMAIN new : NewDelivery(new[d], run) \in DeliveryRow
    BY <2>2, NewRows
  <2> QED
    BY <1>1, <1>t, <2>1, <2>3 DEF SubmitCommand
<1>2. ASSUME NEW gs, NEW d \in Delivery
      PROVE  DeferGroups(gs)[d] \in DeliveryRow
  <2>1. [del[d] EXCEPT !.due = RecheckTicks] \in DeliveryRow
    BY <1>t, PolicyAssumption, DeliveryTimes
  <2> QED
    BY <1>t, <2>1 DEF DeferGroups
<1>3. ASSUME NEW g, NEW a \in Attempt, NEW gs
      PROVE  LeaseInputs(g, a, gs) \in [Delivery -> DeliveryRow]
  <2>1. \A d \in Delivery : Leased(del[d], a) \in DeliveryRow
    BY <1>t, LeaseUpdates
  <2> QED
    BY <1>2, <2>1 DEF LeaseInputs
<1>4. [status |-> "leased", lease |-> LeaseTicks, due |-> 0] \in AttemptRow
  BY PolicyAssumption DEF AttemptRow, OpenStatus, ActiveStatus
<1>5. ASSUME NEW g \in Group, NEW e \in Delivery, NEW gs, LeaseFirstAttempt(g, e, gs)
      PROVE  RowsTyped'
  <2>1. <<e, 1>> \in Attempt
    BY PolicyAssumption DEF Attempt
  <2>2. Selected(g) \subseteq Delivery
    BY DEF Selected, OnPort, Due
  <2>3. [status |-> "running", inputs |-> Selected(g), epoch |-> epoch] \in ExecutionRow
    BY <2>2 DEF ExecutionRow, TypeOK
  <2> QED
    BY <1>5, <1>t, <1>3, <1>4, <2>1, <2>3 DEF LeaseFirstAttempt
<1>6. ASSUME NEW g \in Group, NEW e \in Delivery, NEW n \in 1..MaxAttempts, NEW gs,
             LeaseRetry(g, e, n, gs)
      PROVE  RowsTyped'
  <2>1. <<e, n>> \in Attempt
    BY DEF Attempt
  <2> QED
    BY <1>6, <1>t, <1>3, <1>4, <2>1 DEF LeaseRetry
<1>7. ASSUME NEW gs, PollFindsNothing(gs)
      PROVE  RowsTyped'
  BY <1>7, <1>t, <1>2 DEF PollFindsNothing, DeferGroups
<1>8. ASSUME NEW a \in Attempt, Heartbeat(a)
      PROVE  RowsTyped'
  <2>1. [att[a] EXCEPT !.status = "running", !.lease = LeaseTicks] \in AttemptRow
    BY <1>t, Renewal
  <2>2. \A d \in Delivery : [del[d] EXCEPT !.lease = LeaseTicks] \in DeliveryRow
    BY <1>t, PolicyAssumption, DeliveryTimes
  <2>3. att' \in [Attempt -> AttemptRow]
    BY <1>8, <1>t, <2>1 DEF Heartbeat
  <2>4. del' \in [Delivery -> DeliveryRow]
    BY <1>8, <1>t, <2>2 DEF Heartbeat
  <2> QED
    BY <1>8, <1>t, <2>3, <2>4 DEF Heartbeat
<1>9. ASSUME NEW a \in Attempt, NEW result \in Results, HandOffResult(a, result)
      PROVE  RowsTyped'
  BY <1>9, <1>t DEF HandOffResult, SubmissionRow
<1>10. ASSUME NEW a \in Attempt, Pending(a)
       PROVE  [sub[a] EXCEPT !.state = "committed"] \in SubmissionRow
  BY <1>10, <1>t DEF SubmissionRow
<1>11. ASSUME NEW status \in {"ready", "completed", "dead_lettered", "cancelled"},
              NEW ticks \in Nat, NEW d \in Delivery
       PROVE  /\ Unleased(del[d], status) \in DeliveryRow
              /\ Readied(del[d], ticks) \in DeliveryRow
  <2>1. del[d] \in DeliveryRow
    BY <1>t
  <2>2. Unleased(del[d], status) \in DeliveryRow
    BY <2>1, UnleasedTyped
  <2>3. Readied(del[d], ticks) \in DeliveryRow
    BY <2>1 DEF Readied, Unleased, DeliveryRow, NoAttempt
  <2> QED
    BY <2>2, <2>3
<1>12. ASSUME NEW a \in Attempt, NEW x, Complete(a, x)
       PROVE  RowsTyped'
  <2>1. PICK new \in Emissions(Routes[del[a[1]].comp]) :
          del' = [d \in Delivery |->
                    IF d \in Inputs(a) THEN Unleased(del[d], "completed")
                    ELSE IF d \in DOMAIN new THEN NewDelivery(new[d], del[a[1]].run)
                    ELSE del[d]]
    BY <1>12 DEF Complete
  <2>2. del[a[1]].comp \in Component /\ del[a[1]].run \in Run
    BY <1>12, <1>t, AttemptFacts DEF Complete, Commits, Authoritative, ExecutionRows, Active,
       OpenStatus, Absent
  <2>3. \A d \in DOMAIN new : new[d] \in Slot
    BY <2>2, InsertionFacts, TopologyAssumption
  <2>4. \A d \in DOMAIN new : NewDelivery(new[d], del[a[1]].run) \in DeliveryRow
    BY <2>2, <2>3, NewRows
  <2>5. del' \in [Delivery -> DeliveryRow]
    BY <1>t, <1>11, <2>1, <2>4
  <2>6. att' \in [Attempt -> AttemptRow]
    BY <1>12, <1>t, EndedRow DEF Complete
  <2>7. exe' \in [Delivery -> ExecutionRow]
    BY <1>12, <1>t, ExecutionUpdate, AttemptFacts DEF Complete
  <2>8. sub' \in [Attempt -> SubmissionRow] /\ out' \subseteq Attempt
    BY <1>12, <1>t, <1>10 DEF Complete, Commits
  <2> QED
    BY <1>12, <1>t, <2>5, <2>6, <2>7, <2>8, ReleaseTyped DEF Complete
<1>13. ASSUME NEW a \in Attempt, NEW x, ScheduleRetry(a, x)
       PROVE  RowsTyped'
  <2>1. RetryBackoff[a[2]] \in Nat
    BY <1>13, PolicyAssumption DEF ScheduleRetry, Retries
  <2>2. [att EXCEPT ![a] = EndedAttempt("failed")] \in [Attempt -> AttemptRow]
    BY <1>t, EndedRow
  <2>3. att' \in [Attempt -> AttemptRow]
    BY <1>13, <2>1, <2>2, Replacement DEF ScheduleRetry
  <2>4. del' \in [Delivery -> DeliveryRow]
    BY <1>13, <1>t, <1>11, <2>1 DEF ScheduleRetry
  <2>5. sub' \in [Attempt -> SubmissionRow]
    BY <1>13, <1>t, <1>10 DEF ScheduleRetry, Commits
  <2> QED
    BY <1>13, <1>t, <2>3, <2>4, <2>5 DEF ScheduleRetry
<1>14. ASSUME NEW a \in Attempt, NEW x, DeadLetter(a, x)
       PROVE  RowsTyped'
  <2>1. att' \in [Attempt -> AttemptRow]
    BY <1>14, <1>t, EndedRow DEF DeadLetter
  <2>2. exe' \in [Delivery -> ExecutionRow]
    BY <1>14, <1>t, ExecutionUpdate, AttemptFacts DEF DeadLetter
  <2>3. del' \in [Delivery -> DeliveryRow]
    BY <1>14, <1>t, <1>11 DEF DeadLetter
  <2>4. sub' \in [Attempt -> SubmissionRow]
    BY <1>14, <1>t, <1>10 DEF DeadLetter, Commits
  <2> QED
    BY <1>14, <1>t, <2>1, <2>2, <2>3, <2>4, ReleaseTyped DEF DeadLetter
<1>15. ASSUME NEW a \in Attempt, NEW x, RejectSubmission(a, x)
       PROVE  RowsTyped'
  BY <1>15, <1>t DEF RejectSubmission, NoSubmission, SubmissionRow
<1>16. ASSUME NEW run \in Run, CancelRun(run)
       PROVE  RowsTyped'
  BY <1>16, <1>t, BulkTyped, ReleaseTyped DEF CancelRun
<1>17. ASSUME SettleCancellingRegion
       PROVE  RowsTyped'
  BY <1>17, <1>t, BulkTyped, ReleaseTyped DEF SettleCancellingRegion
<1>18. ASSUME NEW a \in Attempt, AbandonAndReplace(a)
       PROVE  RowsTyped'
  <2>1. [att EXCEPT ![a] = EndedAttempt("abandoned")] \in [Attempt -> AttemptRow]
    BY <1>t, EndedRow
  <2>2. att' \in [Attempt -> AttemptRow]
    BY <1>18, <2>1, Replacement DEF AbandonAndReplace
  <2>3. del' \in [Delivery -> DeliveryRow]
    BY <1>18, <1>t, <1>11 DEF AbandonAndReplace
  <2> QED
    BY <1>18, <1>t, <2>2, <2>3 DEF AbandonAndReplace
<1>19. ASSUME NEW a \in Attempt, AbandonAndFail(a)
       PROVE  RowsTyped'
  <2>1. att' \in [Attempt -> AttemptRow]
    BY <1>19, <1>t, EndedRow DEF AbandonAndFail
  <2>2. \A e \in Delivery : [exe[e] EXCEPT !.status = "failed"] \in ExecutionRow
    BY <1>t, ExecutionUpdate
  <2>3. exe' \in [Delivery -> ExecutionRow]
    BY <1>19, <1>t, <2>2 DEF AbandonAndFail, FailRunning
  <2>4. del' \in [Delivery -> DeliveryRow]
    BY <1>19, <1>t, <1>11 DEF AbandonAndFail
  <2> QED
    BY <1>19, <1>t, <2>1, <2>3, <2>4, ReleaseTyped DEF AbandonAndFail
<1>20. ASSUME ExposeOrphanedDeliveries
       PROVE  RowsTyped'
  BY <1>20, <1>t, <1>11 DEF ExposeOrphanedDeliveries
<1>21. ASSUME Tick
       PROVE  RowsTyped'
  <2>1. \A n \in Nat : Left(n) \in Nat
    BY DEF Left
  <2>2. \A d \in Delivery :
          [del[d] EXCEPT !.due = Left(@), !.lease = Left(@)] \in DeliveryRow
    BY <1>t, <2>1 DEF DeliveryRow
  <2>3. \A a \in Attempt :
          [att[a] EXCEPT !.due = Left(@), !.lease = Left(@)] \in AttemptRow
    BY <1>t, <2>1 DEF AttemptRow
  <2> QED
    BY <1>21, <1>t, <2>2, <2>3 DEF Tick
<1>22. ASSUME UNCHANGED rows
       PROVE  RowsTyped'
  BY <1>22, <1>t DEF rows
<1> QED
  BY <1>1, <1>5, <1>6, <1>7, <1>8, <1>9, <1>12, <1>13, <1>14, <1>15, <1>16, <1>17, <1>18,
     <1>19, <1>20, <1>21, <1>22 DEF RowStep

-----------------------------------------------------------------------------
(* Rows are never deleted and keep what identifies them.                   *)

\* What every transaction keeps of one delivery, and where a new one lies.
Keeps(d) == Exists(d) => /\ Exists(d)'
                         /\ del'[d].comp = del[d].comp
                         /\ del'[d].run = del[d].run
                         /\ del'[d].port = del[d].port
Placed(d) == Exists(d)' => del'[d].comp \in Component /\ del'[d].run \in Run

\* Rewriting some existing deliveries without moving them keeps them all.
LEMMA RewriteKeeps ==
  ASSUME RowsTyped, ExecutionRows, NEW d \in Delivery,
         \/ del'[d] = del[d]
         \/ /\ Exists(d)
            /\ \E status \in {"ready", "completed", "dead_lettered", "cancelled"} :
                 del'[d] = Unleased(del[d], status)
         \/ Exists(d) /\ \E ticks \in Nat : del'[d] = Readied(del[d], ticks)
         \/ Exists(d) /\ \E a \in Attempt : del'[d] = Leased(del[d], a)
  PROVE  Keeps(d) /\ Placed(d)
<1>1. del[d] \in DeliveryRow
  BY DEF RowsTyped
<1>2. CASE del'[d] = del[d]
  BY <1>2 DEF Keeps, Placed, Exists, ExecutionRows
<1>3. CASE /\ Exists(d)
           /\ \E status \in {"ready", "completed", "dead_lettered", "cancelled"} :
                del'[d] = Unleased(del[d], status)
  BY <1>1, <1>3, UnleasedTyped DEF Keeps, Placed, Exists, Absent, ExecutionRows
<1>4. CASE Exists(d) /\ \E ticks \in Nat : del'[d] = Readied(del[d], ticks)
  <2>1. PICK ticks \in Nat : del'[d] = Readied(del[d], ticks)
    BY <1>4
  <2>2. /\ Readied(del[d], ticks).status = "ready"
        /\ Readied(del[d], ticks).comp = del[d].comp
        /\ Readied(del[d], ticks).run = del[d].run
        /\ Readied(del[d], ticks).port = del[d].port
    BY <1>1 DEF Readied, Unleased, DeliveryRow
  <2> QED
    BY <1>4, <2>1, <2>2 DEF Keeps, Placed, Exists, Absent, ExecutionRows
<1>5. CASE Exists(d) /\ \E a \in Attempt : del'[d] = Leased(del[d], a)
  <2>1. PICK a \in Attempt : del'[d] = Leased(del[d], a)
    BY <1>5
  <2>2. /\ Leased(del[d], a).status = "leased"
        /\ Leased(del[d], a).comp = del[d].comp
        /\ Leased(del[d], a).run = del[d].run
        /\ Leased(del[d], a).port = del[d].port
    BY <1>1 DEF Leased, DeliveryRow
  <2> QED
    BY <1>5, <2>1, <2>2 DEF Keeps, Placed, Exists, Absent, ExecutionRows
<1> QED
  BY <1>2, <1>3, <1>4, <1>5

\* A new row is born in a slot of the topology.
LEMMA BirthPlaces ==
  ASSUME ExecutionRows, NEW d \in Delivery, ~Exists(d),
         NEW slot \in Slot, NEW run \in Run, del'[d] = NewDelivery(slot, run)
  PROVE  Keeps(d) /\ Placed(d)
  BY NewRows DEF Keeps, Placed

\* Whatever the transaction, deliveries stay where they were created.
LEMMA DeliveriesPersist ==
  ASSUME TypeOK, ExecutionRows, ScanIsCurrent, RowStep, NEW d \in Delivery
  PROVE  Keeps(d) /\ Placed(d)
<1>t. RowsTyped
  BY TypeParts
<1>1. ASSUME NEW a \in Attempt, Active(a)
      PROVE  /\ \A c \in Inputs(a) : Exists(c)
             /\ exe[a[1]].status = "running"
             /\ Exists(a[1]) /\ del[a[1]].comp \in Component /\ del[a[1]].run \in Run
  BY <1>1, AttemptFacts DEF Active, ExecutionRows, Open, OpenStatus, Absent, Inputs
<1>2. CASE del'[d] = del[d]
  BY <1>2, <1>t, RewriteKeeps
<1>3. ASSUME NEW run \in Run, NEW slots \in Ingress, SubmitCommand(run, slots)
      PROVE  Keeps(d) /\ Placed(d)
  <2>1. PICK new \in Insertions(slots) :
          del' = [c \in Delivery |-> IF c \in DOMAIN new THEN NewDelivery(new[c], run) ELSE del[c]]
    BY <1>3 DEF SubmitCommand
  <2>2. \A c \in DOMAIN new : ~Exists(c) /\ new[c] \in Slot
    BY <2>1, InsertionFacts, TopologyAssumption
  <2> QED
    BY <1>2, <2>1, <2>2, BirthPlaces
<1>4. ASSUME NEW gs, NEW c \in Delivery, del'[c] = DeferGroups(gs)[c]
      PROVE  Keeps(c) /\ Placed(c)
  <2>1. /\ [del[c] EXCEPT !.due = RecheckTicks].status = del[c].status
        /\ [del[c] EXCEPT !.due = RecheckTicks].comp = del[c].comp
        /\ [del[c] EXCEPT !.due = RecheckTicks].run = del[c].run
        /\ [del[c] EXCEPT !.due = RecheckTicks].port = del[c].port
    BY <1>t DEF RowsTyped, DeliveryRow
  <2> QED
    BY <1>4, <2>1 DEF DeferGroups, Keeps, Placed, Exists, ExecutionRows
<1>5. ASSUME NEW g \in Group, NEW a \in Attempt, NEW gs, del' = LeaseInputs(g, a, gs)
      PROVE  Keeps(d) /\ Placed(d)
  <2>1. CASE d \in Selected(g)
    <3>1. del'[d] = Leased(del[d], a)
      BY <1>5, <2>1 DEF LeaseInputs
    <3>2. Exists(d)
      BY <2>1 DEF Selected, OnPort, Due, Exists, Absent
    <3> QED
      BY <1>t, <3>1, <3>2, RewriteKeeps
  <2>2. CASE d \notin Selected(g)
    BY <1>4, <1>5, <2>2 DEF LeaseInputs
  <2> QED
    BY <2>1, <2>2
<1>6. ASSUME NEW g \in Group, NEW e \in Delivery, NEW gs, LeaseFirstAttempt(g, e, gs)
      PROVE  Keeps(d) /\ Placed(d)
  <2>1. <<e, 1>> \in Attempt
    BY PolicyAssumption DEF Attempt
  <2> QED
    BY <1>5, <1>6, <2>1 DEF LeaseFirstAttempt
<1>7. ASSUME NEW g \in Group, NEW e \in Delivery, NEW n \in 1..MaxAttempts, NEW gs,
             LeaseRetry(g, e, n, gs)
      PROVE  Keeps(d) /\ Placed(d)
  <2>1. <<e, n>> \in Attempt
    BY DEF Attempt
  <2> QED
    BY <1>5, <1>7, <2>1 DEF LeaseRetry
<1>8. ASSUME NEW gs, PollFindsNothing(gs)
      PROVE  Keeps(d) /\ Placed(d)
  BY <1>4, <1>8 DEF PollFindsNothing
<1>9. ASSUME NEW a \in Attempt, Heartbeat(a)
      PROVE  Keeps(d) /\ Placed(d)
  <2>1. /\ [del[d] EXCEPT !.lease = LeaseTicks].status = del[d].status
        /\ [del[d] EXCEPT !.lease = LeaseTicks].comp = del[d].comp
        /\ [del[d] EXCEPT !.lease = LeaseTicks].run = del[d].run
        /\ [del[d] EXCEPT !.lease = LeaseTicks].port = del[d].port
    BY <1>t DEF RowsTyped, DeliveryRow
  <2> QED
    BY <1>9, <2>1 DEF Heartbeat, Keeps, Placed, Exists, ExecutionRows
<1>10. ASSUME NEW a \in Attempt, NEW x, Complete(a, x)
       PROVE  Keeps(d) /\ Placed(d)
  <2>1. PICK new \in Emissions(Routes[del[a[1]].comp]) :
          del' = [c \in Delivery |->
                    IF c \in Inputs(a) THEN Unleased(del[c], "completed")
                    ELSE IF c \in DOMAIN new THEN NewDelivery(new[c], del[a[1]].run)
                    ELSE del[c]]
    BY <1>10 DEF Complete
  <2>2. Active(a)
    BY <1>10 DEF Complete, Commits, Authoritative
  <2>3. \A c \in DOMAIN new : ~Exists(c) /\ new[c] \in Slot
    BY <1>1, <2>2, InsertionFacts, TopologyAssumption
  <2>4. CASE d \in Inputs(a)
    BY <1>1, <1>t, <2>1, <2>2, <2>4, RewriteKeeps
  <2>5. CASE d \notin Inputs(a) /\ d \in DOMAIN new
    BY <1>1, <2>1, <2>2, <2>3, <2>5, BirthPlaces
  <2> QED
    BY <1>2, <2>1, <2>4, <2>5
<1>11. ASSUME NEW a \in Attempt, NEW x, ScheduleRetry(a, x)
       PROVE  Keeps(d) /\ Placed(d)
  <2>1. Active(a) /\ RetryBackoff[a[2]] \in Nat
    BY <1>11, PolicyAssumption DEF ScheduleRetry, Retries, Commits, Authoritative
  <2> QED
    BY <1>1, <1>11, <1>t, <2>1, RewriteKeeps DEF ScheduleRetry
<1>12. ASSUME NEW a \in Attempt, NEW x, DeadLetter(a, x)
       PROVE  Keeps(d) /\ Placed(d)
  <2>1. Active(a)
    BY <1>12 DEF DeadLetter, Commits, Authoritative
  <2> QED
    BY <1>1, <1>12, <1>t, <2>1, RewriteKeeps DEF DeadLetter
<1>13. ASSUME NEW S, CancelDeliveries(S)
       PROVE  Keeps(d) /\ Placed(d)
  BY <1>2, <1>13, <1>t, RewriteKeeps DEF CancelDeliveries, Exists, Absent
<1>14. ASSUME NEW a \in Attempt, AbandonAndReplace(a)
       PROVE  Keeps(d) /\ Placed(d)
  <2>1. Active(a)
    BY <1>14 DEF AbandonAndReplace, ScanIsCurrent
  <2> QED
    BY <1>1, <1>2, <1>14, <1>t, <2>1, RewriteKeeps DEF AbandonAndReplace
<1>15. ASSUME NEW a \in Attempt, AbandonAndFail(a)
       PROVE  Keeps(d) /\ Placed(d)
  <2>1. Active(a)
    BY <1>15 DEF AbandonAndFail, ScanIsCurrent
  <2> QED
    BY <1>1, <1>2, <1>15, <1>t, <2>1, RewriteKeeps DEF AbandonAndFail
<1>16. ASSUME ExposeOrphanedDeliveries
       PROVE  Keeps(d) /\ Placed(d)
  BY <1>2, <1>16, <1>t, RewriteKeeps DEF ExposeOrphanedDeliveries, Exists, Absent
<1>17. ASSUME Tick
       PROVE  Keeps(d) /\ Placed(d)
  <2>1. /\ [del[d] EXCEPT !.due = Left(@), !.lease = Left(@)].status = del[d].status
        /\ [del[d] EXCEPT !.due = Left(@), !.lease = Left(@)].comp = del[d].comp
        /\ [del[d] EXCEPT !.due = Left(@), !.lease = Left(@)].run = del[d].run
        /\ [del[d] EXCEPT !.due = Left(@), !.lease = Left(@)].port = del[d].port
    BY <1>t DEF RowsTyped, DeliveryRow
  <2> QED
    BY <1>17, <2>1 DEF Tick, Keeps, Placed, Exists, ExecutionRows
<1>18. CASE \/ \E a \in Attempt, result \in Results : HandOffResult(a, result)
            \/ \E a \in Attempt, x \in BOOLEAN : RejectSubmission(a, x)
            \/ UNCHANGED rows
  BY <1>2, <1>18 DEF HandOffResult, RejectSubmission, rows
<1>19. CASE SettleCancellingRegion \/ \E run \in Run : CancelRun(run)
  BY <1>13, <1>19 DEF SettleCancellingRegion, CancelRun
<1> QED
  BY <1>3, <1>6, <1>7, <1>8, <1>9, <1>10, <1>11, <1>12, <1>14, <1>15, <1>16, <1>17, <1>18,
     <1>19 DEF RowStep

-----------------------------------------------------------------------------
(* How an execution and an attempt may move.                               *)

Begins(e) == \E g \in Group, gs \in SUBSET Group : LeaseFirstAttempt(g, e, gs)

ExecutionStep(e) ==
  \/ exe'[e] = exe[e]
  \/ /\ exe[e].status = "running" /\ exe'[e] = [exe[e] EXCEPT !.status = "completed"]
     /\ \E a \in Attempt, x \in BOOLEAN : Complete(a, x)
  \/ exe[e].status = "running" /\ exe'[e] = [exe[e] EXCEPT !.status = "failed"]
  \/ exe[e].status = Absent /\ Begins(e)

\* An execution begins once, runs, and ends once.
LEMMA ExecutionMoves ==
  ASSUME RowsTyped, RowStep, NEW e \in Delivery
  PROVE  ExecutionStep(e)
<1>1. ASSUME NEW g \in Group, NEW f \in Delivery, NEW gs \in SUBSET Group,
             LeaseFirstAttempt(g, f, gs)
      PROVE  ExecutionStep(e)
  <2>1. CASE e = f
    BY <1>1, <2>1 DEF LeaseFirstAttempt, MayStart, ExecutionStep, Begins
  <2>2. CASE e # f
    BY <1>1, <2>2 DEF LeaseFirstAttempt, ExecutionStep, RowsTyped
  <2> QED
    BY <2>1, <2>2
<1>2. ASSUME NEW a \in Attempt, NEW x \in BOOLEAN, Complete(a, x)
      PROVE  ExecutionStep(e)
  BY <1>2 DEF Complete, Commits, Authoritative, ExecutionStep, RowsTyped
<1>3. ASSUME NEW a \in Attempt, NEW x, DeadLetter(a, x)
      PROVE  ExecutionStep(e)
  BY <1>3 DEF DeadLetter, Commits, Authoritative, ExecutionStep, RowsTyped
<1>4. ASSUME NEW E, FailRunning(E)
      PROVE  ExecutionStep(e)
  BY <1>4 DEF FailRunning, ExecutionStep, RowsTyped
<1>5. CASE \/ SettleCancellingRegion
           \/ \E run \in Run : CancelRun(run)
           \/ \E a \in Attempt : AbandonAndFail(a)
  BY <1>4, <1>5 DEF SettleCancellingRegion, CancelRun, AbandonAndFail
<1>6. ASSUME exe' = exe
      PROVE  ExecutionStep(e)
  BY <1>6 DEF ExecutionStep
<1>7. CASE \/ \E run \in Run, slots \in Ingress : SubmitCommand(run, slots)
           \/ \E g \in Group, f \in Delivery, n \in 1..MaxAttempts, gs \in SUBSET Group :
                LeaseRetry(g, f, n, gs)
           \/ \E gs \in SUBSET Group : PollFindsNothing(gs)
           \/ \E a \in Attempt : Heartbeat(a) \/ AbandonAndReplace(a)
           \/ \E a \in Attempt, result \in Results : HandOffResult(a, result)
  BY <1>6, <1>7 DEF SubmitCommand, LeaseRetry, PollFindsNothing, Heartbeat, AbandonAndReplace,
     HandOffResult
<1>8. CASE \/ \E a \in Attempt, x \in BOOLEAN : ScheduleRetry(a, x) \/ RejectSubmission(a, x)
           \/ ExposeOrphanedDeliveries \/ Tick \/ UNCHANGED rows
  BY <1>6, <1>8 DEF ScheduleRetry, RejectSubmission, ExposeOrphanedDeliveries, Tick, rows
<1> QED
  BY <1>1, <1>2, <1>3, <1>5, <1>7, <1>8 DEF RowStep

Succeeds(a, b) ==
  /\ b = <<a[1], a[2] + 1>>
  /\ Active(a) /\ exe[a[1]].status = "running" /\ exe' = exe
  /\ att'[a].status \in {"failed", "abandoned"}

AttemptStep(b) ==
  \/ att'[b].status = att[b].status
  \/ Open(b) /\ att'[b].status \in ActiveStatus \cup {"failed", "cancelled", "abandoned"}
  \/ Active(b) /\ att'[b].status = "completed" /\ \E x \in BOOLEAN : Complete(b, x)
  \/ att[b].status = Absent /\ att'[b].status = "leased" /\ b[2] = 1 /\ Begins(b[1])
  \/ att[b].status = Absent /\ att'[b].status = "pending" /\ \E a \in Attempt : Succeeds(a, b)

\* An attempt is leased first or follows a failed or abandoned one; it ends once.
LEMMA AttemptMoves ==
  ASSUME RowsTyped, ExecutionRows, ScanIsCurrent, RowStep, NEW b \in Attempt
  PROVE  AttemptStep(b)
<1> USE DEF ActiveStatus
<1>1. ASSUME NEW g \in Group, NEW e \in Delivery, NEW gs \in SUBSET Group,
             LeaseFirstAttempt(g, e, gs)
      PROVE  AttemptStep(b)
  <2>1. CASE b = <<e, 1>>
    <3>1. att[b].status = Absent
      BY <1>1, <2>1 DEF LeaseFirstAttempt, MayStart, ExecutionRows
    <3>2. att'[b].status = "leased"
      BY <1>1, <2>1 DEF LeaseFirstAttempt, RowsTyped
    <3> QED
      BY <1>1, <2>1, <3>1, <3>2 DEF AttemptStep, Begins
  <2>2. CASE b # <<e, 1>>
    BY <1>1, <2>2 DEF LeaseFirstAttempt, RowsTyped, AttemptStep
  <2> QED
    BY <2>1, <2>2
<1>2. ASSUME NEW g \in Group, NEW e \in Delivery, NEW n \in 1..MaxAttempts, NEW gs,
             LeaseRetry(g, e, n, gs)
      PROVE  AttemptStep(b)
  <2>1. att[<<e, n>>].status = "pending"
    BY <1>2 DEF LeaseRetry, MayRetry, IsNextAttempt, DueAttempts
  <2> QED
    BY <1>2, <2>1 DEF LeaseRetry, RowsTyped, AttemptStep, Open, OpenStatus
<1>3. ASSUME NEW a \in Attempt, Heartbeat(a)
      PROVE  AttemptStep(b)
  <2>1. Open(a)
    BY <1>3 DEF Heartbeat, ActiveAttempt, Active, Open, OpenStatus
  <2>2. att' = [att EXCEPT ![a] = [att[a] EXCEPT !.status = "running", !.lease = LeaseTicks]]
    BY <1>3 DEF Heartbeat, RowsTyped
  <2>3. [att[a] EXCEPT !.status = "running", !.lease = LeaseTicks].status = "running"
    BY Renewal DEF RowsTyped
  <2> QED
    BY <2>1, <2>2, <2>3 DEF RowsTyped, AttemptStep
<1>4. ASSUME NEW a \in Attempt, NEW x \in BOOLEAN, Complete(a, x)
      PROVE  AttemptStep(b)
  <2>1. Active(a) /\ att' = [att EXCEPT ![a] = EndedAttempt("completed")]
    BY <1>4 DEF Complete, Commits, Authoritative
  <2> QED
    BY <1>4, <2>1, EndedRow DEF RowsTyped, AttemptStep
<1>5. ASSUME NEW a \in Attempt, Active(a), NEW status \in {"failed", "abandoned"},
             NEW ticks \in Nat, exe[a[1]].status = "running", exe' = exe,
             att' = WithReplacement([att EXCEPT ![a] = EndedAttempt(status)], a, ticks)
      PROVE  AttemptStep(b)
  <2> DEFINE ended == [att EXCEPT ![a] = EndedAttempt(status)]
  <2>1. ended \in [Attempt -> AttemptRow] /\ ended[a].status = status
    BY EndedRow DEF RowsTyped
  <2>2. a # <<a[1], a[2] + 1>>
    BY AttemptFacts
  <2>3. att'[a].status = status
    <3> HIDE DEF ended
    <3>1. att' = WithReplacement(ended, a, ticks)
      BY <1>5 DEF ended
    <3> QED
      BY <2>1, <2>2, <3>1, Replacement
  <2>4. CASE b = a
    BY <1>5, <2>3, <2>4 DEF AttemptStep, Active, Open, OpenStatus
  <2>5. CASE b # a
    <3>1. ended[b] = att[b]
      BY <2>5 DEF RowsTyped
    <3>2. CASE att'[b] = ended[b]
      BY <3>1, <3>2 DEF AttemptStep
    <3>3. CASE /\ b = <<a[1], a[2] + 1>> /\ ended[b].status = Absent
               /\ att'[b] = PendingAttempt(ticks)
      <4>1. att[b].status = Absent /\ att'[b].status = "pending"
        BY <3>1, <3>3 DEF PendingAttempt
      <4>2. Succeeds(a, b)
        BY <1>5, <2>3, <3>3 DEF Succeeds
      <4> QED
        BY <4>1, <4>2 DEF AttemptStep
    <3>4. \/ att'[b] = ended[b]
          \/ /\ b = <<a[1], a[2] + 1>> /\ ended[b].status = Absent
             /\ att'[b] = PendingAttempt(ticks)
      <4> HIDE DEF ended
      <4>1. att' = WithReplacement(ended, a, ticks)
        BY <1>5 DEF ended
      <4> QED
        BY <2>1, <4>1, Replacement
    <3> QED
      BY <3>2, <3>3, <3>4
  <2> QED
    BY <2>4, <2>5
<1>6. ASSUME NEW a \in Attempt, NEW x, ScheduleRetry(a, x)
      PROVE  AttemptStep(b)
  <2>1. Active(a) /\ exe[a[1]].status = "running" /\ RetryBackoff[a[2]] \in Nat /\ exe' = exe
    BY <1>6, PolicyAssumption DEF ScheduleRetry, Retries, Commits, Authoritative
  <2> QED
    BY <1>5, <1>6, <2>1 DEF ScheduleRetry
<1>7. ASSUME NEW a \in Attempt, AbandonAndReplace(a)
      PROVE  AttemptStep(b)
  <2>1. Active(a) /\ exe[a[1]].status = "running" /\ exe' = exe
    BY <1>7 DEF AbandonAndReplace, MayReplace, ScanIsCurrent
  <2> QED
    BY <1>5, <1>7, <2>1 DEF AbandonAndReplace
<1>8. ASSUME NEW a \in Attempt, Active(a), NEW status \in {"failed", "abandoned"},
             att' = [att EXCEPT ![a] = EndedAttempt(status)]
      PROVE  AttemptStep(b)
  BY <1>8, EndedRow DEF RowsTyped, AttemptStep, Active, Open, OpenStatus
<1>9. ASSUME NEW a \in Attempt, NEW x, DeadLetter(a, x)
      PROVE  AttemptStep(b)
  BY <1>8, <1>9 DEF DeadLetter, Commits, Authoritative
<1>10. ASSUME NEW a \in Attempt, AbandonAndFail(a)
       PROVE  AttemptStep(b)
  BY <1>8, <1>10 DEF AbandonAndFail, ScanIsCurrent
<1>11. ASSUME NEW E, EndOpenAttempts(E, "cancelled")
       PROVE  AttemptStep(b)
  BY <1>11, EndedRow DEF EndOpenAttempts, AttemptStep
<1>12. CASE SettleCancellingRegion \/ \E run \in Run : CancelRun(run)
  BY <1>11, <1>12 DEF SettleCancellingRegion, CancelRun
<1>13. CASE Tick
  <2>1. [att[b] EXCEPT !.due = Left(@), !.lease = Left(@)].status = att[b].status
    BY DEF RowsTyped, AttemptRow
  <2> QED
    BY <1>13, <2>1 DEF Tick, AttemptStep
<1>14. ASSUME att' = att
       PROVE  AttemptStep(b)
  BY <1>14 DEF AttemptStep
<1>15. CASE \/ \E run \in Run, slots \in Ingress : SubmitCommand(run, slots)
            \/ \E gs \in SUBSET Group : PollFindsNothing(gs)
            \/ \E a \in Attempt, result \in Results : HandOffResult(a, result)
            \/ \E a \in Attempt, x \in BOOLEAN : RejectSubmission(a, x)
            \/ ExposeOrphanedDeliveries \/ UNCHANGED rows
  BY <1>14, <1>15 DEF SubmitCommand, PollFindsNothing, HandOffResult, RejectSubmission,
     ExposeOrphanedDeliveries, rows
<1> QED
  BY <1>1, <1>2, <1>3, <1>4, <1>6, <1>7, <1>9, <1>10, <1>12, <1>13, <1>15 DEF RowStep

-----------------------------------------------------------------------------
(* The chain of attempts.                                                  *)

Settled == {"failed", "abandoned", "cancelled"}

\* At most one attempt of an execution is open, and it is the last one.
LEMMA OneOpen ==
  ASSUME RowsTyped, AttemptChain, NEW a \in Attempt, Open(a),
         NEW b \in Attempt, b[1] = a[1], b # a, att[b].status # Absent
  PROVE  b[2] < a[2] /\ att[b].status \in Settled
<1>1. /\ a[2] \in 1..MaxAttempts /\ b[2] \in 1..MaxAttempts
      /\ a = <<a[1], a[2]>> /\ b = <<a[1], b[2]>> /\ b[2] # a[2]
  BY AttemptFacts
<1>2. att[a].status # Absent /\ att[a].status \notin Settled
  BY DEF Open, OpenStatus, ActiveStatus, Absent, Settled
<1>3. MaxAttempts \in Nat
  BY PolicyAssumption
<1>4. CASE a[2] < b[2]
  <2>1. a[2] \in 1..(b[2] - 1)
    BY <1>1, <1>3, <1>4
  <2>2. att[<<b[1], a[2]>>].status \in Settled
    BY <2>1 DEF AttemptChain, Settled
  <2> QED
    BY <1>1, <1>2, <2>2
<1>5. CASE b[2] < a[2]
  <2>1. b[2] \in 1..(a[2] - 1)
    BY <1>1, <1>3, <1>5
  <2>2. att[<<a[1], b[2]>>].status \in Settled
    BY <1>2, <2>1 DEF AttemptChain, Settled
  <2> QED
    BY <1>1, <1>5, <2>2
<1> QED
  BY <1>1, <1>3, <1>4, <1>5

\* A settled attempt stays settled.
LEMMA SettledStays ==
  ASSUME RowsTyped, ExecutionRows, ScanIsCurrent, RowStep, NEW b \in Attempt,
         att[b].status \in Settled
  PROVE  att'[b].status = att[b].status
<1>1. AttemptStep(b)
  BY AttemptMoves
<1>2. att[b].status # Absent /\ ~Open(b) /\ ~Active(b)
  BY DEF Settled, Absent, Open, Active, OpenStatus, ActiveStatus
<1> QED
  BY <1>1, <1>2 DEF AttemptStep

\* A number is only ever added at the end of the chain.
LEMMA AttemptChainStep ==
  ASSUME RowsTyped, ExecutionRows, ScanIsCurrent, AttemptChain, RowStep
  PROVE  AttemptChain'
<1> SUFFICES ASSUME NEW b \in Attempt, att'[b].status # Absent, NEW k \in 1..(b[2] - 1)
             PROVE  att'[<<b[1], k>>].status \in Settled
  BY DEF AttemptChain, Settled
<1>1. <<b[1], k>> \in Attempt /\ b[2] \in 1..MaxAttempts
  BY AttemptFacts, PolicyAssumption DEF Attempt
<1>2. CASE att[b].status # Absent
  <2>1. att[<<b[1], k>>].status \in Settled
    BY <1>2 DEF AttemptChain, Settled
  <2> QED
    BY <1>1, <2>1, SettledStays
<1>3. CASE att[b].status = Absent
  <2>1. b[2] = 1 \/ \E a \in Attempt : Succeeds(a, b)
    BY <1>3, AttemptMoves DEF AttemptStep, Open, Active, OpenStatus, ActiveStatus, Absent
  <2>2. PICK a \in Attempt : Succeeds(a, b)
    BY <1>1, <2>1
  <2>3. b[1] = a[1] /\ b[2] = a[2] + 1 /\ a = <<a[1], a[2]>> /\ a[2] \in Nat
    BY <2>2, AttemptFacts DEF Succeeds
  <2>4. CASE k = a[2]
    BY <2>2, <2>3, <2>4 DEF Succeeds, Settled
  <2>5. CASE k # a[2]
    <3>1. k \in 1..(a[2] - 1)
      BY <2>3, <2>5
    <3>2. att[<<a[1], k>>].status \in Settled
      BY <2>2, <3>1 DEF Succeeds, Active, ActiveStatus, Absent, AttemptChain, Settled
    <3> QED
      BY <1>1, <2>3, <3>2, SettledStays
  <2> QED
    BY <2>4, <2>5
<1> QED
  BY <1>2, <1>3

-----------------------------------------------------------------------------
(* Executions and their attempts.                                          *)

\* What a poll that starts an execution writes for it.
LEMMA Beginning ==
  ASSUME RowsTyped, NEW e \in Delivery, Begins(e)
  PROVE  /\ exe[e].status = Absent
         /\ exe'[e].status = "running"
         /\ e \in exe'[e].inputs
         /\ \A d \in exe'[e].inputs :
              d \in Delivery /\ del[d].status = "ready" /\ del[d].run = del[e].run
         /\ \E n \in 1..MaxAttempts : n = 1 /\ att'[<<e, n>>].status = "leased"
<1>1. PICK g \in Group, gs \in SUBSET Group : LeaseFirstAttempt(g, e, gs)
  BY DEF Begins
<1>2. exe'[e] = [status |-> "running", inputs |-> Selected(g), epoch |-> epoch]
  BY <1>1 DEF LeaseFirstAttempt, RowsTyped
<1>3. e \in Selected(g) /\ exe[e].status = Absent
  BY <1>1 DEF LeaseFirstAttempt, MayStart, IsTrigger
<1>4. \A d \in Selected(g) : d \in Delivery /\ del[d].status = "ready" /\ del[d].run = g[2]
  BY DEF Selected, OnPort, Due
<1>5. <<e, 1>> \in Attempt /\ 1 \in 1..MaxAttempts
  BY PolicyAssumption DEF Attempt
<1>6. att'[<<e, 1>>].status = "leased"
  BY <1>1, <1>5 DEF LeaseFirstAttempt, RowsTyped
<1> QED
  BY <1>2, <1>3, <1>4, <1>5, <1>6

\* An attempt that ends takes the last open attempt of its execution with it.
LEMMA EndingCloses ==
  ASSUME RowsTyped, AttemptChain, NEW a \in Attempt, Active(a),
         NEW status \in {"completed", "failed", "abandoned"},
         att' = [att EXCEPT ![a] = EndedAttempt(status)],
         NEW b \in Attempt, b[1] = a[1]
  PROVE  ~Open(b)'
<1>1. CASE b = a
  BY <1>1, EndedRow DEF RowsTyped, Open, OpenStatus, ActiveStatus
<1>2. CASE b # a /\ Open(b)
  <2>1. Open(a) /\ att[b].status # Absent /\ att[b].status \notin Settled
    BY <1>2 DEF Active, Open, OpenStatus, ActiveStatus, Absent, Settled
  <2> QED
    BY <1>2, <2>1, OneOpen
<1>3. CASE b # a /\ ~Open(b)
  BY <1>3 DEF RowsTyped, Open
<1> QED
  BY <1>1, <1>2, <1>3

\* An execution ends together with its attempts.
LEMMA EndsTogether ==
  ASSUME TypeOK, ExecutionRows, AttemptChain, ScanIsCurrent, RowStep,
         NEW b \in Attempt, exe[b[1]].status = "running", exe'[b[1]].status # "running"
  PROVE  ~Open(b)'
<1>t. RowsTyped /\ b[1] \in Delivery
  BY TypeParts, AttemptFacts
<1>1. ASSUME NEW a \in Attempt, NEW x, Complete(a, x)
      PROVE  ~Open(b)'
  <2>1. Active(a) /\ a[1] = b[1] /\ att' = [att EXCEPT ![a] = EndedAttempt("completed")]
    BY <1>1, <1>t, AttemptFacts DEF Complete, Commits, Authoritative, RowsTyped
  <2> QED
    BY <1>t, <2>1, EndingCloses
<1>2. ASSUME NEW a \in Attempt, NEW x, DeadLetter(a, x)
      PROVE  ~Open(b)'
  <2>1. Active(a) /\ a[1] = b[1] /\ att' = [att EXCEPT ![a] = EndedAttempt("failed")]
    BY <1>2, <1>t, AttemptFacts DEF DeadLetter, Commits, Authoritative, RowsTyped
  <2> QED
    BY <1>t, <2>1, EndingCloses
<1>3. ASSUME NEW a \in Attempt, AbandonAndFail(a)
      PROVE  ~Open(b)'
  <2>1. Active(a) /\ a[1] = b[1] /\ att' = [att EXCEPT ![a] = EndedAttempt("abandoned")]
    BY <1>3, <1>t, AttemptFacts DEF AbandonAndFail, FailRunning, ScanIsCurrent, RowsTyped
  <2> QED
    BY <1>t, <2>1, EndingCloses
<1>4. ASSUME NEW E, EndOpenAttempts(E, "cancelled"), FailRunning(E)
      PROVE  ~Open(b)'
  <2>1. b[1] \in E
    BY <1>4, <1>t DEF FailRunning
  <2> QED
    BY <1>4, <2>1, EndedRow DEF EndOpenAttempts, Open, OpenStatus, ActiveStatus
<1>5. CASE SettleCancellingRegion \/ \E run \in Run : CancelRun(run)
  BY <1>4, <1>5 DEF SettleCancellingRegion, CancelRun
<1>6. ASSUME NEW g \in Group, NEW e \in Delivery, NEW gs, LeaseFirstAttempt(g, e, gs)
      PROVE  FALSE
  BY <1>6, <1>t DEF LeaseFirstAttempt, MayStart, RowsTyped, Absent
<1>7. ASSUME exe' = exe
      PROVE  FALSE
  BY <1>7
<1>8. CASE \/ \E run \in Run, slots \in Ingress : SubmitCommand(run, slots)
           \/ \E g \in Group, f \in Delivery, n \in 1..MaxAttempts, gs \in SUBSET Group :
                LeaseRetry(g, f, n, gs)
           \/ \E gs \in SUBSET Group : PollFindsNothing(gs)
           \/ \E a \in Attempt : Heartbeat(a) \/ AbandonAndReplace(a)
           \/ \E a \in Attempt, result \in Results : HandOffResult(a, result)
  BY <1>7, <1>8 DEF SubmitCommand, LeaseRetry, PollFindsNothing, Heartbeat, AbandonAndReplace,
     HandOffResult
<1>9. CASE \/ \E a \in Attempt, x \in BOOLEAN : ScheduleRetry(a, x) \/ RejectSubmission(a, x)
           \/ ExposeOrphanedDeliveries \/ Tick \/ UNCHANGED rows
  BY <1>7, <1>9 DEF ScheduleRetry, RejectSubmission, ExposeOrphanedDeliveries, Tick, rows
<1> QED
  BY <1>1, <1>2, <1>3, <1>5, <1>6, <1>8, <1>9 DEF RowStep

\* Rows that refer to each other keep doing so.
LEMMA ExecutionRowsStep ==
  ASSUME TypeOK, ExecutionRows, AttemptChain, ScanIsCurrent, RowStep
  PROVE  ExecutionRows'
<1>t. RowsTyped
  BY TypeParts
<1>1. ASSUME NEW d \in Delivery, Exists(d)'
      PROVE  del'[d].comp \in Component /\ del'[d].run \in Run
  BY <1>1, DeliveriesPersist DEF Placed
<1>2. ASSUME NEW e \in Delivery, exe'[e].status # Absent
      PROVE  /\ e \in exe'[e].inputs
             /\ \A d \in exe'[e].inputs : Exists(d)' /\ del'[d].run = del'[e].run
  <2>1. CASE Begins(e)
    BY <1>t, <2>1, Beginning, DeliveriesPersist DEF Keeps, Exists, Absent
  <2>2. CASE exe[e].status # Absent /\ exe'[e].inputs = exe[e].inputs
    <3>1. /\ exe[e].inputs \subseteq Delivery /\ e \in exe[e].inputs
          /\ \A d \in exe[e].inputs : Exists(d) /\ del[d].run = del[e].run
      BY <1>t, <2>2 DEF ExecutionRows, RowsTyped, ExecutionRow
    <3> QED
      BY <2>2, <3>1, DeliveriesPersist DEF Keeps
  <2>3. /\ exe[e] \in ExecutionRow
        /\ \A status \in {"completed", "failed"} :
             [exe[e] EXCEPT !.status = status].inputs = exe[e].inputs
    BY <1>t, ExecutionUpdate DEF RowsTyped
  <2>4. Begins(e) \/ (exe[e].status # Absent /\ exe'[e].inputs = exe[e].inputs)
    BY <1>2, <1>t, <2>3, ExecutionMoves DEF ExecutionStep, Absent
  <2> QED
    BY <2>1, <2>2, <2>4
<1>3. ASSUME NEW e \in Delivery, exe[e].status # Absent
      PROVE  exe'[e].status # Absent
  BY <1>3, <1>t, ExecutionMoves, ExecutionUpdate DEF ExecutionStep, RowsTyped, Absent
<1>4. ASSUME NEW b \in Attempt
      PROVE  /\ att'[b].status # Absent => exe'[b[1]].status # Absent
             /\ Open(b)' => exe'[b[1]].status = "running"
  <2>1. b[1] \in Delivery /\ AttemptStep(b)
    BY <1>t, AttemptFacts, AttemptMoves
  <2>2. CASE Begins(b[1])
    BY <1>t, <2>1, <2>2, Beginning DEF Absent
  <2>3. CASE \E a \in Attempt : Succeeds(a, b)
    BY <2>3 DEF Succeeds, Absent
  <2>4. CASE /\ att[b].status # Absent \/ att'[b].status = Absent
             /\ Open(b)' => Open(b)
    <3>1. att'[b].status # Absent => exe'[b[1]].status # Absent
      BY <1>3, <2>1, <2>4 DEF ExecutionRows
    <3>2. ASSUME Open(b)'
          PROVE  exe'[b[1]].status = "running"
      <4>1. exe[b[1]].status = "running"
        BY <2>4, <3>2 DEF ExecutionRows
      <4> QED
        BY <3>2, <4>1, EndsTogether
    <3> QED
      BY <3>1, <3>2
  <2>5. \/ Begins(b[1]) \/ \E a \in Attempt : Succeeds(a, b)
        \/ /\ att[b].status # Absent \/ att'[b].status = Absent
           /\ Open(b)' => Open(b)
    BY <2>1 DEF AttemptStep, Open, Active, OpenStatus, ActiveStatus, Absent
  <2> QED
    BY <2>2, <2>3, <2>4, <2>5
<1> QED
  BY <1>1, <1>2, <1>4 DEF ExecutionRows

-----------------------------------------------------------------------------
(* Coherence of leases.                                                    *)

\* Lease fields of a delivery that a transaction leaves alone.
SameLease(d) ==
  /\ del'[d].status = del[d].status
  /\ del'[d].token = del[d].token
  /\ del'[d].lease = del[d].lease

\* The inputs of an execution are written once.
LEMMA InputsStay ==
  ASSUME RowsTyped, RowStep, NEW e \in Delivery, exe[e].status # Absent
  PROVE  exe'[e].inputs = exe[e].inputs
  BY ExecutionMoves, ExecutionUpdate DEF ExecutionStep, RowsTyped

\* A transaction that ends the attempts of R, frees exactly what they hold and
\* leaves every other lease alone keeps leases coherent.
LEMMA ReleaseCoheres ==
  ASSUME RowsTyped, ExecutionRows, LeaseCoherence, RowStep, NEW R,
         \A d \in Delivery : del'[d].status = "leased" =>
           del[d].status = "leased" /\ del[d].token \notin R,
         \A d \in Delivery : del[d].status = "leased" /\ del[d].token \notin R => SameLease(d),
         \A b \in Attempt : Active(b)' => Active(b) /\ b \notin R,
         \A b \in Attempt : Active(b) /\ b \notin R => att'[b] = att[b]
  PROVE  LeaseCoherence'
<1>1. ASSUME NEW b \in Attempt, Active(b)
      PROVE  Inputs(b) \subseteq Delivery /\ Inputs(b)' = Inputs(b)
  BY <1>1, InputsStay, AttemptFacts DEF ExecutionRows, Active, ActiveStatus, Absent, Inputs,
     RowsTyped, ExecutionRow
<1>2. ASSUME NEW d \in Delivery, del'[d].status = "leased"
      PROVE  \E b \in Attempt : del'[d].token = b /\ Active(b)' /\ d \in Inputs(b)'
  <2>1. del[d].status = "leased" /\ del[d].token \notin R /\ SameLease(d)
    BY <1>2
  <2>2. PICK b \in Attempt : del[d].token = b /\ Active(b) /\ d \in Inputs(b)
    BY <2>1 DEF LeaseCoherence
  <2>3. del'[d].token = b /\ att'[b] = att[b]
    BY <2>1, <2>2 DEF SameLease
  <2> QED
    BY <1>1, <2>2, <2>3 DEF Active
<1>3. ASSUME NEW b \in Attempt, Active(b)', NEW d \in Inputs(b)'
      PROVE  del'[d].status = "leased" /\ del'[d].token = b /\ del'[d].lease = att'[b].lease
  <2>1. Active(b) /\ b \notin R /\ att'[b] = att[b]
    BY <1>3
  <2>2. d \in Inputs(b) /\ d \in Delivery
    BY <1>1, <1>3, <2>1
  <2>3. del[d].status = "leased" /\ del[d].token = b /\ del[d].lease = att[b].lease
    BY <2>1, <2>2 DEF LeaseCoherence
  <2> QED
    BY <2>1, <2>2, <2>3 DEF SameLease
<1> QED
  BY <1>2, <1>3 DEF LeaseCoherence

\* One attempt stops being active; no other one starts or stops.
OnlyEnds(a) ==
  /\ ~Active(a)'
  /\ \A b \in Attempt \ {a} : att'[b] = att[b] \/ (~Active(b)' /\ ~Active(b))

\* One attempt ends and its inputs are no longer leased.
LEMMA EndingCoheres ==
  ASSUME RowsTyped, ExecutionRows, LeaseCoherence, RowStep, NEW a \in Attempt, Active(a),
         OnlyEnds(a),
         \A d \in Delivery : IF d \in Inputs(a) THEN del'[d].status # "leased"
                             ELSE \/ del'[d] = del[d]
                                  \/ ~Exists(d) /\ del'[d].status # "leased"
  PROVE  LeaseCoherence'
<1>1. \A d \in Delivery : d \in Inputs(a) <=> del[d].status = "leased" /\ del[d].token = a
  BY DEF LeaseCoherence
<1>2. \A d \in Delivery : del'[d].status = "leased" =>
        del[d].status = "leased" /\ del[d].token \notin {a}
  BY <1>1
<1>3. \A d \in Delivery : del[d].status = "leased" /\ del[d].token \notin {a} => SameLease(d)
  BY <1>1 DEF SameLease, Exists, Absent
<1>4. \A b \in Attempt : Active(b)' => Active(b) /\ b \notin {a}
  BY DEF Active, OnlyEnds
<1>5. \A b \in Attempt : Active(b) /\ b \notin {a} => att'[b] = att[b]
  BY DEF OnlyEnds
<1> QED
  BY <1>2, <1>3, <1>4, <1>5, ReleaseCoheres

\* A poll leases ready deliveries to an attempt nobody else works on.
LEMMA GrantCoheres ==
  ASSUME RowsTyped, ExecutionRows, LeaseCoherence, RowStep,
         NEW g, NEW gs, NEW a \in Attempt,
         att' = [att EXCEPT ![a] = [status |-> "leased", lease |-> LeaseTicks, due |-> 0]],
         del' = LeaseInputs(g, a, gs),
         exe'[a[1]].inputs = Selected(g), Selected(g) # {},
         exe[a[1]].status = Absent \/ exe[a[1]].inputs = Selected(g)
  PROVE  LeaseCoherence'
<1>1. \A d \in Selected(g) : d \in Delivery /\ del[d].status = "ready"
  BY DEF Selected, OnPort, Due
<1>2. \A d \in Selected(g) :
        del'[d].status = "leased" /\ del'[d].token = a /\ del'[d].lease = LeaseTicks
  <2>1. ASSUME NEW d \in Selected(g)
        PROVE  del[d] \in DeliveryRow /\ del'[d] = Leased(del[d], a)
    BY <1>1, <2>1 DEF LeaseInputs, RowsTyped
  <2> QED
    BY <2>1, LeaseUpdates
<1>3. ASSUME NEW d \in Delivery, d \notin Selected(g)
      PROVE  SameLease(d)
  <2>1. /\ [del[d] EXCEPT !.due = RecheckTicks].status = del[d].status
        /\ [del[d] EXCEPT !.due = RecheckTicks].token = del[d].token
        /\ [del[d] EXCEPT !.due = RecheckTicks].lease = del[d].lease
    BY DEF RowsTyped, DeliveryRow
  <2> QED
    BY <1>3, <2>1 DEF LeaseInputs, DeferGroups, SameLease
<1>4. ASSUME NEW b \in Attempt, Active(b)
      PROVE  /\ Inputs(b)' = Inputs(b) /\ Inputs(b) \subseteq Delivery
             /\ Inputs(b) \cap Selected(g) = {} /\ b # a
  <2>1. /\ exe[b[1]].status # Absent /\ b[1] \in Inputs(b)
        /\ Inputs(b)' = Inputs(b) /\ Inputs(b) \subseteq Delivery
    BY <1>4, InputsStay, AttemptFacts DEF ExecutionRows, Active, ActiveStatus, Absent, Inputs,
       RowsTyped, ExecutionRow
  <2>2. \A d \in Inputs(b) : del[d].status = "leased"
    BY <1>4 DEF LeaseCoherence
  <2>3. Inputs(b) \cap Selected(g) = {}
    BY <1>1, <2>2
  <2> QED
    BY <2>1, <2>3 DEF Inputs
<1>5. att'[a].lease = LeaseTicks /\ Active(a)' /\ \A b \in Attempt : b # a => att'[b] = att[b]
  BY DEF RowsTyped, Active, ActiveStatus
<1>6. ASSUME NEW d \in Delivery, del'[d].status = "leased"
      PROVE  \E b \in Attempt : del'[d].token = b /\ Active(b)' /\ d \in Inputs(b)'
  <2>1. CASE d \in Selected(g)
    BY <1>2, <1>5, <2>1 DEF Inputs
  <2>2. CASE d \notin Selected(g)
    <3>1. del[d].status = "leased" /\ del'[d].token = del[d].token
      BY <1>3, <1>6, <2>2 DEF SameLease
    <3>2. PICK b \in Attempt : del[d].token = b /\ Active(b) /\ d \in Inputs(b)
      BY <3>1 DEF LeaseCoherence
    <3>3. Active(b)'
      BY <1>4, <1>5, <3>2 DEF Active
    <3> QED
      BY <1>4, <3>1, <3>2, <3>3
  <2> QED
    BY <2>1, <2>2
<1>7. ASSUME NEW b \in Attempt, Active(b)', NEW d \in Inputs(b)'
      PROVE  del'[d].status = "leased" /\ del'[d].token = b /\ del'[d].lease = att'[b].lease
  <2>1. CASE b = a
    BY <1>2, <1>5, <1>7, <2>1 DEF Inputs
  <2>2. CASE b # a
    <3>1. Active(b) /\ att'[b] = att[b]
      BY <1>5, <1>7, <2>2 DEF Active
    <3>2. d \in Inputs(b) /\ d \in Delivery /\ d \notin Selected(g)
      BY <1>4, <1>7, <3>1
    <3> QED
      BY <1>3, <3>1, <3>2 DEF LeaseCoherence, SameLease
  <2> QED
    BY <2>1, <2>2
<1> QED
  BY <1>6, <1>7 DEF LeaseCoherence

\* What the helpers write into a lease.
LEMMA UnleasedStatus ==
  ASSUME RowsTyped, NEW d \in Delivery,
         NEW status \in {"completed", "dead_lettered", "cancelled"}, NEW ticks
  PROVE  Unleased(del[d], status).status # "leased" /\ Readied(del[d], ticks).status # "leased"
  BY DEF RowsTyped, DeliveryRow, Unleased, Readied

\* Ending an attempt, with or without a successor.
LEMMA EndedAlone ==
  ASSUME RowsTyped, NEW a \in Attempt, NEW status \in {"completed", "failed", "abandoned"},
         NEW ticks \in Nat,
         \/ att' = [att EXCEPT ![a] = EndedAttempt(status)]
         \/ att' = WithReplacement([att EXCEPT ![a] = EndedAttempt(status)], a, ticks)
  PROVE  OnlyEnds(a)
<1> DEFINE ended == [att EXCEPT ![a] = EndedAttempt(status)]
<1>1. /\ ended \in [Attempt -> AttemptRow] /\ ended[a].status = status
      /\ \A b \in Attempt : b # a => ended[b] = att[b]
  BY EndedRow DEF RowsTyped
<1>2. a # <<a[1], a[2] + 1>>
  BY AttemptFacts
<1>3. att' = ended \/ att' = WithReplacement(ended, a, ticks)
  OBVIOUS
<1> HIDE DEF ended
<1>4. \A b \in Attempt :
        \/ att'[b] = ended[b]
        \/ /\ b = <<a[1], a[2] + 1>> /\ ended[b].status = Absent
           /\ att'[b] = PendingAttempt(ticks)
  BY <1>1, <1>3, Replacement
<1> QED
  <2>1. att'[a].status = status
    BY <1>1, <1>2, <1>4
  <2>2. ASSUME NEW b \in Attempt, b # a
        PROVE  att'[b] = att[b] \/ (~Active(b)' /\ ~Active(b))
    <3>1. CASE ended[b].status = Absent /\ att'[b] = PendingAttempt(ticks)
      BY <1>1, <2>2, <3>1 DEF Active, ActiveStatus, PendingAttempt, Absent
    <3> QED
      BY <1>1, <1>4, <2>2, <3>1
  <2>3. ~Active(a)'
    BY <2>1 DEF Active, ActiveStatus
  <2> QED
    BY <2>2, <2>3 DEF OnlyEnds

\* Cancelling the executions of E with their deliveries frees what they hold.
LEMMA CancellationCoheres ==
  ASSUME RowsTyped, ExecutionRows, LeaseCoherence, RowStep, NEW S \in SUBSET Delivery, NEW E,
         EndOpenAttempts(E, "cancelled"), CancelDeliveries(S),
         \A b \in Attempt : \A d \in Inputs(b) : Active(b) => (b[1] \in E <=> d \in S)
  PROVE  LeaseCoherence'
<1> DEFINE R == {b \in Attempt : b[1] \in E /\ Active(b)}
<1>1. \A d \in Delivery : del[d].status = "leased" => (d \in S <=> del[d].token \in R)
  BY DEF LeaseCoherence
<1>2. \A d \in Delivery : del'[d].status = "leased" =>
        del[d].status = "leased" /\ del[d].token \notin R
  BY <1>1, UnleasedStatus DEF CancelDeliveries
<1>3. \A d \in Delivery : del[d].status = "leased" /\ del[d].token \notin R => SameLease(d)
  BY <1>1 DEF CancelDeliveries, SameLease
<1>4. \A b \in Attempt : Active(b)' => Active(b) /\ b \notin R
  BY EndedRow DEF EndOpenAttempts, Active, Open, ActiveStatus, OpenStatus
<1>5. \A b \in Attempt : Active(b) /\ b \notin R => att'[b] = att[b]
  BY DEF EndOpenAttempts
<1> QED
  BY <1>2, <1>3, <1>4, <1>5, ReleaseCoheres

\* What a completing commit does to the deliveries.
LEMMA CompleteDeliveries ==
  ASSUME RowsTyped, ExecutionRows, NEW a \in Attempt, NEW x, Complete(a, x), NEW d \in Delivery
  PROVE  IF d \in Inputs(a) THEN del'[d] = Unleased(del[d], "completed")
         ELSE del'[d] = del[d] \/ (~Exists(d) /\ del'[d].status = "ready")
<1>1. PICK new \in Emissions(Routes[del[a[1]].comp]) :
        del' = [c \in Delivery |->
                  IF c \in Inputs(a) THEN Unleased(del[c], "completed")
                  ELSE IF c \in DOMAIN new THEN NewDelivery(new[c], del[a[1]].run)
                  ELSE del[c]]
  BY DEF Complete
<1>2. Active(a)
  BY DEF Complete, Commits, Authoritative
<1>3. del[a[1]].comp \in Component /\ del[a[1]].run \in Run
  BY <1>2, AttemptFacts DEF ExecutionRows, Active, ActiveStatus, Absent
<1>4. \A c \in DOMAIN new : ~Exists(c) /\ NewDelivery(new[c], del[a[1]].run).status = "ready"
  BY <1>3, InsertionFacts, TopologyAssumption, NewRows
<1> QED
  BY <1>1, <1>4

\* Leases stay coherent through every transaction.
LEMMA LeaseCoherenceStep ==
  ASSUME InductiveInvariant, RowStep
  PROVE  LeaseCoherence'
<1>t. /\ RowsTyped /\ ExecutionRows /\ LeaseCoherence /\ ScanIsCurrent
      /\ RecoveryLeavesNoExpiredLease
  BY TypeParts DEF InductiveInvariant
<1>1. ASSUME att' = att,
             \A d \in Delivery : del'[d].status = "leased" \/ del[d].status = "leased" => SameLease(d)
      PROVE  LeaseCoherence'
  <2> DEFINE R == {}
  <2>1. \A d \in Delivery : del'[d].status = "leased" =>
          del[d].status = "leased" /\ del[d].token \notin R
    BY <1>1 DEF SameLease
  <2>2. \A d \in Delivery : del[d].status = "leased" /\ del[d].token \notin R => SameLease(d)
    BY <1>1
  <2>3. \A b \in Attempt : Active(b)' => Active(b) /\ b \notin R
    BY <1>1 DEF Active
  <2>4. \A b \in Attempt : Active(b) /\ b \notin R => att'[b] = att[b]
    BY <1>1
  <2> HIDE DEF R
  <2> QED
    BY <1>t, <2>1, <2>2, <2>3, <2>4, ReleaseCoheres
<1>2. ASSUME NEW run \in Run, NEW slots \in Ingress, SubmitCommand(run, slots)
      PROVE  LeaseCoherence'
  <2>1. PICK new \in Insertions(slots) :
          del' = [c \in Delivery |-> IF c \in DOMAIN new THEN NewDelivery(new[c], run) ELSE del[c]]
    BY <1>2 DEF SubmitCommand
  <2>2. \A d \in Delivery :
          \/ del'[d] = del[d]
          \/ ~Exists(d) /\ del'[d].status = "ready"
    BY <2>1, InsertionFacts, TopologyAssumption, NewRows
  <2> QED
    BY <1>1, <1>2, <2>2 DEF SubmitCommand, SameLease, Exists, Absent
<1>3. ASSUME NEW g \in Group, NEW e \in Delivery, NEW gs, LeaseFirstAttempt(g, e, gs)
      PROVE  LeaseCoherence'
  <2>1. <<e, 1>> \in Attempt /\ e \in Selected(g)
    BY <1>3, PolicyAssumption DEF Attempt, LeaseFirstAttempt, MayStart, IsTrigger
  <2>2. exe[e].status = Absent /\ exe'[e].inputs = Selected(g)
    BY <1>3, <1>t DEF LeaseFirstAttempt, MayStart, RowsTyped
  <2> QED
    BY <1>3, <1>t, <2>1, <2>2, GrantCoheres DEF LeaseFirstAttempt
<1>4. ASSUME NEW g \in Group, NEW e \in Delivery, NEW n \in 1..MaxAttempts, NEW gs,
             LeaseRetry(g, e, n, gs)
      PROVE  LeaseCoherence'
  <2>1. <<e, n>> \in Attempt /\ e \in Selected(g)
    BY <1>4 DEF Attempt, LeaseRetry, MayRetry, IsTrigger
  <2>2. exe[e].inputs = Selected(g) /\ exe' = exe
    BY <1>4 DEF LeaseRetry, MayRetry, Resumes
  <2> QED
    BY <1>4, <1>t, <2>1, <2>2, GrantCoheres DEF LeaseRetry
<1>5. ASSUME NEW gs, PollFindsNothing(gs)
      PROVE  LeaseCoherence'
  <2>1. \A d \in Delivery :
          /\ [del[d] EXCEPT !.due = RecheckTicks].status = del[d].status
          /\ [del[d] EXCEPT !.due = RecheckTicks].token = del[d].token
          /\ [del[d] EXCEPT !.due = RecheckTicks].lease = del[d].lease
    BY <1>t DEF RowsTyped, DeliveryRow
  <2>2. \A d \in Delivery : SameLease(d)
    BY <1>5, <2>1 DEF PollFindsNothing, DeferGroups, SameLease
  <2> QED
    BY <1>1, <1>5, <2>2 DEF PollFindsNothing
<1>6. ASSUME NEW a \in Attempt, NEW x, Complete(a, x)
      PROVE  LeaseCoherence'
  <2>1. Active(a) /\ att' = [att EXCEPT ![a] = EndedAttempt("completed")]
    BY <1>6 DEF Complete, Commits, Authoritative
  <2>2. \A d \in Delivery : IF d \in Inputs(a) THEN del'[d].status # "leased"
                            ELSE \/ del'[d] = del[d]
                                 \/ ~Exists(d) /\ del'[d].status # "leased"
    BY <1>6, <1>t, CompleteDeliveries, UnleasedStatus
  <2> QED
    BY <1>t, <2>1, <2>2, EndedAlone, EndingCoheres
<1>7. ASSUME NEW a \in Attempt, NEW x, ScheduleRetry(a, x)
      PROVE  LeaseCoherence'
  <2>1. Active(a) /\ RetryBackoff[a[2]] \in Nat
    BY <1>7, PolicyAssumption DEF ScheduleRetry, Retries, Commits, Authoritative
  <2>2. \A d \in Delivery : IF d \in Inputs(a) THEN del'[d].status # "leased"
                            ELSE del'[d] = del[d]
    BY <1>7, <1>t, UnleasedStatus DEF ScheduleRetry
  <2>3. OnlyEnds(a)
    BY <1>7, <1>t, <2>1, EndedAlone DEF ScheduleRetry
  <2> QED
    BY <1>t, <2>1, <2>2, <2>3, EndingCoheres
<1>8. ASSUME NEW a \in Attempt, NEW x, DeadLetter(a, x)
      PROVE  LeaseCoherence'
  <2>1. Active(a)
    BY <1>8 DEF DeadLetter, Commits, Authoritative
  <2>2. \A d \in Delivery : IF d \in Inputs(a) THEN del'[d].status # "leased"
                            ELSE del'[d] = del[d]
    BY <1>8, <1>t, UnleasedStatus DEF DeadLetter
  <2>3. OnlyEnds(a)
    BY <1>8, <1>t, EndedAlone DEF DeadLetter
  <2> QED
    BY <1>t, <2>1, <2>2, <2>3, EndingCoheres
<1>9. ASSUME NEW a \in Attempt, AbandonAndReplace(a)
      PROVE  LeaseCoherence'
  <2>1. Active(a)
    BY <1>9, <1>t DEF AbandonAndReplace, ScanIsCurrent
  <2>2. \A d \in Delivery : IF d \in Inputs(a) THEN del'[d].status # "leased"
                            ELSE del'[d] = del[d]
    BY <1>9, <1>t, UnleasedStatus DEF AbandonAndReplace
  <2>3. OnlyEnds(a)
    BY <1>9, <1>t, EndedAlone DEF AbandonAndReplace
  <2> QED
    BY <1>t, <2>1, <2>2, <2>3, EndingCoheres
<1>10. ASSUME NEW a \in Attempt, AbandonAndFail(a)
       PROVE  LeaseCoherence'
  <2>1. Active(a) /\ exe[a[1]].status = "running"
    BY <1>10, <1>t DEF AbandonAndFail, ScanIsCurrent, ExecutionRows, Active, Open, OpenStatus
  <2>2. \A d \in Delivery : IF d \in Inputs(a) THEN del'[d].status # "leased"
                            ELSE del'[d] = del[d]
    BY <1>10, <1>t, <2>1, UnleasedStatus DEF AbandonAndFail
  <2>3. OnlyEnds(a)
    BY <1>10, <1>t, EndedAlone DEF AbandonAndFail
  <2> QED
    BY <1>t, <2>1, <2>2, <2>3, EndingCoheres
<1>11. ASSUME NEW run \in Run, CancelRun(run)
       PROVE  LeaseCoherence'
  <2> DEFINE S == {d \in Delivery : Exists(d) /\ del[d].run = run}
  <2>1. \A b \in Attempt : \A d \in Inputs(b) : Active(b) => (b[1] \in RunExecutions(run) <=> d \in S)
    BY <1>t, AttemptFacts DEF ExecutionRows, RowsTyped, ExecutionRow, Inputs, Active,
       ActiveStatus, Absent, RunExecutions
  <2> QED
    BY <1>11, <1>t, <2>1, CancellationCoheres DEF CancelRun
<1>12. CASE SettleCancellingRegion
  <2>1. \A b \in Attempt : \A d \in Inputs(b) : Active(b) => (b[1] \in Delivery <=> d \in Delivery)
    BY <1>t, AttemptFacts DEF RowsTyped, ExecutionRow, Inputs
  <2> QED
    BY <1>12, <1>t, <2>1, CancellationCoheres DEF SettleCancellingRegion
<1>13. CASE ExposeOrphanedDeliveries
  <2>1. \A d \in Delivery : del[d].status = "leased" => del[d].lease > 0
    BY <1>13, <1>t DEF ExposeOrphanedDeliveries, RecoveryLeavesNoExpiredLease, LeaseCoherence
  <2>2. \A d \in Delivery : del'[d] = del[d]
    BY <1>13, <2>1 DEF ExposeOrphanedDeliveries
  <2> QED
    BY <1>1, <1>13, <2>2 DEF ExposeOrphanedDeliveries, SameLease
<1>14. CASE \/ \E a \in Attempt, result \in Results : HandOffResult(a, result)
            \/ \E a \in Attempt, x \in BOOLEAN : RejectSubmission(a, x)
            \/ UNCHANGED rows
  <2>1. att' = att /\ del' = del
    BY <1>14 DEF HandOffResult, RejectSubmission, rows
  <2> QED
    BY <1>1, <2>1 DEF SameLease
<1>15. ASSUME NEW a \in Attempt, Heartbeat(a)
       PROVE  LeaseCoherence'
  <2>1. att' = [att EXCEPT ![a] = [att[a] EXCEPT !.status = "running", !.lease = LeaseTicks]]
    BY <1>15, <1>t DEF Heartbeat, RowsTyped
  <2>2. Active(a) /\ att'[a].status = "running" /\ att'[a].lease = LeaseTicks
    <3>1. att[a] \in AttemptRow /\ Active(a)
      BY <1>15, <1>t DEF Heartbeat, ActiveAttempt, RowsTyped
    <3>2. att'[a] = [att[a] EXCEPT !.status = "running", !.lease = LeaseTicks]
      BY <1>t, <2>1 DEF RowsTyped
    <3> QED
      BY <3>1, <3>2, Renewal
  <2>3. \A b \in Attempt : /\ Active(b)' <=> Active(b)
                           /\ b # a => att'[b] = att[b]
    BY <1>t, <2>1, <2>2 DEF Active, ActiveStatus, RowsTyped
  <2>4. \A d \in Delivery :
          /\ del'[d].status = del[d].status /\ del'[d].token = del[d].token
          /\ IF d \in Inputs(a) /\ del[d].status = "leased" /\ del[d].token = a
             THEN del'[d].lease = LeaseTicks ELSE del'[d].lease = del[d].lease
    <3>1. \A d \in Delivery :
            /\ [del[d] EXCEPT !.lease = LeaseTicks].status = del[d].status
            /\ [del[d] EXCEPT !.lease = LeaseTicks].token = del[d].token
            /\ [del[d] EXCEPT !.lease = LeaseTicks].lease = LeaseTicks
      BY <1>t DEF RowsTyped, DeliveryRow
    <3> QED
      BY <1>15, <3>1 DEF Heartbeat
  <2>5. exe' = exe /\ \A b \in Attempt : Inputs(b) \subseteq Delivery
    BY <1>15, <1>t, AttemptFacts DEF Heartbeat, RowsTyped, ExecutionRow, Inputs
  <2>6. ASSUME NEW d \in Delivery, del'[d].status = "leased"
        PROVE  \E b \in Attempt : del'[d].token = b /\ Active(b)' /\ d \in Inputs(b)'
    BY <1>t, <2>3, <2>4, <2>5, <2>6 DEF LeaseCoherence, Inputs
  <2>7. ASSUME NEW b \in Attempt, Active(b)', NEW d \in Inputs(b)'
        PROVE  del'[d].status = "leased" /\ del'[d].token = b /\ del'[d].lease = att'[b].lease
    <3>1. Active(b) /\ d \in Inputs(b) /\ d \in Delivery
      BY <2>3, <2>5, <2>7 DEF Inputs
    <3>2. del[d].status = "leased" /\ del[d].token = b /\ del[d].lease = att[b].lease
      BY <1>t, <3>1 DEF LeaseCoherence
    <3> QED
      BY <2>2, <2>3, <2>4, <3>1, <3>2
  <2> QED
    BY <2>6, <2>7 DEF LeaseCoherence
<1>16. CASE Tick
  <2>1. \A d \in Delivery : /\ del'[d].status = del[d].status
                            /\ del'[d].token = del[d].token
                            /\ del'[d].lease = Left(del[d].lease)
    <3>1. \A d \in Delivery :
            /\ [del[d] EXCEPT !.due = Left(@), !.lease = Left(@)].status = del[d].status
            /\ [del[d] EXCEPT !.due = Left(@), !.lease = Left(@)].token = del[d].token
            /\ [del[d] EXCEPT !.due = Left(@), !.lease = Left(@)].lease = Left(del[d].lease)
      BY <1>t DEF RowsTyped, DeliveryRow
    <3> QED
      BY <1>16, <3>1 DEF Tick
  <2>2. \A b \in Attempt : att'[b].status = att[b].status /\ att'[b].lease = Left(att[b].lease)
    <3>1. \A b \in Attempt :
            /\ [att[b] EXCEPT !.due = Left(@), !.lease = Left(@)].status = att[b].status
            /\ [att[b] EXCEPT !.due = Left(@), !.lease = Left(@)].lease = Left(att[b].lease)
      BY <1>t DEF RowsTyped, AttemptRow
    <3> QED
      BY <1>16, <3>1 DEF Tick
  <2>3. exe' = exe /\ \A b \in Attempt : Inputs(b) \subseteq Delivery
    BY <1>16, <1>t, AttemptFacts DEF Tick, RowsTyped, ExecutionRow, Inputs
  <2>4. \A d \in Delivery : del'[d].status = "leased" =>
          \E b \in Attempt : del'[d].token = b /\ Active(b)' /\ d \in Inputs(b)'
    BY <1>t, <2>1, <2>2, <2>3 DEF LeaseCoherence, Active, Inputs
  <2>5. \A b \in Attempt : Active(b)' => \A d \in Inputs(b)' :
          del'[d].status = "leased" /\ del'[d].token = b /\ del'[d].lease = att'[b].lease
    BY <1>t, <2>1, <2>2, <2>3 DEF LeaseCoherence, Active, Inputs
  <2> QED
    BY <2>4, <2>5 DEF LeaseCoherence
<1> QED
  BY <1>2, <1>3, <1>4, <1>5, <1>6, <1>7, <1>8, <1>9, <1>10, <1>11, <1>12, <1>13, <1>14,
     <1>15, <1>16 DEF RowStep

-----------------------------------------------------------------------------
(* How a delivery may move.                                                *)

Inserts ==
  \/ \E run \in Run, slots \in Ingress : SubmitCommand(run, slots)
  \/ \E a \in Attempt, x \in BOOLEAN : Complete(a, x)

DeliveryStep(d) ==
  \/ del'[d].status = del[d].status
  \/ del[d].status = Absent /\ del'[d].status = "ready" /\ Inserts
  \/ /\ del[d].status \in {"ready", "leased"}
     /\ del'[d].status \in {"ready", "leased", "dead_lettered", "cancelled"}
  \/ /\ del[d].status = "leased" /\ del'[d].status = "completed"
     /\ \E a \in Attempt, x \in BOOLEAN : Complete(a, x) /\ d \in Inputs(a)

\* A delivery is born ready, is completed by a commit only, and ends once.
LEMMA DeliveryMoves ==
  ASSUME InductiveInvariant, RowStep, NEW d \in Delivery
  PROVE  DeliveryStep(d)
<1>t. /\ RowsTyped /\ ExecutionRows /\ LeaseCoherence /\ ScanIsCurrent
      /\ del[d] \in DeliveryRow
  BY TypeParts DEF InductiveInvariant, RowsTyped
<1>1. \A ticks : Readied(del[d], ticks).status = "ready"
  BY <1>t DEF Readied, Unleased, DeliveryRow
<1>2. \A status \in {"completed", "dead_lettered", "cancelled"} :
        Unleased(del[d], status).status = status
  BY <1>t, UnleasedTyped
<1>3. \A a \in Attempt : Active(a) /\ d \in Inputs(a) => del[d].status = "leased"
  BY <1>t DEF LeaseCoherence
<1>4. ASSUME NEW run \in Run, NEW slots \in Ingress, SubmitCommand(run, slots)
      PROVE  DeliveryStep(d)
  <2>1. PICK new \in Insertions(slots) :
          del' = [c \in Delivery |-> IF c \in DOMAIN new THEN NewDelivery(new[c], run) ELSE del[c]]
    BY <1>4 DEF SubmitCommand
  <2>2. \A c \in DOMAIN new : ~Exists(c) /\ NewDelivery(new[c], run).status = "ready"
    BY <2>1, InsertionFacts, TopologyAssumption, NewRows
  <2>3. Inserts
    BY <1>4 DEF Inserts
  <2> QED
    BY <2>1, <2>2, <2>3 DEF DeliveryStep, Exists
<1>5. ASSUME NEW gs
      PROVE  DeferGroups(gs)[d].status = del[d].status
  <2>1. [del[d] EXCEPT !.due = RecheckTicks].status = del[d].status
    BY <1>t DEF DeliveryRow
  <2> QED
    BY <2>1 DEF DeferGroups
<1>6. ASSUME NEW g \in Group, NEW a \in Attempt, NEW gs, del' = LeaseInputs(g, a, gs)
      PROVE  DeliveryStep(d)
  <2>1. CASE d \in Selected(g)
    <3>1. del[d].status = "ready"
      BY <2>1 DEF Selected, OnPort, Due
    <3>2. del'[d].status = "leased"
      BY <1>6, <1>t, <2>1, LeaseUpdates DEF LeaseInputs
    <3> QED
      BY <3>1, <3>2 DEF DeliveryStep
  <2>2. CASE d \notin Selected(g)
    BY <1>5, <1>6, <2>2 DEF LeaseInputs, DeliveryStep
  <2> QED
    BY <2>1, <2>2
<1>7. ASSUME NEW g \in Group, NEW e \in Delivery, NEW gs, LeaseFirstAttempt(g, e, gs)
      PROVE  DeliveryStep(d)
  <2>1. <<e, 1>> \in Attempt
    BY PolicyAssumption DEF Attempt
  <2> QED
    BY <1>6, <1>7, <2>1 DEF LeaseFirstAttempt
<1>8. ASSUME NEW g \in Group, NEW e \in Delivery, NEW n \in 1..MaxAttempts, NEW gs,
             LeaseRetry(g, e, n, gs)
      PROVE  DeliveryStep(d)
  <2>1. <<e, n>> \in Attempt
    BY DEF Attempt
  <2> QED
    BY <1>6, <1>8, <2>1 DEF LeaseRetry
<1>9. ASSUME NEW gs, PollFindsNothing(gs)
      PROVE  DeliveryStep(d)
  BY <1>5, <1>9 DEF PollFindsNothing, DeliveryStep
<1>10. ASSUME NEW a \in Attempt, Heartbeat(a)
       PROVE  DeliveryStep(d)
  <2>1. [del[d] EXCEPT !.lease = LeaseTicks].status = del[d].status
    BY <1>t DEF DeliveryRow
  <2> QED
    BY <1>10, <2>1 DEF Heartbeat, DeliveryStep
<1>11. ASSUME NEW a \in Attempt, NEW x \in BOOLEAN, Complete(a, x)
       PROVE  DeliveryStep(d)
  <2>1. Active(a)
    BY <1>11 DEF Complete, Commits, Authoritative
  <2>2. Inserts
    BY <1>11 DEF Inserts
  <2> QED
    BY <1>2, <1>3, <1>11, <1>t, <2>1, <2>2, CompleteDeliveries DEF DeliveryStep, Exists
<1>12. ASSUME NEW a \in Attempt, NEW x, ScheduleRetry(a, x)
       PROVE  DeliveryStep(d)
  <2>1. Active(a)
    BY <1>12 DEF ScheduleRetry, Commits, Authoritative
  <2> QED
    BY <1>1, <1>3, <1>12, <2>1 DEF ScheduleRetry, DeliveryStep
<1>13. ASSUME NEW a \in Attempt, NEW x, DeadLetter(a, x)
       PROVE  DeliveryStep(d)
  <2>1. Active(a)
    BY <1>13 DEF DeadLetter, Commits, Authoritative
  <2> QED
    BY <1>2, <1>3, <1>13, <2>1 DEF DeadLetter, DeliveryStep
<1>14. ASSUME NEW S, CancelDeliveries(S)
       PROVE  DeliveryStep(d)
  BY <1>2, <1>14 DEF CancelDeliveries, DeliveryStep
<1>15. ASSUME NEW a \in Attempt, AbandonAndReplace(a)
       PROVE  DeliveryStep(d)
  <2>1. Active(a)
    BY <1>15, <1>t DEF AbandonAndReplace, ScanIsCurrent
  <2> QED
    BY <1>1, <1>3, <1>15, <2>1 DEF AbandonAndReplace, DeliveryStep
<1>16. ASSUME NEW a \in Attempt, AbandonAndFail(a)
       PROVE  DeliveryStep(d)
  <2>1. Active(a)
    BY <1>16, <1>t DEF AbandonAndFail, ScanIsCurrent
  <2> QED
    BY <1>2, <1>3, <1>16, <2>1 DEF AbandonAndFail, DeliveryStep
<1>17. CASE ExposeOrphanedDeliveries
  BY <1>1, <1>17 DEF ExposeOrphanedDeliveries, DeliveryStep
<1>18. CASE Tick
  <2>1. [del[d] EXCEPT !.due = Left(@), !.lease = Left(@)].status = del[d].status
    BY <1>t DEF DeliveryRow
  <2> QED
    BY <1>18, <2>1 DEF Tick, DeliveryStep
<1>19. CASE SettleCancellingRegion \/ \E run \in Run : CancelRun(run)
  BY <1>14, <1>19 DEF SettleCancellingRegion, CancelRun
<1>20. CASE \/ \E a \in Attempt, result \in Results : HandOffResult(a, result)
            \/ \E a \in Attempt, x \in BOOLEAN : RejectSubmission(a, x)
            \/ UNCHANGED rows
  BY <1>20 DEF HandOffResult, RejectSubmission, rows, DeliveryStep
<1> QED
  BY <1>4, <1>7, <1>8, <1>9, <1>10, <1>11, <1>12, <1>13, <1>15, <1>16, <1>17, <1>18, <1>19,
     <1>20 DEF RowStep

-----------------------------------------------------------------------------
(* Work is consumed once.                                                  *)

\* Only a completing commit writes outputs.
LEMMA OutputMoves ==
  ASSUME RowStep, \A a \in Attempt, x \in BOOLEAN : ~Complete(a, x)
  PROVE  out' = out
<1>1. CASE \/ \E run \in Run, slots \in Ingress : SubmitCommand(run, slots)
           \/ \E g \in Group, e \in Delivery, gs \in SUBSET Group : LeaseFirstAttempt(g, e, gs)
           \/ \E g \in Group, e \in Delivery, n \in 1..MaxAttempts, gs \in SUBSET Group :
                LeaseRetry(g, e, n, gs)
           \/ \E gs \in SUBSET Group : PollFindsNothing(gs)
  BY <1>1 DEF SubmitCommand, LeaseFirstAttempt, LeaseRetry, PollFindsNothing
<1>2. CASE \/ \E a \in Attempt : Heartbeat(a) \/ AbandonAndReplace(a) \/ AbandonAndFail(a)
           \/ \E a \in Attempt, result \in Results : HandOffResult(a, result)
  BY <1>2 DEF Heartbeat, AbandonAndReplace, AbandonAndFail, HandOffResult
<1>3. CASE \E a \in Attempt, x \in BOOLEAN :
             ScheduleRetry(a, x) \/ DeadLetter(a, x) \/ RejectSubmission(a, x)
  BY <1>3 DEF ScheduleRetry, DeadLetter, RejectSubmission
<1>4. CASE \/ \E run \in Run : CancelRun(run)
           \/ ExposeOrphanedDeliveries \/ SettleCancellingRegion \/ Tick \/ UNCHANGED rows
  BY <1>4 DEF CancelRun, ExposeOrphanedDeliveries, SettleCancellingRegion, Tick, rows
<1> QED
  BY <1>1, <1>2, <1>3, <1>4 DEF RowStep

\* A commit consumes inputs that no other execution has consumed.
LEMMA CompleteConsumesOnce ==
  ASSUME InductiveInvariant, RowStep, NEW a \in Attempt, NEW x \in BOOLEAN, Complete(a, x)
  PROVE  ProcessedOnce'
<1>t. /\ RowsTyped /\ ExecutionRows /\ LeaseCoherence /\ ProcessedOnce
      /\ a[1] \in Delivery /\ a[2] \in 1..MaxAttempts /\ a = <<a[1], a[2]>>
  BY TypeParts, AttemptFacts DEF InductiveInvariant
<1>1. /\ Active(a) /\ exe[a[1]].status = "running"
      /\ out' = out \cup {a}
      /\ att' = [att EXCEPT ![a] = EndedAttempt("completed")]
      /\ exe' = [exe EXCEPT ![a[1]].status = "completed"]
  BY DEF Complete, Commits, Authoritative
<1>2. \A e \in Delivery : exe'[e].inputs = exe[e].inputs
  BY <1>t, <1>1 DEF RowsTyped, ExecutionRow
<1>3. \A b \in Attempt : Inputs(b)' = Inputs(b)
  BY <1>2, AttemptFacts DEF Inputs
<1>4. \A b \in Attempt : b \in out' <=> att'[b].status = "completed"
  BY <1>t, <1>1, EndedRow DEF RowsTyped, ProcessedOnce
<1>5. ASSUME NEW e \in Delivery, exe'[e].status = "completed"
      PROVE  \E n \in 1..MaxAttempts : <<e, n>> \in out'
  <2>1. CASE e = a[1]
    BY <1>t, <1>1, <2>1
  <2>2. CASE e # a[1]
    <3>1. exe'[e] = exe[e]
      BY <1>t, <1>1, <2>2 DEF RowsTyped
    <3> QED
      BY <1>t, <1>1, <1>5, <3>1 DEF ProcessedOnce
  <2> QED
    BY <2>1, <2>2
<1>6. \A d \in Inputs(a) : d \in Delivery /\ del[d].status = "leased"
  BY <1>t, <1>1 DEF LeaseCoherence, RowsTyped, ExecutionRow, Inputs
<1>7. \A b \in out : b \in Attempt /\ Inputs(b) \cap Inputs(a) = {}
  BY <1>t, <1>6 DEF ProcessedOnce, RowsTyped
<1>8. ASSUME NEW b \in out', NEW c \in out', Inputs(b)' \cap Inputs(c)' # {}
      PROVE  b = c
  <2>1. /\ b \in out \cup {a} /\ c \in out \cup {a} /\ b \in Attempt /\ c \in Attempt
        /\ Inputs(b) \cap Inputs(c) # {}
    BY <1>1, <1>3, <1>7, <1>8
  <2> QED
    BY <1>t, <1>7, <2>1 DEF ProcessedOnce
<1>9. ASSUME NEW d \in Delivery
      PROVE  del'[d].status = "completed" <=> \E b \in out' : d \in Inputs(b)'
  <2>1. del'[d].status = "completed" <=> del[d].status = "completed" \/ d \in Inputs(a)
    <3>1. CASE d \in Inputs(a)
      <4>1. del'[d] = Unleased(del[d], "completed")
        BY <1>t, <3>1, <1>9, CompleteDeliveries
      <4> QED
        BY <1>t, <3>1, <4>1, UnleasedTyped DEF RowsTyped
    <3>2. CASE d \notin Inputs(a)
      <4>1. del'[d] = del[d] \/ (~Exists(d) /\ del'[d].status = "ready")
        BY <1>t, <1>9, <3>2, CompleteDeliveries
      <4> QED
        BY <3>2, <4>1 DEF Exists, Absent
    <3> QED
      BY <3>1, <3>2
  <2>2. (\E b \in out' : d \in Inputs(b)') <=> (\E b \in out : d \in Inputs(b)) \/ d \in Inputs(a)
    BY <1>1, <1>3, <1>7
  <2> QED
    BY <1>t, <2>1, <2>2 DEF ProcessedOnce
<1> QED
  BY <1>4, <1>5, <1>8, <1>9 DEF ProcessedOnce

\* However it was leased, retried or joined, a delivery is consumed once.
LEMMA ProcessedOnceStep ==
  ASSUME InductiveInvariant, RowStep
  PROVE  ProcessedOnce'
<1>t. RowsTyped /\ ExecutionRows /\ ScanIsCurrent /\ ProcessedOnce
  BY TypeParts DEF InductiveInvariant
<1>1. CASE \E a \in Attempt, x \in BOOLEAN : Complete(a, x)
  BY <1>1, CompleteConsumesOnce
<1>2. CASE \A a \in Attempt, x \in BOOLEAN : ~Complete(a, x)
  <2>1. out' = out
    BY <1>2, OutputMoves
  <2>2. \A b \in Attempt : att'[b].status = "completed" <=> att[b].status = "completed"
    BY <1>t, <1>2, AttemptMoves DEF AttemptStep, Open, OpenStatus, ActiveStatus, Absent
  <2>3. \A e \in Delivery : exe'[e].status = "completed" => exe[e].status = "completed"
    <3> SUFFICES ASSUME NEW e \in Delivery, exe'[e].status = "completed"
                 PROVE  exe[e].status = "completed"
      OBVIOUS
    <3>1. exe[e] \in ExecutionRow /\ ExecutionStep(e)
      BY <1>t, ExecutionMoves DEF RowsTyped
    <3>2. Begins(e) => exe'[e].status = "running"
      BY <1>t, Beginning
    <3> QED
      BY <1>2, <3>1, <3>2, ExecutionUpdate DEF ExecutionStep
  <2>4. \A d \in Delivery : del'[d].status = "completed" <=> del[d].status = "completed"
    BY <1>2, DeliveryMoves DEF DeliveryStep, Absent
  <2>5. \A b \in out : b \in Attempt /\ Inputs(b)' = Inputs(b)
    BY <1>t, InputsStay, AttemptFacts DEF ProcessedOnce, ExecutionRows, RowsTyped, Inputs, Absent
  <2>6. /\ \A a \in Attempt : a \in out' <=> att'[a].status = "completed"
        /\ \A e \in Delivery : exe'[e].status = "completed" =>
             \E n \in 1..MaxAttempts : <<e, n>> \in out'
    BY <1>t, <2>1, <2>2, <2>3 DEF ProcessedOnce
  <2>7. \A a, b \in out' : Inputs(a)' \cap Inputs(b)' # {} => a = b
    BY <1>t, <2>1, <2>5 DEF ProcessedOnce
  <2>8. \A d \in Delivery : del'[d].status = "completed" <=> \E a \in out' : d \in Inputs(a)'
    BY <1>t, <2>1, <2>4, <2>5 DEF ProcessedOnce
  <2> QED
    BY <2>6, <2>7, <2>8 DEF ProcessedOnce
<1> QED
  BY <1>1, <1>2

-----------------------------------------------------------------------------
(* Admission.                                                              *)

\* One more element stays within a limit that was not reached.
LEMMA OneMore ==
  ASSUME NEW S, IsFiniteSet(S), NEW x, NEW limit \in Nat, Cardinality(S) < limit
  PROVE  IsFiniteSet(S \cup {x}) /\ Cardinality(S \cup {x}) <= limit
<1>1. Cardinality(S) \in Nat
  BY FS_CardinalityType
<1>2. IsFiniteSet(S \cup {x})
  BY FS_AddElement
<1>3. Cardinality(S \cup {x}) = IF x \in S THEN Cardinality(S) ELSE Cardinality(S) + 1
  BY FS_AddElement
<1> QED
  BY <1>1, <1>2, <1>3

\* Executions that end hand their unit back through the trigger.
LEMMA ReleaseFollows ==
  ASSUME RowsTyped, AdmissionFollowsExecution, IsFiniteSet(Reserved), RowStep,
         ReleaseTerminalAdmission
  PROVE  AdmissionFollowsExecution' /\ IsFiniteSet(Reserved)'
<1>1. ASSUME NEW e \in Delivery
      PROVE  \/ exe'[e].status = exe[e].status
             \/ exe[e].status = "running" /\ exe'[e].status \in {"completed", "failed"}
  <2>1. ~Begins(e)
    <3> SUFFICES ASSUME Begins(e)
                 PROVE  FALSE
      OBVIOUS
    <3>1. resv'[e] = "reserved" /\ exe[e].status = Absent
      BY DEF Begins, LeaseFirstAttempt, MayStart, RowsTyped
    <3>2. resv[e] = "reserved"
      BY <3>1 DEF ReleaseTerminalAdmission
    <3> QED
      BY <3>1, <3>2 DEF AdmissionFollowsExecution, Absent
  <2>2. /\ [exe[e] EXCEPT !.status = "completed"].status = "completed"
        /\ [exe[e] EXCEPT !.status = "failed"].status = "failed"
    BY DEF RowsTyped, ExecutionRow
  <2>3. ExecutionStep(e)
    BY ExecutionMoves
  <2> QED
    BY <2>1, <2>2, <2>3 DEF ExecutionStep
<1>2. \A e \in Delivery : resv'[e] = "reserved" <=> exe'[e].status = "running"
  BY <1>1 DEF ReleaseTerminalAdmission, AdmissionFollowsExecution
<1>3. Reserved' \subseteq Reserved
  BY DEF ReleaseTerminalAdmission, Reserved
<1>4. Cardinality(Reserved) <= ConcurrencyLimit /\ Cardinality(Reserved) \in Nat
  <2>1. {e \in Delivery : exe[e].status = "running"} = Reserved
    BY DEF Reserved, AdmissionFollowsExecution
  <2> QED
    BY <2>1, FS_CardinalityType DEF AdmissionFollowsExecution
<1>5. /\ IsFiniteSet(Reserved') /\ Cardinality(Reserved') \in Nat
      /\ Cardinality(Reserved') <= Cardinality(Reserved)
  BY <1>3, FS_Subset, FS_CardinalityType
<1>6. Cardinality(Reserved') <= ConcurrencyLimit
  BY <1>4, <1>5, PolicyAssumption
<1>7. {e \in Delivery : exe'[e].status = "running"} = Reserved'
  BY <1>2 DEF Reserved
<1>8. Cardinality({e \in Delivery : exe'[e].status = "running"}) <= ConcurrencyLimit
  BY <1>6, <1>7
<1>9. AdmissionFollowsExecution'
  BY <1>2, <1>8 DEF AdmissionFollowsExecution
<1> QED
  BY <1>5, <1>9

\* A unit is taken with the first attempt, kept across retries and given back
\* by whichever transaction ends the execution.
LEMMA AdmissionStep ==
  ASSUME InductiveInvariant, RowStep
  PROVE  AdmissionFollowsExecution' /\ IsFiniteSet(Reserved)'
<1>t. /\ RowsTyped /\ AdmissionFollowsExecution /\ IsFiniteSet(Reserved)
      /\ \A e \in Delivery : resv[e] = "reserved" <=> exe[e].status = "running"
  BY TypeParts DEF InductiveInvariant, AdmissionFollowsExecution
<1>1. ASSUME resv' = resv, exe' = exe
      PROVE  AdmissionFollowsExecution' /\ IsFiniteSet(Reserved)'
  BY <1>1, <1>t DEF AdmissionFollowsExecution, Reserved
<1>2. ASSUME NEW g \in Group, NEW e \in Delivery, NEW gs, LeaseFirstAttempt(g, e, gs)
      PROVE  AdmissionFollowsExecution' /\ IsFiniteSet(Reserved)'
  <2>1. resv' = [resv EXCEPT ![e] = "reserved"] /\ Cardinality(Reserved) < ConcurrencyLimit
    BY <1>2 DEF LeaseFirstAttempt, MayStart, Admitted
  <2>2. exe'[e].status = "running" /\ \A f \in Delivery : f # e => exe'[f] = exe[f]
    BY <1>2, <1>t DEF LeaseFirstAttempt, RowsTyped
  <2>3. \A f \in Delivery : resv'[f] = "reserved" <=> exe'[f].status = "running"
    BY <1>t, <2>1, <2>2 DEF RowsTyped
  <2>4. Reserved' = Reserved \cup {e}
    BY <1>t, <2>1 DEF Reserved, RowsTyped
  <2>5. IsFiniteSet(Reserved') /\ Cardinality(Reserved') <= ConcurrencyLimit
    BY <1>t, <2>1, <2>4, OneMore, PolicyAssumption
  <2>6. {f \in Delivery : exe'[f].status = "running"} = Reserved'
    <3>1. Reserved' = {f \in Delivery : resv'[f] = "reserved"}
      BY DEF Reserved
    <3> QED
      BY <2>3, <3>1
  <2>7. Cardinality({f \in Delivery : exe'[f].status = "running"}) <= ConcurrencyLimit
    BY <2>5, <2>6
  <2>8. AdmissionFollowsExecution'
    BY <2>3, <2>7 DEF AdmissionFollowsExecution
  <2> QED
    BY <2>5, <2>8
<1>3. ASSUME NEW g \in Group, NEW e \in Delivery, NEW n \in 1..MaxAttempts, NEW gs,
             LeaseRetry(g, e, n, gs)
      PROVE  AdmissionFollowsExecution' /\ IsFiniteSet(Reserved)'
  <2>1. resv[e] = "reserved"
    BY <1>3, <1>t DEF LeaseRetry, MayRetry
  <2>2. resv' = resv /\ exe' = exe
    BY <1>3, <1>t, <2>1 DEF LeaseRetry, RowsTyped
  <2> QED
    BY <1>1, <2>2
<1>4. CASE \/ \E a \in Attempt, x \in BOOLEAN : Complete(a, x) \/ DeadLetter(a, x)
           \/ \E a \in Attempt : AbandonAndFail(a)
           \/ \E run \in Run : CancelRun(run)
           \/ SettleCancellingRegion
  <2>1. ReleaseTerminalAdmission
    BY <1>4 DEF Complete, DeadLetter, AbandonAndFail, CancelRun, SettleCancellingRegion
  <2> QED
    BY <1>t, <2>1, ReleaseFollows
<1>5. CASE \/ \E run \in Run, slots \in Ingress : SubmitCommand(run, slots)
           \/ \E gs \in SUBSET Group : PollFindsNothing(gs)
           \/ \E a \in Attempt : Heartbeat(a) \/ AbandonAndReplace(a)
           \/ \E a \in Attempt, result \in Results : HandOffResult(a, result)
  BY <1>1, <1>5 DEF SubmitCommand, PollFindsNothing, Heartbeat, AbandonAndReplace, HandOffResult
<1>6. CASE \/ \E a \in Attempt, x \in BOOLEAN : ScheduleRetry(a, x) \/ RejectSubmission(a, x)
           \/ ExposeOrphanedDeliveries \/ Tick \/ UNCHANGED rows
  BY <1>1, <1>6 DEF ScheduleRetry, RejectSubmission, ExposeOrphanedDeliveries, Tick, rows
<1> QED
  BY <1>2, <1>3, <1>4, <1>5, <1>6 DEF RowStep

-----------------------------------------------------------------------------
(* Startup recovery.                                                       *)

\* A cancelled region stays empty.
LEMMA CancelledStaysEmpty ==
  ASSUME InductiveInvariant, RowStep, region = "cancelled"
  PROVE  /\ \A a \in Attempt : ~Open(a)'
         /\ \A e \in Delivery : exe'[e].status # "running"
<1>t. RowsTyped /\ ExecutionRows /\ ScanIsCurrent
  BY TypeParts DEF InductiveInvariant
<1>1. /\ \A a \in Attempt : ~Open(a)
      /\ \A e \in Delivery : exe[e].status # "running"
  BY DEF InductiveInvariant, RecoveryLeavesNoExpiredLease
<1>2. \A e : ~Begins(e)
  BY DEF Begins, LeaseFirstAttempt, MayStart
<1>3. \A a, b \in Attempt : ~Succeeds(a, b)
  BY <1>1 DEF Succeeds, Active, Open, OpenStatus
<1>4. \A a \in Attempt : ~Open(a)'
  BY <1>1, <1>2, <1>3, <1>t, AttemptMoves DEF AttemptStep, Active, Open, OpenStatus, ActiveStatus
<1>5. \A e \in Delivery : exe'[e].status # "running"
  BY <1>1, <1>2, <1>t, ExecutionMoves DEF ExecutionStep
<1> QED
  BY <1>4, <1>5

\* Recovery abandons what has expired, all of it, before the server comes up.
LEMMA RecoveryStep ==
  ASSUME InductiveInvariant, [Next]_vars
  PROVE  ScanIsCurrent' /\ RecoveryLeavesNoExpiredLease'
<1>t. /\ RowsTyped /\ ScanIsCurrent /\ RecoveryLeavesNoExpiredLease /\ RowStep
  BY TypeParts, StepIsRowStep DEF InductiveInvariant
<1> DEFINE Empty == /\ \A a \in Attempt : ~Open(a)
                    /\ \A e \in Delivery : exe[e].status # "running"
<1>1. region = "cancelled" => Empty'
  BY <1>t, CancelledStaysEmpty
<1>2. ASSUME phase' \in {"up", "down", "committing"}, region' = "cancelled" => region = "cancelled"
      PROVE  ScanIsCurrent' /\ RecoveryLeavesNoExpiredLease'
  BY <1>1, <1>2 DEF ScanIsCurrent, RecoveryLeavesNoExpiredLease
<1>3. CASE LeaseNextAttempt
  <2>1. phase' = "up" /\ region' = region
    BY <1>3 DEF LeaseNextAttempt, LeaseFirstAttempt, LeaseRetry, PollFindsNothing, lifecycle, control
  <2> QED
    BY <1>2, <2>1
<1>4. CASE \/ \E run \in Run, slots \in Ingress : SubmitCommand(run, slots)
           \/ \E a \in Attempt : Heartbeat(a)
           \/ \E a \in Attempt, result \in Results : HandOffResult(a, result)
           \/ \E run \in Run : CancelRun(run)
           \/ RequestRegionCancellation \/ FinishRecovery
  <2>1. phase' = "up" /\ (region' = region \/ region' = "cancelling")
    BY <1>4 DEF SubmitCommand, Heartbeat, HandOffResult, CancelRun, RequestRegionCancellation,
       FinishRecovery, lifecycle, control
  <2> QED
    BY <1>2, <2>1
<1>5. CASE \E a \in Attempt : CommitSubmittedResult(a) \/ RecoverSubmission(a)
  <2>1. phase' \in {"up", "committing"} /\ region' = region
    BY <1>5 DEF CommitSubmittedResult, RecoverSubmission, Commit, Complete, ScheduleRetry,
       DeadLetter, RejectSubmission, lifecycle, control
  <2> QED
    BY <1>2, <2>1
<1>6. CASE Crash \/ Restart \/ RecoveryAborts \/ Tick
  <2>1. phase' \in {"up", "down", "committing"} /\ region' = region
    BY <1>6 DEF Crash, Restart, RecoveryAborts, Tick, lifecycle, control
  <2> QED
    BY <1>2, <2>1
<1>7. CASE ScanExpiredAttempts
  BY <1>7, <1>t DEF ScanExpiredAttempts, ScanIsCurrent, RecoveryLeavesNoExpiredLease, rows,
     lifecycle, Active, Open
<1>8. ASSUME NEW a \in Attempt, AbandonAndReplace(a) \/ AbandonAndFail(a)
      PROVE  ScanIsCurrent' /\ RecoveryLeavesNoExpiredLease'
  <2>1. /\ phase = "abandoning" /\ phase' = "abandoning" /\ todo' = todo \ {a}
        /\ region' = region
        /\ \/ att' = [att EXCEPT ![a] = EndedAttempt("abandoned")]
           \/ att' = WithReplacement([att EXCEPT ![a] = EndedAttempt("abandoned")], a, 0)
    BY <1>8 DEF AbandonAndReplace, AbandonAndFail, lifecycle
  <2>2. OnlyEnds(a)
    BY <1>t, <2>1, EndedAlone
  <2>3. \A b \in Attempt : b \in todo' <=> Active(b)' /\ att'[b].lease = 0
    BY <1>t, <2>1, <2>2 DEF OnlyEnds, ScanIsCurrent, Active
  <2> QED
    BY <1>1, <2>1, <2>3 DEF ScanIsCurrent, RecoveryLeavesNoExpiredLease
<1>9. CASE EndAbandoning
  <2>1. \A a \in Attempt : Active(a) => att[a].lease > 0
    BY <1>9, <1>t DEF EndAbandoning, ScanIsCurrent, RowsTyped, AttemptRow
  <2> QED
    BY <1>1, <1>9, <2>1 DEF EndAbandoning, ScanIsCurrent, RecoveryLeavesNoExpiredLease, rows,
       lifecycle, Active
<1>10. CASE ExposeOrphanedDeliveries
  BY <1>1, <1>10, <1>t DEF ExposeOrphanedDeliveries, ScanIsCurrent,
     RecoveryLeavesNoExpiredLease, lifecycle, Active
<1>11. CASE SettleCancellingRegion
  <2>1. /\ att' = [a \in Attempt |-> IF a[1] \in Delivery /\ Open(a)
                                    THEN EndedAttempt("cancelled") ELSE att[a]]
        /\ exe' = [e \in Delivery |-> IF e \in Delivery /\ exe[e].status = "running"
                                     THEN [exe[e] EXCEPT !.status = "failed"] ELSE exe[e]]
    BY <1>11 DEF SettleCancellingRegion, EndOpenAttempts, FailRunning
  <2>2. ASSUME NEW a \in Attempt PROVE ~Open(a)'
    <3>1. CASE Open(a)
      <4>1. att'[a] = EndedAttempt("cancelled")
        BY <2>1, <3>1, AttemptFacts
      <4> QED
        BY <4>1 DEF EndedAttempt, Open, OpenStatus, ActiveStatus
    <3>2. CASE ~Open(a)
      <4>1. att'[a] = att[a]
        BY <2>1, <3>2
      <4> QED
        BY <3>2, <4>1 DEF Open
    <3> QED
      BY <3>1, <3>2
  <2>3. ASSUME NEW e \in Delivery PROVE exe'[e].status # "running"
    <3>1. exe[e] \in ExecutionRow
      BY <1>t DEF RowsTyped
    <3>2. [exe[e] EXCEPT !.status = "failed"].status = "failed"
      BY <3>1 DEF ExecutionRow
    <3> QED
      BY <2>1, <3>2
  <2>4. phase' = "up"
    BY <1>11 DEF SettleCancellingRegion
  <2> QED
    BY <2>2, <2>3, <2>4 DEF ScanIsCurrent, RecoveryLeavesNoExpiredLease
<1>12. CASE UNCHANGED vars
  BY <1>12, <1>t DEF vars, rows, lifecycle, control, ScanIsCurrent,
     RecoveryLeavesNoExpiredLease, Active, Open
<1> QED
  BY <1>3, <1>4, <1>5, <1>6, <1>7, <1>8, <1>9, <1>10, <1>11, <1>12 DEF Next

-----------------------------------------------------------------------------
(* The invariant holds in every reachable state.                           *)

\* An empty database satisfies everything.
LEMMA InitInvariant == Init => InductiveInvariant
<1> SUFFICES ASSUME Init PROVE InductiveInvariant
  OBVIOUS
<1>1. /\ \A d \in Delivery : del[d] = NoDelivery
      /\ \A e \in Delivery : exe[e] = [status |-> Absent, inputs |-> {}, epoch |-> 0]
      /\ \A a \in Attempt : att[a] = EndedAttempt(Absent)
  BY DEF Init
<1>2. /\ \A d \in Delivery : del[d].status = Absent
      /\ \A e \in Delivery : exe[e].status = Absent
      /\ \A a \in Attempt : att[a].status = Absent /\ ~Active(a) /\ ~Open(a)
  BY <1>1 DEF NoDelivery, EndedAttempt, Active, Open, OpenStatus, ActiveStatus, Absent
<1>3. TypeOK
  <2>1. del \in [Delivery -> DeliveryRow]
    BY DEF Init, NoDelivery, DeliveryRow, NoAttempt
  <2>2. exe \in [Delivery -> ExecutionRow]
    BY DEF Init, ExecutionRow
  <2>3. att \in [Attempt -> AttemptRow]
    BY DEF Init, EndedAttempt, AttemptRow
  <2>4. sub \in [Attempt -> SubmissionRow]
    BY DEF Init, NoSubmission, SubmissionRow
  <2>5. resv \in [Delivery -> {"none", "reserved", "released"}]
    BY DEF Init
  <2>6. 0 \in 0..MaxCommands /\ 0 \in 0..MaxCrashes /\ 0 \in Nat
    BY PolicyAssumption
  <2> QED
    BY <2>1, <2>2, <2>3, <2>4, <2>5, <2>6 DEF Init, TypeOK
<1>4. ExecutionRows
  BY <1>2 DEF ExecutionRows, Exists
<1>5. LeaseCoherence
  BY <1>2 DEF LeaseCoherence, Absent
<1>6. AttemptChain
  BY <1>2 DEF AttemptChain
<1>7. ProcessedOnce
  BY <1>2 DEF ProcessedOnce, Init, Absent
<1>8. AdmissionFollowsExecution /\ IsFiniteSet(Reserved)
  <2>1. Reserved = {} /\ {e \in Delivery : exe[e].status = "running"} = {}
    BY <1>2 DEF Reserved, Init, Absent
  <2>2. \A e \in Delivery : resv[e] = "reserved" <=> exe[e].status = "running"
    BY <1>2 DEF Init, Absent
  <2> QED
    BY <2>1, <2>2, FS_EmptySet, PolicyAssumption DEF AdmissionFollowsExecution
<1>9. ScanIsCurrent /\ RecoveryLeavesNoExpiredLease
  BY DEF Init, ScanIsCurrent, RecoveryLeavesNoExpiredLease
<1> QED
  BY <1>3, <1>4, <1>5, <1>6, <1>7, <1>8, <1>9 DEF InductiveInvariant

\* Every transaction, in any interleaving, preserves it.
LEMMA Invariance == InductiveInvariant /\ [Next]_vars => InductiveInvariant'
<1> SUFFICES ASSUME InductiveInvariant, [Next]_vars PROVE InductiveInvariant'
  OBVIOUS
<1>1. RowStep
  BY StepIsRowStep
<1>2. TypeOK'
  <2>1. RowsTyped' /\ ControlTyped'
    BY <1>1, ControlStep, RowsStep DEF InductiveInvariant
  <2> QED
    BY <2>1 DEF TypeOK, RowsTyped, ControlTyped
<1>3. ExecutionRows'
  BY <1>1, TypeParts, ExecutionRowsStep DEF InductiveInvariant
<1>4. LeaseCoherence'
  BY <1>1, TypeParts, LeaseCoherenceStep DEF InductiveInvariant
<1>5. AttemptChain'
  BY <1>1, TypeParts, AttemptChainStep DEF InductiveInvariant
<1>6. ProcessedOnce'
  BY <1>1, TypeParts, ProcessedOnceStep DEF InductiveInvariant
<1>7. (AdmissionFollowsExecution /\ IsFiniteSet(Reserved))'
  BY <1>1, TypeParts, AdmissionStep DEF InductiveInvariant
<1>8. ScanIsCurrent' /\ RecoveryLeavesNoExpiredLease'
  BY RecoveryStep
<1> QED
  BY <1>2, <1>3, <1>4, <1>5, <1>6, <1>7, <1>8 DEF InductiveInvariant

\* Everything below rests on this: for every topology, policy, number of
\* crashes and of commands, the invariant holds always.
THEOREM InvariantAlways == Spec => []InductiveInvariant
  BY InitInvariant, Invariance, PTL DEF Spec

-----------------------------------------------------------------------------
(* The properties the runs check, for every value of the constants.        *)

\* The rows keep their shapes: statuses the schema allows, attempts numbered
\* within the policy, inputs and tokens that name existing keys.
THEOREM TypeCorrectness == Spec => []TypeOK
<1>1. InductiveInvariant => TypeOK
  BY DEF InductiveInvariant
<1> QED
  BY <1>1, InvariantAlways, PTL

\* No heartbeat, retry, recovery or cancellation lets the lease of an attempt
\* and the leases of its inputs drift apart.
THEOREM LeasesCohere == Spec => []LeaseCoherence
<1>1. InductiveInvariant => LeaseCoherence
  BY DEF InductiveInvariant
<1> QED
  BY <1>1, InvariantAlways, PTL

\* Two workers never hold the same execution.
THEOREM AttemptsFollowEachOther == Spec => []AttemptChain
<1>1. InductiveInvariant => AttemptChain
  BY DEF InductiveInvariant
<1> QED
  BY <1>1, InvariantAlways, PTL

\* Attempts may run any number of times; outputs are written, and an input is
\* consumed, once.
THEOREM OutputsOnce == Spec => []ProcessedOnce
<1>1. InductiveInvariant => ProcessedOnce
  BY DEF InductiveInvariant
<1> QED
  BY <1>1, InvariantAlways, PTL

\* The concurrency budget is never oversubscribed and no unit of it leaks.
THEOREM BudgetFollowsExecutions == Spec => []AdmissionFollowsExecution
<1>1. InductiveInvariant => AdmissionFollowsExecution
  BY DEF InductiveInvariant
<1> QED
  BY <1>1, InvariantAlways, PTL

\* Recovery reaches everything that has expired before the server listens.
THEOREM RecoveryIsThorough == Spec => []RecoveryLeavesNoExpiredLease
<1>1. InductiveInvariant => RecoveryLeavesNoExpiredLease
  BY DEF InductiveInvariant
<1> QED
  BY <1>1, InvariantAlways, PTL

\* A late result, a retry, an operator or recovery never rewrites a terminal
\* row, although the updates do not all look at the status they overwrite.
THEOREM TerminalRowsAreFinal == Spec => TerminalIsFinal
<1>1. ASSUME InductiveInvariant, [Next]_vars
      PROVE  /\ \A d \in Delivery : DeliveryEnded(d) => del'[d].status = del[d].status
             /\ \A e \in Delivery : ExecutionEnded(e) => exe'[e] = exe[e]
             /\ \A a \in Attempt : AttemptEnded(a) => att'[a].status = att[a].status
  <2>t. RowStep /\ RowsTyped /\ ExecutionRows /\ ScanIsCurrent
    BY <1>1, StepIsRowStep, TypeParts DEF InductiveInvariant
  <2>1. ASSUME NEW d \in Delivery, DeliveryEnded(d) PROVE del'[d].status = del[d].status
    <3>1. DeliveryStep(d)
      BY <1>1, <2>t, DeliveryMoves
    <3> QED
      BY <2>1, <3>1 DEF DeliveryStep, DeliveryEnded, Absent
  <2>2. ASSUME NEW e \in Delivery, ExecutionEnded(e) PROVE exe'[e] = exe[e]
    <3>1. ExecutionStep(e)
      BY <2>t, ExecutionMoves
    <3> QED
      BY <2>2, <3>1 DEF ExecutionStep, ExecutionEnded, Absent
  <2>3. ASSUME NEW a \in Attempt, AttemptEnded(a) PROVE att'[a].status = att[a].status
    <3>1. AttemptStep(a)
      BY <2>t, AttemptMoves
    <3> QED
      BY <2>3, <3>1 DEF AttemptStep, AttemptEnded, Open, Active, OpenStatus, ActiveStatus, Absent
  <2> QED
    BY <2>1, <2>2, <2>3
<1>2. InductiveInvariant /\ [Next]_vars =>
        [/\ \A d \in Delivery : DeliveryEnded(d) => del'[d].status = del[d].status
         /\ \A e \in Delivery : ExecutionEnded(e) => exe'[e] = exe[e]
         /\ \A a \in Attempt : AttemptEnded(a) => att'[a].status = att[a].status]_vars
  BY <1>1
<1> QED
  BY <1>2, InvariantAlways, PTL DEF Spec, TerminalIsFinal

-----------------------------------------------------------------------------
(* Results that were handed off before a crash.                            *)

\* One recovery batch holds every submission that waits for a commit.
BatchSuffices ==
  LET waiting == {a \in Attempt : Pending(a)}
  IN  IsFiniteSet(waiting) /\ Cardinality(waiting) <= ResultBatch

\* While recovery commits, what waits is still to be visited; once it abandons,
\* nothing waits.
BatchInvariant ==
  /\ phase = "committing" => \A a \in Attempt : Pending(a) => a \in todo
  /\ phase = "abandoning" => \A a \in Attempt : ~Pending(a)

\* The first batch of a small enough set is the set.
LEMMA WholeBatch ==
  ASSUME NEW S, IsFiniteSet(S), Cardinality(S) <= ResultBatch, NEW T \in FirstBatch(S)
  PROVE  T = S
<1>1. CASE T # S
  <2>1. T \subseteq S /\ Cardinality(T) = ResultBatch
    BY <1>1 DEF FirstBatch
  <2>2. Cardinality(S) \in Nat /\ Cardinality(T) \in Nat /\ Cardinality(T) <= Cardinality(S)
    BY <2>1, FS_CardinalityType, FS_Subset
  <2>3. Cardinality(T) = Cardinality(S)
    BY <2>1, <2>2, PolicyAssumption
  <2> QED
    BY <2>1, <2>3, FS_Subset
<1> QED
  BY <1>1

\* A commit decides the submission it is about and no other.
LEMMA CommitDecides ==
  ASSUME RowsTyped, NEW a \in Attempt, NEW x, Commit(a, x)
  PROVE  /\ ~Pending(a)'
         /\ \A b \in Attempt : b # a => sub'[b] = sub[b]
<1>1. sub[a] \in SubmissionRow
  BY DEF RowsTyped
<1>2. [sub[a] EXCEPT !.state = "committed"].state = "committed"
  BY <1>1 DEF SubmissionRow
<1>3. CASE sub' = [sub EXCEPT ![a] = [sub[a] EXCEPT !.state = "committed"]]
  BY <1>2, <1>3 DEF RowsTyped, Pending
<1>4. CASE sub' = [sub EXCEPT ![a] = NoSubmission]
  BY <1>4 DEF RowsTyped, Pending, NoSubmission
<1>5. \/ sub' = [sub EXCEPT ![a] = [sub[a] EXCEPT !.state = "committed"]]
      \/ sub' = [sub EXCEPT ![a] = NoSubmission]
  BY DEF Commit, Complete, ScheduleRetry, DeadLetter, RejectSubmission, RowsTyped
<1> QED
  BY <1>3, <1>4, <1>5

\* Recovery ends its committing step only when nothing waits any more.
LEMMA BatchStep ==
  ASSUME RowsTyped, BatchSuffices, BatchInvariant, [Next]_vars
  PROVE  BatchInvariant'
<1>1. CASE Restart
  <2>1. DEFINE waiting == {a \in Attempt : Pending(a)}
  <2>2. todo' \in FirstBatch(waiting) /\ phase' = "committing" /\ sub' = sub
    BY <1>1 DEF Restart, rows
  <2>3. IsFiniteSet(waiting) /\ Cardinality(waiting) <= ResultBatch
    BY DEF BatchSuffices
  <2>4. todo' = waiting
    <3> HIDE DEF waiting
    <3> QED
      BY <2>2, <2>3, WholeBatch
  <2> QED
    BY <2>2, <2>4 DEF BatchInvariant, Pending
<1>2. ASSUME NEW a \in Attempt, RecoverSubmission(a)
      PROVE  BatchInvariant'
  <2>1. phase = "committing" /\ phase' = phase /\ todo' = todo \ {a} /\ Commit(a, TRUE)
    BY <1>2 DEF RecoverSubmission
  <2> QED
    BY <2>1, CommitDecides DEF BatchInvariant, Pending
<1>3. CASE ScanExpiredAttempts
  BY <1>3 DEF ScanExpiredAttempts, BatchInvariant, Pending, rows
<1>4. ASSUME phase' \notin {"committing", "abandoning"}
      PROVE  BatchInvariant'
  BY <1>4 DEF BatchInvariant
<1>5. ASSUME phase' = phase, todo' = todo, sub' = sub
      PROVE  BatchInvariant'
  BY <1>5 DEF BatchInvariant, Pending
<1>6. ASSUME phase = "abandoning", phase' = phase, sub' = sub
      PROVE  BatchInvariant'
  BY <1>6 DEF BatchInvariant, Pending
<1>7. CASE \/ \E run \in Run, slots \in Ingress : SubmitCommand(run, slots)
           \/ \E a \in Attempt : Heartbeat(a)
           \/ \E a \in Attempt, result \in Results : HandOffResult(a, result)
           \/ \E a \in Attempt : CommitSubmittedResult(a)
           \/ \E run \in Run : CancelRun(run)
           \/ RequestRegionCancellation
  <2>1. phase' = "up"
    BY <1>7 DEF SubmitCommand, Heartbeat, HandOffResult, CommitSubmittedResult, CancelRun,
       RequestRegionCancellation, control
  <2> QED
    BY <1>4, <2>1
<1>8. CASE LeaseNextAttempt
  <2>1. phase' = "up"
    BY <1>8 DEF LeaseNextAttempt, LeaseFirstAttempt, LeaseRetry, PollFindsNothing, control
  <2> QED
    BY <1>4, <2>1
<1>9. CASE \/ Crash \/ RecoveryAborts \/ EndAbandoning \/ ExposeOrphanedDeliveries
           \/ SettleCancellingRegion \/ FinishRecovery
  BY <1>4, <1>9 DEF Crash, RecoveryAborts, EndAbandoning, ExposeOrphanedDeliveries,
     SettleCancellingRegion, FinishRecovery
<1>10. CASE \E a \in Attempt : AbandonAndReplace(a) \/ AbandonAndFail(a)
  BY <1>6, <1>10 DEF AbandonAndReplace, AbandonAndFail
<1>11. CASE Tick \/ UNCHANGED vars
  BY <1>5, <1>11 DEF Tick, vars, rows, control
<1> QED
  BY <1>1, <1>2, <1>3, <1>7, <1>8, <1>9, <1>10, <1>11 DEF Next

\* Only recovery abandons, in its abandoning step.
LEMMA RecoveryAbandons ==
  ASSUME TypeOK, ExecutionRows, ScanIsCurrent, [Next]_vars, NEW b \in Attempt, Active(b),
         att'[b].status = "abandoned"
  PROVE  phase = "abandoning"
<1>t. RowsTyped /\ RowStep
  BY TypeParts, StepIsRowStep
<1>1. att[b].status # "abandoned"
  BY DEF Active, ActiveStatus
<1>2. ASSUME att' = att
      PROVE  FALSE
  BY <1>1, <1>2
<1>3. ASSUME NEW a \in Attempt, NEW row \in AttemptRow, row.status # "abandoned",
             att' = [att EXCEPT ![a] = row]
      PROVE  FALSE
  BY <1>1, <1>3, <1>t DEF RowsTyped
<1>4. CASE \/ \E run \in Run, slots \in Ingress : SubmitCommand(run, slots)
           \/ \E gs \in SUBSET Group : PollFindsNothing(gs)
           \/ \E a \in Attempt, result \in Results : HandOffResult(a, result)
           \/ \E a \in Attempt, x \in BOOLEAN : RejectSubmission(a, x)
           \/ ExposeOrphanedDeliveries \/ UNCHANGED rows
  BY <1>2, <1>4 DEF SubmitCommand, PollFindsNothing, HandOffResult, RejectSubmission,
     ExposeOrphanedDeliveries, rows
<1>5. CASE \/ \E g \in Group, e \in Delivery, gs \in SUBSET Group : LeaseFirstAttempt(g, e, gs)
           \/ \E g \in Group, e \in Delivery, n \in 1..MaxAttempts, gs \in SUBSET Group :
                LeaseRetry(g, e, n, gs)
  <2> DEFINE row == [status |-> "leased", lease |-> LeaseTicks, due |-> 0]
  <2>1. row \in AttemptRow /\ row.status # "abandoned"
    BY PolicyAssumption DEF AttemptRow, OpenStatus, ActiveStatus
  <2>2. ASSUME NEW g \in Group, NEW e \in Delivery, NEW gs, LeaseFirstAttempt(g, e, gs)
        PROVE  \E a \in Attempt : att' = [att EXCEPT ![a] = row]
    <3>1. <<e, 1>> \in Attempt
      BY PolicyAssumption DEF Attempt
    <3> QED
      BY <2>2, <3>1 DEF LeaseFirstAttempt
  <2>3. ASSUME NEW g \in Group, NEW e \in Delivery, NEW n \in 1..MaxAttempts, NEW gs,
               LeaseRetry(g, e, n, gs)
        PROVE  \E a \in Attempt : att' = [att EXCEPT ![a] = row]
    <3>1. <<e, n>> \in Attempt
      BY DEF Attempt
    <3> QED
      BY <2>3, <3>1 DEF LeaseRetry
  <2> HIDE DEF row
  <2> QED
    BY <1>3, <1>5, <2>1, <2>2, <2>3
<1>6. ASSUME NEW a \in Attempt, Heartbeat(a)
      PROVE  FALSE
  <2> DEFINE row == [att[a] EXCEPT !.status = "running", !.lease = LeaseTicks]
  <2>1. att' = [att EXCEPT ![a] = row]
    BY <1>6, <1>t DEF Heartbeat, RowsTyped
  <2>2. row \in AttemptRow /\ row.status = "running"
    BY <1>t, Renewal DEF RowsTyped
  <2> HIDE DEF row
  <2> QED
    BY <1>3, <2>1, <2>2
<1>7. ASSUME NEW a \in Attempt, NEW x, Complete(a, x) \/ DeadLetter(a, x)
      PROVE  FALSE
  <2>1. PICK status \in {"completed", "failed"} : att' = [att EXCEPT ![a] = EndedAttempt(status)]
    BY <1>7 DEF Complete, DeadLetter
  <2>2. EndedAttempt(status) \in AttemptRow /\ EndedAttempt(status).status # "abandoned"
    BY EndedRow
  <2> QED
    BY <1>3, <2>1, <2>2
<1>8. ASSUME NEW a \in Attempt, NEW x, ScheduleRetry(a, x)
      PROVE  FALSE
  <2> DEFINE ended == [att EXCEPT ![a] = EndedAttempt("failed")]
  <2>1. ended \in [Attempt -> AttemptRow] /\ ended[b].status # "abandoned"
    BY <1>1, <1>t, EndedRow DEF RowsTyped
  <2>2. RetryBackoff[a[2]] \in Nat /\ att' = WithReplacement(ended, a, RetryBackoff[a[2]])
    BY <1>8, PolicyAssumption DEF ScheduleRetry, Retries
  <2> HIDE DEF ended
  <2>3. att'[b] = ended[b] \/ att'[b] = PendingAttempt(RetryBackoff[a[2]])
    BY <2>1, <2>2, Replacement
  <2> QED
    BY <2>1, <2>3 DEF PendingAttempt
<1>9. ASSUME NEW E, EndOpenAttempts(E, "cancelled")
      PROVE  FALSE
  BY <1>1, <1>9, EndedRow DEF EndOpenAttempts
<1>10. CASE SettleCancellingRegion \/ \E run \in Run : CancelRun(run)
  BY <1>9, <1>10 DEF SettleCancellingRegion, CancelRun
<1>11. CASE Tick
  <2>1. [att[b] EXCEPT !.due = Left(@), !.lease = Left(@)].status = att[b].status
    BY <1>t DEF RowsTyped, AttemptRow
  <2> QED
    BY <1>1, <1>11, <2>1 DEF Tick
<1>12. CASE \E a \in Attempt : AbandonAndReplace(a) \/ AbandonAndFail(a)
  BY <1>12 DEF AbandonAndReplace, AbandonAndFail
<1> QED
  BY <1>t, <1>4, <1>5, <1>6, <1>7, <1>8, <1>10, <1>11, <1>12 DEF RowStep

\* As long as a batch of recovery covers what waits, recovery commits or
\* refuses a result that was handed off before it abandons any attempt.
THEOREM HandedOffIsDecided == Spec /\ []BatchSuffices => HandedOffResultIsDecided
<1>1. Init => BatchInvariant
  BY DEF Init, BatchInvariant
<1>2. InductiveInvariant /\ BatchSuffices /\ BatchInvariant /\ [Next]_vars => BatchInvariant'
  BY BatchStep, TypeParts DEF InductiveInvariant
<1>3. InductiveInvariant /\ BatchInvariant /\ [Next]_vars =>
        [\A a \in Attempt :
           sub[a].state = "pending" /\ Active(a) => att'[a].status # "abandoned"]_vars
  BY RecoveryAbandons DEF InductiveInvariant, BatchInvariant, Pending
<1> QED
  BY <1>1, <1>2, <1>3, InvariantAlways, PTL DEF Spec, HandedOffResultIsDecided

-----------------------------------------------------------------------------
(* Executions that can be driven on, unless an optional input came late.   *)

JoinedOn(e, p) == {d \in exe[e].inputs : del[d].port = p}

\* Inputs fill ports of one component for one correlation exactly: all the
\* required ones, and those optional ones they lie on.
WholeJoin(e) ==
  exe[e].status # Absent =>
    /\ \A d \in exe[e].inputs :
         /\ del[d].comp = del[e].comp /\ del[d].run = del[e].run /\ e <= d
         /\ del[d].port \in Required[del[e].comp] \cup Optional[del[e].comp]
         /\ Cardinality(JoinedOn(e, del[d].port)) = Expected[<<del[e].comp, del[d].port>>]
    /\ \A p \in Required[del[e].comp] :
         Cardinality(JoinedOn(e, p)) = Expected[<<del[e].comp, p>>]

\* The inputs of an execution are in the same status and wait for the same moment.
InStep(e) ==
  exe[e].status # Absent =>
    \A d \in exe[e].inputs : del[d].status = del[e].status /\ del[d].due = del[e].due

\* An active attempt holds all the inputs of an execution or none.
HoldsWhole(a) ==
  Active(a) => \A f \in Delivery :
    exe[f].status # Absent =>
      exe[f].inputs \subseteq Inputs(a) \/ exe[f].inputs \cap Inputs(a) = {}

Drivable(e) ==
  exe[e].status = "running" =>
    \/ Outgrown(e)
    \/ \E n \in 1..MaxAttempts :
         Open(<<e, n>>) /\ (att[<<e, n>>].status = "pending" => del[e].status = "ready")

EndsWithInputs(e) == ExecutionEnded(e) => \A d \in exe[e].inputs : DeliveryEnded(d)

CurrentEpoch ==
  region # "cancelled" => \A e \in Delivery : exe[e].status # Absent => exe[e].epoch = epoch

FiniteWork == IsFiniteSet({d \in Delivery : Exists(d)})

\* The inductive invariant of what is driven on, on top of the general one.
DriveInvariant ==
  /\ IsFiniteSet(Slot)
  /\ InductiveInvariant
  /\ FiniteWork
  /\ CurrentEpoch
  /\ \A e \in Delivery : WholeJoin(e) /\ InStep(e) /\ Drivable(e) /\ EndsWithInputs(e)
  /\ \A a \in Attempt : HoldsWhole(a)

\* What the invariant says of the inputs of one execution.
LEMMA InputFacts ==
  ASSUME DriveInvariant, NEW e \in Delivery, exe[e].status # Absent
  PROVE  /\ exe[e].inputs \subseteq Delivery /\ e \in exe[e].inputs
         /\ del[e].comp \in Component /\ del[e].run \in Run
         /\ \A d \in exe[e].inputs : Exists(d)
<1>1. ExecutionRows /\ RowsTyped
  BY TypeParts DEF DriveInvariant, InductiveInvariant
<1> QED
  BY <1>1 DEF ExecutionRows, RowsTyped, ExecutionRow

\* A poll selects what is due on required ports and on filled optional ones.
LEMMA SelectionFacts ==
  ASSUME NEW g \in Group, PortsComplete(g)
  PROVE  /\ Selected(g) \subseteq Due(g) /\ Due(g) \subseteq Delivery
         /\ \A d \in Selected(g) :
              /\ del[d].port \in Required[g[1]] \cup Optional[g[1]]
              /\ Filled(g, del[d].port) /\ OnPort(g, del[d].port) \subseteq Selected(g)
         /\ \A p \in Required[g[1]] : Filled(g, p) /\ OnPort(g, p) \subseteq Selected(g)
         /\ \A p \in Optional[g[1]] : Filled(g, p) => OnPort(g, p) \subseteq Selected(g)
<1> DEFINE ports == Required[g[1]] \cup {q \in Optional[g[1]] : Filled(g, q)}
<1>1. Selected(g) = UNION {OnPort(g, p) : p \in ports}
  BY DEF Selected
<1>2. \A p \in ports : Filled(g, p) /\ OnPort(g, p) \subseteq Selected(g)
  BY <1>1 DEF PortsComplete
<1>3. \A d \in Selected(g) : del[d].port \in ports /\ d \in Due(g)
  BY <1>1 DEF OnPort
<1>4. Due(g) \subseteq Delivery
  BY DEF Due
<1>5. ports \subseteq Required[g[1]] \cup Optional[g[1]]
  OBVIOUS
<1>6. \A p \in Optional[g[1]] : Filled(g, p) => p \in ports
  OBVIOUS
<1>7. \A p \in Required[g[1]] : p \in ports
  OBVIOUS
<1> HIDE DEF ports
<1> QED
  BY <1>2, <1>3, <1>4, <1>5, <1>6, <1>7

\* If one input of an execution is due in a group, all of them are.
LEMMA DueTogether ==
  ASSUME DriveInvariant, NEW f \in Delivery, exe[f].status # Absent,
         NEW g, NEW d \in exe[f].inputs, d \in Due(g)
  PROVE  exe[f].inputs \subseteq Due(g) /\ del[f].comp = g[1]
<1>1. WholeJoin(f) /\ InStep(f)
  BY DEF DriveInvariant
<1>2. exe[f].inputs \subseteq Delivery
  BY InputFacts
<1>3. /\ del[f].status = "ready" /\ del[f].due = 0
      /\ del[f].comp = g[1] /\ del[f].run = g[2]
  BY <1>1 DEF WholeJoin, InStep, Due
<1>4. \A c \in exe[f].inputs : c \in Due(g)
  BY <1>1, <1>2, <1>3 DEF WholeJoin, InStep, Due
<1> QED
  BY <1>3, <1>4

\* On a port, the exact count leaves no room beside the inputs of an execution.
LEMMA PortIsTaken ==
  ASSUME DriveInvariant, NEW f \in Delivery, exe[f].status # Absent,
         NEW g \in Group, exe[f].inputs \subseteq Due(g), NEW p \in Port,
         Cardinality(JoinedOn(f, p)) = Expected[<<g[1], p>>], ~Overfilled(g, p)
  PROVE  Filled(g, p) /\ OnPort(g, p) \subseteq exe[f].inputs
<1> DEFINE S == OnPort(g, p)
           T == JoinedOn(f, p)
<1>1. IsFiniteSet(S)
  <2>1. S \subseteq {d \in Delivery : Exists(d)}
    BY DEF OnPort, Due, Exists, Absent
  <2> QED
    BY <2>1, FS_Subset DEF DriveInvariant, FiniteWork
<1>2. T \subseteq S /\ T \subseteq exe[f].inputs
  BY DEF OnPort, JoinedOn
<1>3. IsFiniteSet(T) /\ Cardinality(T) <= Cardinality(S)
      /\ (Cardinality(S) = Cardinality(T) => S = T)
  <2> HIDE DEF S, T
  <2> QED
    BY <1>1, <1>2, FS_Subset
<1>4. Cardinality(S) \in Nat /\ Cardinality(T) \in Nat
  <2> HIDE DEF S, T
  <2> QED
    BY <1>1, <1>3, FS_CardinalityType
<1>5. ~(Cardinality(S) > Cardinality(T))
  BY DEF Overfilled
<1>6. Cardinality(S) = Cardinality(T)
  <2> HIDE DEF S, T
  <2> QED
    BY <1>3, <1>4, <1>5
<1>7. S = T
  BY <1>3, <1>6
<1> QED
  BY <1>2, <1>6, <1>7 DEF Filled

\* A poll that selects one input of an execution selects them all, and beside
\* them only inputs of optional ports.
LEMMA SelectedTogether ==
  ASSUME DriveInvariant, NEW f \in Delivery, exe[f].status # Absent,
         NEW g \in Group, PortsComplete(g), NEW d \in exe[f].inputs, d \in Selected(g)
  PROVE  /\ exe[f].inputs \subseteq Selected(g) /\ del[f].comp = g[1]
         /\ \A x \in Selected(g) \ exe[f].inputs : del[x].port \in Optional[g[1]]
<1>1. WholeJoin(f) /\ g[1] \in Component
  BY DEF DriveInvariant, Group
<1>2. d \in Due(g)
  BY SelectionFacts
<1>3. exe[f].inputs \subseteq Due(g) /\ del[f].comp = g[1]
  BY <1>2, DueTogether
<1>4. Required[g[1]] \subseteq Port /\ Optional[g[1]] \subseteq Port
  BY <1>1, TopologyAssumption
<1>5. ASSUME NEW c \in exe[f].inputs
      PROVE  c \in Selected(g)
  <2> DEFINE p == del[c].port
  <2>1. /\ p \in Required[g[1]] \cup Optional[g[1]]
        /\ Cardinality(JoinedOn(f, p)) = Expected[<<g[1], p>>]
    BY <1>1, <1>3 DEF WholeJoin
  <2>2. c \in OnPort(g, p)
    BY <1>3 DEF OnPort
  <2>3. CASE p \in Required[g[1]]
    BY <2>2, <2>3, SelectionFacts
  <2>4. CASE p \in Optional[g[1]]
    <3>1. p \in Port /\ ~Overfilled(g, p)
      BY <1>4, <2>4 DEF PortsComplete
    <3> HIDE DEF p
    <3>2. Filled(g, p)
      BY <1>3, <2>1, <3>1, PortIsTaken
    <3> QED
      BY <2>2, <2>4, <3>2, SelectionFacts
  <2> QED
    BY <2>1, <2>3, <2>4
<1>6. ASSUME NEW x \in Selected(g), del[x].port \in Required[g[1]]
      PROVE  x \in exe[f].inputs
  <2> DEFINE p == del[x].port
  <2>1. /\ p \in Port /\ Filled(g, p) /\ x \in OnPort(g, p)
        /\ Cardinality(JoinedOn(f, p)) = Expected[<<g[1], p>>]
    BY <1>1, <1>3, <1>4, <1>6, SelectionFacts DEF WholeJoin, OnPort
  <2>2. <<g[1], p>> \in Slot /\ Expected[<<g[1], p>>] \in Nat
    BY <1>1, <2>1, TopologyAssumption DEF Slot
  <2>3. ~Overfilled(g, p)
    BY <2>1, <2>2 DEF Filled, Overfilled
  <2> HIDE DEF p
  <2> QED
    BY <1>3, <2>1, <2>3, PortIsTaken
<1>7. \A x \in Selected(g) : del[x].port \in Required[g[1]] \cup Optional[g[1]]
  BY SelectionFacts
<1> QED
  BY <1>3, <1>5, <1>6, <1>7

\* Two executions with the same inputs are one: both are named by the first.
LEMMA NamedByInputs ==
  ASSUME DriveInvariant, NEW f \in Delivery, exe[f].status # Absent,
         NEW S, exe[f].inputs = S, NEW e \in Delivery, IsTrigger(e, S)
  PROVE  e = f
<1>1. WholeJoin(f) /\ f \in S
  BY InputFacts DEF DriveInvariant
<1>2. e <= f /\ f <= e
  BY <1>1 DEF IsTrigger, WholeJoin
<1> QED
  BY <1>2, DeliveryAssumption

\* An insertion brings finitely many deliveries.
LEMMA InsertionIsFinite ==
  ASSUME IsFiniteSet(Slot), NEW slots \in SUBSET Slot,
         NEW new \in Insertions(slots) \cup Emissions(slots)
  PROVE  IsFiniteSet(DOMAIN new)
<1>1. CASE new \in Insertions(slots)
  <2>1. PICK ids \in SUBSET Unused : new \in Bijection(ids, slots)
    BY <1>1 DEF Insertions
  <2>2. new \in Injection(ids, slots) /\ DOMAIN new = ids
    BY <2>1 DEF Bijection, Injection
  <2>3. IsFiniteSet(slots)
    BY FS_Subset
  <2> QED
    BY <2>2, <2>3, FS_Injection
<1>2. CASE new \in Emissions(slots)
  BY <1>2 DEF Emissions
<1> QED
  BY <1>1, <1>2

\* Only finitely many deliveries ever exist.
LEMMA FiniteWorkStep ==
  ASSUME DriveInvariant, RowStep
  PROVE  FiniteWork'
<1> DEFINE before == {d \in Delivery : Exists(d)}
           after == {d \in Delivery : Exists(d)'}
<1>t. /\ InductiveInvariant /\ ExecutionRows /\ IsFiniteSet(before) /\ IsFiniteSet(Slot)
  BY DEF DriveInvariant, InductiveInvariant, FiniteWork
<1>1. SUFFICES IsFiniteSet(after)
  BY DEF FiniteWork
<1>2. ASSUME NEW new, IsFiniteSet(DOMAIN new),
             \A d \in Delivery : d \notin DOMAIN new /\ Exists(d)' => Exists(d)
      PROVE  IsFiniteSet(after)
  <2>1. after \subseteq before \cup DOMAIN new
    BY <1>2
  <2>2. IsFiniteSet(before \cup DOMAIN new)
    BY <1>t, <1>2, FS_Union
  <2> QED
    BY <2>1, <2>2, FS_Subset
<1>3. ASSUME NEW run \in Run, NEW slots \in Ingress, SubmitCommand(run, slots)
      PROVE  IsFiniteSet(after)
  <2>1. PICK new \in Insertions(slots) :
          del' = [d \in Delivery |-> IF d \in DOMAIN new THEN NewDelivery(new[d], run) ELSE del[d]]
    BY <1>3 DEF SubmitCommand
  <2>2. IsFiniteSet(DOMAIN new)
    BY <1>t, <2>1, TopologyAssumption, InsertionIsFinite
  <2>3. \A d \in Delivery : d \notin DOMAIN new /\ Exists(d)' => Exists(d)
    BY <2>1 DEF Exists
  <2> QED
    BY <1>2, <2>2, <2>3
<1>4. ASSUME NEW a \in Attempt, NEW x \in BOOLEAN, Complete(a, x)
      PROVE  IsFiniteSet(after)
  <2>1. PICK new \in Emissions(Routes[del[a[1]].comp]) :
          del' = [d \in Delivery |->
                    IF d \in Inputs(a) THEN Unleased(del[d], "completed")
                    ELSE IF d \in DOMAIN new THEN NewDelivery(new[d], del[a[1]].run)
                    ELSE del[d]]
    BY <1>4 DEF Complete
  <2>2. Active(a)
    BY <1>4 DEF Complete, Commits, Authoritative
  <2>3. del[a[1]].comp \in Component /\ \A d \in Inputs(a) : Exists(d)
    BY <1>t, <2>2, AttemptFacts DEF ExecutionRows, Active, ActiveStatus, Absent, Inputs
  <2>4. IsFiniteSet(DOMAIN new)
    BY <1>t, <2>1, <2>3, TopologyAssumption, InsertionIsFinite
  <2>5. \A d \in Delivery : d \notin DOMAIN new /\ Exists(d)' => Exists(d)
    BY <2>1, <2>3 DEF Exists
  <2> QED
    BY <1>2, <2>4, <2>5
<1>5. CASE ~Inserts
  <2>1. \A d \in Delivery : Exists(d)' => Exists(d)
    BY <1>t, <1>5, DeliveryMoves DEF DeliveryStep, Exists, Absent
  <2>2. after \subseteq before
    BY <2>1
  <2> QED
    BY <1>t, <2>2, FS_Subset
<1> QED
  BY <1>3, <1>4, <1>5 DEF Inserts

\* An execution begins with exactly what its ports need and keeps it.
LEMMA WholeJoinStep ==
  ASSUME DriveInvariant, RowStep, NEW e \in Delivery
  PROVE  WholeJoin(e)'
<1>t. /\ WholeJoin(e) /\ RowsTyped /\ TypeOK /\ ExecutionRows /\ ScanIsCurrent
  BY TypeParts DEF DriveInvariant, InductiveInvariant
<1>k. \A d \in Delivery : Keeps(d)
  BY <1>t, DeliveriesPersist
<1>1. ASSUME NEW g \in Group, NEW gs \in SUBSET Group, LeaseFirstAttempt(g, e, gs)
      PROVE  WholeJoin(e)'
  <2>1. exe'[e].inputs = Selected(g)
    BY <1>1, <1>t DEF LeaseFirstAttempt, RowsTyped
  <2>2. PortsComplete(g) /\ IsTrigger(e, Selected(g))
    BY <1>1 DEF LeaseFirstAttempt, MayStart
  <2>3. \A d \in Selected(g) : /\ d \in Delivery /\ d \in Due(g) /\ Exists(d)
                               /\ del[d].comp = g[1] /\ del[d].run = g[2]
                               /\ del[d].port \in Required[g[1]] \cup Optional[g[1]]
    BY <2>2, SelectionFacts DEF Due, Exists, Absent
  <2>4. \A d \in Selected(g) : /\ del'[d].comp = g[1] /\ del'[d].run = g[2]
                               /\ del'[d].port = del[d].port
    BY <1>k, <2>3 DEF Keeps
  <2>5. e \in Selected(g) /\ \A d \in Selected(g) : e <= d
    BY <2>2 DEF IsTrigger
  <2>6. ASSUME NEW p, Filled(g, p), OnPort(g, p) \subseteq Selected(g)
        PROVE  Cardinality(JoinedOn(e, p)') = Expected[<<g[1], p>>]
    <3>1. {d \in Selected(g) : del'[d].port = p} = OnPort(g, p)
      BY <2>3, <2>4, <2>6 DEF OnPort
    <3>2. JoinedOn(e, p)' = OnPort(g, p)
      BY <2>1, <3>1 DEF JoinedOn
    <3> QED
      BY <2>6, <3>2 DEF Filled
  <2>7. \A p \in Required[g[1]] : Cardinality(JoinedOn(e, p)') = Expected[<<g[1], p>>]
    BY <2>2, <2>6, SelectionFacts
  <2>8. \A p : (\E d \in Selected(g) : del[d].port = p) =>
          Cardinality(JoinedOn(e, p)') = Expected[<<g[1], p>>]
    BY <2>2, <2>6, SelectionFacts
  <2>9. \A d \in Selected(g) :
          Cardinality({c \in exe'[e].inputs : del'[c].port = del'[d].port})
            = Expected[<<g[1], del'[d].port>>]
    BY <2>4, <2>8 DEF JoinedOn
  <2>10. \A d \in Selected(g) :
           /\ del'[d].comp = del'[e].comp /\ del'[d].run = del'[e].run /\ e <= d
           /\ del'[d].port \in Required[del'[e].comp] \cup Optional[del'[e].comp]
    BY <2>3, <2>4, <2>5
  <2>11. del'[e].comp = g[1]
    BY <2>4, <2>5
  <2> QED
    BY <2>1, <2>7, <2>9, <2>10, <2>11 DEF WholeJoin, JoinedOn
<1>2. CASE exe[e].status # Absent
  <2>1. exe'[e].inputs = exe[e].inputs
    BY <1>2, <1>t, InputsStay
  <2>2. /\ exe[e].inputs \subseteq Delivery /\ e \in exe[e].inputs
        /\ \A d \in exe[e].inputs : Exists(d)
    BY <1>2, InputFacts
  <2>3. \A d \in exe[e].inputs : /\ del'[d].comp = del[d].comp /\ del'[d].run = del[d].run
                                 /\ del'[d].port = del[d].port
    BY <1>k, <2>2 DEF Keeps
  <2>4. \A d \in exe[e].inputs :
          /\ del'[d].comp = del'[e].comp /\ del'[d].run = del'[e].run /\ e <= d
          /\ del'[d].port \in Required[del'[e].comp] \cup Optional[del'[e].comp]
    BY <1>2, <1>t, <2>2, <2>3 DEF WholeJoin
  <2>5. \A p : JoinedOn(e, p)' = JoinedOn(e, p)
    BY <2>1, <2>3 DEF JoinedOn
  <2>6. del'[e].comp = del[e].comp
    BY <2>2, <2>3
  <2>7. \A p \in Required[del'[e].comp] :
          Cardinality(JoinedOn(e, p)') = Expected[<<del'[e].comp, p>>]
    BY <1>2, <1>t, <2>5, <2>6 DEF WholeJoin
  <2>8. \A p : (\E d \in exe[e].inputs : del[d].port = p) =>
          Cardinality(JoinedOn(e, p)') = Expected[<<del'[e].comp, p>>]
    BY <1>2, <1>t, <2>5, <2>6 DEF WholeJoin
  <2>9. \A d \in exe[e].inputs :
          Cardinality({c \in exe'[e].inputs : del'[c].port = del'[d].port})
            = Expected[<<del'[e].comp, del'[d].port>>]
    BY <2>3, <2>8 DEF JoinedOn
  <2> QED
    BY <2>1, <2>4, <2>7, <2>9 DEF WholeJoin, JoinedOn
<1>3. CASE exe[e].status = Absent /\ exe'[e] = exe[e]
  BY <1>3 DEF WholeJoin
<1>4. exe[e].status # Absent \/ exe'[e] = exe[e] \/ Begins(e)
  BY <1>t, ExecutionMoves DEF ExecutionStep, Absent
<1> QED
  BY <1>1, <1>2, <1>3, <1>4 DEF Begins

\* An attempt starts to work by one of two polls, with what the poll selected.
LEMMA ActiveOrLeased ==
  ASSUME DriveInvariant, RowStep, NEW a \in Attempt, Active(a)', ~Active(a)
  PROVE  \E g \in Group, gs \in SUBSET Group :
           \/ LeaseFirstAttempt(g, a[1], gs)
           \/ LeaseRetry(g, a[1], a[2], gs)
<1>t. /\ RowsTyped /\ TypeOK /\ ExecutionRows /\ ScanIsCurrent
      /\ a[1] \in Delivery /\ a[2] \in 1..MaxAttempts /\ a = <<a[1], a[2]>>
  BY TypeParts, AttemptFacts DEF DriveInvariant, InductiveInvariant
<1>0. att'[a].status \in ActiveStatus /\ att[a].status \notin ActiveStatus
  BY DEF Active
<1>1. ASSUME NEW g \in Group, NEW e \in Delivery, NEW gs \in SUBSET Group,
             LeaseFirstAttempt(g, e, gs)
      PROVE  e = a[1]
  <2>1. a = <<e, 1>>
    BY <1>0, <1>1, <1>t DEF LeaseFirstAttempt, RowsTyped
  <2> QED
    BY <2>1
<1>2. ASSUME NEW g \in Group, NEW e \in Delivery, NEW n \in 1..MaxAttempts,
             NEW gs \in SUBSET Group, LeaseRetry(g, e, n, gs)
      PROVE  e = a[1] /\ n = a[2]
  <2>1. a = <<e, n>>
    BY <1>0, <1>2, <1>t DEF LeaseRetry, RowsTyped
  <2> QED
    BY <2>1
<1>3. ASSUME att'[a].status = att[a].status
      PROVE  FALSE
  BY <1>0, <1>3
<1>4. CASE \/ \E run \in Run, slots \in Ingress : SubmitCommand(run, slots)
           \/ \E gs \in SUBSET Group : PollFindsNothing(gs)
           \/ \E b \in Attempt, result \in Results : HandOffResult(b, result)
           \/ \E b \in Attempt, x \in BOOLEAN : RejectSubmission(b, x)
           \/ ExposeOrphanedDeliveries \/ UNCHANGED rows
  BY <1>3, <1>4 DEF SubmitCommand, PollFindsNothing, HandOffResult, RejectSubmission,
     ExposeOrphanedDeliveries, rows
<1>5. CASE Tick
  <2>1. [att[a] EXCEPT !.due = Left(@), !.lease = Left(@)].status = att[a].status
    BY <1>t DEF RowsTyped, AttemptRow
  <2> QED
    BY <1>3, <1>5, <2>1 DEF Tick
<1>6. ASSUME NEW b \in Attempt, Heartbeat(b)
      PROVE  FALSE
  <2>1. b # a
    BY <1>0, <1>6 DEF Heartbeat, ActiveAttempt, Active
  <2> QED
    BY <1>3, <1>6, <1>t, <2>1 DEF Heartbeat, RowsTyped
<1>7. ASSUME NEW b \in Attempt, NEW status \in {"completed", "failed", "abandoned"},
             NEW ticks \in Nat,
             \/ att' = [att EXCEPT ![b] = EndedAttempt(status)]
             \/ att' = WithReplacement([att EXCEPT ![b] = EndedAttempt(status)], b, ticks)
      PROVE  FALSE
  <2>1. OnlyEnds(b)
    BY <1>t, <1>7, EndedAlone
  <2>2. a # b
    BY <2>1 DEF OnlyEnds
  <2> QED
    BY <1>0, <2>1, <2>2 DEF OnlyEnds, Active
<1>8. ASSUME NEW b \in Attempt, NEW x \in BOOLEAN,
             Complete(b, x) \/ DeadLetter(b, x) \/ ScheduleRetry(b, x)
      PROVE  FALSE
  <2>1. CASE Complete(b, x)
    BY <1>7, <2>1 DEF Complete
  <2>2. CASE DeadLetter(b, x)
    BY <1>7, <2>2 DEF DeadLetter
  <2>3. CASE ScheduleRetry(b, x)
    <3>1. RetryBackoff[b[2]] \in Nat
      BY <2>3, PolicyAssumption DEF ScheduleRetry, Retries
    <3> QED
      BY <1>7, <2>3, <3>1 DEF ScheduleRetry
  <2> QED
    BY <1>8, <2>1, <2>2, <2>3
<1>9. ASSUME NEW b \in Attempt, AbandonAndReplace(b) \/ AbandonAndFail(b)
      PROVE  FALSE
  BY <1>7, <1>9 DEF AbandonAndReplace, AbandonAndFail
<1>10. ASSUME NEW E, EndOpenAttempts(E, "cancelled")
       PROVE  FALSE
  BY <1>0, <1>10, EndedRow DEF EndOpenAttempts, ActiveStatus
<1>11. CASE SettleCancellingRegion \/ \E run \in Run : CancelRun(run)
  BY <1>10, <1>11 DEF SettleCancellingRegion, CancelRun
<1>12. CASE \E g \in Group, e \in Delivery, gs \in SUBSET Group : LeaseFirstAttempt(g, e, gs)
  BY <1>1, <1>12
<1>13. CASE \E g \in Group, e \in Delivery, n \in 1..MaxAttempts, gs \in SUBSET Group :
              LeaseRetry(g, e, n, gs)
  BY <1>2, <1>13
<1> QED
  BY <1>4, <1>5, <1>6, <1>8, <1>9, <1>11, <1>12, <1>13 DEF RowStep

\* Whoever starts to work takes the inputs of an older execution all or none.
LEMMA HoldsWholeStep ==
  ASSUME DriveInvariant, RowStep, NEW a \in Attempt
  PROVE  HoldsWhole(a)'
<1> SUFFICES ASSUME Active(a)', NEW f \in Delivery, exe'[f].status # Absent,
                    NEW x \in exe'[f].inputs, x \in Inputs(a)'
             PROVE  exe'[f].inputs \subseteq Inputs(a)'
  BY DEF HoldsWhole
<1>t. /\ RowsTyped /\ TypeOK /\ ExecutionRows /\ ScanIsCurrent /\ LeaseCoherence
      /\ HoldsWhole(a) /\ a[1] \in Delivery /\ a[2] \in 1..MaxAttempts
  BY TypeParts, AttemptFacts DEF DriveInvariant, InductiveInvariant
<1>1. CASE a[1] = f
  BY <1>1 DEF Inputs
<1>2. CASE a[1] # f /\ Active(a)
  <2>1. exe[a[1]].status # Absent
    BY <1>2, <1>t DEF ExecutionRows, Active, ActiveStatus, Absent
  <2>2. Inputs(a)' = Inputs(a) /\ Inputs(a) \subseteq Delivery
    BY <1>t, <2>1, InputsStay, InputFacts DEF Inputs
  <2>3. CASE Begins(f)
    <3>1. x \in Delivery /\ del[x].status = "ready"
      BY <1>t, <2>3, Beginning
    <3> QED
      BY <1>2, <1>t, <2>2, <3>1 DEF LeaseCoherence
  <2>4. CASE ~Begins(f)
    <3>1. exe[f].status # Absent
      BY <1>t, <2>4, ExecutionMoves DEF ExecutionStep, Absent
    <3>2. exe'[f].inputs = exe[f].inputs
      BY <1>t, <3>1, InputsStay
    <3> QED
      BY <1>2, <1>t, <2>2, <3>1, <3>2 DEF HoldsWhole
  <2> QED
    BY <2>3, <2>4
<1>3. CASE a[1] # f /\ ~Active(a)
  <2>1. PICK g \in Group, gs \in SUBSET Group :
          LeaseFirstAttempt(g, a[1], gs) \/ LeaseRetry(g, a[1], a[2], gs)
    BY <1>3, ActiveOrLeased
  <2>2. PortsComplete(g)
    BY <2>1 DEF LeaseFirstAttempt, LeaseRetry, MayStart, MayRetry
  <2>3. Inputs(a)' = Selected(g)
    <3>1. CASE LeaseFirstAttempt(g, a[1], gs)
      BY <1>t, <3>1 DEF LeaseFirstAttempt, RowsTyped, Inputs
    <3>2. CASE LeaseRetry(g, a[1], a[2], gs)
      BY <3>2 DEF LeaseRetry, MayRetry, Resumes, Inputs
    <3> QED
      BY <2>1, <3>1, <3>2
  <2>4. exe'[f] = exe[f]
    <3>1. CASE LeaseFirstAttempt(g, a[1], gs)
      BY <1>3, <1>t, <3>1 DEF LeaseFirstAttempt, RowsTyped
    <3>2. CASE LeaseRetry(g, a[1], a[2], gs)
      BY <3>2 DEF LeaseRetry
    <3> QED
      BY <2>1, <3>1, <3>2
  <2> QED
    BY <2>2, <2>3, <2>4, SelectedTogether
<1> QED
  BY <1>1, <1>2, <1>3

\* An execution that ends takes its inputs with it.
LEMMA EndsWithInputsStep ==
  ASSUME DriveInvariant, RowStep, NEW e \in Delivery
  PROVE  EndsWithInputs(e)'
<1> SUFFICES ASSUME ExecutionEnded(e)', NEW d \in exe'[e].inputs PROVE DeliveryEnded(d)'
  BY DEF EndsWithInputs
<1>t. /\ InductiveInvariant /\ RowsTyped /\ ExecutionRows /\ ScanIsCurrent
      /\ EndsWithInputs(e)
  BY TypeParts DEF DriveInvariant, InductiveInvariant
<1>1. CASE ExecutionEnded(e)
  <2>1. exe'[e].inputs = exe[e].inputs /\ exe[e].inputs \subseteq Delivery
    BY <1>1, <1>t, InputsStay, InputFacts DEF ExecutionEnded, Absent
  <2>2. DeliveryEnded(d) /\ DeliveryStep(d)
    BY <1>1, <1>t, <2>1, DeliveryMoves DEF EndsWithInputs
  <2> QED
    BY <2>2 DEF DeliveryEnded, DeliveryStep, Absent
<1>2. CASE ~ExecutionEnded(e)
  <2>1. exe[e].status = "running"
    <3>1. CASE Begins(e)
      BY <1>t, <3>1, Beginning DEF ExecutionEnded
    <3> QED
      BY <1>2, <1>t, <3>1, ExecutionMoves DEF ExecutionStep, ExecutionEnded
  <2>2. /\ exe'[e].inputs = exe[e].inputs /\ exe[e].inputs \subseteq Delivery
        /\ e \in exe[e].inputs /\ exe'[e] # exe[e]
        /\ \A c \in exe[e].inputs : Exists(c) /\ del[c].run = del[e].run
    BY <1>2, <1>t, <2>1, InputsStay, InputFacts DEF ExecutionEnded, ExecutionRows, Absent
  <2>3. \A status \in {"completed", "dead_lettered", "cancelled"} :
          Unleased(del[d], status).status = status
    BY <1>t, <2>2, UnleasedTyped DEF RowsTyped
  <2>4. del[d] \in DeliveryRow /\ Exists(d) /\ d \in Delivery
    BY <1>t, <2>2 DEF RowsTyped
  <2>5. ASSUME NEW a \in Attempt, NEW x, Complete(a, x)
        PROVE  DeliveryEnded(d)'
    <3>1. a[1] = e
      BY <1>t, <2>2, <2>5 DEF Complete, RowsTyped
    <3> QED
      BY <1>t, <2>2, <2>3, <2>5, <3>1, CompleteDeliveries DEF Inputs, DeliveryEnded
  <2>6. ASSUME NEW a \in Attempt, NEW x, DeadLetter(a, x)
        PROVE  DeliveryEnded(d)'
    <3>1. a[1] = e
      BY <1>t, <2>2, <2>6 DEF DeadLetter, RowsTyped
    <3> QED
      BY <2>2, <2>3, <2>6, <3>1 DEF DeadLetter, Inputs, DeliveryEnded
  <2>7. ASSUME NEW a \in Attempt, AbandonAndFail(a)
        PROVE  DeliveryEnded(d)'
    <3>1. a[1] = e
      BY <1>t, <2>2, <2>7 DEF AbandonAndFail, FailRunning, RowsTyped
    <3> QED
      BY <2>1, <2>2, <2>3, <2>7, <3>1 DEF AbandonAndFail, Inputs, DeliveryEnded
  <2>8. ASSUME NEW S, d \in S, CancelDeliveries(S)
        PROVE  DeliveryEnded(d)'
    BY <2>3, <2>4, <2>8 DEF CancelDeliveries, DeliveryRow, DeliveryEnded, Exists
  <2>9. ASSUME NEW run \in Run, CancelRun(run)
        PROVE  DeliveryEnded(d)'
    <3>1. e \in RunExecutions(run)
      BY <1>t, <2>2, <2>9 DEF CancelRun, FailRunning, RowsTyped
    <3>2. d \in {c \in Delivery : Exists(c) /\ del[c].run = run}
      BY <2>2, <2>4, <3>1 DEF RunExecutions
    <3> QED
      BY <2>8, <2>9, <3>2 DEF CancelRun
  <2>10. CASE SettleCancellingRegion
    BY <2>4, <2>8, <2>10 DEF SettleCancellingRegion
  <2>11. ASSUME NEW g \in Group, NEW f \in Delivery, NEW gs, LeaseFirstAttempt(g, f, gs)
         PROVE  FALSE
    BY <1>t, <2>1, <2>2, <2>11 DEF LeaseFirstAttempt, MayStart, RowsTyped, Absent
  <2>12. ASSUME exe' = exe
         PROVE  FALSE
    BY <2>2, <2>12
  <2>13. CASE \/ \E run \in Run, slots \in Ingress : SubmitCommand(run, slots)
              \/ \E g \in Group, f \in Delivery, n \in 1..MaxAttempts, gs \in SUBSET Group :
                   LeaseRetry(g, f, n, gs)
              \/ \E gs \in SUBSET Group : PollFindsNothing(gs)
              \/ \E a \in Attempt : Heartbeat(a) \/ AbandonAndReplace(a)
              \/ \E a \in Attempt, result \in Results : HandOffResult(a, result)
    BY <2>12, <2>13 DEF SubmitCommand, LeaseRetry, PollFindsNothing, Heartbeat,
       AbandonAndReplace, HandOffResult
  <2>14. CASE \/ \E a \in Attempt, x \in BOOLEAN : ScheduleRetry(a, x) \/ RejectSubmission(a, x)
              \/ ExposeOrphanedDeliveries \/ Tick \/ UNCHANGED rows
    BY <2>12, <2>14 DEF ScheduleRetry, RejectSubmission, ExposeOrphanedDeliveries, Tick, rows
  <2> QED
    BY <2>5, <2>6, <2>7, <2>9, <2>10, <2>11, <2>13, <2>14 DEF RowStep
<1> QED
  BY <1>1, <1>2

\* Only settling a cancelled region moves the epoch, and cancelled is final.
LEMMA EpochMoves ==
  ASSUME [Next]_vars
  PROVE  \/ region' = "cancelled"
         \/ epoch' = epoch /\ (region = "cancelled" => region' = "cancelled")
<1>1. CASE SettleCancellingRegion
  BY <1>1 DEF SettleCancellingRegion
<1>2. CASE RequestRegionCancellation
  BY <1>2 DEF RequestRegionCancellation
<1>3. ASSUME UNCHANGED <<region, epoch>>
      PROVE  epoch' = epoch /\ region' = region
  BY <1>3
<1>4. CASE LeaseNextAttempt
  BY <1>4 DEF LeaseNextAttempt, LeaseFirstAttempt, LeaseRetry, PollFindsNothing, lifecycle
<1>5. CASE \E a \in Attempt : CommitSubmittedResult(a) \/ RecoverSubmission(a)
  BY <1>5 DEF CommitSubmittedResult, RecoverSubmission, Commit, Complete, ScheduleRetry,
     DeadLetter, RejectSubmission, lifecycle
<1>6. CASE \/ \E run \in Run, slots \in Ingress : SubmitCommand(run, slots)
           \/ \E a \in Attempt : Heartbeat(a)
           \/ \E a \in Attempt, result \in Results : HandOffResult(a, result)
           \/ \E run \in Run : CancelRun(run)
           \/ \E a \in Attempt : AbandonAndReplace(a) \/ AbandonAndFail(a)
  BY <1>6 DEF SubmitCommand, Heartbeat, HandOffResult, CancelRun, AbandonAndReplace,
     AbandonAndFail, lifecycle
<1>7. CASE \/ Crash \/ Restart \/ RecoveryAborts \/ ScanExpiredAttempts \/ EndAbandoning
           \/ ExposeOrphanedDeliveries \/ FinishRecovery \/ Tick \/ UNCHANGED vars
  BY <1>7 DEF Crash, Restart, RecoveryAborts, ScanExpiredAttempts, EndAbandoning,
     ExposeOrphanedDeliveries, FinishRecovery, Tick, lifecycle, vars
<1> QED
  BY <1>1, <1>2, <1>4, <1>5, <1>6, <1>7 DEF Next

\* Until the region is cancelled every execution is of the current epoch.
LEMMA CurrentEpochStep ==
  ASSUME DriveInvariant, [Next]_vars
  PROVE  CurrentEpoch'
<1> SUFFICES ASSUME region' # "cancelled", NEW e \in Delivery, exe'[e].status # Absent
             PROVE  exe'[e].epoch = epoch'
  BY DEF CurrentEpoch
<1>t. RowStep /\ RowsTyped /\ CurrentEpoch
  BY StepIsRowStep, TypeParts DEF DriveInvariant, InductiveInvariant
<1>1. epoch' = epoch /\ region # "cancelled"
  BY EpochMoves
<1>2. CASE Begins(e)
  <2>1. PICK g \in Group, gs \in SUBSET Group : LeaseFirstAttempt(g, e, gs)
    BY <1>2 DEF Begins
  <2>2. exe'[e] = [status |-> "running", inputs |-> Selected(g), epoch |-> epoch]
    BY <1>t, <2>1 DEF LeaseFirstAttempt, RowsTyped
  <2> QED
    BY <1>1, <2>2
<1>3. CASE ~Begins(e)
  <2>1. exe[e] \in ExecutionRow
    BY <1>t DEF RowsTyped
  <2>2. exe[e].status # Absent /\ exe'[e].epoch = exe[e].epoch
    BY <1>3, <1>t, <2>1, ExecutionMoves, ExecutionUpdate DEF ExecutionStep, Absent
  <2> QED
    BY <1>1, <1>t, <2>2 DEF CurrentEpoch
<1> QED
  BY <1>2, <1>3

\* Deferral treats alike the inputs of one execution.
LEMMA DeferredTogether ==
  ASSUME DriveInvariant, NEW f \in Delivery, exe[f].status # Absent,
         NEW d \in exe[f].inputs, NEW gs \in SUBSET Group
  PROVE  /\ DeferGroups(gs)[d].status = del[d].status
         /\ DeferGroups(gs)[f].status = del[f].status
         /\ del[d].due = del[f].due => DeferGroups(gs)[d].due = DeferGroups(gs)[f].due
<1>1. /\ exe[f].inputs \subseteq Delivery /\ f \in exe[f].inputs
      /\ RowsTyped
  BY InputFacts, TypeParts DEF DriveInvariant, InductiveInvariant
<1>2. Deferred(gs, d) <=> Deferred(gs, f)
  <2>1. ASSUME NEW b \in exe[f].inputs, NEW c \in exe[f].inputs, NEW h \in gs, b \in Due(h)
        PROVE  c \in Due(h)
    BY <2>1, DueTogether
  <2> QED
    BY <1>1, <2>1 DEF Deferred
<1>3. \A c \in Delivery :
        /\ [del[c] EXCEPT !.due = RecheckTicks].status = del[c].status
        /\ [del[c] EXCEPT !.due = RecheckTicks].due = RecheckTicks
  BY <1>1 DEF RowsTyped, DeliveryRow
<1>4. \A c \in Delivery :
        /\ Deferred(gs, c) => DeferGroups(gs)[c] = [del[c] EXCEPT !.due = RecheckTicks]
        /\ ~Deferred(gs, c) => DeferGroups(gs)[c] = del[c]
  BY DEF DeferGroups
<1>5. CASE Deferred(gs, f)
  <2>1. /\ DeferGroups(gs)[d] = [del[d] EXCEPT !.due = RecheckTicks]
        /\ DeferGroups(gs)[f] = [del[f] EXCEPT !.due = RecheckTicks]
    BY <1>1, <1>2, <1>4, <1>5
  <2>2. d \in Delivery /\ f \in Delivery
    BY <1>1
  <2> QED
    BY <1>3, <2>1, <2>2
<1>6. CASE ~Deferred(gs, f)
  BY <1>1, <1>2, <1>4, <1>6
<1> QED
  BY <1>5, <1>6

\* A lease takes all inputs of an execution or defers them together.
LEMMA LeasedTogether ==
  ASSUME DriveInvariant, NEW f \in Delivery, exe[f].status # Absent, InStep(f),
         NEW d \in exe[f].inputs, NEW g \in Group, PortsComplete(g), NEW a \in Attempt,
         NEW gs \in SUBSET Group, del' = LeaseInputs(g, a, gs)
  PROVE  del'[d].status = del'[f].status /\ del'[d].due = del'[f].due
<1>1. /\ exe[f].inputs \subseteq Delivery /\ f \in exe[f].inputs /\ RowsTyped
  BY InputFacts, TypeParts DEF DriveInvariant, InductiveInvariant
<1>2. del[d].status = del[f].status /\ del[d].due = del[f].due
  BY DEF InStep
<1>3. d \in Selected(g) <=> f \in Selected(g)
  BY <1>1, SelectedTogether
<1>4. CASE f \in Selected(g)
  <2>1. del'[d] = Leased(del[d], a) /\ del'[f] = Leased(del[f], a)
    BY <1>1, <1>3, <1>4 DEF LeaseInputs
  <2>2. \A c \in Delivery : Leased(del[c], a).status = "leased" /\ Leased(del[c], a).due = del[c].due
    BY <1>1, LeaseUpdates DEF RowsTyped
  <2> QED
    BY <1>1, <1>2, <2>1, <2>2
<1>5. CASE f \notin Selected(g)
  <2>1. del'[d] = DeferGroups(gs)[d] /\ del'[f] = DeferGroups(gs)[f]
    BY <1>1, <1>3, <1>5 DEF LeaseInputs
  <2> QED
    BY <1>2, <2>1, DeferredTogether
<1> QED
  BY <1>4, <1>5

\* The inputs of an execution move together, in whichever transaction.
LEMMA InStepStep ==
  ASSUME DriveInvariant, RowStep, NEW f \in Delivery
  PROVE  InStep(f)'
<1> SUFFICES ASSUME exe'[f].status # Absent, NEW d \in exe'[f].inputs
             PROVE  del'[d].status = del'[f].status /\ del'[d].due = del'[f].due
  BY DEF InStep
<1>t. /\ RowsTyped /\ TypeOK /\ ExecutionRows /\ ScanIsCurrent /\ LeaseCoherence
      /\ RecoveryLeavesNoExpiredLease /\ InStep(f)
  BY TypeParts DEF DriveInvariant, InductiveInvariant
<1>1. CASE Begins(f)
  <2>1. PICK g \in Group, gs \in SUBSET Group : LeaseFirstAttempt(g, f, gs)
    BY <1>1 DEF Begins
  <2>2. exe'[f].inputs = Selected(g)
    BY <1>t, <2>1 DEF LeaseFirstAttempt, RowsTyped
  <2>3. /\ PortsComplete(g) /\ f \in Selected(g) /\ <<f, 1>> \in Attempt
        /\ del' = LeaseInputs(g, <<f, 1>>, gs)
    BY <2>1, PolicyAssumption DEF LeaseFirstAttempt, MayStart, IsTrigger, Attempt
  <2>4. \A c \in Selected(g) : c \in Delivery /\ del[c].due = 0
    BY <2>3, SelectionFacts DEF Due
  <2>5. \A c \in Selected(g) : del'[c] = Leased(del[c], <<f, 1>>)
    BY <2>3, <2>4 DEF LeaseInputs
  <2>6. \A c \in Delivery : /\ Leased(del[c], <<f, 1>>).status = "leased"
                            /\ Leased(del[c], <<f, 1>>).due = del[c].due
    BY <1>t, <2>3, LeaseUpdates DEF RowsTyped
  <2>7. \A c \in Selected(g) : del'[c].status = "leased" /\ del'[c].due = 0
    BY <2>4, <2>5, <2>6
  <2> QED
    BY <2>2, <2>3, <2>7
<1>2. CASE ~Begins(f)
  <2>0. /\ exe[f].status # Absent /\ d \in exe[f].inputs /\ f \in exe[f].inputs
        /\ d \in Delivery /\ Exists(d) /\ Exists(f) /\ del[d].run = del[f].run
    <3>1. exe[f].status # Absent
      BY <1>2, <1>t, ExecutionMoves DEF ExecutionStep, Absent
    <3>2. exe'[f].inputs = exe[f].inputs
      BY <1>t, <3>1, InputsStay
    <3> QED
      BY <1>t, <3>1, <3>2, InputFacts DEF ExecutionRows
  <2>i. del[d].status = del[f].status /\ del[d].due = del[f].due
    BY <1>t, <2>0 DEF InStep
  <2>r. del[d] \in DeliveryRow /\ del[f] \in DeliveryRow
    BY <1>t, <2>0 DEF RowsTyped
  <2>h. \A a \in Attempt : Active(a) => (d \in Inputs(a) <=> f \in Inputs(a))
    BY <2>0 DEF DriveInvariant, HoldsWhole
  <2>1. ASSUME del'[d] = del[d], del'[f] = del[f]
        PROVE  del'[d].status = del'[f].status /\ del'[d].due = del'[f].due
    BY <2>1, <2>i
  <2>2. ASSUME NEW status \in {"ready", "completed", "dead_lettered", "cancelled"},
               del'[d] = Unleased(del[d], status), del'[f] = Unleased(del[f], status)
        PROVE  del'[d].status = del'[f].status /\ del'[d].due = del'[f].due
    BY <2>2, <2>i, <2>r, UnleasedTyped
  <2>3. ASSUME NEW ticks \in Nat,
               del'[d] = Readied(del[d], ticks), del'[f] = Readied(del[f], ticks)
        PROVE  del'[d].status = del'[f].status /\ del'[d].due = del'[f].due
    <3>1. \A c \in {d, f} : Readied(del[c], ticks).status = "ready"
                            /\ Readied(del[c], ticks).due = ticks
      BY <2>r DEF Readied, Unleased, DeliveryRow
    <3> QED
      BY <2>3, <3>1
  <2>4. ASSUME NEW run \in Run, NEW slots \in Ingress, SubmitCommand(run, slots)
        PROVE  del'[d].status = del'[f].status /\ del'[d].due = del'[f].due
    <3>1. PICK new \in Insertions(slots) :
            del' = [c \in Delivery |-> IF c \in DOMAIN new THEN NewDelivery(new[c], run) ELSE del[c]]
      BY <2>4 DEF SubmitCommand
    <3>2. \A c \in Delivery : Exists(c) => del'[c] = del[c]
      BY <3>1, InsertionFacts
    <3> QED
      BY <2>0, <2>1, <3>2
  <2>5. ASSUME NEW g \in Group, NEW e \in Delivery, NEW gs \in SUBSET Group,
               LeaseFirstAttempt(g, e, gs)
        PROVE  del'[d].status = del'[f].status /\ del'[d].due = del'[f].due
    <3>1. PortsComplete(g) /\ <<e, 1>> \in Attempt /\ del' = LeaseInputs(g, <<e, 1>>, gs)
      BY <2>5, PolicyAssumption DEF LeaseFirstAttempt, MayStart, Attempt
    <3> QED
      BY <1>t, <2>0, <3>1, LeasedTogether
  <2>6. ASSUME NEW g \in Group, NEW e \in Delivery, NEW n \in 1..MaxAttempts,
               NEW gs \in SUBSET Group, LeaseRetry(g, e, n, gs)
        PROVE  del'[d].status = del'[f].status /\ del'[d].due = del'[f].due
    <3>1. PortsComplete(g) /\ <<e, n>> \in Attempt /\ del' = LeaseInputs(g, <<e, n>>, gs)
      BY <2>6 DEF LeaseRetry, MayRetry, Attempt
    <3> QED
      BY <1>t, <2>0, <3>1, LeasedTogether
  <2>7. ASSUME NEW gs \in SUBSET Group, PollFindsNothing(gs)
        PROVE  del'[d].status = del'[f].status /\ del'[d].due = del'[f].due
    <3>1. del'[d] = DeferGroups(gs)[d] /\ del'[f] = DeferGroups(gs)[f]
      BY <2>7 DEF PollFindsNothing
    <3> QED
      BY <2>0, <2>i, <3>1, DeferredTogether
  <2>8. ASSUME NEW a \in Attempt, Heartbeat(a)
        PROVE  del'[d].status = del'[f].status /\ del'[d].due = del'[f].due
    <3>1. \A c \in {d, f} : del'[c] = [del[c] EXCEPT !.lease = LeaseTicks] \/ del'[c] = del[c]
      BY <2>0, <2>8 DEF Heartbeat
    <3>2. \A c \in {d, f} : /\ [del[c] EXCEPT !.lease = LeaseTicks].status = del[c].status
                            /\ [del[c] EXCEPT !.lease = LeaseTicks].due = del[c].due
      BY <2>r DEF DeliveryRow
    <3> QED
      BY <2>i, <3>1, <3>2
  <2>9. CASE \/ \E a \in Attempt, result \in Results : HandOffResult(a, result)
             \/ \E a \in Attempt, x \in BOOLEAN : RejectSubmission(a, x)
             \/ UNCHANGED rows
    BY <2>1, <2>9 DEF HandOffResult, RejectSubmission, rows
  <2>10. ASSUME NEW a \in Attempt, NEW x, Complete(a, x)
         PROVE  del'[d].status = del'[f].status /\ del'[d].due = del'[f].due
    <3>1. Active(a)
      BY <2>10 DEF Complete, Commits, Authoritative
    <3>2. CASE f \in Inputs(a)
      <4>1. del'[d] = Unleased(del[d], "completed") /\ del'[f] = Unleased(del[f], "completed")
        BY <1>t, <2>0, <2>10, <2>h, <3>1, <3>2, CompleteDeliveries
      <4> QED
        BY <2>2, <4>1
    <3>3. CASE f \notin Inputs(a)
      <4>1. del'[d] = del[d] /\ del'[f] = del[f]
        BY <1>t, <2>0, <2>10, <2>h, <3>1, <3>3, CompleteDeliveries
      <4> QED
        BY <2>1, <4>1
    <3> QED
      BY <3>2, <3>3
  <2>11. ASSUME NEW a \in Attempt, Active(a), NEW ticks \in Nat,
                del' = [c \in Delivery |->
                          IF c \in Inputs(a) THEN Readied(del[c], ticks) ELSE del[c]]
         PROVE  del'[d].status = del'[f].status /\ del'[d].due = del'[f].due
    <3>1. CASE f \in Inputs(a)
      BY <2>0, <2>3, <2>11, <2>h, <3>1
    <3>2. CASE f \notin Inputs(a)
      BY <2>0, <2>1, <2>11, <2>h, <3>2
    <3> QED
      BY <3>1, <3>2
  <2>12. ASSUME NEW a \in Attempt, Active(a),
                del' = [c \in Delivery |->
                          IF c \in Inputs(a) THEN Unleased(del[c], "dead_lettered") ELSE del[c]]
         PROVE  del'[d].status = del'[f].status /\ del'[d].due = del'[f].due
    <3>1. CASE f \in Inputs(a)
      BY <2>0, <2>2, <2>12, <2>h, <3>1
    <3>2. CASE f \notin Inputs(a)
      BY <2>0, <2>1, <2>12, <2>h, <3>2
    <3> QED
      BY <3>1, <3>2
  <2>13. ASSUME NEW a \in Attempt, NEW x, ScheduleRetry(a, x)
         PROVE  del'[d].status = del'[f].status /\ del'[d].due = del'[f].due
    <3>1. Active(a) /\ RetryBackoff[a[2]] \in Nat
      BY <2>13, PolicyAssumption DEF ScheduleRetry, Retries, Commits, Authoritative
    <3> QED
      BY <2>11, <2>13, <3>1 DEF ScheduleRetry
  <2>14. ASSUME NEW a \in Attempt, NEW x, DeadLetter(a, x)
         PROVE  del'[d].status = del'[f].status /\ del'[d].due = del'[f].due
    BY <2>12, <2>14 DEF DeadLetter, Commits, Authoritative
  <2>15. ASSUME NEW a \in Attempt, AbandonAndReplace(a)
         PROVE  del'[d].status = del'[f].status /\ del'[d].due = del'[f].due
    <3>1. Active(a)
      BY <1>t, <2>15 DEF AbandonAndReplace, ScanIsCurrent
    <3> QED
      BY <2>11, <2>15, <3>1 DEF AbandonAndReplace
  <2>16. ASSUME NEW a \in Attempt, AbandonAndFail(a)
         PROVE  del'[d].status = del'[f].status /\ del'[d].due = del'[f].due
    <3>1. Active(a) /\ exe[a[1]].status = "running"
      BY <1>t, <2>16 DEF AbandonAndFail, ScanIsCurrent, ExecutionRows, Active, Open, OpenStatus
    <3>2. del' = [c \in Delivery |->
                    IF c \in Inputs(a) THEN Unleased(del[c], "dead_lettered") ELSE del[c]]
      BY <2>16, <3>1 DEF AbandonAndFail
    <3> QED
      BY <2>12, <3>1, <3>2
  <2>17. ASSUME NEW S, CancelDeliveries(S), d \in S <=> f \in S
         PROVE  del'[d].status = del'[f].status /\ del'[d].due = del'[f].due
    <3>1. CASE f \in S /\ del[f].status \in {"ready", "leased"}
      <4>1. del'[d] = Unleased(del[d], "cancelled") /\ del'[f] = Unleased(del[f], "cancelled")
        BY <2>0, <2>17, <2>i, <3>1 DEF CancelDeliveries
      <4> QED
        BY <2>2, <4>1
    <3>2. CASE ~(f \in S /\ del[f].status \in {"ready", "leased"})
      <4>1. del'[d] = del[d] /\ del'[f] = del[f]
        BY <2>0, <2>17, <2>i, <3>2 DEF CancelDeliveries
      <4> QED
        BY <2>1, <4>1
    <3> QED
      BY <3>1, <3>2
  <2>18. ASSUME NEW run \in Run, CancelRun(run)
         PROVE  del'[d].status = del'[f].status /\ del'[d].due = del'[f].due
    BY <2>0, <2>17, <2>18 DEF CancelRun
  <2>19. CASE SettleCancellingRegion
    BY <2>0, <2>17, <2>19 DEF SettleCancellingRegion
  <2>20. CASE ExposeOrphanedDeliveries
    <3>1. \A c \in Delivery : del[c].status = "leased" => del[c].lease # 0
      BY <1>t, <2>20 DEF ExposeOrphanedDeliveries, RecoveryLeavesNoExpiredLease, LeaseCoherence
    <3>2. \A c \in Delivery : del'[c] = del[c]
      BY <2>20, <3>1 DEF ExposeOrphanedDeliveries
    <3> QED
      BY <2>0, <2>1, <3>2
  <2>21. CASE Tick
    <3>1. \A c \in {d, f} :
            /\ [del[c] EXCEPT !.due = Left(@), !.lease = Left(@)].status = del[c].status
            /\ [del[c] EXCEPT !.due = Left(@), !.lease = Left(@)].due = Left(del[c].due)
      BY <2>r DEF DeliveryRow
    <3>2. \A c \in {d, f} : del'[c] = [del[c] EXCEPT !.due = Left(@), !.lease = Left(@)]
      BY <2>0, <2>21 DEF Tick
    <3> QED
      BY <2>i, <3>1, <3>2
  <2> QED
    BY <2>4, <2>5, <2>6, <2>7, <2>8, <2>9, <2>10, <2>13, <2>14, <2>15, <2>16, <2>18, <2>19,
       <2>20, <2>21 DEF RowStep
<1> QED
  BY <1>1, <1>2

\* The replacement of the open attempt of a running execution is pending.
LEMMA Replaced ==
  ASSUME RowsTyped, AttemptChain, NEW a \in Attempt, Active(a), a[2] < MaxAttempts,
         NEW status \in {"failed", "abandoned"}, NEW ticks \in Nat,
         att' = WithReplacement([att EXCEPT ![a] = EndedAttempt(status)], a, ticks)
  PROVE  /\ <<a[1], a[2] + 1>> \in Attempt /\ a[2] + 1 \in 1..MaxAttempts
         /\ att'[<<a[1], a[2] + 1>>].status = "pending"
         /\ \A b \in Attempt : b[1] # a[1] => att'[b] = att[b]
<1> DEFINE b == <<a[1], a[2] + 1>>
           ended == [att EXCEPT ![a] = EndedAttempt(status)]
<1>1. a[1] \in Delivery /\ a[2] \in 1..MaxAttempts /\ a = <<a[1], a[2]>> /\ MaxAttempts \in Nat
  BY AttemptFacts, PolicyAssumption
<1>2. b \in Attempt /\ a[2] + 1 \in 1..MaxAttempts /\ b # a /\ b[1] = a[1] /\ b[2] = a[2] + 1
  BY <1>1 DEF Attempt
<1>3. att[b].status = Absent
  <2> SUFFICES ASSUME att[b].status # Absent PROVE FALSE
    OBVIOUS
  <2>1. Open(a) /\ a[2] \in Nat
    BY <1>1 DEF Active, Open, OpenStatus
  <2>2. b[2] < a[2]
    <3> HIDE DEF b
    <3> QED
      BY <1>2, <2>1, OneOpen
  <2> QED
    BY <1>2, <2>1, <2>2
<1>4. ended \in [Attempt -> AttemptRow] /\ \A c \in Attempt : c # a => ended[c] = att[c]
  BY EndedRow DEF RowsTyped
<1>5. att' = [ended EXCEPT ![b] = PendingAttempt(ticks)]
  BY <1>2, <1>3, <1>4 DEF WithReplacement
<1> HIDE DEF ended
<1>6. att'[b] = PendingAttempt(ticks)
  BY <1>2, <1>4, <1>5
<1>7. att'[b].status = "pending"
  BY <1>6 DEF PendingAttempt
<1>8. \A c \in Attempt : c[1] # a[1] => att'[c] = att[c]
  BY <1>1, <1>2, <1>4, <1>5
<1> QED
  BY <1>2, <1>7, <1>8

\* What has outgrown an execution does so for good.
LEMMA OutgrownStays ==
  ASSUME DriveInvariant, RowStep, NEW e \in Delivery, exe[e].status = "running", Outgrown(e)
  PROVE  Outgrown(e)'
<1>t. RowsTyped /\ TypeOK /\ ExecutionRows /\ ScanIsCurrent
  BY TypeParts DEF DriveInvariant, InductiveInvariant
<1>1. PICK f \in Delivery :
        /\ exe[f].status # Absent
        /\ exe[e].inputs \subseteq exe[f].inputs /\ exe[e].inputs # exe[f].inputs
        /\ \A d \in exe[f].inputs \ exe[e].inputs : del[d].port \in Optional[del[e].comp]
  BY DEF Outgrown
<1>2. exe'[e].inputs = exe[e].inputs /\ exe'[f].inputs = exe[f].inputs
  BY <1>t, <1>1, InputsStay DEF Absent
<1>3. exe'[f].status # Absent
  BY <1>t, <1>1, ExecutionMoves, ExecutionUpdate DEF ExecutionStep, RowsTyped, Absent
<1>4. /\ exe[f].inputs \subseteq Delivery /\ \A d \in exe[f].inputs : Exists(d)
      /\ e \in Delivery /\ Exists(e)
  BY <1>1, InputFacts DEF Absent
<1>5. del'[e].comp = del[e].comp /\ \A d \in exe[f].inputs : del'[d].port = del[d].port
  BY <1>t, <1>4, DeliveriesPersist DEF Keeps
<1> QED
  BY <1>1, <1>2, <1>3, <1>5 DEF Outgrown

\* A running execution stays drivable while its open attempt stays open and
\* its inputs, if they wait, go on waiting.
LEMMA Undisturbed ==
  ASSUME DriveInvariant, RowStep, NEW f \in Delivery, exe[f].status = "running",
         \A n \in 1..MaxAttempts : Open(<<f, n>>) =>
           Open(<<f, n>>)' /\ (att'[<<f, n>>].status = "pending" => att[<<f, n>>].status = "pending"),
         del[f].status = "ready" => del'[f].status = "ready"
  PROVE  Drivable(f)'
<1>1. Drivable(f)
  BY DEF DriveInvariant
<1>2. CASE Outgrown(f)
  BY <1>2, OutgrownStays DEF Drivable
<1>3. CASE \E n \in 1..MaxAttempts :
             Open(<<f, n>>) /\ (att[<<f, n>>].status = "pending" => del[f].status = "ready")
  BY <1>3 DEF Drivable
<1> QED
  BY <1>1, <1>2, <1>3 DEF Drivable

\* When the attempt of an execution ends, another execution is not disturbed.
LEMMA OthersUndisturbed ==
  ASSUME DriveInvariant, RowStep, NEW f \in Delivery, exe[f].status = "running",
         NEW a \in Attempt, Active(a), a[1] # f,
         \A b \in Attempt : b[1] # a[1] => att'[b] = att[b],
         \A d \in Delivery : d \notin Inputs(a) /\ Exists(d) => del'[d] = del[d]
  PROVE  Drivable(f)'
<1>t. LeaseCoherence /\ Exists(f)
  BY InputFacts DEF DriveInvariant, InductiveInvariant, Absent
<1>1. \A n \in 1..MaxAttempts : <<f, n>> \in Attempt /\ <<f, n>>[1] = f
  BY DEF Attempt
<1>2. \A n \in 1..MaxAttempts : Open(<<f, n>>) =>
        Open(<<f, n>>)' /\ (att'[<<f, n>>].status = "pending" => att[<<f, n>>].status = "pending")
  BY <1>1 DEF Open
<1>3. del[f].status = "ready" => del'[f].status = "ready"
  BY <1>t DEF LeaseCoherence
<1> QED
  BY <1>2, <1>3, Undisturbed

\* A poll for another execution leaves the inputs where they are, or takes them
\* together with others: then an optional input has come late.
LEMMA LeaseUndisturbed ==
  ASSUME DriveInvariant, RowStep, NEW f \in Delivery, exe[f].status = "running",
         NEW g \in Group, PortsComplete(g),
         NEW e \in Delivery, e # f, IsTrigger(e, Selected(g)), NEW n \in 1..MaxAttempts,
         NEW gs \in SUBSET Group, NEW row, att' = [att EXCEPT ![<<e, n>>] = row],
         del' = LeaseInputs(g, <<e, n>>, gs),
         exe'[e].status # Absent, exe'[e].inputs = Selected(g)
  PROVE  Drivable(f)'
<1>t. RowsTyped /\ TypeOK /\ ExecutionRows /\ ScanIsCurrent
  BY TypeParts DEF DriveInvariant, InductiveInvariant
<1>1. /\ exe[f].status # Absent /\ f \in exe[f].inputs /\ Exists(f)
      /\ exe'[f].inputs = exe[f].inputs
  BY <1>t, InputFacts, InputsStay DEF Absent
<1>2. \A k \in 1..MaxAttempts : att'[<<f, k>>] = att[<<f, k>>]
  BY <1>t DEF RowsTyped, Attempt
<1>3. CASE f \in Selected(g)
  <2>1. /\ exe[f].inputs \subseteq Selected(g) /\ del[f].comp = g[1]
        /\ \A x \in Selected(g) \ exe[f].inputs : del[x].port \in Optional[g[1]]
    BY <1>1, <1>3, SelectedTogether
  <2>2. exe[f].inputs # Selected(g)
    BY <1>1, NamedByInputs
  <2>3. \A x \in Selected(g) : x \in Delivery /\ Exists(x)
    BY SelectionFacts DEF Due, Exists, Absent
  <2>4. del'[f].comp = del[f].comp /\ \A x \in Selected(g) : del'[x].port = del[x].port
    BY <1>t, <1>1, <2>3, DeliveriesPersist DEF Keeps
  <2>5. Outgrown(f)'
    BY <1>1, <2>1, <2>2, <2>4 DEF Outgrown
  <2> QED
    BY <2>5 DEF Drivable
<1>4. CASE f \notin Selected(g)
  <2>1. del'[f] = DeferGroups(gs)[f]
    BY <1>4 DEF LeaseInputs
  <2>2. del'[f].status = del[f].status
    BY <1>1, <2>1, DeferredTogether
  <2> QED
    BY <1>2, <2>2, Undisturbed DEF Open
<1> QED
  BY <1>3, <1>4

\* Every transaction leaves a running execution with an attempt to go on with.
LEMMA DrivableStep ==
  ASSUME DriveInvariant, RowStep, NEW f \in Delivery
  PROVE  Drivable(f)'
<1> SUFFICES ASSUME exe'[f].status = "running" PROVE Drivable(f)'
  BY DEF Drivable
<1>t. /\ RowsTyped /\ ExecutionRows /\ ScanIsCurrent /\ AttemptChain /\ LeaseCoherence
      /\ Drivable(f)
  BY TypeParts DEF DriveInvariant, InductiveInvariant
<1>1. CASE Begins(f)
  <2>1. 1 \in 1..MaxAttempts /\ att'[<<f, 1>>].status = "leased"
    BY <1>1, <1>t, Beginning
  <2> QED
    BY <2>1 DEF Drivable, Open, OpenStatus, ActiveStatus
<1>2. CASE ~Begins(f)
  <2>0. /\ exe[f].status = "running"
        /\ exe'[f].inputs = exe[f].inputs /\ exe[f].inputs \subseteq Delivery
        /\ f \in exe[f].inputs
        /\ \A d \in exe[f].inputs : Exists(d) /\ del[d].run = del[f].run
    <3>1. exe[f].status = "running"
      BY <1>2, <1>t, ExecutionMoves, ExecutionUpdate DEF ExecutionStep, RowsTyped
    <3> QED
      BY <1>t, <3>1, InputsStay, InputFacts DEF ExecutionRows, Absent
  <2>1. ASSUME att' = att, \A d \in Delivery : Exists(d) => del'[d] = del[d]
        PROVE  Drivable(f)'
    BY <2>0, <2>1, Undisturbed DEF Open
  <2>2. ASSUME NEW run \in Run, NEW slots \in Ingress, SubmitCommand(run, slots)
        PROVE  Drivable(f)'
    <3>1. PICK new \in Insertions(slots) :
            del' = [d \in Delivery |-> IF d \in DOMAIN new THEN NewDelivery(new[d], run) ELSE del[d]]
      BY <2>2 DEF SubmitCommand
    <3>2. \A d \in Delivery : Exists(d) => del'[d] = del[d]
      BY <3>1, InsertionFacts
    <3> QED
      BY <2>1, <2>2, <3>2 DEF SubmitCommand
  <2>3. ASSUME NEW g \in Group, NEW e \in Delivery, NEW gs \in SUBSET Group,
               LeaseFirstAttempt(g, e, gs)
        PROVE  Drivable(f)'
    <3>1. e # f /\ PortsComplete(g) /\ IsTrigger(e, Selected(g)) /\ 1 \in 1..MaxAttempts
      BY <2>0, <2>3, PolicyAssumption DEF LeaseFirstAttempt, MayStart, Absent
    <3>2. /\ att' = [att EXCEPT ![<<e, 1>>] = [status |-> "leased", lease |-> LeaseTicks, due |-> 0]]
          /\ del' = LeaseInputs(g, <<e, 1>>, gs)
      BY <2>3 DEF LeaseFirstAttempt
    <3>3. exe'[e].status = "running" /\ exe'[e].inputs = Selected(g)
      BY <1>t, <2>3 DEF LeaseFirstAttempt, RowsTyped
    <3> QED
      BY <2>0, <3>1, <3>2, <3>3, LeaseUndisturbed DEF Absent
  <2>4. ASSUME NEW g \in Group, NEW e \in Delivery, NEW n \in 1..MaxAttempts,
               NEW gs \in SUBSET Group, LeaseRetry(g, e, n, gs)
        PROVE  Drivable(f)'
    <3>1. PortsComplete(g) /\ IsTrigger(e, Selected(g))
      BY <2>4 DEF LeaseRetry, MayRetry
    <3>2. /\ att' = [att EXCEPT ![<<e, n>>] = [status |-> "leased", lease |-> LeaseTicks, due |-> 0]]
          /\ del' = LeaseInputs(g, <<e, n>>, gs)
      BY <2>4 DEF LeaseRetry
    <3>3. CASE e = f
      <4>1. att'[<<f, n>>].status = "leased"
        BY <1>t, <3>2, <3>3 DEF RowsTyped, Attempt
      <4> QED
        BY <4>1 DEF Drivable, Open, OpenStatus, ActiveStatus
    <3>4. CASE e # f
      <4>1. exe'[e].status # Absent /\ exe'[e].inputs = Selected(g)
        BY <2>4 DEF LeaseRetry, MayRetry, Resumes
      <4> QED
        BY <2>0, <3>1, <3>2, <3>4, <4>1, LeaseUndisturbed
    <3> QED
      BY <3>3, <3>4
  <2>5. ASSUME NEW gs \in SUBSET Group, PollFindsNothing(gs)
        PROVE  Drivable(f)'
    <3>1. att' = att /\ del'[f] = DeferGroups(gs)[f]
      BY <2>5 DEF PollFindsNothing
    <3>2. del'[f].status = del[f].status
      BY <2>0, <3>1, DeferredTogether DEF Absent
    <3> QED
      BY <2>0, <3>1, <3>2, Undisturbed DEF Open
  <2>6. ASSUME NEW a \in Attempt, Heartbeat(a)
        PROVE  Drivable(f)'
    <3>2. del[f].status = "ready" => del'[f] = del[f]
      BY <2>0, <2>6 DEF Heartbeat
    <3>3. att' = [att EXCEPT ![a] = [att[a] EXCEPT !.status = "running", !.lease = LeaseTicks]]
      BY <1>t, <2>6 DEF Heartbeat, RowsTyped
    <3>4. [att[a] EXCEPT !.status = "running", !.lease = LeaseTicks].status = "running"
      BY <1>t, Renewal DEF RowsTyped
    <3>5. \A b \in Attempt : att'[b] = att[b] \/ att'[b].status = "running"
      BY <1>t, <3>3, <3>4 DEF RowsTyped
    <3>6. \A n \in 1..MaxAttempts : Open(<<f, n>>) =>
            /\ Open(<<f, n>>)'
            /\ att'[<<f, n>>].status = "pending" => att[<<f, n>>].status = "pending"
      BY <3>5 DEF Attempt, Open, OpenStatus, ActiveStatus
    <3> QED
      BY <2>0, <3>2, <3>6, Undisturbed
  <2>7. CASE \/ \E a \in Attempt, result \in Results : HandOffResult(a, result)
             \/ \E a \in Attempt, x \in BOOLEAN : RejectSubmission(a, x)
             \/ UNCHANGED rows
    BY <2>1, <2>7 DEF HandOffResult, RejectSubmission, rows
  <2>8. ASSUME NEW a \in Attempt, NEW x, Complete(a, x)
        PROVE  Drivable(f)'
    <3>1. Active(a) /\ a[1] # f /\ att' = [att EXCEPT ![a] = EndedAttempt("completed")]
      <4>1. CASE a[1] = f
        <5>1. exe' = [exe EXCEPT ![f] = [exe[f] EXCEPT !.status = "completed"]]
          BY <1>t, <2>8, <4>1 DEF Complete, RowsTyped
        <5> QED
          BY <1>t, <5>1, ExecutionUpdate DEF RowsTyped
      <4> QED
        BY <2>8, <4>1 DEF Complete, Commits, Authoritative
    <3>2. \A b \in Attempt : b[1] # a[1] => att'[b] = att[b]
      BY <1>t, <3>1 DEF RowsTyped
    <3>3. \A d \in Delivery : d \notin Inputs(a) /\ Exists(d) => del'[d] = del[d]
      BY <1>t, <2>8, CompleteDeliveries
    <3> QED
      BY <2>0, <3>1, <3>2, <3>3, OthersUndisturbed
  <2>9. ASSUME NEW a \in Attempt, Active(a), NEW status \in {"failed", "abandoned"},
               NEW ticks \in Nat, a[2] < MaxAttempts,
               att' = WithReplacement([att EXCEPT ![a] = EndedAttempt(status)], a, ticks),
               del' = [d \in Delivery |->
                         IF d \in Inputs(a) THEN Readied(del[d], ticks) ELSE del[d]]
        PROVE  Drivable(f)'
    <3>1. /\ <<a[1], a[2] + 1>> \in Attempt /\ a[2] + 1 \in 1..MaxAttempts
          /\ att'[<<a[1], a[2] + 1>>].status = "pending"
          /\ \A b \in Attempt : b[1] # a[1] => att'[b] = att[b]
      BY <1>t, <2>9, Replaced
    <3>2. CASE a[1] = f
      <4>1. del'[f] = Readied(del[f], ticks)
        BY <2>0, <2>9, <3>2 DEF Inputs
      <4>2. Readied(del[f], ticks).status = "ready"
        BY <1>t, <2>0 DEF RowsTyped, DeliveryRow, Readied, Unleased
      <4>3. del'[f].status = "ready"
        BY <4>1, <4>2
      <4>4. Open(<<f, a[2] + 1>>)'
        BY <3>1, <3>2 DEF Open, OpenStatus
      <4> QED
        BY <3>1, <4>3, <4>4 DEF Drivable
    <3>3. CASE a[1] # f
      <4>1. \A d \in Delivery : d \notin Inputs(a) /\ Exists(d) => del'[d] = del[d]
        BY <2>9
      <4> QED
        BY <2>0, <2>9, <3>1, <3>3, <4>1, OthersUndisturbed
    <3> QED
      BY <3>2, <3>3
  <2>10. ASSUME NEW a \in Attempt, NEW x, ScheduleRetry(a, x)
         PROVE  Drivable(f)'
    <3>1. Active(a) /\ RetryBackoff[a[2]] \in Nat /\ a[2] \in 1..(MaxAttempts - 1)
      BY <2>10, PolicyAssumption DEF ScheduleRetry, Retries, Commits, Authoritative
    <3>2. a[2] < MaxAttempts
      BY <3>1, PolicyAssumption
    <3> QED
      BY <2>9, <2>10, <3>1, <3>2 DEF ScheduleRetry
  <2>11. ASSUME NEW a \in Attempt, AbandonAndReplace(a)
         PROVE  Drivable(f)'
    <3>1. Active(a) /\ a[2] < MaxAttempts
      BY <1>t, <2>11 DEF AbandonAndReplace, MayReplace, ScanIsCurrent
    <3> QED
      BY <2>9, <2>11, <3>1 DEF AbandonAndReplace
  <2>12. ASSUME NEW a \in Attempt, NEW x, DeadLetter(a, x)
         PROVE  Drivable(f)'
    <3>1. Active(a) /\ a[1] # f /\ att' = [att EXCEPT ![a] = EndedAttempt("failed")]
      <4>1. CASE a[1] = f
        <5>1. exe' = [exe EXCEPT ![f] = [exe[f] EXCEPT !.status = "failed"]]
          BY <1>t, <2>12, <4>1 DEF DeadLetter, RowsTyped
        <5> QED
          BY <1>t, <5>1, ExecutionUpdate DEF RowsTyped
      <4> QED
        BY <2>12, <4>1 DEF DeadLetter, Commits, Authoritative
    <3>2. \A b \in Attempt : b[1] # a[1] => att'[b] = att[b]
      BY <1>t, <3>1 DEF RowsTyped
    <3>3. \A d \in Delivery : d \notin Inputs(a) /\ Exists(d) => del'[d] = del[d]
      BY <2>12 DEF DeadLetter
    <3> QED
      BY <2>0, <3>1, <3>2, <3>3, OthersUndisturbed
  <2>13. ASSUME NEW a \in Attempt, AbandonAndFail(a)
         PROVE  Drivable(f)'
    <3>1. Active(a) /\ att' = [att EXCEPT ![a] = EndedAttempt("abandoned")]
      BY <1>t, <2>13 DEF AbandonAndFail, ScanIsCurrent
    <3>2. a[1] # f
      <4>1. CASE a[1] = f
        <5>1. exe'[f] = [exe[f] EXCEPT !.status = "failed"]
          BY <2>0, <2>13, <4>1 DEF AbandonAndFail, FailRunning
        <5> QED
          BY <1>t, <5>1, ExecutionUpdate DEF RowsTyped
      <4> QED
        BY <4>1
    <3>3. \A b \in Attempt : b[1] # a[1] => att'[b] = att[b]
      BY <1>t, <3>1 DEF RowsTyped
    <3>4. \A d \in Delivery : d \notin Inputs(a) /\ Exists(d) => del'[d] = del[d]
      BY <2>13 DEF AbandonAndFail
    <3> QED
      BY <2>0, <3>1, <3>2, <3>3, <3>4, OthersUndisturbed
  <2>14. ASSUME NEW E, f \in E, FailRunning(E)
         PROVE  FALSE
    <3>1. exe'[f] = [exe[f] EXCEPT !.status = "failed"]
      BY <2>0, <2>14 DEF FailRunning
    <3> QED
      BY <1>t, <3>1, ExecutionUpdate DEF RowsTyped
  <2>15. ASSUME NEW run \in Run, CancelRun(run)
         PROVE  Drivable(f)'
    <3>1. f \notin RunExecutions(run)
      BY <2>14, <2>15 DEF CancelRun
    <3>2. del[f].run # run
      BY <2>0, <3>1 DEF RunExecutions, Absent
    <3>3. del'[f] = del[f]
      BY <2>0, <2>15, <3>2 DEF CancelRun, CancelDeliveries
    <3>4. \A n \in 1..MaxAttempts : att'[<<f, n>>] = att[<<f, n>>]
      BY <2>15, <3>1 DEF CancelRun, EndOpenAttempts, Attempt
    <3> QED
      BY <2>0, <3>3, <3>4, Undisturbed DEF Open
  <2>16. CASE SettleCancellingRegion
    BY <2>14, <2>16 DEF SettleCancellingRegion
  <2>17. CASE ExposeOrphanedDeliveries
    <3>1. del[f].status = "ready" => del'[f] = del[f]
      BY <2>0, <2>17 DEF ExposeOrphanedDeliveries
    <3> QED
      BY <2>0, <2>17, <3>1, Undisturbed DEF ExposeOrphanedDeliveries, Open
  <2>18. CASE Tick
    <3>1. del'[f].status = del[f].status
      <4>1. \A d \in Delivery :
              [del[d] EXCEPT !.due = Left(@), !.lease = Left(@)].status = del[d].status
        BY <1>t DEF RowsTyped, DeliveryRow
      <4> QED
        BY <2>0, <2>18, <4>1 DEF Tick
    <3>2. \A b \in Attempt : att'[b].status = att[b].status
      <4>1. \A b \in Attempt :
              [att[b] EXCEPT !.due = Left(@), !.lease = Left(@)].status = att[b].status
        BY <1>t DEF RowsTyped, AttemptRow
      <4> QED
        BY <2>18, <4>1 DEF Tick
    <3>4. \A n \in 1..MaxAttempts : att'[<<f, n>>].status = att[<<f, n>>].status
      BY <3>2 DEF Attempt
    <3> QED
      BY <2>0, <3>1, <3>4, Undisturbed DEF Open
  <2> QED
    BY <2>2, <2>3, <2>4, <2>5, <2>6, <2>7, <2>8, <2>10, <2>11, <2>12, <2>13, <2>15, <2>16,
       <2>17, <2>18 DEF RowStep
<1> QED
  BY <1>1, <1>2

\* Every step preserves the invariant.
LEMMA DriveInvariance == DriveInvariant /\ [Next]_vars => DriveInvariant'
<1> SUFFICES ASSUME DriveInvariant, [Next]_vars PROVE DriveInvariant'
  OBVIOUS
<1>1. RowStep
  BY StepIsRowStep
<1>2. InductiveInvariant'
  BY Invariance DEF DriveInvariant
<1>3. FiniteWork' /\ CurrentEpoch'
  BY <1>1, FiniteWorkStep, CurrentEpochStep
<1>4. \A e \in Delivery : WholeJoin(e)' /\ InStep(e)' /\ Drivable(e)' /\ EndsWithInputs(e)'
  BY <1>1, WholeJoinStep, InStepStep, DrivableStep, EndsWithInputsStep
<1>5. \A a \in Attempt : HoldsWhole(a)'
  BY <1>1, HoldsWholeStep
<1>6. IsFiniteSet(Slot)'
  BY DEF DriveInvariant, Slot
<1>7. Attempt' = Attempt
  BY DEF Attempt
<1> QED
  BY <1>2, <1>3, <1>4, <1>5, <1>6, <1>7 DEF DriveInvariant

\* In a finite topology it holds always.
LEMMA DriveAlways ==
  ASSUME IsFiniteSet(Slot)
  PROVE  Spec => []DriveInvariant
<1>1. Init => DriveInvariant
  <2> SUFFICES ASSUME Init PROVE DriveInvariant
    OBVIOUS
  <2>1. /\ \A e \in Delivery : exe[e].status = Absent
        /\ \A d \in Delivery : del[d].status = Absent
    BY DEF Init, NoDelivery
  <2>2. \A a \in Attempt : ~Active(a)
    BY DEF Init, EndedAttempt, Active, ActiveStatus, Absent
  <2>3. {d \in Delivery : Exists(d)} = {}
    BY <2>1 DEF Exists
  <2>4. FiniteWork /\ CurrentEpoch
    BY <2>1, <2>3, FS_EmptySet DEF FiniteWork, CurrentEpoch
  <2>5. \A e \in Delivery : WholeJoin(e) /\ InStep(e) /\ Drivable(e) /\ EndsWithInputs(e)
    BY <2>1 DEF WholeJoin, InStep, Drivable, EndsWithInputs, ExecutionEnded, Absent
  <2>6. \A a \in Attempt : HoldsWhole(a)
    BY <2>2 DEF HoldsWhole
  <2> QED
    BY <2>4, <2>5, <2>6, InitInvariant DEF DriveInvariant
<1> QED
  BY <1>1, DriveInvariance, PTL DEF Spec

\* A running execution can always be driven on, through failures, crashes and the
\* polls of others, in every finite topology and however late an optional input
\* comes, until a larger execution has taken its inputs together with that one.
THEOREM RunningResumes ==
  ASSUME IsFiniteSet(Slot)
  PROVE  Spec => []RunningIsResumable
<1>1. ASSUME DriveInvariant
      PROVE  RunningIsResumable
  <2> SUFFICES ASSUME NEW e \in Delivery, exe[e].status = "running", ~Outgrown(e)
               PROVE  \E n \in 1..MaxAttempts :
                        /\ Open(<<e, n>>)
                        /\ \A d \in exe[e].inputs :
                             IF att[<<e, n>>].status = "pending"
                             THEN del[d].status = "ready"
                             ELSE del[d].status = "leased" /\ del[d].token = <<e, n>>
    BY DEF RunningIsResumable
  <2>1. Drivable(e) /\ InStep(e) /\ LeaseCoherence
    BY <1>1 DEF DriveInvariant, InductiveInvariant
  <2>2. PICK n \in 1..MaxAttempts :
          Open(<<e, n>>) /\ (att[<<e, n>>].status = "pending" => del[e].status = "ready")
    BY <2>1 DEF Drivable
  <2>3. <<e, n>> \in Attempt /\ Inputs(<<e, n>>) = exe[e].inputs
    BY DEF Attempt, Inputs
  <2>4. CASE att[<<e, n>>].status = "pending"
    BY <2>1, <2>2, <2>4 DEF InStep, Absent
  <2>5. CASE att[<<e, n>>].status # "pending"
    <3>1. Active(<<e, n>>)
      BY <2>2, <2>5 DEF Open, Active, OpenStatus
    <3> QED
      BY <2>1, <2>2, <2>3, <2>5, <3>1 DEF LeaseCoherence
  <2> QED
    BY <2>4, <2>5
<1> QED
  BY <1>1, DriveAlways, PTL

\* In every finite topology a poll runs into the unique key of
\* executions.delivery_id only when optional inputs have come to the group of a
\* trigger that waits for its retry: required ports never bring it about.
THEOREM PollsFailOnLateInputOnly ==
  ASSUME IsFiniteSet(Slot)
  PROVE  Spec => []PollFailsOnLateInput
<1>1. ASSUME DriveInvariant
      PROVE  PollFailsOnLateInput
  <2> SUFFICES ASSUME NEW g \in Group, region = "running", PortsComplete(g),
                      NEW e \in Delivery, IsTrigger(e, Selected(g)),
                      exe[e].status # Absent, ~Resumes(g, e)
               PROVE  /\ e \in Selected(g) /\ exe[e].status = "running"
                      /\ exe[e].inputs \subseteq Selected(g) /\ exe[e].inputs # Selected(g)
                      /\ \A d \in Selected(g) \ exe[e].inputs : del[d].port \in Optional[g[1]]
    BY DEF PollFailsOnLateInput, PollFails
  <2>1. /\ RowsTyped /\ EndsWithInputs(e) /\ CurrentEpoch /\ e \in exe[e].inputs
    BY <1>1, TypeParts, InputFacts DEF DriveInvariant, InductiveInvariant
  <2>2. e \in Selected(g) /\ del[e].status = "ready"
    BY SelectionFacts DEF IsTrigger, Due
  <2>3. exe[e].status = "running"
    BY <2>1, <2>2 DEF EndsWithInputs, ExecutionEnded, DeliveryEnded, RowsTyped, ExecutionRow
  <2>4. /\ exe[e].inputs \subseteq Selected(g)
        /\ \A d \in Selected(g) \ exe[e].inputs : del[d].port \in Optional[g[1]]
    BY <1>1, <2>1, <2>2, SelectedTogether
  <2>5. exe[e].inputs # Selected(g)
    BY <2>1 DEF Resumes, CurrentEpoch
  <2> QED
    BY <2>2, <2>3, <2>4, <2>5
<1> QED
  BY <1>1, DriveAlways, PTL

-----------------------------------------------------------------------------
(* The refinement of DeliveryLedger by the execution core, step by step.   *)
\* Deliveries a transaction may move between ready and leased only.
KeepsFate(d) ==
  \/ del'[d].status = del[d].status
  \/ del[d].status \in {"ready", "leased"} /\ del'[d].status \in {"ready", "leased"}

\* Deliveries that are given up with status f are exactly those of S.
GivesUp(S, f) ==
  \A d \in Delivery : IF d \in S
                      THEN del[d].status \in {"ready", "leased"} /\ del'[d].status = f
                      ELSE del'[d].status = del[d].status

-----------------------------------------------------------------------------
\* Unless a commit completes an execution, nothing is published.
LEMMA PublishedStays ==
  ASSUME InductiveInvariant, RowStep, \A a \in Attempt, x \in BOOLEAN : ~Complete(a, x)
  PROVE  Published' = Published
<1>1. out' = out /\ RowsTyped /\ ExecutionRows /\ ProcessedOnce
  BY OutputMoves, TypeParts DEF InductiveInvariant
<1>2. ASSUME NEW a \in out PROVE Inputs(a)' = Inputs(a)
  <2>1. a \in Attempt /\ exe[a[1]].status # Absent /\ a[1] \in Delivery
    BY <1>1, <1>2, AttemptFacts DEF RowsTyped, ProcessedOnce, ExecutionRows, Absent
  <2> QED
    BY <1>1, <2>1, InputsStay DEF Inputs
<1> QED
  BY <1>1, <1>2 DEF Published

\* A transaction that keeps every fate and publishes nothing is a stutter.
LEMMA Stutters ==
  ASSUME Published' = Published, \A d \in Delivery : KeepsFate(d)
  PROVE  UNCHANGED Ledger!ledger
<1>1. \A d \in Delivery : Fate'[d] = Fate[d]
  BY DEF Fate, KeepsFate
<1> QED
  BY <1>1 DEF Fate, Ledger!ledger

\* A transaction that gives up S is the ledger's.
LEMMA GivingUp ==
  ASSUME RowsTyped, Published' = Published, NEW S \in SUBSET Delivery,
         NEW f \in {"dead_lettered", "cancelled"}, GivesUp(S, f)
  PROVE  Ledger!LedgerNext
<1>1. Ledger!Are(S, "open")
  BY DEF Ledger!Are, Fate, GivesUp
<1>2. Fate' = Ledger!Become(S, f, Fate)
  <2>1. \A d \in Delivery : Fate'[d] = IF d \in S THEN f ELSE Fate[d]
    BY DEF Fate, GivesUp
  <2> QED
    BY <2>1 DEF Fate, Ledger!Become
<1>3. Ledger!GiveUp(S, f)
  BY <1>1, <1>2 DEF Ledger!GiveUp
<1>4. f \in Ledger!Fates
  BY DEF Ledger!Fates
<1> QED
  BY <1>3, <1>4 DEF Ledger!LedgerNext

\* A commit publishes its inputs and accepts what it routes in the same step.
LEMMA CompletingPublishes ==
  ASSUME InductiveInvariant, RowStep, NEW a \in Attempt, NEW x \in BOOLEAN, Complete(a, x)
  PROVE  Ledger!LedgerNext
<1>t. /\ RowsTyped /\ ExecutionRows /\ LeaseCoherence /\ ProcessedOnce /\ a[1] \in Delivery
  BY TypeParts, AttemptFacts DEF InductiveInvariant
<1>1. /\ Active(a) /\ Inputs(a) # {} /\ out' = out \cup {a}
      /\ exe' = [exe EXCEPT ![a[1]].status = "completed"]
  BY DEF Complete, Commits, Authoritative
<1>2. Inputs(a) \subseteq Delivery /\ \A d \in Inputs(a) : del[d].status = "leased"
  BY <1>t, <1>1 DEF LeaseCoherence, RowsTyped, ExecutionRow, Inputs
<1>3. PICK new \in Emissions(Routes[del[a[1]].comp]) :
        del' = [d \in Delivery |->
                  IF d \in Inputs(a) THEN Unleased(del[d], "completed")
                  ELSE IF d \in DOMAIN new THEN NewDelivery(new[d], del[a[1]].run)
                  ELSE del[d]]
  BY DEF Complete
<1>4. /\ DOMAIN new \subseteq Delivery
      /\ \A d \in DOMAIN new : del[d].status = Absent
                               /\ NewDelivery(new[d], del[a[1]].run).status = "ready"
  <2>1. del[a[1]].comp \in Component /\ del[a[1]].run \in Run
    BY <1>t, <1>1 DEF ExecutionRows, Active, ActiveStatus, Absent
  <2> QED
    BY <1>3, <2>1, InsertionFacts, TopologyAssumption, NewRows DEF Exists
<1>5. Ledger!Are(Inputs(a), "open") /\ Ledger!Are(DOMAIN new, "absent")
  BY <1>2, <1>4 DEF Ledger!Are, Fate, Absent
<1>6. Fate' = Ledger!Become(Inputs(a), "completed", Ledger!Become(DOMAIN new, "open", Fate))
  <2>1. \A d \in Inputs(a) : del'[d].status = "completed"
    BY <1>t, <1>2, <1>3, UnleasedTyped DEF RowsTyped
  <2>2. \A d \in DOMAIN new : d \notin Inputs(a) => del'[d].status = "ready"
    BY <1>3, <1>4
  <2>3. \A d \in Delivery : d \notin Inputs(a) /\ d \notin DOMAIN new => del'[d] = del[d]
    BY <1>3
  <2>4. \A d \in Delivery : Fate'[d] = IF d \in Inputs(a) THEN "completed"
                                       ELSE IF d \in DOMAIN new THEN "open" ELSE Fate[d]
    BY <2>1, <2>2, <2>3 DEF Fate
  <2> QED
    BY <2>4 DEF Fate, Ledger!Become
<1>7. Published' = Published \cup {Inputs(a)}
  <2>1. \A e \in Delivery : exe'[e].inputs = exe[e].inputs
    BY <1>t, <1>1 DEF RowsTyped, ExecutionRow
  <2>2. \A b \in Attempt : Inputs(b)' = Inputs(b)
    BY <2>1, AttemptFacts DEF Inputs
  <2>3. out \subseteq Attempt
    BY <1>t DEF RowsTyped
  <2> QED
    BY <1>1, <2>2, <2>3 DEF Published
<1>8. Ledger!Publish(Inputs(a), DOMAIN new)
  BY <1>1, <1>5, <1>6, <1>7 DEF Ledger!Publish
<1> QED
  BY <1>2, <1>4, <1>8 DEF Ledger!LedgerNext

-----------------------------------------------------------------------------
\* Leases, heartbeats, deferrals, retries and time keep every fate.
LEMMA QuietTransactions ==
  ASSUME InductiveInvariant, NEW d \in Delivery,
         \/ \E g \in Group, e \in Delivery, gs \in SUBSET Group : LeaseFirstAttempt(g, e, gs)
         \/ \E g \in Group, e \in Delivery, n \in 1..MaxAttempts, gs \in SUBSET Group :
              LeaseRetry(g, e, n, gs)
         \/ \E gs \in SUBSET Group : PollFindsNothing(gs)
         \/ \E a \in Attempt : Heartbeat(a)
         \/ \E a \in Attempt, result \in Results : HandOffResult(a, result)
         \/ \E a \in Attempt, x \in BOOLEAN : ScheduleRetry(a, x)
         \/ \E a \in Attempt, x \in BOOLEAN : RejectSubmission(a, x)
         \/ \E a \in Attempt : AbandonAndReplace(a)
         \/ ExposeOrphanedDeliveries
         \/ Tick
         \/ UNCHANGED rows
  PROVE  KeepsFate(d)
<1>t. LeaseCoherence /\ ScanIsCurrent /\ del[d] \in DeliveryRow
  BY TypeParts DEF InductiveInvariant, RowsTyped
<1>1. \A ticks : Readied(del[d], ticks).status = "ready"
  BY <1>t DEF Readied, Unleased, DeliveryRow
<1>2. \A a \in Attempt : Active(a) /\ d \in Inputs(a) => del[d].status = "leased"
  BY <1>t DEF LeaseCoherence
<1>3. ASSUME NEW gs PROVE DeferGroups(gs)[d].status = del[d].status
  <2>1. [del[d] EXCEPT !.due = RecheckTicks].status = del[d].status
    BY <1>t DEF DeliveryRow
  <2> QED
    BY <2>1 DEF DeferGroups
<1>4. ASSUME NEW g \in Group, NEW a \in Attempt, NEW gs, del' = LeaseInputs(g, a, gs)
      PROVE  KeepsFate(d)
  <2>1. CASE d \in Selected(g)
    BY <1>4, <1>t, <2>1, LeaseUpdates DEF LeaseInputs, Selected, OnPort, Due, KeepsFate
  <2>2. CASE d \notin Selected(g)
    BY <1>3, <1>4, <2>2 DEF LeaseInputs, KeepsFate
  <2> QED
    BY <2>1, <2>2
<1>5. ASSUME NEW g \in Group, NEW e \in Delivery, NEW gs, LeaseFirstAttempt(g, e, gs)
      PROVE  KeepsFate(d)
  <2>1. <<e, 1>> \in Attempt
    BY PolicyAssumption DEF Attempt
  <2> QED
    BY <1>4, <1>5, <2>1 DEF LeaseFirstAttempt
<1>6. ASSUME NEW g \in Group, NEW e \in Delivery, NEW n \in 1..MaxAttempts, NEW gs,
             LeaseRetry(g, e, n, gs)
      PROVE  KeepsFate(d)
  <2>1. <<e, n>> \in Attempt
    BY DEF Attempt
  <2> QED
    BY <1>4, <1>6, <2>1 DEF LeaseRetry
<1>7. CASE \E gs \in SUBSET Group : PollFindsNothing(gs)
  BY <1>3, <1>7 DEF PollFindsNothing, KeepsFate
<1>8. CASE \E a \in Attempt : Heartbeat(a)
  <2>1. [del[d] EXCEPT !.lease = LeaseTicks].status = del[d].status
    BY <1>t DEF DeliveryRow
  <2> QED
    BY <1>8, <2>1 DEF Heartbeat, KeepsFate
<1>9. ASSUME NEW a \in Attempt, NEW x, ScheduleRetry(a, x)
      PROVE  KeepsFate(d)
  <2>1. Active(a)
    BY <1>9 DEF ScheduleRetry, Commits, Authoritative
  <2> QED
    BY <1>1, <1>2, <1>9, <2>1 DEF ScheduleRetry, KeepsFate
<1>10. ASSUME NEW a \in Attempt, AbandonAndReplace(a)
       PROVE  KeepsFate(d)
  <2>1. Active(a)
    BY <1>10, <1>t DEF AbandonAndReplace, ScanIsCurrent
  <2> QED
    BY <1>1, <1>2, <1>10, <2>1 DEF AbandonAndReplace, KeepsFate
<1>11. CASE ExposeOrphanedDeliveries
  BY <1>1, <1>11 DEF ExposeOrphanedDeliveries, KeepsFate
<1>12. CASE Tick
  <2>1. [del[d] EXCEPT !.due = Left(@), !.lease = Left(@)].status = del[d].status
    BY <1>t DEF DeliveryRow
  <2> QED
    BY <1>12, <2>1 DEF Tick, KeepsFate
<1>13. CASE \/ \E a \in Attempt, result \in Results : HandOffResult(a, result)
            \/ \E a \in Attempt, x \in BOOLEAN : RejectSubmission(a, x)
            \/ UNCHANGED rows
  BY <1>13 DEF HandOffResult, RejectSubmission, rows, KeepsFate
<1> QED
  BY <1>5, <1>6, <1>7, <1>8, <1>9, <1>10, <1>11, <1>12, <1>13

\* Every transaction is a step of the ledger or none.
LEMMA StepRefines ==
  ASSUME InductiveInvariant, RowStep
  PROVE  [Ledger!LedgerNext]_Ledger!ledger
<1>t. /\ RowsTyped /\ ExecutionRows /\ LeaseCoherence /\ ScanIsCurrent
  BY TypeParts DEF InductiveInvariant
<1>1. CASE \E a \in Attempt, x \in BOOLEAN : Complete(a, x)
  BY <1>1, CompletingPublishes
<1>2. CASE \A a \in Attempt, x \in BOOLEAN : ~Complete(a, x)
  <2>p. Published' = Published
    BY <1>2, PublishedStays
  <2>d. \A d \in Delivery, status \in {"dead_lettered", "cancelled"} :
          Unleased(del[d], status).status = status
    BY <1>t, UnleasedTyped DEF RowsTyped
  <2>1. ASSUME NEW run \in Run, NEW slots \in Ingress, SubmitCommand(run, slots)
        PROVE  Ledger!LedgerNext
    <3>1. PICK new \in Insertions(slots) :
            del' = [d \in Delivery |->
                      IF d \in DOMAIN new THEN NewDelivery(new[d], run) ELSE del[d]]
      BY <2>1 DEF SubmitCommand
    <3>2. /\ DOMAIN new \subseteq Delivery
          /\ \A d \in DOMAIN new : del[d].status = Absent /\ NewDelivery(new[d], run).status = "ready"
      BY <3>1, InsertionFacts, TopologyAssumption, NewRows DEF Exists
    <3>3. \A d \in Delivery : Fate'[d] = IF d \in DOMAIN new THEN "open" ELSE Fate[d]
      BY <3>1, <3>2 DEF Fate
    <3>4. Fate' = Ledger!Become(DOMAIN new, "open", Fate)
      BY <3>3 DEF Fate, Ledger!Become
    <3>5. Ledger!Are(DOMAIN new, "absent")
      BY <3>2 DEF Ledger!Are, Fate, Absent
    <3>6. Ledger!Accept(DOMAIN new)
      BY <2>p, <3>4, <3>5 DEF Ledger!Accept
    <3> QED
      BY <3>2, <3>6 DEF Ledger!LedgerNext
  <2>2. ASSUME NEW S, CancelDeliveries(S)
        PROVE  Ledger!LedgerNext
    <3> DEFINE T == {d \in Delivery : d \in S /\ del[d].status \in {"ready", "leased"}}
    <3>1. GivesUp(T, "cancelled")
      BY <2>2, <2>d DEF CancelDeliveries, GivesUp
    <3> QED
      BY <1>t, <2>p, <3>1, GivingUp
  <2>3. ASSUME NEW a \in Attempt, Active(a),
               del' = [d \in Delivery |->
                         IF d \in Inputs(a) THEN Unleased(del[d], "dead_lettered") ELSE del[d]]
        PROVE  Ledger!LedgerNext
    <3>1. Inputs(a) \subseteq Delivery /\ \A d \in Inputs(a) : del[d].status = "leased"
      BY <1>t, <2>3, AttemptFacts DEF LeaseCoherence, RowsTyped, ExecutionRow, Inputs
    <3>2. GivesUp(Inputs(a), "dead_lettered")
      BY <2>3, <2>d, <3>1 DEF GivesUp
    <3> QED
      BY <1>t, <2>p, <3>1, <3>2, GivingUp
  <2>4. ASSUME NEW a \in Attempt, NEW x \in BOOLEAN, DeadLetter(a, x)
        PROVE  Ledger!LedgerNext
    BY <2>3, <2>4 DEF DeadLetter, Commits, Authoritative
  <2>5. ASSUME NEW a \in Attempt, AbandonAndFail(a)
        PROVE  Ledger!LedgerNext
    <3>1. Active(a) /\ exe[a[1]].status = "running"
      BY <1>t, <2>5 DEF AbandonAndFail, ScanIsCurrent, ExecutionRows, Active, Open, OpenStatus
    <3>2. del' = [d \in Delivery |->
                    IF d \in Inputs(a) THEN Unleased(del[d], "dead_lettered") ELSE del[d]]
      BY <2>5, <3>1 DEF AbandonAndFail
    <3> QED
      BY <2>3, <3>1, <3>2
  <2>6. CASE SettleCancellingRegion \/ \E run \in Run : CancelRun(run)
    BY <2>2, <2>6 DEF SettleCancellingRegion, CancelRun
  <2>7. ASSUME \A d \in Delivery : KeepsFate(d)
        PROVE  UNCHANGED Ledger!ledger
    BY <2>7, <2>p, Stutters
  <2> QED
    BY <1>2, <2>1, <2>4, <2>5, <2>6, <2>7, QuietTransactions DEF RowStep
<1> QED
  BY <1>1, <1>2

-----------------------------------------------------------------------------
\* However often work is leased, retried, abandoned or recovered, its owner
\* sees one decision: consumed by one published output, or given up.
THEOREM LedgerIsImplemented == Spec => ImplementsLedger
<1>1. Init => Ledger!LedgerInit
  BY DEF Init, Ledger!LedgerInit, Fate, Published, NoDelivery, Absent
<1>2. InductiveInvariant /\ [Next]_vars => [Ledger!LedgerNext]_Ledger!ledger
  BY StepIsRowStep, StepRefines
<1> QED
  BY <1>1, <1>2, InvariantAlways, PTL DEF Spec, ImplementsLedger, Ledger!LedgerSpec

-----------------------------------------------------------------------------
(* What the ledger promises, and so what the execution core promises.      *)

\* A published input set stays completed, and completion has one publisher.
LEMMA LedgerStep ==
  ASSUME Ledger!LedgerTypeOK, Ledger!ConsumedOnce, [Ledger!LedgerNext]_Ledger!ledger
  PROVE  Ledger!LedgerTypeOK' /\ Ledger!ConsumedOnce'
<1> USE DEF Ledger!LedgerTypeOK
<1>1. CASE UNCHANGED Ledger!ledger
  BY <1>1 DEF Ledger!ledger, Ledger!ConsumedOnce
<1>2. ASSUME NEW S \in SUBSET Delivery, Ledger!Accept(S)
      PROVE  Ledger!LedgerTypeOK' /\ Ledger!ConsumedOnce'
  <2>1. Fate' = [d \in Delivery |-> IF d \in S THEN "open" ELSE Fate[d]] /\ Published' = Published
    BY <1>2 DEF Ledger!Accept, Ledger!Become
  <2>2. Fate' \in [Delivery -> Ledger!Fates]
    BY <2>1 DEF Ledger!Fates
  <2>3. \A d \in Delivery : Fate'[d] = "completed" <=> Fate[d] = "completed"
    BY <1>2, <2>1 DEF Ledger!Accept, Ledger!Are
  <2> QED
    BY <2>1, <2>2, <2>3 DEF Ledger!ConsumedOnce
<1>3. ASSUME NEW S \in SUBSET Delivery, NEW f \in Ledger!Fates, Ledger!GiveUp(S, f)
      PROVE  Ledger!LedgerTypeOK' /\ Ledger!ConsumedOnce'
  <2>1. Fate' = [d \in Delivery |-> IF d \in S THEN f ELSE Fate[d]] /\ Published' = Published
    BY <1>3 DEF Ledger!GiveUp, Ledger!Become
  <2>2. Fate' \in [Delivery -> Ledger!Fates]
    BY <2>1 DEF Ledger!Fates
  <2>3. \A d \in Delivery : Fate'[d] = "completed" <=> Fate[d] = "completed"
    BY <1>3, <2>1 DEF Ledger!GiveUp, Ledger!Are
  <2> QED
    BY <2>1, <2>2, <2>3 DEF Ledger!ConsumedOnce
<1>4. ASSUME NEW S \in SUBSET Delivery, NEW new \in SUBSET Delivery, Ledger!Publish(S, new)
      PROVE  Ledger!LedgerTypeOK' /\ Ledger!ConsumedOnce'
  <2>1. /\ Fate' = [d \in Delivery |-> IF d \in S THEN "completed"
                                      ELSE IF d \in new THEN "open" ELSE Fate[d]]
        /\ Published' = Published \cup {S}
    BY <1>4 DEF Ledger!Publish, Ledger!Become
  <2>2. Fate' \in [Delivery -> Ledger!Fates]
    BY <2>1 DEF Ledger!Fates
  <2>3. \A d \in Delivery : Fate'[d] = "completed" <=> Fate[d] = "completed" \/ d \in S
    BY <1>4, <2>1 DEF Ledger!Publish, Ledger!Are
  <2>4. \A I \in Published : I \cap S = {}
    BY <1>4 DEF Ledger!Publish, Ledger!Are, Ledger!ConsumedOnce
  <2> QED
    BY <2>1, <2>2, <2>3, <2>4 DEF Ledger!ConsumedOnce
<1> QED
  BY <1>1, <1>2, <1>3, <1>4 DEF Ledger!LedgerNext

\* A delivery is completed exactly if one published output consumed it.
THEOREM CoreConsumesOnce == Spec => [](Ledger!LedgerTypeOK /\ Ledger!ConsumedOnce)
<1>1. Ledger!LedgerInit => Ledger!LedgerTypeOK /\ Ledger!ConsumedOnce
  BY DEF Ledger!LedgerInit, Ledger!LedgerTypeOK, Ledger!ConsumedOnce, Ledger!Fates
<1>2. /\ Ledger!LedgerTypeOK /\ Ledger!ConsumedOnce /\ [Ledger!LedgerNext]_Ledger!ledger
      => (Ledger!LedgerTypeOK /\ Ledger!ConsumedOnce)'
  BY LedgerStep
<1> QED
  BY <1>1, <1>2, LedgerIsImplemented, PTL DEF ImplementsLedger, Ledger!LedgerSpec

\* What has been decided about a delivery is never reconsidered.
THEOREM CoreDecidesOnce == Spec => Ledger!FateIsFinal
<1>1. ASSUME Ledger!LedgerTypeOK, [Ledger!LedgerNext]_Ledger!ledger, NEW d \in Delivery
      PROVE  /\ Fate[d] \in {"completed", "dead_lettered", "cancelled"} => Fate'[d] = Fate[d]
             /\ Fate[d] # "absent" => Fate'[d] # "absent"
  BY <1>1 DEF Ledger!LedgerTypeOK, Ledger!LedgerNext, Ledger!ledger, Ledger!Accept,
              Ledger!Publish, Ledger!GiveUp, Ledger!Are, Ledger!Become, Ledger!Fates
<1>2. Ledger!LedgerTypeOK /\ [Ledger!LedgerNext]_Ledger!ledger =>
        [\A d \in Delivery :
           /\ Fate[d] \in {"completed", "dead_lettered", "cancelled"} => Fate'[d] = Fate[d]
           /\ Fate[d] # "absent" => Fate'[d] # "absent"]_Ledger!ledger
  BY <1>1
<1> QED
  BY <1>2, LedgerIsImplemented, CoreConsumesOnce, PTL DEF ImplementsLedger, Ledger!LedgerSpec, Ledger!FateIsFinal
=============================================================================
