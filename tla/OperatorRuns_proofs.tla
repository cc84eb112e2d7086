------------------------- MODULE OperatorRuns_proofs -------------------------
(***************************************************************************)
(* What every answer and every cursor of OperatorRuns rests on, for every  *)
(* number of deliveries, requests and rows of a page.                      *)
(***************************************************************************)
EXTENDS OperatorRuns, FiniteSetTheorems, WellFoundedInduction, TLAPS

-----------------------------------------------------------------------------
(* Pages: the smallest and the largest of a set of ids.                    *)

LEMMA LeastExists ==
  ASSUME NEW S \in SUBSET Nat, S # {}
  PROVE  \E x \in S : \A y \in S : x <= y
<1>1. PICK x \in S : \A y \in S : <<y, x>> \notin OpToRel(<, Nat)
  BY WFMin, NatLessThanWellFounded, Zenon
<1>2. \A y \in S : ~(y < x)
  BY <1>1, Zenon DEF OpToRel
<1> QED
  BY <1>2

\* The member of a finite set with the fewest members above it.
LEMMA LargestIsMember ==
  ASSUME NEW S \in SUBSET Nat, IsFiniteSet(S), S # {}
  PROVE  Largest(S) \in S /\ \A y \in S : y <= Largest(S)
<1> DEFINE Above(x) == {y \in S : x < y}
           Counts == {Cardinality(Above(x)) : x \in S}
<1>1. \A x \in S : IsFiniteSet(Above(x)) /\ Cardinality(Above(x)) \in Nat
  <2> SUFFICES ASSUME NEW x \in S
               PROVE  IsFiniteSet(Above(x)) /\ Cardinality(Above(x)) \in Nat
    OBVIOUS
  <2>1. Above(x) \in SUBSET S
    OBVIOUS
  <2> QED
    BY <2>1, FS_Subset, FS_CardinalityType
<1>2. PICK n \in Counts : \A k \in Counts : n <= k
  <2>1. Counts \in SUBSET Nat /\ Counts # {}
    BY <1>1
  <2> HIDE DEF Counts
  <2> QED
    BY <2>1, LeastExists
<1>3. PICK x \in S : n = Cardinality(Above(x))
  OBVIOUS
<1>4. ASSUME NEW y \in S, x < y
      PROVE  FALSE
  <2>1. Above(y) \in SUBSET Above(x) /\ Above(y) # Above(x)
    <3>1. \A z \in S : y < z => x < z
      BY <1>4
    <3>2. y \in Above(x) /\ y \notin Above(y)
      BY <1>4
    <3> QED
      BY <3>1, <3>2
  <2>2. Cardinality(Above(y)) <= Cardinality(Above(x))
        /\ Cardinality(Above(y)) # Cardinality(Above(x))
    <3> HIDE DEF Above
    <3> QED
      BY <1>1, <2>1, FS_Subset
  <2>3. n <= Cardinality(Above(y))
    BY <1>2
  <2> QED
    BY <1>1, <1>3, <2>2, <2>3
<1>5. \A y \in S : y <= x
  BY <1>4
<1> QED
  BY <1>5 DEF Largest

\* What is below one of the n smallest is one of them.
LEMMA SmallestBelow ==
  ASSUME NEW S \in SUBSET Nat, IsFiniteSet(S), NEW n \in Nat,
         NEW m \in Smallest(S, n), NEW x \in S, x <= m
  PROVE  x \in Smallest(S, n)
<1> DEFINE Below(z) == {y \in S : y < z}
<1>1. m \in S /\ Cardinality(Below(m)) < n
  BY DEF Smallest
<1>2. Below(x) \in SUBSET Below(m) /\ Below(m) \in SUBSET S
  <2>1. \A y \in S : y < x => y < m
    BY <1>1
  <2> QED
    BY <2>1
<1>3. Cardinality(Below(x)) < n
  <2> HIDE DEF Below
  <2>1. IsFiniteSet(Below(m))
    BY <1>2, FS_Subset
  <2>2. Cardinality(Below(x)) <= Cardinality(Below(m))
    BY <1>2, <2>1, FS_Subset
  <2>3. Cardinality(Below(x)) \in Nat /\ Cardinality(Below(m)) \in Nat
    BY <1>2, <2>1, FS_Subset, FS_CardinalityType
  <2> QED
    BY <1>1, <2>2, <2>3
<1> QED
  BY <1>3 DEF Smallest

\* A set with at most n members is its n smallest.
LEMMA SmallestOfFew ==
  ASSUME NEW S \in SUBSET Nat, IsFiniteSet(S), NEW n \in Nat, Cardinality(S) <= n
  PROVE  Smallest(S, n) = S
<1>1. ASSUME NEW x \in S
      PROVE  Cardinality({y \in S : y < x}) < n
  <2> DEFINE Below == {y \in S : y < x}
  <2>1. Below \in SUBSET S /\ Below # S
    OBVIOUS
  <2>2. Cardinality(Below) <= Cardinality(S) /\ Cardinality(Below) # Cardinality(S)
        /\ IsFiniteSet(Below)
    <3> HIDE DEF Below
    <3> QED
      BY <2>1, FS_Subset
  <2>3. Cardinality(Below) \in Nat /\ Cardinality(S) \in Nat
    BY <2>2, FS_CardinalityType
  <2> QED
    BY <2>2, <2>3
<1> QED
  BY <1>1 DEF Smallest

\* The first page of the rows S: closed downwards, and all of them unless one more
\* row than it has was found.
LEMMA PageFacts ==
  ASSUME NEW S \in SUBSET Nat, IsFiniteSet(S), NEW n \in Nat,
         NEW rows, rows = Smallest(S, n + 1), NEW items, items = Smallest(rows, n)
  PROVE  /\ items \in SUBSET S /\ IsFiniteSet(items)
         /\ \A m \in items, x \in S : x <= m => x \in items
         /\ ~(Cardinality(rows) > n) => items = S
<1>1. rows \in SUBSET S /\ items \in SUBSET rows
  BY DEF Smallest
<1>2. IsFiniteSet(rows) /\ IsFiniteSet(items) /\ Cardinality(rows) \in Nat
  BY <1>1, FS_Subset, FS_CardinalityType
<1>3. ASSUME NEW m \in items, NEW x \in S, x <= m
      PROVE  x \in items
  <2>1. x \in rows
    BY <1>1, <1>3, SmallestBelow
  <2> QED
    BY <1>1, <1>2, <1>3, <2>1, SmallestBelow
<1>4. ASSUME ~(Cardinality(rows) > n)
      PROVE  items = S
  <2>1. Cardinality(rows) <= n
    BY <1>2, <1>4
  <2>2. items = rows
    BY <1>1, <1>2, <2>1, SmallestOfFew
  <2>3. ASSUME rows # S
        PROVE  FALSE
    <3>1. S \ rows \in SUBSET Nat /\ S \ rows # {}
      BY <1>1, <2>3
    <3>2. PICK x \in S \ rows : \A y \in S \ rows : x <= y
      BY <3>1, LeastExists
    <3>3. ASSUME NEW y \in S, y < x
          PROVE  y \in rows
      BY <3>2, <3>3
    <3>4. Cardinality({y \in S : y < x}) <= n
          /\ Cardinality({y \in S : y < x}) \in Nat
      <4>1. {y \in S : y < x} \in SUBSET rows
        BY <3>3
      <4> QED
        BY <1>2, <2>1, <4>1, FS_Subset, FS_CardinalityType
    <3>5. x \in rows
      BY <3>2, <3>4 DEF Smallest
    <3> QED
      BY <3>2, <3>5
  <2> QED
    BY <2>2, <2>3
<1> QED
  BY <1>1, <1>2, <1>3, <1>4

-----------------------------------------------------------------------------
(* The inductive invariant.                                                *)

\* A delivery and its execution are written together.
RowsAgree ==
  \A d \in Deliveries :
    /\ execution[d] = "running" => delivery[d] \in {"ready", "leased"}
    /\ delivery[d] = "leased" => execution[d] = "running"
    /\ delivery[d] = "none" => execution[d] = "none"
    /\ delivery[d] = "completed" <=> execution[d] = "completed"
    /\ delivery[d] = "dead_lettered" <=> execution[d] = "failed"
    /\ execution[d] = "completed" => published[d] \in events

Holds(d) == commit[d] \in {"publishing", "failing"}
HoldsKey(r) == cancel[r] \in {"holding", "collected"}

\* The locks: who has an execution, the region and the row of the run.
CommitsHaveLeases == \A d \in Deliveries : commit[d] # "idle" => delivery[d] = "leased"
OneHolder == \A d, e \in Deliveries : Holds(d) /\ Holds(e) => d = e
KeyWaits == \A d \in Deliveries, r \in Requests : ~(Holds(d) /\ HoldsKey(r))
OneCancel == \A q, r \in Requests : cancel[q] # "idle" /\ cancel[r] # "idle" => q = r
CollectedAll ==
  \A r \in Requests : cancel[r] = "collected" =>
    \A d \in Deliveries : d \in seen <=> delivery[d] # "none"

LocksAreHeld == CommitsHaveLeases /\ OneHolder /\ KeyWaits /\ OneCancel /\ CollectedAll

\* An id that is made and not visible is above every visible one.
IdsAreOrdered ==
  /\ 1 \in events /\ IsFiniteSet(events)
  /\ \A x \in events : x < clock
  /\ \A d \in Deliveries : commit[d] = "publishing" =>
       output[d] < clock /\ \A x \in events : x < output[d]
  /\ \A r \in Requests : HoldsKey(r) =>
       notice[r] < clock /\ \A x \in events : x < notice[r]

\* TypeOK without what the client keeps.
WriterTypes ==
  /\ delivery \in [Deliveries -> DeliveryStatuses]
  /\ execution \in [Deliveries -> ExecutionStatuses]
  /\ failures \in [Deliveries -> Nat]
  /\ published \in [Deliveries -> Nat]
  /\ artifact \in [Deliveries -> Artifacts \cup {0}]
  /\ approval \in [Deliveries -> {"none", "requested", "decided"}]
  /\ events \subseteq Nat \ {0}
  /\ clock \in Nat \ {0}
  /\ commit \in [Deliveries -> CommitPhases]
  /\ cancel \in [Requests -> CancelPhases]
  /\ output \in [Deliveries -> Nat]
  /\ notice \in [Requests -> Nat]
  /\ seen \subseteq Deliveries
  /\ done \subseteq Requests
  /\ calls \in Nat

WritersInv == WriterTypes /\ RowsAgree /\ LocksAreHeld /\ IdsAreOrdered /\ CancelReachesEverything

LEMMA InitWriters == Init => WritersInv
<1> SUFFICES ASSUME Init PROVE WritersInv
  OBVIOUS
<1> USE DeliveriesAssumption, BoundsAssumption
<1>1. WriterTypes
  BY DEF Init, WriterTypes, DeliveryStatuses, TerminalDeliveries, ExecutionStatuses, CommitPhases, CancelPhases
<1>2. RowsAgree
  BY DEF Init, RowsAgree
<1>3. LocksAreHeld
  BY DEF Init, LocksAreHeld, CommitsHaveLeases, OneHolder, KeyWaits, OneCancel, CollectedAll, Holds, HoldsKey
<1>4. IdsAreOrdered
  <2>1. IsFiniteSet(events)
    BY FS_Singleton, Zenon DEF Init
  <2> QED
    BY <2>1 DEF Init, IdsAreOrdered, HoldsKey
<1>5. CancelReachesEverything
  BY DEF Init, CancelReachesEverything
<1> QED
  BY <1>1, <1>2, <1>3, <1>4, <1>5 DEF WritersInv

\* The steps of Next, one by one.
StepCases ==
  \/ \E d \in Deliveries : Lease(d)
  \/ \E d \in Deliveries : LockExecution(d)
  \/ \E d \in Deliveries : LockRegion(d)
  \/ \E d \in Deliveries : Complete(d)
  \/ \E d \in Deliveries : Fail(d)
  \/ \E d \in Deliveries : AbortCommit(d)
  \/ \E d \in Deliveries : RequestApproval(d)
  \/ \E d \in Deliveries : DecideApproval(d)
  \/ \E r \in Requests : BeginCancel(r)
  \/ \E r \in Requests : HoldRegion(r)
  \/ \E r \in Requests : CollectDeliveries(r)
  \/ \E r \in Requests : EndCancel(r)
  \/ \E r \in Requests : AbortCancel(r)
  \/ Read

LEMMA NextCases == Next => StepCases
BY DEF Next, Write, StepCases

LEMMA ReadsKeepRows == Read => UNCHANGED <<database, writers>>
BY DEF Read, ReadDeliveries, ReadExecutions, ReadEvents, StartPass, Page, ReadAlerts, PageOfAlerts, Forget

LEMMA TypesStep ==
  ASSUME WriterTypes, LocksAreHeld, IdsAreOrdered, StepCases
  PROVE  WriterTypes'
<1> USE DEF WriterTypes, database, writers, DeliveryStatuses, TerminalDeliveries, ExecutionStatuses,
            CommitPhases, CancelPhases
<1>1. ASSUME NEW d \in Deliveries, Lease(d) PROVE WriterTypes'
  BY <1>1 DEF Lease
<1>2. ASSUME NEW d \in Deliveries, LockExecution(d) PROVE WriterTypes'
  BY <1>2 DEF LockExecution
<1>3. ASSUME NEW d \in Deliveries, LockRegion(d) PROVE WriterTypes'
  BY <1>3 DEF LockRegion
<1>4. ASSUME NEW d \in Deliveries, Complete(d) PROVE WriterTypes'
  <2>1. events' \subseteq Nat \ {0}
    <3>1. output[d] \in Nat \ {0}
      <4>1. output[d] \in Nat /\ 1 < output[d]
        BY <1>4 DEF Complete, IdsAreOrdered
      <4> QED
        BY <4>1
    <3> QED
      <4>1. events' = events \cup {output[d]}
        BY <1>4, Zenon DEF Complete, EventCommitted
      <4> QED
        BY <3>1, <4>1, Zenon
  <2>2. artifact' \in [Deliveries -> Artifacts \cup {0}]
    BY <1>4 DEF Complete
  <2>3. delivery' \in [Deliveries -> DeliveryStatuses]
    BY <1>4 DEF Complete
  <2> QED
    BY <1>4, <2>1, <2>2, <2>3 DEF Complete
<1>5. ASSUME NEW d \in Deliveries, Fail(d) PROVE WriterTypes'
  BY <1>5 DEF Fail
<1>6. ASSUME NEW d \in Deliveries, AbortCommit(d) PROVE WriterTypes'
  BY <1>6 DEF AbortCommit
<1>7. ASSUME NEW d \in Deliveries, RequestApproval(d) \/ DecideApproval(d) PROVE WriterTypes'
  BY <1>7 DEF RequestApproval, DecideApproval
<1>8. ASSUME NEW r \in Requests, BeginCancel(r) PROVE WriterTypes'
  BY <1>8 DEF BeginCancel
<1>9. ASSUME NEW r \in Requests, HoldRegion(r) PROVE WriterTypes'
  BY <1>9 DEF HoldRegion
<1>10. ASSUME NEW r \in Requests, CollectDeliveries(r) PROVE WriterTypes'
  BY <1>10 DEF CollectDeliveries
<1>11. ASSUME NEW r \in Requests, EndCancel(r) PROVE WriterTypes'
  <2>1. events' \subseteq Nat \ {0}
    <3>1. notice[r] \in Nat \ {0}
      <4>1. notice[r] \in Nat /\ 1 < notice[r]
        BY <1>11 DEF EndCancel, IdsAreOrdered, HoldsKey
      <4> QED
        BY <4>1
    <3> QED
      <4>1. events' = events \cup {notice[r]}
        BY <1>11, Zenon DEF EndCancel, EventCommitted
      <4> QED
        BY <3>1, <4>1, Zenon
  <2>2. /\ delivery' \in [Deliveries -> DeliveryStatuses]
        /\ execution' \in [Deliveries -> ExecutionStatuses]
    BY <1>11 DEF EndCancel
  <2> QED
    BY <1>11, <2>1, <2>2 DEF EndCancel
<1>12. ASSUME NEW r \in Requests, AbortCancel(r) PROVE WriterTypes'
  BY <1>12 DEF AbortCancel
<1>13. CASE Read
  BY <1>13, ReadsKeepRows
<1> QED
  BY <1>1, <1>2, <1>3, <1>4, <1>5, <1>6, <1>7, <1>8, <1>9, <1>10, <1>11, <1>12, <1>13 DEF StepCases
LEMMA RowsStep ==
  ASSUME WritersInv, StepCases
  PROVE  RowsAgree'
<1> USE DEF WritersInv, RowsAgree
<1>1. ASSUME NEW d \in Deliveries, Lease(d) PROVE RowsAgree'
  BY <1>1 DEF Lease, WriterTypes
<1>2. ASSUME UNCHANGED <<delivery, execution, published, events>> PROVE RowsAgree'
  BY <1>2
<1>3. ASSUME NEW d \in Deliveries, Complete(d) PROVE RowsAgree'
  <2>1. delivery[d] = "leased" /\ execution[d] = "running"
    BY <1>3 DEF Complete, LocksAreHeld, CommitsHaveLeases
  <2>2. \A c \in Deliveries \ {d} :
           /\ execution'[c] = execution[c] /\ published'[c] = published[c]
           /\ delivery'[c] = delivery[c] \/ (delivery[c] = "none" /\ delivery'[c] = "ready")
    <3>1. PICK children \in SUBSET {c \in Deliveries : delivery[c] = "none"} :
             delivery' = [c \in Deliveries |->
                            IF c = d THEN "completed"
                            ELSE IF c \in children THEN "ready" ELSE delivery[c]]
      BY <1>3 DEF Complete
    <3>2. ASSUME NEW c \in Deliveries \ {d}
          PROVE  delivery'[c] = delivery[c] \/ (delivery[c] = "none" /\ delivery'[c] = "ready")
      <4>1. CASE c \in children
        BY <3>1, <4>1
      <4>2. CASE c \notin children
        <5>1. c # d /\ c \in Deliveries
          OBVIOUS
        <5>2. delivery'[c] = IF c = d THEN "completed"
                             ELSE IF c \in children THEN "ready" ELSE delivery[c]
          BY <3>1, <5>1, Zenon
        <5> QED
          BY <4>2, <5>1, <5>2
      <4> QED
        BY <4>1, <4>2
    <3>3. \A c \in Deliveries \ {d} : execution'[c] = execution[c] /\ published'[c] = published[c]
      BY <1>3 DEF Complete, WriterTypes
    <3> QED
      BY <3>2, <3>3
  <2>3. /\ delivery'[d] = "completed" /\ execution'[d] = "completed"
        /\ published'[d] \in events' /\ events \subseteq events'
    BY <1>3 DEF Complete, EventCommitted, WriterTypes
  <2> QED
    BY <2>2, <2>3
<1>4. ASSUME NEW d \in Deliveries, Fail(d) PROVE RowsAgree'
  BY <1>4 DEF Fail, LocksAreHeld, CommitsHaveLeases, WriterTypes
<1>5. ASSUME NEW r \in Requests, EndCancel(r) PROVE RowsAgree'
  <2>1. events \subseteq events' /\ published' = published
    BY <1>5 DEF EndCancel, EventCommitted
  <2>2. \A d \in Deliveries : delivery[d] # "none" => d \in seen
    BY <1>5 DEF EndCancel, LocksAreHeld, CollectedAll
  <2> QED
    BY <1>5, <2>1, <2>2 DEF EndCancel, WriterTypes
<1> QED
  BY <1>1, <1>2, <1>3, <1>4, <1>5, ReadsKeepRows DEF StepCases, LockExecution, LockRegion, AbortCommit,
     RequestApproval, DecideApproval, BeginCancel, HoldRegion, CollectDeliveries, AbortCancel,
     database

LEMMA CancelReachesStep ==
  ASSUME WritersInv, StepCases
  PROVE  CancelReachesEverything'
<1> USE DEF WritersInv, CancelReachesEverything
<1>1. ASSUME NEW d \in Deliveries, Lease(d) PROVE CancelReachesEverything'
  BY <1>1 DEF Lease, TerminalDeliveries, writers
<1>2. ASSUME UNCHANGED <<delivery, execution, done>> PROVE CancelReachesEverything'
  BY <1>2
<1>3. ASSUME NEW d \in Deliveries, Complete(d) \/ Fail(d) PROVE CancelReachesEverything'
  <2>1. delivery[d] = "leased"
    BY <1>3 DEF Complete, Fail, LocksAreHeld, CommitsHaveLeases
  <2>2. done' = done
    BY <1>3 DEF Complete, Fail
  <2> QED
    BY <2>1, <2>2 DEF TerminalDeliveries
<1>4. ASSUME NEW r \in Requests, EndCancel(r) PROVE CancelReachesEverything'
  <2>1. \A d \in Deliveries : d \in seen <=> delivery[d] # "none"
    BY <1>4 DEF EndCancel, LocksAreHeld, CollectedAll
  <2>2. \A d \in Deliveries \ seen : execution[d] = "none"
    BY <2>1 DEF RowsAgree
  <2> QED
    BY <1>4, <2>1, <2>2 DEF EndCancel, WriterTypes, DeliveryStatuses, TerminalDeliveries
<1> QED
  BY <1>1, <1>2, <1>3, <1>4, ReadsKeepRows DEF StepCases, LockExecution, LockRegion, AbortCommit,
     RequestApproval, DecideApproval, BeginCancel, HoldRegion, CollectDeliveries, AbortCancel,
     database, writers

\* What the steps do to the locks.
LEMMA CommitPhaseStep ==
  ASSUME WritersInv, StepCases, NEW e \in Deliveries
  PROVE  \/ commit'[e] = commit[e]
         \/ commit'[e] = "idle"
         \/ commit[e] = "idle" /\ LockExecution(e) /\ commit'[e] = "executing"
         \/ LockRegion(e) /\ commit'[e] \in {"publishing", "failing"}
<1> USE DEF WritersInv, WriterTypes
<1>1. ASSUME NEW d \in Deliveries, LockExecution(d) PROVE commit'[e] = commit[e] \/ (d = e /\ commit[e] = "idle" /\ commit'[e] = "executing")
  BY <1>1 DEF LockExecution
<1>2. ASSUME NEW d \in Deliveries, LockRegion(d) PROVE commit'[e] = commit[e] \/ (d = e /\ commit'[e] \in {"publishing", "failing"})
  BY <1>2 DEF LockRegion
<1>3. ASSUME NEW d \in Deliveries, Complete(d) PROVE commit'[e] \in {commit[e], "idle"}
  BY <1>3 DEF Complete
<1>4. ASSUME NEW d \in Deliveries, Fail(d) PROVE commit'[e] \in {commit[e], "idle"}
  BY <1>4 DEF Fail
<1>5. ASSUME NEW d \in Deliveries, AbortCommit(d) PROVE commit'[e] \in {commit[e], "idle"}
  BY <1>5 DEF AbortCommit
<1>6. ASSUME UNCHANGED commit PROVE commit'[e] = commit[e]
  BY <1>6
<1> QED
  BY <1>1, <1>2, <1>3, <1>4, <1>5, <1>6, ReadsKeepRows
     DEF StepCases, Lease, RequestApproval, DecideApproval, BeginCancel, HoldRegion, CollectDeliveries,
         EndCancel, AbortCancel, writers

LEMMA CancelPhaseStep ==
  ASSUME WritersInv, StepCases, NEW q \in Requests
  PROVE  \/ cancel'[q] = cancel[q]
         \/ cancel'[q] = "idle"
         \/ BeginCancel(q) /\ cancel'[q] = "begun"
         \/ HoldRegion(q) /\ cancel'[q] = "holding"
         \/ CollectDeliveries(q) /\ cancel'[q] = "collected"
<1> USE DEF WritersInv, WriterTypes
<1>1. ASSUME NEW r \in Requests, BeginCancel(r) PROVE cancel'[q] = cancel[q] \/ (q = r /\ cancel'[q] = "begun")
  BY <1>1 DEF BeginCancel
<1>2. ASSUME NEW r \in Requests, HoldRegion(r) PROVE cancel'[q] = cancel[q] \/ (q = r /\ cancel'[q] = "holding")
  BY <1>2 DEF HoldRegion
<1>3. ASSUME NEW r \in Requests, CollectDeliveries(r) PROVE cancel'[q] = cancel[q] \/ (q = r /\ cancel'[q] = "collected")
  BY <1>3 DEF CollectDeliveries
<1>4. ASSUME NEW r \in Requests, EndCancel(r) PROVE cancel'[q] \in {cancel[q], "idle"}
  BY <1>4 DEF EndCancel
<1>5. ASSUME NEW r \in Requests, AbortCancel(r) PROVE cancel'[q] \in {cancel[q], "idle"}
  BY <1>5 DEF AbortCancel
<1>6. ASSUME UNCHANGED cancel PROVE cancel'[q] = cancel[q]
  BY <1>6
<1> QED
  BY <1>1, <1>2, <1>3, <1>4, <1>5, <1>6, ReadsKeepRows
     DEF StepCases, Lease, LockExecution, LockRegion, Complete, Fail, AbortCommit, RequestApproval,
         DecideApproval, writers
LEMMA LocksStep ==
  ASSUME WritersInv, StepCases
  PROVE  LocksAreHeld'
<1> USE DEF WritersInv, LocksAreHeld, Holds, HoldsKey
<1>1. CommitsHaveLeases'
  <2> SUFFICES ASSUME NEW e \in Deliveries, commit'[e] # "idle"
               PROVE  delivery'[e] = "leased"
    BY DEF CommitsHaveLeases
  <2>1. delivery[e] = "leased" /\ (commit[e] # "idle" \/ LockExecution(e))
    BY CommitPhaseStep DEF CommitsHaveLeases, LockRegion, LockExecution
  <2>2. ASSUME NEW d \in Deliveries, Lease(d) PROVE delivery'[e] = "leased"
    BY <2>1, <2>2 DEF Lease, WriterTypes
  <2>3. ASSUME NEW d \in Deliveries, Complete(d) PROVE delivery'[e] = "leased"
    <3>1. d # e
      BY <2>3 DEF Complete, WriterTypes
    <3> QED
      BY <2>1, <2>3, <3>1 DEF Complete
  <2>4. ASSUME NEW d \in Deliveries, Fail(d) PROVE delivery'[e] = "leased"
    <3>1. d # e
      BY <2>4 DEF Fail, WriterTypes
    <3> QED
      BY <2>1, <2>4, <3>1 DEF Fail, WriterTypes
  <2>5. ASSUME NEW r \in Requests, EndCancel(r) PROVE delivery'[e] = "leased"
    <3>1. e \in seen /\ commit[e] = "idle"
      BY <2>1, <2>5 DEF EndCancel, CollectedAll
    <3> QED
      BY <2>5, <3>1 DEF EndCancel
  <2>6. ASSUME UNCHANGED delivery PROVE delivery'[e] = "leased"
    BY <2>1, <2>6
  <2> QED
    BY <2>2, <2>3, <2>4, <2>5, <2>6, ReadsKeepRows
       DEF StepCases, LockExecution, LockRegion, AbortCommit, RequestApproval, DecideApproval,
           BeginCancel, HoldRegion, CollectDeliveries, AbortCancel, database
<1>2. OneHolder'
  <2> SUFFICES ASSUME NEW d \in Deliveries, NEW e \in Deliveries, Holds(d)', Holds(e)'
               PROVE  d = e
    BY DEF OneHolder
  <2>1. (Holds(d) \/ LockRegion(d)) /\ (Holds(e) \/ LockRegion(e))
    BY CommitPhaseStep
  <2>2. LockRegion(d) /\ LockRegion(e) => d = e
    BY DEF LockRegion, CommitHoldsRegion, WriterTypes
  <2>3. LockRegion(d) \/ LockRegion(e) => ~Holds(d) /\ ~Holds(e)
    BY DEF LockRegion, CommitHoldsRegion
  <2> QED
    BY <2>1, <2>2, <2>3 DEF OneHolder
<1>3. KeyWaits'
  <2> SUFFICES ASSUME NEW d \in Deliveries, NEW r \in Requests, Holds(d)', HoldsKey(r)'
               PROVE  FALSE
    BY DEF KeyWaits
  <2>1. Holds(d) \/ LockRegion(d)
    BY CommitPhaseStep
  <2>2. HoldsKey(r) \/ HoldRegion(r)
    BY CancelPhaseStep DEF CollectDeliveries
  <2>3. ~(LockRegion(d) /\ HoldRegion(r))
    BY DEF LockRegion, HoldRegion, WriterTypes
  <2> QED
    BY <2>1, <2>2, <2>3 DEF KeyWaits, LockRegion, HoldRegion, CommitHoldsRegion, CancelHoldsRegion
<1>4. OneCancel'
  <2> SUFFICES ASSUME NEW q \in Requests, NEW r \in Requests, cancel'[q] # "idle", cancel'[r] # "idle"
               PROVE  q = r
    BY DEF OneCancel
  <2>1. /\ cancel[q] # "idle" \/ BeginCancel(q)
        /\ cancel[r] # "idle" \/ BeginCancel(r)
    BY CancelPhaseStep DEF HoldRegion, CollectDeliveries
  <2>2. BeginCancel(q) \/ BeginCancel(r) => q = r
    BY <2>1 DEF BeginCancel, WriterTypes
  <2> QED
    BY <2>1, <2>2 DEF OneCancel
<1>5. CollectedAll'
  <2> SUFFICES ASSUME NEW r \in Requests, cancel'[r] = "collected", NEW e \in Deliveries
               PROVE  e \in seen' <=> delivery'[e] # "none"
    BY DEF CollectedAll
  <2>1. cancel[r] = "collected" \/ CollectDeliveries(r)
    BY CancelPhaseStep
  <2>2. ASSUME CollectDeliveries(r) PROVE e \in seen' <=> delivery'[e] # "none"
    BY <2>2 DEF CollectDeliveries, database
  <2>3. ASSUME cancel[r] = "collected" PROVE e \in seen' <=> delivery'[e] # "none"
    <3>1. e \in seen <=> delivery[e] # "none"
      BY <2>3 DEF CollectedAll
    <3>2. ASSUME NEW d \in Deliveries, Lease(d) PROVE seen' = seen /\ (delivery'[e] = "none" <=> delivery[e] = "none")
      BY <3>2 DEF Lease, writers, WriterTypes
    <3>3. ASSUME NEW d \in Deliveries, Complete(d) PROVE FALSE
      BY <2>3, <3>3 DEF Complete, KeyWaits
    <3>4. ASSUME NEW d \in Deliveries, Fail(d) PROVE FALSE
      BY <2>3, <3>4 DEF Fail, KeyWaits
    <3>5. ASSUME NEW q \in Requests, CollectDeliveries(q) PROVE FALSE
      BY <2>3, <3>5 DEF CollectDeliveries, OneCancel
    <3>6. ASSUME NEW q \in Requests, EndCancel(q) \/ AbortCancel(q) PROVE FALSE
      <4>1. cancel[q] = "collected" /\ cancel'[q] = "idle"
        BY <3>6 DEF EndCancel, AbortCancel, WriterTypes
      <4> QED
        BY <2>3, <4>1 DEF OneCancel
    <3>7. ASSUME UNCHANGED <<delivery, seen>> PROVE seen' = seen /\ delivery'[e] = delivery[e]
      BY <3>7
    <3> QED
      BY <3>1, <3>2, <3>3, <3>4, <3>5, <3>6, <3>7, ReadsKeepRows
         DEF StepCases, LockExecution, LockRegion, AbortCommit, RequestApproval, DecideApproval,
             BeginCancel, HoldRegion, database, writers
  <2> QED
    BY <2>1, <2>2, <2>3
<1> QED
  BY <1>1, <1>2, <1>3, <1>4, <1>5
LEMMA IdsStep ==
  ASSUME WritersInv, StepCases
  PROVE  IdsAreOrdered'
<1> USE DEF WritersInv, IdsAreOrdered
<1>1. ASSUME events' = events, clock <= clock', clock' \in Nat,
             \A d \in Deliveries : commit'[d] = "publishing" =>
                 \/ commit[d] = "publishing" /\ output'[d] = output[d]
                 \/ output'[d] = clock /\ clock < clock',
             \A r \in Requests : HoldsKey(r)' =>
                 \/ HoldsKey(r) /\ notice'[r] = notice[r]
                 \/ notice'[r] = clock /\ clock < clock'
      PROVE  IdsAreOrdered'
  <2>1. \A x \in events' : x < clock'
    BY <1>1 DEF WriterTypes
  <2>2. ASSUME NEW d \in Deliveries, commit'[d] = "publishing"
        PROVE  output'[d] < clock' /\ \A x \in events' : x < output'[d]
    BY <1>1, <2>2 DEF WriterTypes
  <2>3. ASSUME NEW r \in Requests, HoldsKey(r)'
        PROVE  notice'[r] < clock' /\ \A x \in events' : x < notice'[r]
    BY <1>1, <2>3 DEF WriterTypes
  <2> HIDE DEF HoldsKey
  <2> QED
    BY <1>1, <2>1, <2>2, <2>3
<1>2. ASSUME NEW id \in Nat, events' = events \cup {id}, id < clock, clock' = clock,
             \A x \in events : x < id,
             \A d \in Deliveries : commit'[d] # "publishing",
             \A r \in Requests : ~HoldsKey(r)'
      PROVE  IdsAreOrdered'
  <2>1. IsFiniteSet(events')
    BY <1>2, FS_AddElement
  <2> QED
    BY <1>2, <2>1 DEF WriterTypes
<1>3. ASSUME UNCHANGED <<events, clock, output, notice>>,
             \A d \in Deliveries : commit'[d] = "publishing" => commit[d] = "publishing",
             \A r \in Requests : HoldsKey(r)' => HoldsKey(r)
      PROVE  IdsAreOrdered'
  BY <1>3
<1>4. ASSUME NEW d \in Deliveries, LockExecution(d) PROVE IdsAreOrdered'
  BY <1>3, <1>4 DEF LockExecution, database, HoldsKey, WriterTypes
<1>5. ASSUME NEW d \in Deliveries, LockRegion(d) PROVE IdsAreOrdered'
  <2>1. events' = events /\ cancel' = cancel /\ notice' = notice
    BY <1>5 DEF LockRegion, database
  <2>2. clock' \in Nat /\ clock <= clock'
    BY <1>5 DEF LockRegion, WriterTypes
  <2>3. \A e \in Deliveries : commit'[e] = "publishing" =>
           \/ commit[e] = "publishing" /\ output'[e] = output[e]
           \/ output'[e] = clock /\ clock < clock'
    BY <1>5 DEF LockRegion, WriterTypes
  <2> QED
    BY <1>1, <2>1, <2>2, <2>3 DEF HoldsKey
<1>6. ASSUME NEW d \in Deliveries, Complete(d) PROVE IdsAreOrdered'
  <2>1. events' = events \cup {output[d]} /\ clock' = clock
    BY <1>6, Zenon DEF Complete, EventCommitted
  <2>2. output[d] \in Nat /\ output[d] < clock /\ \A x \in events : x < output[d]
    BY <1>6 DEF Complete, WriterTypes
  <2>3. \A e \in Deliveries : commit'[e] # "publishing"
    BY <1>6 DEF Complete, WriterTypes, LocksAreHeld, OneHolder, Holds
  <2>4. \A r \in Requests : ~HoldsKey(r)'
    BY <1>6 DEF Complete, LocksAreHeld, KeyWaits, Holds, HoldsKey
  <2> QED
    BY <1>2, <2>1, <2>2, <2>3, <2>4
<1>7. ASSUME NEW d \in Deliveries, Fail(d) PROVE IdsAreOrdered'
  BY <1>3, <1>7 DEF Fail, WriterTypes, HoldsKey
<1>8. ASSUME NEW d \in Deliveries, AbortCommit(d) PROVE IdsAreOrdered'
  BY <1>3, <1>8 DEF AbortCommit, WriterTypes, HoldsKey, database
<1>9. ASSUME NEW r \in Requests, BeginCancel(r) PROVE IdsAreOrdered'
  BY <1>3, <1>9 DEF BeginCancel, WriterTypes, HoldsKey, database
<1>10. ASSUME NEW r \in Requests, HoldRegion(r) PROVE IdsAreOrdered'
  <2>1. events' = events /\ commit' = commit /\ output' = output
    BY <1>10 DEF HoldRegion, database
  <2>2. clock' \in Nat /\ clock <= clock'
    BY <1>10 DEF HoldRegion, WriterTypes
  <2>3. \A q \in Requests : HoldsKey(q)' =>
           \/ HoldsKey(q) /\ notice'[q] = notice[q]
           \/ notice'[q] = clock /\ clock < clock'
    BY <1>10 DEF HoldRegion, WriterTypes, HoldsKey
  <2> QED
    BY <1>1, <2>1, <2>2, <2>3
<1>11. ASSUME NEW r \in Requests, CollectDeliveries(r) PROVE IdsAreOrdered'
  BY <1>3, <1>11 DEF CollectDeliveries, WriterTypes, HoldsKey, database
<1>12. ASSUME NEW r \in Requests, EndCancel(r) PROVE IdsAreOrdered'
  <2>1. events' = events \cup {notice[r]} /\ clock' = clock /\ commit' = commit
    BY <1>12, Zenon DEF EndCancel, EventCommitted
  <2>2. notice[r] \in Nat /\ notice[r] < clock /\ \A x \in events : x < notice[r]
    BY <1>12 DEF EndCancel, WriterTypes, HoldsKey
  <2>3. \A e \in Deliveries : commit'[e] # "publishing"
    BY <1>12, <2>1 DEF EndCancel, LocksAreHeld, KeyWaits, Holds, HoldsKey
  <2>4. \A q \in Requests : ~HoldsKey(q)'
    BY <1>12 DEF EndCancel, WriterTypes, LocksAreHeld, OneCancel, HoldsKey
  <2> QED
    BY <1>2, <2>1, <2>2, <2>3, <2>4
<1>13. ASSUME NEW r \in Requests, AbortCancel(r) PROVE IdsAreOrdered'
  <2>1. events' = events /\ commit' = commit /\ output' = output /\ clock' = clock
    BY <1>13 DEF AbortCancel, database
  <2>2. \A q \in Requests : HoldsKey(q)' => HoldsKey(q) /\ notice'[q] = notice[q]
    BY <1>13 DEF AbortCancel, WriterTypes, HoldsKey
  <2> QED
    BY <1>1, <2>1, <2>2 DEF WriterTypes
<1>14. ASSUME UNCHANGED <<events, clock, output, notice, commit, cancel>> PROVE IdsAreOrdered'
  BY <1>14 DEF HoldsKey
<1> QED
  BY <1>4, <1>5, <1>6, <1>7, <1>8, <1>9, <1>10, <1>11, <1>12, <1>13, <1>14, ReadsKeepRows
     DEF StepCases, Lease, RequestApproval, DecideApproval, database, writers

LEMMA WritersStep == WritersInv /\ [Next]_vars => WritersInv'
<1> SUFFICES ASSUME WritersInv, [Next]_vars PROVE WritersInv'
  OBVIOUS
<1>1. CASE Next
  <2>1. StepCases
    BY <1>1, NextCases
  <2> QED
    BY <2>1, TypesStep, RowsStep, LocksStep, IdsStep, CancelReachesStep DEF WritersInv
<1>2. CASE UNCHANGED vars
  BY <1>2 DEF vars, database, writers, WritersInv, WriterTypes, RowsAgree, LocksAreHeld, CommitsHaveLeases,
     OneHolder, KeyWaits, OneCancel, CollectedAll, Holds, HoldsKey, IdsAreOrdered, CancelReachesEverything
<1> QED
  BY <1>1, <1>2

LEMMA WritersAlways == Spec => []WritersInv
BY InitWriters, WritersStep, PTL DEF Spec

\* A cancellation that is committed leaves nothing of the run to do, however it
\* met the commits under way: from the foreign key of its command and its locks.
THEOREM CancellationIsComplete == Spec => []CancelReachesEverything
<1>1. WritersInv => CancelReachesEverything
  BY DEF WritersInv
<1> QED
  BY <1>1, WritersAlways, PTL
-----------------------------------------------------------------------------
(* The client: its cursor and the pages it reads.                          *)

\* A list that is being read or has been read to its end.
Passes ==
  [op : {"page", "project", "end"}, list : Lists, cursor : Nat, got : SUBSET Nat,
   there : SUBSET Nat, twice : BOOLEAN, first : {"none", "deliveries", "executions"},
   rows : [Deliveries -> DeliveryStatuses \cup ExecutionStatuses]]
Answers ==
       {Idle}
  \cup [op : {"executions"}, deliveries : [Deliveries -> DeliveryStatuses]]
  \cup [op : {"events"}, deliveries : [Deliveries -> DeliveryStatuses],
        executions : [Deliveries -> ExecutionStatuses]]
  \cup [op : {"answer"}, deliveries : [Deliveries -> DeliveryStatuses],
        executions : [Deliveries -> ExecutionStatuses], events : SUBSET Nat]

ClientTypes ==
  /\ reader \in Passes \cup Answers
  /\ reader.op = "project" => reader.list = "alerts"
  /\ received \subseteq Nat /\ resume \in Nat

InPass == reader.op \in {"page", "project", "end"}

\* What a cursor of the events has passed the client has.
CursorsCover ==
  /\ resume \in events \cup {0}
  /\ \A x \in events : x <= resume => x \in received
  /\ InPass /\ reader.list = "events" =>
       /\ reader.cursor \in events \cup {0}
       /\ \A x \in events : x <= reader.cursor => x \in received

\* What the cursor of a pass has passed it has got, and nothing else.
PassSoFar ==
  InPass =>
    /\ ~reader.twice
    /\ \A x \in reader.got : x <= reader.cursor
    /\ \A x \in reader.there : x <= reader.cursor => x \in reader.got
    /\ reader.op = "end" => reader.there \subseteq reader.got

\* Every list is a finite set of ids.
LEMMA RowsAreFinite ==
  ASSUME WritersInv, NEW list \in Lists, list # "alerts"
  PROVE  Rows(list) \in SUBSET Nat /\ IsFiniteSet(Rows(list))
<1> USE DEF WritersInv, WriterTypes
<1>1. events \in SUBSET Nat /\ IsFiniteSet(events)
  BY DEF IdsAreOrdered
<1>2. ArtifactRows \in SUBSET Nat /\ IsFiniteSet(ArtifactRows)
  <2> DEFINE T == {artifact[d] : d \in Deliveries}
  <2>1. artifact \in Surjection(Deliveries, T)
    BY DEF Surjection
  <2>2. IsFiniteSet(T)
    BY <2>1, FS_Surjection, DeliveriesAssumption
  <2>3. ArtifactRows \in SUBSET T
    BY DEF ArtifactRows
  <2>4. ASSUME NEW d \in Deliveries PROVE artifact[d] \in Nat
    <3>1. artifact[d] \in Artifacts \cup {0}
      OBVIOUS
    <3>2. Artifacts \cup {0} \in SUBSET Nat
      BY BoundsAssumption
    <3> QED
      BY <3>1, <3>2, Zenon
  <2> QED
    BY <2>2, <2>3, <2>4, FS_Subset
<1>3. ApprovalRows \in SUBSET Nat /\ IsFiniteSet(ApprovalRows)
  <2>1. ApprovalRows \in SUBSET Deliveries
    BY DEF ApprovalRows
  <2> QED
    BY <2>1, DeliveriesAssumption, FS_Subset
<1> QED
  BY <1>1, <1>2, <1>3 DEF Rows, Lists

\* The alerts of one kind.
LEMMA AlertsOfAKind ==
  ASSUME NEW kind \in Nat, NEW D \in SUBSET Deliveries
  PROVE  {AlertKey(kind, d) : d \in D} \in SUBSET Nat /\ IsFiniteSet({AlertKey(kind, d) : d \in D})
<1>1. Largest(Deliveries) \in Nat
  BY LargestIsMember, DeliveriesAssumption
<1>2. \A d \in Deliveries : AlertKey(kind, d) \in Nat
  BY <1>1, DeliveriesAssumption DEF AlertKey
<1> DEFINE f == [d \in D |-> AlertKey(kind, d)]
           T == {AlertKey(kind, d) : d \in D}
<1>3. f \in Surjection(D, T)
  BY DEF Surjection
<1>4. IsFiniteSet(D)
  BY DeliveriesAssumption, FS_Subset
<1>5. IsFiniteSet(T)
  <2> HIDE DEF f, T
  <2> QED
    BY <1>3, <1>4, FS_Surjection
<1> QED
  BY <1>2, <1>5

LEMMA AlertsAreFinite ==
  ASSUME NEW deliveries, NEW executions
  PROVE  Alerts(deliveries, executions) \in SUBSET Nat /\ IsFiniteSet(Alerts(deliveries, executions))
<1> DEFINE A1 == {AlertKey(1, d) : d \in {c \in Deliveries : deliveries[c] = "dead_lettered"}}
           A2 == {AlertKey(2, d) : d \in {c \in Deliveries : executions[c] = "failed"}}
           A3 == {AlertKey(3, d) : d \in {c \in Deliveries : approval[c] = "requested"}}
           A4 == {AlertKey(4, d) : d \in {c \in Deliveries : executions[c] # "none" /\ failures[c] >= 2}}
<1>1. /\ A1 \in SUBSET Nat /\ IsFiniteSet(A1)
      /\ A2 \in SUBSET Nat /\ IsFiniteSet(A2)
      /\ A3 \in SUBSET Nat /\ IsFiniteSet(A3)
      /\ A4 \in SUBSET Nat /\ IsFiniteSet(A4)
  <2>1. A1 \in SUBSET Nat /\ IsFiniteSet(A1)
    BY AlertsOfAKind
  <2>2. A2 \in SUBSET Nat /\ IsFiniteSet(A2)
    BY AlertsOfAKind
  <2>3. A3 \in SUBSET Nat /\ IsFiniteSet(A3)
    BY AlertsOfAKind
  <2>4. A4 \in SUBSET Nat /\ IsFiniteSet(A4)
    BY AlertsOfAKind
  <2> QED
    BY <2>1, <2>2, <2>3, <2>4
<1>2. Alerts(deliveries, executions) = ((A1 \cup A2) \cup A3) \cup A4
  BY DEF Alerts
<1> HIDE DEF A1, A2, A3, A4
<1>3. IsFiniteSet(((A1 \cup A2) \cup A3) \cup A4)
  <2>1. IsFiniteSet(A1 \cup A2)
    BY <1>1, FS_Union
  <2>2. IsFiniteSet((A1 \cup A2) \cup A3)
    BY <1>1, <2>1, FS_Union
  <2> QED
    BY <1>1, <2>2, FS_Union
<1> QED
  BY <1>1, <1>2, <1>3
\* A page that continues a pass, of the rows S and with the items of them that
\* come next.
LEMMA PassGoesOn ==
  ASSUME reader \in Passes, reader.op # "end", InPass, PassSoFar,
         NEW S \in SUBSET Nat, NEW items \in SUBSET {x \in S : x > reader.cursor}, IsFiniteSet(items),
         \A m \in items : \A x \in {y \in S : y > reader.cursor} : x <= m => x \in items,
         NEW cursor, cursor = IF items = {} THEN reader.cursor ELSE Largest(items),
         NEW more \in BOOLEAN, ~more => items = {x \in S : x > reader.cursor},
         Received(items, S, more, cursor)
  PROVE  /\ reader' \in Passes /\ PassSoFar'
         /\ reader'.list = reader.list /\ reader'.cursor = cursor /\ reader'.op # "project"
         /\ cursor \in items \cup {reader.cursor}
         /\ \A x \in S : x <= cursor => x <= reader.cursor \/ x \in items
<1> DEFINE next == [op |-> IF more THEN "page" ELSE "end", list |-> reader.list, cursor |-> cursor,
                    got |-> reader.got \cup items, there |-> reader.there \cap S,
                    twice |-> reader.twice \/ items \cap reader.got # {},
                    first |-> "none", rows |-> NoRows]
<1>1. reader' = next
  BY DEF Received, Passes
<1>2. items \in SUBSET Nat
  OBVIOUS
<1>3. /\ cursor \in items \cup {reader.cursor} /\ cursor \in Nat
      /\ reader.cursor <= cursor /\ \A x \in items : x <= cursor
  <2>1. CASE items = {}
    BY <2>1 DEF Passes
  <2>2. CASE items # {}
    <3>1. Largest(items) \in items /\ \A x \in items : x <= Largest(items)
      BY <1>2, <2>2, LargestIsMember
    <3> QED
      BY <2>2, <3>1 DEF Passes
  <2> QED
    BY <2>1, <2>2
<1>4. ASSUME NEW x \in S, x <= cursor
      PROVE  x <= reader.cursor \/ x \in items
  <2>1. reader.cursor \in Nat /\ x \in Nat
    BY DEF Passes
  <2> SUFFICES ASSUME ~(x <= reader.cursor) PROVE x \in items
    OBVIOUS
  <2>2. x > reader.cursor /\ cursor \in items
    BY <1>3, <1>4, <2>1
  <2> QED
    BY <1>4, <2>2
<1>5. \A x \in reader.got : x \in Nat /\ x <= reader.cursor
  BY DEF PassSoFar, Passes
<1>6. items \cap reader.got = {}
  <2>1. \A x \in items : x > reader.cursor /\ x \in Nat /\ reader.cursor \in Nat
    BY <1>2 DEF Passes
  <2> QED
    BY <1>5, <2>1
<1>7. next \in Passes
  <2>1. NoRows \in [Deliveries -> DeliveryStatuses \cup ExecutionStatuses]
    BY DEF NoRows, DeliveryStatuses
  <2>2. reader.got \cup items \in SUBSET Nat /\ reader.there \cap S \in SUBSET Nat
    BY <1>2 DEF Passes
  <2>3. reader.list \in Lists
    BY DEF Passes
  <2> QED
    BY <1>3, <2>1, <2>2, <2>3 DEF Passes
<1>8. /\ ~next.twice
      /\ \A x \in next.got : x <= next.cursor
      /\ \A x \in next.there : x <= next.cursor => x \in next.got
      /\ next.op = "end" => next.there \subseteq next.got
  <2>1. ~next.twice
    BY <1>6 DEF PassSoFar
  <2>2. ASSUME NEW x \in next.got PROVE x <= next.cursor
    <3>1. reader.cursor \in Nat
      BY DEF Passes
    <3>2. CASE x \in items
      BY <1>3, <3>2
    <3>3. CASE x \in reader.got
      <4>1. x \in Nat /\ x <= reader.cursor
        BY <1>5, <3>3
      <4> QED
        BY <1>3, <3>1, <4>1
    <3> QED
      BY <3>2, <3>3
  <2>3. ASSUME NEW x \in next.there, x <= cursor PROVE x \in next.got
    BY <1>4, <2>3 DEF PassSoFar
  <2>4. ASSUME next.op = "end", NEW x \in next.there PROVE x \in next.got
    <3>1. items = {y \in S : y > reader.cursor}
      BY <2>4
    <3>2. x \in S /\ x \in reader.there /\ x \in Nat /\ reader.cursor \in Nat
      BY DEF Passes
    <3>3. x <= reader.cursor \/ x > reader.cursor
      BY <3>2
    <3> QED
      BY <3>1, <3>2, <3>3 DEF PassSoFar
  <2> QED
    BY <2>1, <2>2, <2>3, <2>4
<1>9. PassSoFar'
  <2> HIDE DEF next
  <2> QED
    BY <1>1, <1>8 DEF PassSoFar
<1>10. next.list = reader.list /\ next.cursor = cursor /\ next.op # "project"
  OBVIOUS
<1> HIDE DEF next
<1> QED
  BY <1>1, <1>3, <1>4, <1>7, <1>9, <1>10
ClientInv == ClientTypes /\ CursorsCover /\ PassSoFar

LEMMA InitClient == Init => ClientInv
BY DEF Init, ClientInv, ClientTypes, Answers, Passes, Idle, CursorsCover, PassSoFar, InPass

\* Writers make ids above every cursor.
LEMMA ClientOfWrites ==
  ASSUME WritersInv, WritersInv', ClientInv, StepCases, ~Read
  PROVE  ClientInv'
<1> USE DEF ClientInv
<1>1. UNCHANGED <<reader, received, resume>> /\ events \subseteq events'
  BY DEF StepCases, Lease, LockExecution, LockRegion, Complete, Fail, AbortCommit, RequestApproval,
         DecideApproval, BeginCancel, HoldRegion, CollectDeliveries, EndCancel, AbortCancel, client,
         database, EventCommitted
<1>2. \A y \in events' \ events : \A x \in events \cup {0} : ~(y <= x)
  <2>1. ASSUME NEW d \in Deliveries, Complete(d), NEW x \in events \cup {0} PROVE ~(output[d] <= x)
    <3>1. output[d] \in Nat /\ 1 < output[d] /\ \A z \in events : z \in Nat /\ z < output[d]
      BY <2>1 DEF Complete, WritersInv, WriterTypes, IdsAreOrdered
    <3> QED
      BY <3>1
  <2>2. ASSUME NEW r \in Requests, EndCancel(r), NEW x \in events \cup {0} PROVE ~(notice[r] <= x)
    <3>1. notice[r] \in Nat /\ 1 < notice[r] /\ \A z \in events : z \in Nat /\ z < notice[r]
      BY <2>2 DEF EndCancel, WritersInv, WriterTypes, IdsAreOrdered, HoldsKey
    <3> QED
      BY <3>1
  <2>3. ASSUME NEW d \in Deliveries, Complete(d) PROVE events' = events \cup {output[d]}
    BY <2>3, Zenon DEF Complete, EventCommitted
  <2>4. ASSUME NEW r \in Requests, EndCancel(r) PROVE events' = events \cup {notice[r]}
    BY <2>4, Zenon DEF EndCancel, EventCommitted
  <2>5. \/ \E d \in Deliveries : Complete(d)
        \/ \E r \in Requests : EndCancel(r)
        \/ events' = events
    BY DEF StepCases, Lease, LockExecution, LockRegion, Fail, AbortCommit, RequestApproval,
           DecideApproval, BeginCancel, HoldRegion, CollectDeliveries, AbortCancel, database
  <2> QED
    BY <2>1, <2>2, <2>3, <2>4, <2>5
<1>3. CursorsCover'
  BY <1>1, <1>2 DEF CursorsCover, InPass
<1>4. PassSoFar' /\ ClientTypes'
  BY <1>1 DEF PassSoFar, InPass, ClientTypes, Passes, Answers
<1> QED
  BY <1>3, <1>4

LEMMA ClientOfReads ==
  ASSUME WritersInv, ClientInv, Read
  PROVE  ClientInv'
<1> USE DEF ClientInv
<1>1. UNCHANGED <<database, writers>> /\ events' = events
  BY ReadsKeepRows DEF database
<1>2. ASSUME UNCHANGED <<received, resume>>, reader' \in Passes \cup Answers,
             reader'.op = "project" => reader'.list = "alerts", ~InPass' \/ PassSoFar',
             InPass' /\ reader'.list = "events" =>
               /\ reader'.cursor \in events \cup {0}
               /\ \A x \in events : x <= reader'.cursor => x \in received
      PROVE  ClientInv'
  BY <1>1, <1>2 DEF ClientTypes, CursorsCover, PassSoFar, InPass
<1>3. ASSUME ReadDeliveries \/ ReadExecutions \/ ReadEvents PROVE ClientInv'
  <2>1. /\ reader' \in Answers /\ UNCHANGED <<received, resume>> /\ ~InPass'
        /\ reader'.op # "project"
    <3>1. CASE ReadDeliveries
      BY <3>1 DEF ReadDeliveries, Answers, WritersInv, WriterTypes, InPass
    <3>2. CASE ReadExecutions
      <4>1. reader.deliveries \in [Deliveries -> DeliveryStatuses]
        BY <3>2 DEF ReadExecutions, ClientTypes, Answers, Passes, Idle
      <4> QED
        BY <3>2, <4>1 DEF ReadExecutions, Answers, WritersInv, WriterTypes, InPass
    <3>3. CASE ReadEvents
      <4>1. /\ reader.deliveries \in [Deliveries -> DeliveryStatuses]
            /\ reader.executions \in [Deliveries -> ExecutionStatuses]
        BY <3>3 DEF ReadEvents, ClientTypes, Answers, Passes, Idle
      <4> QED
        BY <3>3, <4>1 DEF ReadEvents, Answers, WritersInv, WriterTypes, InPass
    <3> QED
      BY <1>3, <3>1, <3>2, <3>3
  <2> QED
    BY <1>2, <2>1
<1>4. ASSUME Forget PROVE ClientInv'
  BY <1>2, <1>4 DEF Forget, Answers, InPass, Idle
<1>5. ASSUME NEW list \in Lists, StartPass(list) PROVE ClientInv'
  <2> DEFINE rows == IF list = "alerts" THEN Alerts(delivery, execution) ELSE Rows(list)
             next == [op |-> "page", list |-> list, cursor |-> Cursor(list), got |-> {},
                      there |-> {x \in rows : x > Cursor(list)}, twice |-> FALSE,
                      first |-> "none", rows |-> NoRows]
  <2>1. reader' = next /\ UNCHANGED <<received, resume>>
    BY <1>5 DEF StartPass
  <2>2. Cursor(list) \in Nat /\ rows \in SUBSET Nat
    BY RowsAreFinite, AlertsAreFinite DEF Cursor, ClientTypes
  <2>3. NoRows \in [Deliveries -> DeliveryStatuses \cup ExecutionStatuses]
    BY DEF NoRows, DeliveryStatuses
  <2>4. next \in Passes
    <3> HIDE DEF rows
    <3> QED
      BY <2>2, <2>3 DEF Passes
  <2>5. PassSoFar'
    <3>1. \A x \in rows : x > Cursor(list) => ~(x <= Cursor(list))
      BY <2>2
    <3> HIDE DEF rows
    <3> QED
      BY <2>1, <3>1 DEF PassSoFar, InPass
  <2>6. list = "events" => Cursor(list) = resume
    BY DEF Cursor
  <2> HIDE DEF rows
  <2> QED
    BY <1>2, <2>1, <2>4, <2>5, <2>6 DEF CursorsCover
<1>6. ASSUME NEW list \in Lists, Page(list) PROVE ClientInv'
  <2> DEFINE S == {x \in Rows(list) : x > reader.cursor}
             rows == Smallest(S, Limit + 1)
             items == Smallest(rows, Limit)
             cursor == IF items = {} THEN reader.cursor ELSE Largest(items)
             more == Cardinality(rows) > Limit
  <2>1. reader \in Passes /\ reader.op = "page" /\ InPass /\ reader.list = list /\ list # "alerts"
    BY <1>6 DEF Page, ClientTypes, Answers, Passes, Idle, InPass
  <2>2. Rows(list) \in SUBSET Nat /\ S \in SUBSET Rows(list) /\ IsFiniteSet(S) /\ S \in SUBSET Nat
    BY <2>1, RowsAreFinite, FS_Subset
  <2>3. /\ items \in SUBSET S /\ IsFiniteSet(items)
        /\ \A m \in items, x \in S : x <= m => x \in items
        /\ ~more => items = S
    <3> HIDE DEF S
    <3> QED
      BY <2>2, PageFacts, BoundsAssumption
  <2>4. Received(items, Rows(list), more, cursor)
    BY <1>6 DEF Page
  <2>5. /\ list = "events" => received' = received \cup items /\ resume' = IF more THEN resume ELSE cursor
        /\ list # "events" => UNCHANGED <<received, resume>>
    BY <1>6 DEF Page
  <2>6. /\ reader' \in Passes /\ PassSoFar'
        /\ reader'.list = list /\ reader'.cursor = cursor /\ reader'.op # "project"
        /\ cursor \in items \cup {reader.cursor}
        /\ \A x \in Rows(list) : x <= cursor => x <= reader.cursor \/ x \in items
    <3> HIDE DEF items, cursor, more, rows
    <3>1. cursor = IF items = {} THEN reader.cursor ELSE Largest(items)
      BY DEF cursor
    <3>2. more \in BOOLEAN
      BY DEF more
    <3> QED
      BY <2>1, <2>2, <2>3, <2>4, <3>1, <3>2, PassGoesOn
  <2>7. list = "events" => Rows(list) = events
    BY DEF Rows
  <2>8. CASE list = "events"
    <3>1. /\ cursor \in events \cup {0}
          /\ \A x \in events : x <= cursor => x \in received'
      <4> HIDE DEF items, cursor
      <4> QED
        BY <2>1, <2>2, <2>3, <2>5, <2>6, <2>7, <2>8 DEF CursorsCover
    <3>2. resume' \in {resume, cursor} /\ received \subseteq received' /\ received' \subseteq Nat
      <4> HIDE DEF items, cursor, more
      <4> QED
        BY <2>2, <2>3, <2>5, <2>8 DEF ClientTypes
    <3>3. events \in SUBSET Nat
      BY <2>2, <2>7, <2>8
    <3> HIDE DEF items, cursor, more, S
    <3> QED
      BY <1>1, <2>6, <3>1, <3>2, <3>3 DEF ClientTypes, CursorsCover
  <2>9. CASE list # "events"
    BY <1>2, <2>5, <2>6, <2>9
  <2> QED
    BY <2>8, <2>9
<1>7. ASSUME ReadAlerts PROVE ClientInv'
  <2>1. reader \in Passes /\ InPass /\ reader.list = "alerts" /\ UNCHANGED <<received, resume>>
        /\ reader.op = "page"
    BY <1>7 DEF ReadAlerts, ClientTypes, Answers, Passes, Idle, InPass
  <2>2. PICK first \in {"deliveries", "executions"} :
           reader' = [reader EXCEPT !.op = "project", !.first = first,
                        !.rows = IF first = "deliveries" THEN delivery ELSE execution]
    BY <1>7 DEF ReadAlerts
  <2>3. (IF first = "deliveries" THEN delivery ELSE execution)
           \in [Deliveries -> DeliveryStatuses \cup ExecutionStatuses]
    BY DEF WritersInv, WriterTypes
  <2>4. /\ reader' \in Passes /\ reader'.list = "alerts" /\ reader'.op = "project"
        /\ reader'.cursor = reader.cursor /\ reader'.got = reader.got /\ reader'.there = reader.there
        /\ reader'.twice = reader.twice
    BY <2>1, <2>2, <2>3 DEF Passes
  <2> QED
    BY <1>2, <2>1, <2>4 DEF PassSoFar, InPass
<1>8. ASSUME PageOfAlerts PROVE ClientInv'
  <2>1. reader \in Passes /\ InPass /\ reader.op = "project" /\ UNCHANGED <<received, resume>>
    BY <1>8 DEF PageOfAlerts, ClientTypes, Answers, Passes, Idle, InPass
  <2>2. CASE reader' = Idle
    BY <1>2, <2>1, <2>2 DEF Answers, InPass, Idle
  <2>3. CASE reader' # Idle
    <3> DEFINE S == After(Projected)
               items == Smallest(S, Limit)
               cursor == IF items = {} THEN reader.cursor ELSE Largest(items)
               more == S # items
    <3>1. Received(items, Projected, more, cursor)
      BY <1>8, <2>3 DEF PageOfAlerts
    <3>2. Projected \in SUBSET Nat /\ IsFiniteSet(Projected)
      BY AlertsAreFinite DEF Projected
    <3>3. S = {x \in Projected : x > reader.cursor} /\ S \in SUBSET Projected /\ IsFiniteSet(S) /\ S \in SUBSET Nat
      BY <3>2, FS_Subset DEF After
    <3>4. items \in SUBSET S /\ IsFiniteSet(items)
      BY <3>3, FS_Subset DEF Smallest
    <3>5. \A m \in items : \A x \in S : x <= m => x \in items
      <4> HIDE DEF S
      <4> QED
        BY <3>3, SmallestBelow, BoundsAssumption
    <3>6. reader' \in Passes /\ PassSoFar' /\ reader'.list = reader.list
      <4> HIDE DEF S, items, cursor, more
      <4>1. cursor = IF items = {} THEN reader.cursor ELSE Largest(items)
        BY DEF cursor
      <4>2. more \in BOOLEAN /\ (~more => items = S)
        BY DEF more
      <4> QED
        BY <2>1, <3>1, <3>2, <3>3, <3>4, <3>5, <4>1, <4>2, PassGoesOn
    <3>7. reader.list = "alerts"
      BY <2>1 DEF ClientTypes
    <3> QED
      BY <1>2, <2>1, <3>6, <3>7
  <2> QED
    BY <2>2, <2>3
<1> QED
  BY <1>3, <1>4, <1>5, <1>6, <1>7, <1>8 DEF Read
LEMMA ClientStep == WritersInv /\ WritersInv' /\ ClientInv /\ [Next]_vars => ClientInv'
<1> SUFFICES ASSUME WritersInv, WritersInv', ClientInv, [Next]_vars PROVE ClientInv'
  OBVIOUS
<1>1. CASE Next
  BY <1>1, NextCases, ClientOfWrites, ClientOfReads
<1>2. CASE UNCHANGED vars
  BY <1>2 DEF vars, database, client, ClientInv, ClientTypes, CursorsCover, PassSoFar, InPass
<1> QED
  BY <1>1, <1>2

LEMMA ClientAlways == Spec => []ClientInv
BY InitWriters, InitClient, WritersStep, ClientStep, PTL DEF Spec

\* The rows and the cursors have their types.
THEOREM TypeCorrectness == Spec => []TypeOK
<1>1. WritersInv /\ ClientInv => TypeOK
  BY DEF WritersInv, ClientInv, WriterTypes, ClientTypes, TypeOK
<1> QED
  BY <1>1, WritersAlways, ClientAlways, PTL

\* No event is passed by a resume cursor before it is visible: ids are made while
\* the region is held, so that of an invisible event is above every cursor.
THEOREM CursorsMissNothing == Spec => []NoEventIsMissed
<1>1. ClientInv => NoEventIsMissed
  BY DEF ClientInv, CursorsCover, NoEventIsMissed
<1> QED
  BY <1>1, ClientAlways, PTL

\* Pages of any length, of lists that change between them, add up to what was
\* there all the time.
THEOREM PagesAddUp == Spec => []PassIsComplete
<1>1. ClientInv => PassIsComplete
  BY DEF ClientInv, PassSoFar, InPass, PassIsComplete
<1> QED
  BY <1>1, ClientAlways, PTL

-----------------------------------------------------------------------------
(* Answers of several statements.                                          *)

Settled(rows) == \A d \in Deliveries : rows[d] \in TerminalDeliveries \cup {"none"}

\* What the deliveries that were read say of the deliveries there are.
DeliveriesRead ==
  reader.op \in {"executions", "events", "answer"} =>
    /\ \A d \in Deliveries :
         /\ reader.deliveries[d] \in TerminalDeliveries => delivery[d] = reader.deliveries[d]
         /\ reader.deliveries[d] = "leased" => execution[d] # "none"
    /\ Settled(reader.deliveries) => delivery = reader.deliveries

\* What the executions that were read after them say.
ExecutionsRead ==
  reader.op \in {"events", "answer"} =>
    /\ \A d \in Deliveries :
         /\ reader.deliveries[d] = "leased" => reader.executions[d] # "none"
         /\ reader.deliveries[d] = "completed" => reader.executions[d] = "completed"
         /\ reader.deliveries[d] = "dead_lettered" => reader.executions[d] = "failed"
         /\ reader.executions[d] = "completed" =>
              /\ execution[d] = "completed"
              /\ reader.op = "answer" => published[d] \in reader.events
    /\ Settled(reader.deliveries) => execution = reader.executions

AnswerInv == DeliveriesRead /\ ExecutionsRead

\* What no step of a writer takes back.
LEMMA RowsGrow ==
  ASSUME WritersInv, StepCases, NEW d \in Deliveries
  PROVE  /\ delivery[d] \in TerminalDeliveries => delivery'[d] = delivery[d]
         /\ execution[d] # "none" => execution'[d] # "none"
         /\ execution[d] = "completed" => execution'[d] = "completed" /\ published'[d] = published[d]
<1> USE DEF WritersInv, WriterTypes, TerminalDeliveries
<1>1. ASSUME NEW e \in Deliveries, Lease(e) PROVE delivery'[d] = delivery[d] \/ delivery[d] = "ready"
  BY <1>1 DEF Lease
<1>2. ASSUME NEW e \in Deliveries, Lease(e)
      PROVE  /\ execution'[d] # "none" \/ execution[d] = "none"
             /\ execution[d] = "completed" => execution'[d] = "completed" /\ published'[d] = published[d]
  <2>1. execution[e] # "completed"
    BY <1>2 DEF Lease, RowsAgree
  <2> QED
    BY <1>2, <2>1 DEF Lease
<1>3. ASSUME NEW e \in Deliveries, Complete(e) \/ Fail(e)
      PROVE  /\ delivery[d] \in TerminalDeliveries => delivery'[d] = delivery[d]
             /\ execution[d] # "none" => execution'[d] # "none"
             /\ execution[d] = "completed" => execution'[d] = "completed" /\ published'[d] = published[d]
  <2>1. delivery[e] = "leased" /\ execution[e] = "running"
    BY <1>3 DEF Complete, Fail, LocksAreHeld, CommitsHaveLeases, RowsAgree
  <2>2. CASE Complete(e)
    BY <2>1, <2>2 DEF Complete
  <2>3. CASE Fail(e)
    BY <2>1, <2>3 DEF Fail
  <2> QED
    BY <1>3, <2>2, <2>3
<1>4. ASSUME NEW r \in Requests, EndCancel(r)
      PROVE  /\ delivery[d] \in TerminalDeliveries => delivery'[d] = delivery[d]
             /\ execution[d] # "none" => execution'[d] # "none"
             /\ execution[d] = "completed" => execution'[d] = "completed" /\ published'[d] = published[d]
  BY <1>4 DEF EndCancel
<1>5. ASSUME UNCHANGED <<delivery, execution, published>>
      PROVE  delivery'[d] = delivery[d] /\ execution'[d] = execution[d] /\ published'[d] = published[d]
  BY <1>5
<1> QED
  BY <1>1, <1>2, <1>3, <1>4, <1>5, ReadsKeepRows
     DEF StepCases, LockExecution, LockRegion, AbortCommit, RequestApproval, DecideApproval, BeginCancel,
         HoldRegion, CollectDeliveries, AbortCancel, database

\* Nothing begins again when every delivery is terminal.
LEMMA SettledStays ==
  ASSUME WritersInv, StepCases, Settled(delivery)
  PROVE  UNCHANGED <<delivery, execution>>
<1> USE DEF WritersInv, WriterTypes, TerminalDeliveries, Settled
<1>1. ASSUME NEW e \in Deliveries, Lease(e) PROVE FALSE
  BY <1>1 DEF Lease
<1>2. ASSUME NEW e \in Deliveries, Complete(e) \/ Fail(e) PROVE FALSE
  BY <1>2 DEF Complete, Fail, LocksAreHeld, CommitsHaveLeases
<1>3. ASSUME NEW r \in Requests, EndCancel(r) PROVE UNCHANGED <<delivery, execution>>
  <2>1. \A d \in Deliveries : delivery[d] \notin {"ready", "leased"} /\ execution[d] # "running"
    BY DEF RowsAgree
  <2> QED
    BY <1>3, <2>1 DEF EndCancel
<1> QED
  BY <1>1, <1>2, <1>3, ReadsKeepRows
     DEF StepCases, LockExecution, LockRegion, AbortCommit, RequestApproval, DecideApproval, BeginCancel,
         HoldRegion, CollectDeliveries, AbortCancel, database
LEMMA AnswerOfWrites ==
  ASSUME WritersInv, AnswerInv, StepCases, ~Read
  PROVE  AnswerInv'
<1> USE DEF AnswerInv
<1>1. UNCHANGED reader
  BY DEF StepCases, Lease, LockExecution, LockRegion, Complete, Fail, AbortCommit, RequestApproval,
         DecideApproval, BeginCancel, HoldRegion, CollectDeliveries, EndCancel, AbortCancel, client
<1>2. \A d \in Deliveries :
        /\ delivery[d] \in TerminalDeliveries => delivery'[d] = delivery[d]
        /\ execution[d] # "none" => execution'[d] # "none"
        /\ execution[d] = "completed" => execution'[d] = "completed" /\ published'[d] = published[d]
  BY RowsGrow
<1>3. Settled(delivery) => UNCHANGED <<delivery, execution>>
  BY SettledStays
<1>4. DeliveriesRead'
  <2>1. ASSUME reader.op \in {"executions", "events", "answer"}, Settled(reader.deliveries)
        PROVE  delivery' = reader.deliveries
    <3>1. delivery = reader.deliveries
      BY <2>1 DEF DeliveriesRead
    <3> QED
      BY <1>3, <2>1, <3>1
  <2>2. ASSUME reader.op \in {"executions", "events", "answer"}, NEW d \in Deliveries
        PROVE  /\ reader.deliveries[d] \in TerminalDeliveries => delivery'[d] = reader.deliveries[d]
               /\ reader.deliveries[d] = "leased" => execution'[d] # "none"
    BY <1>2, <2>2 DEF DeliveriesRead
  <2> QED
    BY <1>1, <2>1, <2>2 DEF DeliveriesRead, Settled
<1>5. ExecutionsRead'
  <2>1. ASSUME reader.op \in {"events", "answer"}, Settled(reader.deliveries)
        PROVE  execution' = reader.executions
    <3>1. delivery = reader.deliveries /\ execution = reader.executions
      BY <2>1 DEF DeliveriesRead, ExecutionsRead
    <3> QED
      BY <1>3, <2>1, <3>1
  <2>2. ASSUME reader.op \in {"events", "answer"}, NEW d \in Deliveries, reader.executions[d] = "completed"
        PROVE  execution'[d] = "completed" /\ (reader.op = "answer" => published'[d] \in reader.events)
    BY <1>2, <2>2 DEF ExecutionsRead
  <2> QED
    BY <1>1, <2>1, <2>2 DEF ExecutionsRead, Settled
<1> QED
  BY <1>4, <1>5

LEMMA AnswerOfReads ==
  ASSUME WritersInv, ClientInv, AnswerInv, Read
  PROVE  AnswerInv'
<1> USE DEF AnswerInv
<1>1. UNCHANGED <<delivery, execution, published, events>>
  BY ReadsKeepRows DEF database
<1>2. ASSUME reader'.op \notin {"executions", "events", "answer"} PROVE AnswerInv'
  BY <1>2 DEF DeliveriesRead, ExecutionsRead
<1>3. ASSUME ReadDeliveries PROVE AnswerInv'
  <2>1. reader'.op = "executions" /\ reader'.deliveries = delivery
    BY <1>3 DEF ReadDeliveries
  <2>2. \A d \in Deliveries : delivery[d] = "leased" => execution[d] # "none"
    BY DEF WritersInv, RowsAgree
  <2> QED
    BY <1>1, <2>1, <2>2 DEF DeliveriesRead, ExecutionsRead
<1>4. ASSUME ReadExecutions PROVE AnswerInv'
  <2>1. /\ reader.op = "executions" /\ reader'.op = "events"
        /\ reader'.deliveries = reader.deliveries /\ reader'.executions = execution
    BY <1>4 DEF ReadExecutions
  <2>2. DeliveriesRead'
    BY <1>1, <2>1 DEF DeliveriesRead, Settled
  <2>3. ASSUME NEW d \in Deliveries
        PROVE  /\ reader.deliveries[d] = "leased" => execution[d] # "none"
               /\ reader.deliveries[d] = "completed" => execution[d] = "completed"
               /\ reader.deliveries[d] = "dead_lettered" => execution[d] = "failed"
    BY <2>1 DEF DeliveriesRead, TerminalDeliveries, WritersInv, RowsAgree
  <2> QED
    BY <1>1, <2>1, <2>2, <2>3 DEF ExecutionsRead
<1>5. ASSUME ReadEvents PROVE AnswerInv'
  <2>1. /\ reader.op = "events" /\ reader'.op = "answer" /\ reader'.deliveries = reader.deliveries
        /\ reader'.executions = reader.executions /\ reader'.events = events
    BY <1>5 DEF ReadEvents
  <2>2. DeliveriesRead'
    BY <1>1, <2>1 DEF DeliveriesRead, Settled
  <2>3. \A d \in Deliveries : execution[d] = "completed" => published[d] \in events
    BY DEF WritersInv, RowsAgree
  <2> QED
    BY <1>1, <2>1, <2>2, <2>3 DEF ExecutionsRead, Settled
<1>6. ASSUME NEW list \in Lists, StartPass(list) PROVE AnswerInv'
  <2>1. reader'.op = "page"
    BY <1>6 DEF StartPass
  <2> QED
    BY <1>2, <2>1
<1>7. ASSUME NEW list \in Lists, Page(list) PROVE AnswerInv'
  <2>1. reader \in Passes
    BY <1>7 DEF Page, ClientInv, ClientTypes, Answers, Passes, Idle
  <2>2. reader'.op \in {"page", "end"}
    BY <1>7, <2>1 DEF Page, Received, Passes
  <2> QED
    BY <1>2, <2>2
<1>8. ASSUME ReadAlerts PROVE AnswerInv'
  <2>1. reader \in Passes
    BY <1>8 DEF ReadAlerts, ClientInv, ClientTypes, Answers, Passes, Idle
  <2>2. reader'.op = "project"
    BY <1>8, <2>1 DEF ReadAlerts, Passes
  <2> QED
    BY <1>2, <2>2
<1>9. ASSUME PageOfAlerts PROVE AnswerInv'
  <2>1. reader \in Passes
    BY <1>9 DEF PageOfAlerts, ClientInv, ClientTypes, Answers, Passes, Idle
  <2>2. CASE reader' = Idle
    BY <1>2, <2>2 DEF Idle
  <2>3. CASE reader' # Idle
    <3>1. \E items, cursor : \E more \in BOOLEAN : Received(items, Projected, more, cursor)
      BY <1>9, <2>3 DEF PageOfAlerts
    <3>2. reader'.op \in {"page", "end"}
      BY <3>1, <2>1 DEF Received, Passes
    <3> QED
      BY <1>2, <3>2
  <2> QED
    BY <2>2, <2>3
<1>10. ASSUME Forget PROVE AnswerInv'
  BY <1>2, <1>10 DEF Forget, Idle
<1> QED
  BY <1>3, <1>4, <1>5, <1>6, <1>7, <1>8, <1>9, <1>10 DEF Read

LEMMA AnswerStep == WritersInv /\ ClientInv /\ AnswerInv /\ [Next]_vars => AnswerInv'
<1> SUFFICES ASSUME WritersInv, ClientInv, AnswerInv, [Next]_vars PROVE AnswerInv'
  OBVIOUS
<1>1. CASE Next
  BY <1>1, NextCases, AnswerOfWrites, AnswerOfReads
<1>2. CASE UNCHANGED vars
  BY <1>2 DEF vars, database, client, AnswerInv, DeliveriesRead, ExecutionsRead, Settled
<1> QED
  BY <1>1, <1>2

LEMMA AnswersAlways == Spec => []AnswerInv
<1>1. Init => AnswerInv
  BY DEF Init, Idle, AnswerInv, DeliveriesRead, ExecutionsRead
<1> QED
  BY <1>1, InitWriters, InitClient, WritersStep, ClientStep, AnswerStep, PTL DEF Spec

\* A terminal status is computed from terminal deliveries.
LEMMA TerminalStatusIsSettled ==
  ASSUME NEW deliveries \in [Deliveries -> DeliveryStatuses], NEW executions,
         RunStatus(deliveries, executions) \in TerminalStatuses
  PROVE  Settled(deliveries)
<1> DEFINE Some(statuses, rows) ==
             \E d \in Deliveries : deliveries[d] # "none" /\ rows[d] \in statuses
<1>1. ~Some({"ready", "leased"}, deliveries)
  <2> SUFFICES ASSUME Some({"ready", "leased"}, deliveries) PROVE FALSE
    OBVIOUS
  <2>1. CASE Some({"running"}, executions)
    <3>1. RunStatus(deliveries, executions) = "running"
      BY <2>1 DEF RunStatus
    <3> QED
      BY <3>1 DEF TerminalStatuses
  <2>2. CASE ~Some({"running"}, executions)
    <3>1. RunStatus(deliveries, executions) = "queued"
      BY <2>2 DEF RunStatus
    <3> QED
      BY <3>1 DEF TerminalStatuses
  <2> QED
    BY <2>1, <2>2
<1> QED
  BY <1>1 DEF Settled, DeliveryStatuses, TerminalDeliveries

\* An answer put together from statements (getRunStatus, getRunTopology and
\* inspectRunTrace of RunScopedOperatorQueryService) lacks the delivery of an
\* execution only when it shows that the run goes on, lacks nothing else that its
\* parts presuppose, and is final when its status is.
THEOREM AnswersShowTheirLag == Spec => []AnswersLagOnlyWhileOpen
<1>1. WritersInv /\ ClientInv /\ AnswerInv => AnswersLagOnlyWhileOpen
  <2> SUFFICES ASSUME WritersInv, ClientInv, AnswerInv, reader.op = "answer"
               PROVE  /\ StatusAnswer \in TerminalStatuses => StatusAnswer = RunStatus(delivery, execution)
                      /\ (\E d \in Deliveries : Missing(d)) =>
                           \E c \in Deliveries : reader.deliveries[c] \in {"ready", "leased"}
                      /\ \A d \in Deliveries :
                           /\ reader.deliveries[d] \in {"leased", "completed", "dead_lettered"} =>
                                <<"execution_delivery", d>> \in TopologyAnswer
                           /\ reader.deliveries[d] = "completed" => reader.executions[d] = "completed"
                           /\ reader.deliveries[d] = "dead_lettered" => reader.executions[d] = "failed"
                           /\ reader.executions[d] = "completed" => published[d] \in reader.events
    BY DEF AnswersLagOnlyWhileOpen
  <2> DEFINE open == \E c \in Deliveries : reader.deliveries[c] \in {"ready", "leased"}
  <2>1. ASSUME StatusAnswer \in TerminalStatuses
        PROVE  StatusAnswer = RunStatus(delivery, execution)
    <3>1. reader.deliveries \in [Deliveries -> DeliveryStatuses]
      BY DEF ClientInv, ClientTypes, Answers, Passes, Idle
    <3>2. Settled(reader.deliveries)
      BY <2>1, <3>1, TerminalStatusIsSettled DEF StatusAnswer
    <3>3. delivery = reader.deliveries /\ execution = reader.executions
      BY <3>2 DEF AnswerInv, DeliveriesRead, ExecutionsRead
    <3> QED
      BY <3>3 DEF StatusAnswer
  <2>2. ASSUME NEW d \in Deliveries,
               reader.deliveries[d] \in {"leased", "completed", "dead_lettered"}
        PROVE  <<"execution_delivery", d>> \in TopologyAnswer
    <3>1. reader.executions[d] # "none"
      BY <2>2 DEF AnswerInv, ExecutionsRead
    <3> QED
      BY <3>1 DEF TopologyAnswer, Relations
  <2>3. \A d \in Deliveries :
          /\ reader.deliveries[d] = "completed" => reader.executions[d] = "completed"
          /\ reader.deliveries[d] = "dead_lettered" => reader.executions[d] = "failed"
          /\ reader.executions[d] = "completed" => published[d] \in reader.events
    BY DEF AnswerInv, ExecutionsRead
  \* When nothing is open in the answer, nothing is routed after its first statement.
  <2>4. ASSUME ~open, NEW d \in Deliveries
        PROVE  ~Missing(d)
    <3>1. reader.deliveries \in [Deliveries -> DeliveryStatuses]
      BY DEF ClientInv, ClientTypes, Answers, Passes, Idle
    <3>2. Settled(reader.deliveries)
      BY <2>4, <3>1 DEF Settled, DeliveryStatuses, TerminalDeliveries
    <3>3. delivery = reader.deliveries /\ execution = reader.executions
      BY <3>2 DEF AnswerInv, DeliveriesRead, ExecutionsRead
    <3>4. delivery[d] = "none" => execution[d] = "none"
      BY DEF WritersInv, RowsAgree
    <3>. QED
      BY <3>3, <3>4 DEF Missing, TopologyAnswer, Relations
  <2> QED
    BY <2>1, <2>2, <2>3, <2>4
<1> QED
  BY <1>1, WritersAlways, ClientAlways, AnswersAlways, PTL
=============================================================================
