-------------------------- MODULE ResourceAdmission -------------------------
(***************************************************************************)
(* Budgets of a tree of regions and the reservations made against them, as *)
(* ResourceAdmissionService keeps them: an execution reserves one unit of  *)
(* concurrent_executions while it runs, an external action one unit of     *)
(* network_calls that becomes usage in the resource ledger.  Applying a    *)
(* system document replaces budgets while reservations are made.           *)
(*                                                                         *)
(* A reservation is two steps, the statement that finds the budgets and    *)
(* the decision under their row locks.  Between them it may have waited    *)
(* for a transaction that retires some of them: under read committed, rows *)
(* that no longer match are dropped and rows inserted meanwhile are not    *)
(* seen.  Every other action is a transaction.  Callers ask for one unit.  *)
(***************************************************************************)
EXTENDS Integers, FiniteSets, Functions

CONSTANTS
  Region,     \* regions of the installation
  RootRegion, \* the root region; the others are its children
  Resource,   \* resource types in use
  Request,    \* idempotency keys of reservations
  ScopeOf,    \* Request -> the region and resource it asks for
  Documents,  \* budgets a document declares: scopes -> limit or Unlimited
  Budget,     \* ids of budget rows
  NoBudget,   \* a null parent_budget_id
  MaxApplies  \* bound on applied documents

Scope == Region \X Resource
Unlimited == -1

ASSUME AdmissionAssumption ==
  /\ RootRegion \in Region
  /\ Resource \subseteq {"concurrent_executions", "network_calls"}
  /\ IsFiniteSet(Request)
  /\ ScopeOf \in [Request -> Scope]
  /\ \A doc \in Documents :
       /\ DOMAIN doc \subseteq Scope
       /\ \A s \in DOMAIN doc : <<RootRegion, s[2]>> \in DOMAIN doc
       /\ doc \in [DOMAIN doc -> Nat \cup {Unlimited}]
  /\ NoBudget \notin Budget
  /\ MaxApplies \in Nat

VARIABLES
  budget,  \* resource_budgets, by id
  charged, \* budgets with a row of the request in resource_reservations
  status,  \* status of those rows, or what has become of a request without
  asking,  \* requests in a transaction that waits for its budgets
  seen,    \* the budgets their statement has found
  ledger,  \* requests with a row in resource_ledger
  applies  \* documents applied so far

admission == <<budget, charged, status, asking, seen, ledger, applies>>

BudgetRow == [scope : Scope, limit : Nat, active : BOOLEAN, parent : Budget \cup {NoBudget}]
Statuses == {"none", "reserved", "released", "reconciled", "unbudgeted", "over"}

AdmissionTypeOK ==
  /\ DOMAIN budget \subseteq Budget
  /\ budget \in [DOMAIN budget -> BudgetRow]
  /\ charged \in [Request -> SUBSET Budget]
  /\ status \in [Request -> Statuses]
  /\ asking \subseteq Request
  /\ seen \in [Request -> SUBSET Budget]
  /\ ledger \subseteq Request
  /\ applies \in 0..MaxApplies

RootScope(s) == <<RootRegion, s[2]>>
\* A scope and the scope of its ancestor for the same resource.
Path(s) == {s, RootScope(s)}

ActiveAt(scopes) == {b \in DOMAIN budget : budget[b].active /\ budget[b].scope \in scopes}

-----------------------------------------------------------------------------
(* Reservations.                                                           *)

ReservedFrom(b) == {r \in Request : status[r] = "reserved" /\ b \in charged[r]}

Consumed(b) == {r \in ledger : budget[b].scope \in Path(ScopeOf[r])}

\* Mutant: the unit asked for is not counted.
Denies_OffByOne(b) ==
  Cardinality(Consumed(b)) + Cardinality(ReservedFrom(b)) > budget[b].limit
Denies(b) ==
  Cardinality(Consumed(b)) + Cardinality(ReservedFrom(b)) + 1 > budget[b].limit

\* The sum of numeric(38,12) quantities reads "1.000000000000", and BigInt
\* throws on a fraction; without any row the sum reads "0".
Breaks(b) == Consumed(b) # {}

\* Budgets are examined from the region upwards, to the first that denies.
Below(b, c) == budget[b].scope # RootScope(budget[b].scope) /\ budget[c].scope = RootScope(budget[b].scope)
Throws(B) == \E b \in B : Breaks(b) /\ \A c \in B : Below(c, b) => ~Denies(c)

\* The statement that finds the budgets, after that for earlier reservations
\* of the key, which would be answered at once.  An execution admitted
\* without a reservation asks again for each retry.
Ask(r) ==
  /\ applies > 0
  /\ r \notin asking
  /\ status[r] = "none" \/ (status[r] = "unbudgeted" /\ ScopeOf[r][2] = "concurrent_executions")
  /\ asking' = asking \cup {r}
  /\ seen' = [seen EXCEPT ![r] = ActiveAt(Path(ScopeOf[r]))]
  /\ UNCHANGED <<budget, charged, status, ledger, applies>>

\* The rows the statement returns once it has all their locks.
Locked(r) == {b \in seen[r] : budget[b].active}

Decided(r) ==
  /\ r \in asking
  /\ asking' = asking \ {r}
  /\ seen' = [seen EXCEPT ![r] = {}]

Reserve(r) ==
  /\ Decided(r)
  /\ Locked(r) # {}
  /\ ~Throws(Locked(r)) /\ \A b \in Locked(r) : ~Denies(b)
  /\ charged' = [charged EXCEPT ![r] = Locked(r)]
  /\ status' = [status EXCEPT ![r] = "reserved"]
  /\ UNCHANGED <<budget, ledger, applies>>

\* No applicable budget: a decision is recorded, but no reservation.
AdmitUnbudgeted(r) ==
  /\ Decided(r)
  /\ Locked(r) = {}
  /\ status' = [status EXCEPT ![r] = "unbudgeted"]
  /\ UNCHANGED <<budget, charged, ledger, applies>>

\* Deferred by a budget, or rolled back by an error: nothing is reserved.
Refuse(r) ==
  /\ Decided(r)
  /\ Throws(Locked(r)) \/ \E b \in Locked(r) : Denies(b)
  /\ UNCHANGED <<budget, charged, status, ledger, applies>>

\* An execution ends; the trigger releases what it has reserved.
Release(r) ==
  /\ r \notin asking
  /\ status[r] \in {"reserved", "unbudgeted"}
  /\ ScopeOf[r][2] = "concurrent_executions"
  /\ status' = [status EXCEPT ![r] = IF @ = "reserved" THEN "released" ELSE "over"]
  /\ UNCHANGED <<budget, charged, asking, seen, ledger, applies>>

\* An external action has its answer: its reservation becomes usage.
Reconcile(r) ==
  /\ status[r] = "reserved"
  /\ ScopeOf[r][2] = "network_calls"
  /\ status' = [status EXCEPT ![r] = "reconciled"]
  /\ ledger' = ledger \cup {r}
  /\ UNCHANGED <<budget, charged, asking, seen, applies>>

-----------------------------------------------------------------------------
(* Configuration.  A document names regions, the root first.               *)

Limited(doc) == {s \in DOMAIN doc : doc[s] # Unlimited}

\* The budget a new or kept row of scope s is linked to, where row is the
\* active budget of each limited scope after the change.
ParentRow(doc, row, s) ==
  IF s # RootScope(s) /\ RootScope(s) \in Limited(doc) THEN row[RootScope(s)] ELSE NoBudget

Kept(doc, row, s) ==
  {b \in ActiveAt({s}) : budget[b].limit = doc[s] /\ budget[b].parent = ParentRow(doc, row, s)}

Chosen(doc, row) ==
  \A s \in Limited(doc) :
    IF Kept(doc, row, s) # {} THEN row[s] \in Kept(doc, row, s) ELSE row[s] \notin DOMAIN budget

\* Mutant: the replaced rows stay active.
WithRows_KeepsReplaced(doc, row) ==
  LET scope == AntiFunction(row)
  IN  [b \in DOMAIN budget \cup Range(row) |->
         IF b \in DOMAIN budget THEN budget[b]
         ELSE [scope |-> scope[b], limit |-> doc[scope[b]], active |-> TRUE,
               parent |-> ParentRow(doc, row, scope[b])]]

\* Rows of the document's scopes that are not kept are retired.
WithRows(doc, row) ==
  LET scope == AntiFunction(row)
  IN  [b \in DOMAIN budget \cup Range(row) |->
         IF b \in DOMAIN budget
         THEN [budget[b] EXCEPT !.active = @ /\ (budget[b].scope \in DOMAIN doc => b \in Range(row))]
         ELSE [scope |-> scope[b], limit |-> doc[scope[b]], active |-> TRUE,
               parent |-> ParentRow(doc, row, scope[b])]]

\* A child limit above its parent's throws and rolls the document back.
Apply(doc) ==
  /\ applies < MaxApplies
  /\ \A s \in Limited(doc) : RootScope(s) \in Limited(doc) => doc[s] <= doc[RootScope(s)]
  /\ \E row \in Injection(Limited(doc), Budget) :
       /\ Chosen(doc, row)
       /\ budget' = WithRows(doc, row)
  /\ applies' = applies + 1
  /\ UNCHANGED <<charged, status, asking, seen, ledger>>

-----------------------------------------------------------------------------
AdmissionInit ==
  /\ budget = <<>>
  /\ charged = [r \in Request |-> {}]
  /\ status = [r \in Request |-> "none"]
  /\ asking = {}
  /\ seen = [r \in Request |-> {}]
  /\ ledger = {}
  /\ applies = 0

AdmissionNext ==
  \/ \E r \in Request :
       Ask(r) \/ Reserve(r) \/ AdmitUnbudgeted(r) \/ Refuse(r) \/ Release(r) \/ Reconcile(r)
  \/ \E doc \in Documents : Apply(doc)

AdmissionSpec == AdmissionInit /\ [][AdmissionNext]_admission

-----------------------------------------------------------------------------
(* Safety.                                                                 *)

Charges(b) == {r \in Request : status[r] \in {"reserved", "reconciled"} /\ b \in charged[r]}

\* What has been reserved from a budget row or used up of it never exceeds its
\* limit, whoever asked, in whichever region, and whatever was waiting.
UnitsConserved == \A b \in DOMAIN budget : Cardinality(Charges(b)) <= budget[b].limit

\* At most one budget is active for a region and resource, and a child's is
\* linked to one of the root that was at least as large.
BudgetTree ==
  /\ \A b, c \in DOMAIN budget :
       budget[b].active /\ budget[c].active /\ budget[b].scope = budget[c].scope => b = c
  /\ \A b \in DOMAIN budget : budget[b].parent # NoBudget =>
       /\ budget[b].parent \in DOMAIN budget
       /\ Below(b, budget[b].parent)
       /\ budget[b].limit <= budget[budget[b].parent].limit

\* What these rest on.  Rows found and rows charged exist and belong to the
\* request's scope or to that of its ancestor, and what is reconciled is usage.
ChargesFollowThePath ==
  \A r \in Request : \A b \in charged[r] \cup seen[r] :
    b \in DOMAIN budget /\ budget[b].scope \in Path(ScopeOf[r])

UsageIsRecorded == \A r \in Request : status[r] = "reconciled" => r \in ledger

AdmissionInvariant ==
  /\ AdmissionTypeOK
  /\ ChargesFollowThePath
  /\ UsageIsRecorded
  /\ UnitsConserved
  /\ BudgetTree

Live(s) ==
  {r \in Request : status[r] \in {"reserved", "unbudgeted"} /\ (ScopeOf[r] = s \/ RootScope(ScopeOf[r]) = s)}

\* A budget that has been replaced is not charged any more, even by a request
\* that found it before and waited for the document that replaced it.
ReplacedBudgetsAreNotCharged ==
  [][\A r \in Request : \A b \in charged'[r] \ charged[r] : budget[b].active]_admission

-----------------------------------------------------------------------------
(* What tests say and the code does not do.                                *)

=============================================================================
