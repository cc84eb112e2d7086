--------------------------- MODULE ExternalActions --------------------------
(***************************************************************************)
(* Writes to the outside: an approval is decided, an authorized action is  *)
(* dispatched to the provider once, and an action whose outcome is not     *)
(* known is reconciled, that is, looked up at the provider.  Each call of  *)
(* ExternalActionService is a sequence of transactions with requests to    *)
(* the provider between them; calls run beside each other and may end at   *)
(* any point by an error or a crash.                                       *)
(*                                                                         *)
(* The provider is GitHub behind GitHubDraftPullRequestAdapter: dispatch   *)
(* looks for an open draft that carries the idempotency key and asks for a *)
(* new one if there is none; reconcile only looks.  A request to create a  *)
(* draft may be executed long after its sender has given up.  A provider   *)
(* is not assumed to refuse a second draft.  Actions are numbered by age.  *)
(***************************************************************************)
EXTENDS Integers, FiniteSets

CONSTANTS
  Action,       \* external actions, numbered by created_at and id
  Approval,     \* approvals
  NoApproval,   \* a null approval_id
  ApprovalOf,   \* Action -> the approval it waits for
  Caller,       \* concurrent calls of the service
  NetworkLimit, \* the region's budget of network_calls, or Unbudgeted
  Batch         \* actions a run of reconcilePending looks at

Unbudgeted == -1

ASSUME ExternalActionAssumption ==
  /\ Action \subseteq Nat /\ IsFiniteSet(Action)
  /\ NoApproval \notin Approval
  /\ ApprovalOf \in [Action -> Approval \cup {NoApproval}]
  /\ NetworkLimit \in Nat \cup {Unbudgeted}
  /\ Batch \in Nat \ {0}

VARIABLES
  approval, \* approvals.status
  status,   \* external_actions.status
  attempt,  \* number and status of an action's last attempt
  resv,     \* status of the action's reservation of a network call
  ledger,   \* actions with a row of usage in resource_ledger
  current,  \* the region runs in the epoch of the executions
  call,     \* what each caller is doing
  pending,  \* actions its run of reconcilePending has still to visit
  wire,     \* requests to create a draft that the provider may yet execute
  drafts,   \* drafts the provider has created for an action
  open      \* actions that have an open draft

vars == <<approval, status, attempt, resv, ledger, current, call, pending, wire, drafts, open>>
database == <<approval, status, attempt, resv, ledger, current>>
provider == <<wire, drafts, open>>

ApprovalStatus == {"requested", "approved", "denied"}
UncertainStatus == {"dispatching", "indeterminate", "acknowledged"}
FinalStatus == {"reconciled", "failed", "denied", "cancelled"}
ActionStatus == {"awaiting_approval", "authorized"} \cup UncertainStatus \cup FinalStatus
AttemptStatus == {"none", "dispatching", "acknowledged", "failed", "indeterminate"}
AttemptRow == [number : Nat, status : AttemptStatus]

\* The next thing a call does: look for a draft and create it, wait for the
\* new draft, look for it to reconcile, record an answer, settle the budget.
Idle == [step |-> "idle"]
CallState ==
  {Idle}
    \cup [step : {"dispatch", "create", "reconcile", "settle"}, action : Action]
    \cup [step : {"record"}, action : Action,
          answer : {"acknowledged", "reconciled", "failed", "indeterminate"}]

TypeOK ==
  /\ approval \in [Approval -> ApprovalStatus]
  /\ status \in [Action -> ActionStatus]
  /\ attempt \in [Action -> AttemptRow]
  /\ resv \in [Action -> {"none", "reserved", "reconciled"}]
  /\ ledger \subseteq Action
  /\ current \in BOOLEAN
  /\ call \in [Caller -> CallState]
  /\ pending \in [Caller -> SUBSET Action]
  /\ wire \subseteq Action
  /\ drafts \in [Action -> Nat]
  /\ open \subseteq Action

Uncertain == {a \in Action : status[a] \in UncertainStatus}

-----------------------------------------------------------------------------
(* Approvals and authority.                                                *)

ActionsOf(p) == {a \in Action : ApprovalOf[a] = p}

\* Mutant: the actions are left as they are.
Decide_OnlyApproval(p, verdict) ==
  /\ approval[p] = "requested"
  /\ \A a \in ActionsOf(p) : status[a] = "awaiting_approval"
  /\ approval' = [approval EXCEPT ![p] = verdict]
  /\ UNCHANGED <<status, attempt, resv, ledger, current, call, pending, provider>>

\* An operator approves or denies; a repeated or late decision changes nothing.
Decide(p, verdict) ==
  /\ approval[p] = "requested"
  /\ \A a \in ActionsOf(p) : status[a] = "awaiting_approval"
  /\ approval' = [approval EXCEPT ![p] = verdict]
  /\ status' = [a \in Action |->
       IF a \notin ActionsOf(p) THEN status[a]
       ELSE IF verdict = "approved" THEN "authorized" ELSE "denied"]
  /\ UNCHANGED <<attempt, resv, ledger, current, call, pending, provider>>

\* The region is cancelled.
LoseAuthority ==
  /\ current
  /\ current' = FALSE
  /\ UNCHANGED <<approval, status, attempt, resv, ledger, call, pending, provider>>

-----------------------------------------------------------------------------
(* Dispatch.                                                               *)

Free(c) == call[c] = Idle /\ pending[c] = {}
Reserved == {a \in Action : resv[a] = "reserved"}

\* The budget has a call left.  Once the ledger has a row, its sum no longer
\* converts to an integer and the reservation throws (see ResourceAdmission).
Admits(a) ==
  \/ NetworkLimit = Unbudgeted
  \/ resv[a] # "none"
  \/ ledger = {} /\ Cardinality(Reserved) + 1 <= NetworkLimit

\* Mutant: stale authority is looked at before the status.
CancelStale_Uncertain(c, a) ==
  /\ Free(c)
  /\ status[a] \in {"authorized"} \cup UncertainStatus
  /\ ~current
  /\ status' = [status EXCEPT ![a] = "cancelled"]
  /\ UNCHANGED <<approval, attempt, resv, ledger, current, call, pending, provider>>

\* prepareDispatch finds that the region has moved on.
CancelStale(c, a) ==
  /\ Free(c)
  /\ status[a] = "authorized"
  /\ ~current
  /\ status' = [status EXCEPT ![a] = "cancelled"]
  /\ UNCHANGED <<approval, attempt, resv, ledger, current, call, pending, provider>>

\* Mutant: an indeterminate action is tried again without reconciliation.
MayDispatch_Again(a) == status[a] \in {"authorized", "indeterminate"}
MayDispatch(a) == status[a] = "authorized"

\* prepareDispatch reserves the call, inserts an attempt and marks the action.
\* Without a reservation it changes nothing.
PrepareDispatch(c, a) ==
  /\ Free(c)
  /\ MayDispatch(a) /\ current /\ Admits(a)
  /\ resv' = [resv EXCEPT ![a] = IF NetworkLimit # Unbudgeted /\ @ = "none" THEN "reserved" ELSE @]
  /\ attempt' = [attempt EXCEPT ![a] = [number |-> @.number + 1, status |-> "dispatching"]]
  /\ status' = [status EXCEPT ![a] = "dispatching"]
  /\ call' = [call EXCEPT ![c] = [step |-> "dispatch", action |-> a]]
  /\ UNCHANGED <<approval, ledger, current, pending, provider>>

Answered(c, answer) ==
  call' = [call EXCEPT ![c] = [step |-> "record", action |-> @.action, answer |-> answer]]

\* A lookup that is refused or that the adapter may not make fails; one that
\* breaks off is indeterminate.
LookupAnswers(a) ==
  {"failed", "indeterminate"} \cup (IF a \in open THEN {"acknowledged"} ELSE {})

\* The lookup before the request ends the dispatch.
LookupBeforeCreate(c) ==
  /\ call[c].step = "dispatch"
  /\ \E answer \in LookupAnswers(call[c].action) : Answered(c, answer)
  /\ UNCHANGED <<database, pending, provider>>

\* The lookup finds nothing and the request is sent.
SendCreate(c) ==
  /\ call[c].step = "dispatch"
  /\ call[c].action \notin open
  /\ wire' = wire \cup {call[c].action}
  /\ call' = [call EXCEPT ![c].step = "create"]
  /\ UNCHANGED <<database, pending, drafts, open>>

\* The draft was created and its sender hears of it.
CreateAcknowledged(c) ==
  /\ call[c].step = "create"
  /\ call[c].action \notin wire /\ drafts[call[c].action] > 0
  /\ Answered(c, "acknowledged")
  /\ UNCHANGED <<database, pending, provider>>

\* The provider refuses the request for good.
CreateRefused(c) ==
  /\ call[c].step = "create"
  /\ call[c].action \in wire
  /\ wire' = wire \ {call[c].action}
  /\ Answered(c, "failed")
  /\ UNCHANGED <<database, pending, drafts, open>>

\* The connection breaks, or the answer says nothing.
CreateUnknown(c) ==
  /\ call[c].step = "create"
  /\ Answered(c, "indeterminate")
  /\ UNCHANGED <<database, pending, provider>>

-----------------------------------------------------------------------------
(* Reconciliation.                                                         *)

\* reconcile, called for one action.
StartReconcile(c, a) ==
  /\ Free(c)
  /\ a \in Uncertain
  /\ call' = [call EXCEPT ![c] = [step |-> "reconcile", action |-> a]]
  /\ UNCHANGED <<database, pending, provider>>

\* reconcilePending takes the oldest uncertain actions.
ReconcilePending(c) ==
  /\ Free(c)
  /\ pending' = [pending EXCEPT ![c] =
       {a \in Uncertain : Cardinality({b \in Uncertain : b < a}) < Batch}]
  /\ UNCHANGED <<database, call, provider>>

\* It reconciles one after the other; one that is settled by now is passed over.
NextPending(c) ==
  /\ call[c] = Idle
  /\ \E a \in pending[c] :
       /\ \A b \in pending[c] : a <= b
       /\ pending' = [pending EXCEPT ![c] = @ \ {a}]
       /\ call' = IF a \in Uncertain
                  THEN [call EXCEPT ![c] = [step |-> "reconcile", action |-> a]]
                  ELSE call
  /\ UNCHANGED <<database, provider>>

\* Mutant: a lookup that finds nothing counts as an acknowledgement.
ReconcileAnswers_NotFound(a) == {"failed", "indeterminate", "reconciled"}
\* A draft that is found settles the action; none leaves it open.
ReconcileAnswers(a) ==
  {"failed", "indeterminate"} \cup (IF a \in open THEN {"reconciled"} ELSE {})

LookupToReconcile(c) ==
  /\ call[c].step = "reconcile"
  /\ \E answer \in ReconcileAnswers(call[c].action) : Answered(c, answer)
  /\ UNCHANGED <<database, pending, provider>>

-----------------------------------------------------------------------------
(* Answers.                                                                *)

\* A known outcome goes on to settle the reservation.
Continue(c) ==
  call' = [call EXCEPT ![c] =
    IF @.answer = "indeterminate" THEN Idle ELSE [step |-> "settle", action |-> @.action]]

AttemptStatusFor(answer) == IF answer = "reconciled" THEN "acknowledged" ELSE answer

Recordable(a) ==
  /\ status[a] \in UncertainStatus
  /\ attempt[a].status \in {"dispatching", "indeterminate", "acknowledged"}

\* persistResult writes the answer, whichever was recorded before.
RecordAnswer(c) ==
  /\ call[c].step = "record"
  /\ LET a == call[c].action
         answer == call[c].answer
     IN  /\ Recordable(a)
         /\ status' = [status EXCEPT ![a] = answer]
         /\ attempt' = [attempt EXCEPT ![a].status = AttemptStatusFor(answer)]
  /\ Continue(c)
  /\ UNCHANGED <<approval, resv, ledger, current, pending, provider>>

\* A reconciled action is left as it is without an error.
AnswerTooLate(c) ==
  /\ call[c].step = "record"
  /\ status[call[c].action] = "reconciled"
  /\ Continue(c)
  /\ UNCHANGED <<database, pending, provider>>

\* reconcileNetworkReservation: the call becomes usage, once.
Settle(c) ==
  /\ call[c].step = "settle"
  /\ LET a == call[c].action
     IN  IF resv[a] = "none" THEN UNCHANGED <<resv, ledger>>
         ELSE /\ ledger' = ledger \cup {a}
              /\ resv' = [resv EXCEPT ![a] = "reconciled"]
  /\ call' = [call EXCEPT ![c] = Idle]
  /\ UNCHANGED <<approval, status, attempt, current, pending, provider>>

\* An error ends the call, such as the conflict of an answer with another
\* final status, an unexpected one of the adapter, or a crash of the process.
EndCall(c) ==
  /\ ~Free(c)
  /\ call' = [call EXCEPT ![c] = Idle]
  /\ pending' = [pending EXCEPT ![c] = {}]
  /\ UNCHANGED <<database, provider>>

-----------------------------------------------------------------------------
(* The provider.                                                           *)

CreateDraft(a) ==
  /\ a \in wire
  /\ wire' = wire \ {a}
  /\ drafts' = [drafts EXCEPT ![a] = @ + 1]
  /\ open' = open \cup {a}
  /\ UNCHANGED <<database, call, pending>>

\* The request is lost, or refused after its sender has given up.
LoseCreate(a) ==
  /\ a \in wire
  /\ wire' = wire \ {a}
  /\ UNCHANGED <<database, call, pending, drafts, open>>

\* A maintainer marks the draft as ready, merges or closes it.
CloseDraft(a) ==
  /\ a \in open
  /\ open' = open \ {a}
  /\ UNCHANGED <<database, call, pending, wire, drafts>>

-----------------------------------------------------------------------------
\* Actions have been proposed and evaluated: those that need an approval wait
\* for it, the others are authorized.
Init ==
  /\ approval = [p \in Approval |-> "requested"]
  /\ status = [a \in Action |->
       IF ApprovalOf[a] = NoApproval THEN "authorized" ELSE "awaiting_approval"]
  /\ attempt = [a \in Action |-> [number |-> 0, status |-> "none"]]
  /\ resv = [a \in Action |-> "none"]
  /\ ledger = {}
  /\ current = TRUE
  /\ call = [c \in Caller |-> Idle]
  /\ pending = [c \in Caller |-> {}]
  /\ wire = {}
  /\ drafts = [a \in Action |-> 0]
  /\ open = {}

DispatchStep(c) ==
  \/ LookupBeforeCreate(c) \/ SendCreate(c)
  \/ CreateAcknowledged(c) \/ CreateRefused(c) \/ CreateUnknown(c)

AnswerStep(c) == RecordAnswer(c) \/ AnswerTooLate(c) \/ Settle(c)

Next ==
  \/ \E p \in Approval, verdict \in {"approved", "denied"} : Decide(p, verdict)
  \/ LoseAuthority
  \/ \E c \in Caller :
       \/ \E a \in Action : CancelStale(c, a) \/ PrepareDispatch(c, a) \/ StartReconcile(c, a)
       \/ ReconcilePending(c)
       \/ DispatchStep(c) \/ NextPending(c) \/ LookupToReconcile(c) \/ AnswerStep(c)
       \/ EndCall(c)
  \/ \E a \in Action : CreateDraft(a) \/ LoseCreate(a) \/ CloseDraft(a)

Spec == Init /\ [][Next]_vars

-----------------------------------------------------------------------------
(* Safety.                                                                 *)

\* However many dispatches and reconciliations run beside each other, are
\* repeated or die, and however late a request is executed, the provider makes
\* at most one draft for an action.
AtMostOneDraft == \A a \in Action : drafts[a] <= 1

\* An action that was denied or cancelled, or that still waits, has no effect
\* and will have none: nothing was sent for it.
EffectIsTracked ==
  \A a \in Action : a \in wire \/ drafts[a] > 0 =>
    status[a] \in UncertainStatus \cup {"reconciled", "failed"}

\* What is recorded as done has been done, whichever answer came last.
AcknowledgedIsDone ==
  \A a \in Action : status[a] \in {"acknowledged", "reconciled"} => drafts[a] > 0

\* A decision takes all actions of its approval with it, and nothing is
\* dispatched before it or against it.
DecisionIsFollowed ==
  \A a \in Action : ApprovalOf[a] # NoApproval =>
    LET p == ApprovalOf[a]
    IN  /\ approval[p] = "requested" <=> status[a] = "awaiting_approval"
        /\ approval[p] = "denied" <=> status[a] = "denied"

\* The calls made and the calls under way stay within the budget, and none is
\* made without being counted.
CallsWithinBudget ==
  NetworkLimit # Unbudgeted =>
    /\ Cardinality(Reserved \cup ledger) <= NetworkLimit
    /\ \A a \in Action : attempt[a].number > 0 => a \in Reserved \cup ledger

\* A final status is kept: a late answer changes nothing, and nothing is
\* cancelled once it has been settled.
FinalStays == [][\A a \in Action : status[a] \in FinalStatus => status'[a] = status[a]]_vars

\* What the invariants above rest on.  An action that was never dispatched has
\* left no trace; one call at most is dispatching an action, and it has not
\* asked for the draft before; drafts are told of only when they were made; and
\* the ledger has the calls whose reservation is settled.
Undispatched(a) == status[a] \in {"awaiting_approval", "authorized", "denied", "cancelled"}

NoTraceBeforeDispatch ==
  \A a \in Action : Undispatched(a) =>
    /\ attempt[a].number = 0 /\ resv[a] = "none"
    /\ a \notin wire /\ drafts[a] = 0
    /\ \A c \in Caller : call[c] # Idle => call[c].action # a

OneDispatcher ==
  /\ \A c \in Caller : call[c].step = "dispatch" =>
       call[c].action \notin wire /\ drafts[call[c].action] = 0
  /\ \A c, d \in Caller :
       /\ call[c].step \in {"dispatch", "create"} /\ call[d].step \in {"dispatch", "create"}
       /\ call[c].action = call[d].action
       => c = d
  /\ \A a \in wire : drafts[a] = 0

DraftsAreReal ==
  /\ \A a \in open : drafts[a] > 0
  /\ \A c \in Caller :
       call[c].step = "record" /\ call[c].answer \in {"acknowledged", "reconciled"}
         => drafts[call[c].action] > 0

CallsAreCounted ==
  /\ ledger = {a \in Action : resv[a] = "reconciled"}
  /\ NetworkLimit # Unbudgeted => \A a \in Action : Undispatched(a) \/ resv[a] # "none"

InductiveInvariant ==
  /\ TypeOK
  /\ NoTraceBeforeDispatch
  /\ OneDispatcher
  /\ DraftsAreReal
  /\ CallsAreCounted
  /\ AtMostOneDraft
  /\ AcknowledgedIsDone
  /\ DecisionIsFollowed
  /\ CallsWithinBudget

-----------------------------------------------------------------------------
(* What a document says and the code does not do.                          *)

=============================================================================
