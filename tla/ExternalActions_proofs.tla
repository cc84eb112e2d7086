----------------------- MODULE ExternalActions_proofs -----------------------
(* The inductive invariant of ExternalActions, and what follows from it.   *)
EXTENDS ExternalActions, FiniteSetTheorems, TLAPS

\* The steps of Next, one by one, for a proof to split on.
StepCases ==
  \/ \E p \in Approval, verdict \in {"approved", "denied"} : Decide(p, verdict)
  \/ LoseAuthority
  \/ \E c \in Caller, a \in Action : CancelStale(c, a)
  \/ \E c \in Caller, a \in Action : PrepareDispatch(c, a)
  \/ \E c \in Caller, a \in Action : StartReconcile(c, a)
  \/ \E c \in Caller : ReconcilePending(c)
  \/ \E c \in Caller : LookupBeforeCreate(c)
  \/ \E c \in Caller : SendCreate(c)
  \/ \E c \in Caller : CreateAcknowledged(c)
  \/ \E c \in Caller : CreateRefused(c)
  \/ \E c \in Caller : CreateUnknown(c)
  \/ \E c \in Caller : NextPending(c)
  \/ \E c \in Caller : LookupToReconcile(c)
  \/ \E c \in Caller : RecordAnswer(c)
  \/ \E c \in Caller : AnswerTooLate(c)
  \/ \E c \in Caller : Settle(c)
  \/ \E c \in Caller : EndCall(c)
  \/ \E a \in Action : CreateDraft(a)
  \/ \E a \in Action : LoseCreate(a)
  \/ \E a \in Action : CloseDraft(a)

LEMMA NextCases == Next => StepCases
BY DEF Next, StepCases, DispatchStep, AnswerStep

\* A call that is under way names an action.
LEMMA CallParts ==
  ASSUME TypeOK, NEW c \in Caller
  PROVE  /\ call[c] \in CallState
         /\ call[c].step # "idle" => call[c] # Idle /\ call[c].action \in Action
         /\ call[c].step = "record" =>
              call[c].answer \in {"acknowledged", "reconciled", "failed", "indeterminate"}
         /\ call[c] # Idle => call[c].step # "idle"
<1>1. call[c] \in CallState
  BY DEF TypeOK
<1> QED
  BY <1>1 DEF CallState, Idle

-----------------------------------------------------------------------------
(* Types.                                                                  *)

LEMMA AnswerTyped ==
  ASSUME TypeOK, NEW c \in Caller, call[c].step # "idle",
         NEW answer \in {"acknowledged", "reconciled", "failed", "indeterminate"},
         Answered(c, answer)
  PROVE  /\ call' \in [Caller -> CallState]
         /\ call'[c] = [step |-> "record", action |-> call[c].action, answer |-> answer]
         /\ \A d \in Caller \ {c} : call'[d] = call[d]
<1>1. call[c].action \in Action
  BY CallParts
<1>2. call' = [call EXCEPT ![c] = [step |-> "record", action |-> call[c].action, answer |-> answer]]
  BY DEF Answered
<1>3. [step |-> "record", action |-> call[c].action, answer |-> answer] \in CallState
  BY <1>1 DEF CallState
<1> QED
  BY <1>2, <1>3 DEF TypeOK

LEMMA ContinueTyped ==
  ASSUME TypeOK, NEW c \in Caller, call[c].step = "record", Continue(c)
  PROVE  /\ call' \in [Caller -> CallState]
         /\ call'[c] = Idle \/ call'[c] = [step |-> "settle", action |-> call[c].action]
         /\ \A d \in Caller \ {c} : call'[d] = call[d]
<1>1. call[c].action \in Action
  BY CallParts
<1>2. [step |-> "settle", action |-> call[c].action] \in CallState /\ Idle \in CallState
  BY <1>1 DEF CallState
<1> QED
  BY <1>2 DEF TypeOK, Continue

LEMMA TypeInvariant ==
  ASSUME TypeOK, Next
  PROVE  TypeOK'
<1>1. ASSUME NEW p \in Approval, NEW verdict \in {"approved", "denied"}, Decide(p, verdict)
      PROVE  TypeOK'
  <2>1. approval' \in [Approval -> ApprovalStatus]
    BY <1>1 DEF Decide, TypeOK, ApprovalStatus
  <2>2. status' \in [Action -> ActionStatus]
    BY <1>1 DEF Decide, TypeOK, ActionStatus, FinalStatus
  <2> QED
    BY <1>1, <2>1, <2>2 DEF Decide, provider, TypeOK
<1>2. CASE LoseAuthority
  <2>1. current' \in BOOLEAN
    BY <1>2 DEF LoseAuthority
  <2> QED
    BY <1>2, <2>1 DEF LoseAuthority, provider, TypeOK
<1>3. ASSUME NEW c \in Caller, NEW a \in Action, CancelStale(c, a) PROVE TypeOK'
  BY <1>3 DEF CancelStale, provider, TypeOK, ActionStatus, FinalStatus
<1>4. ASSUME NEW c \in Caller, NEW a \in Action, PrepareDispatch(c, a) PROVE TypeOK'
  <2>1. [step |-> "dispatch", action |-> a] \in CallState
    BY DEF CallState
  <2>2. call' \in [Caller -> CallState]
    BY <1>4, <2>1 DEF PrepareDispatch, TypeOK
  <2>3. attempt' \in [Action -> AttemptRow]
    BY <1>4 DEF PrepareDispatch, TypeOK, AttemptRow, AttemptStatus
  <2>4. resv' \in [Action -> {"none", "reserved", "reconciled"}]
    BY <1>4 DEF PrepareDispatch, TypeOK
  <2>5. status' \in [Action -> ActionStatus]
    BY <1>4 DEF PrepareDispatch, TypeOK, ActionStatus, UncertainStatus
  <2> QED
    BY <1>4, <2>2, <2>3, <2>4, <2>5 DEF PrepareDispatch, provider, TypeOK
<1>5. ASSUME NEW c \in Caller, NEW a \in Action, StartReconcile(c, a) PROVE TypeOK'
  <2>1. [step |-> "reconcile", action |-> a] \in CallState
    BY DEF CallState
  <2> QED
    BY <1>5, <2>1 DEF StartReconcile, database, provider, TypeOK
<1>6. ASSUME NEW c \in Caller, ReconcilePending(c) PROVE TypeOK'
  BY <1>6 DEF ReconcilePending, Uncertain, database, provider, TypeOK
<1>7. ASSUME NEW c \in Caller, LookupBeforeCreate(c) PROVE TypeOK'
  BY <1>7, CallParts, AnswerTyped DEF LookupBeforeCreate, LookupAnswers, database, provider, TypeOK
<1>8. ASSUME NEW c \in Caller, SendCreate(c) PROVE TypeOK'
  <2>1. call[c].action \in Action /\ call[c] = [step |-> "dispatch", action |-> call[c].action]
    BY <1>8, CallParts DEF SendCreate, CallState, Idle
  <2>2. [call[c] EXCEPT !.step = "create"] = [step |-> "create", action |-> call[c].action]
    BY <2>1
  <2>3. [call[c] EXCEPT !.step = "create"] \in CallState
    BY <2>1, <2>2 DEF CallState
  <2> QED
    BY <1>8, <2>1, <2>3 DEF SendCreate, database, TypeOK
<1>9. ASSUME NEW c \in Caller, CreateAcknowledged(c) PROVE TypeOK'
  BY <1>9, CallParts, AnswerTyped DEF CreateAcknowledged, database, provider, TypeOK
<1>10. ASSUME NEW c \in Caller, CreateRefused(c) PROVE TypeOK'
  BY <1>10, CallParts, AnswerTyped DEF CreateRefused, database, provider, TypeOK
<1>11. ASSUME NEW c \in Caller, CreateUnknown(c) PROVE TypeOK'
  BY <1>11, CallParts, AnswerTyped DEF CreateUnknown, database, provider, TypeOK
<1>12. ASSUME NEW c \in Caller, NextPending(c) PROVE TypeOK'
  <2>1. PICK a \in pending[c] :
          /\ pending' = [pending EXCEPT ![c] = @ \ {a}]
          /\ call' = IF a \in Uncertain
                     THEN [call EXCEPT ![c] = [step |-> "reconcile", action |-> a]]
                     ELSE call
    BY <1>12 DEF NextPending
  <2>2. a \in Action
    BY <2>1 DEF TypeOK
  <2>3. [step |-> "reconcile", action |-> a] \in CallState
    BY <2>2 DEF CallState
  <2>4. call' \in [Caller -> CallState]
    BY <2>1, <2>3 DEF TypeOK
  <2>5. pending' \in [Caller -> SUBSET Action]
    BY <2>1 DEF TypeOK
  <2> QED
    BY <1>12, <2>4, <2>5 DEF NextPending, database, provider, TypeOK
<1>13. ASSUME NEW c \in Caller, LookupToReconcile(c) PROVE TypeOK'
  BY <1>13, CallParts, AnswerTyped DEF LookupToReconcile, ReconcileAnswers, database, provider, TypeOK
<1>14. ASSUME NEW c \in Caller, RecordAnswer(c) PROVE TypeOK'
  <2>1. /\ call[c].action \in Action
        /\ call[c].answer \in {"acknowledged", "reconciled", "failed", "indeterminate"}
    BY <1>14, CallParts DEF RecordAnswer
  <2>2. call' \in [Caller -> CallState]
    BY <1>14, ContinueTyped DEF RecordAnswer
  <2>3. status' \in [Action -> ActionStatus]
    BY <1>14, <2>1 DEF RecordAnswer, TypeOK, ActionStatus, UncertainStatus, FinalStatus
  <2>4. AttemptStatusFor(call[c].answer) \in AttemptStatus
    BY <2>1 DEF AttemptStatusFor, AttemptStatus
  <2>5. attempt' \in [Action -> AttemptRow]
    BY <1>14, <2>1, <2>4 DEF RecordAnswer, TypeOK, AttemptRow
  <2> QED
    BY <1>14, <2>2, <2>3, <2>5 DEF RecordAnswer, provider, TypeOK
<1>15. ASSUME NEW c \in Caller, AnswerTooLate(c) PROVE TypeOK'
  BY <1>15, ContinueTyped DEF AnswerTooLate, database, provider, TypeOK
<1>16. ASSUME NEW c \in Caller, Settle(c) PROVE TypeOK'
  <2>1. call[c].action \in Action
    BY <1>16, CallParts DEF Settle
  <2>2. Idle \in CallState
    BY DEF CallState
  <2> QED
    BY <1>16, <2>1, <2>2 DEF Settle, provider, TypeOK
<1>17. ASSUME NEW c \in Caller, EndCall(c) PROVE TypeOK'
  <2>2. Idle \in CallState
    BY DEF CallState
  <2> QED
    BY <1>17, <2>2 DEF EndCall, database, provider, TypeOK
<1>18. ASSUME NEW a \in Action, CreateDraft(a) PROVE TypeOK'
  BY <1>18 DEF CreateDraft, database, TypeOK
<1>19. ASSUME NEW a \in Action, LoseCreate(a) PROVE TypeOK'
  BY <1>19 DEF LoseCreate, database, TypeOK
<1>20. ASSUME NEW a \in Action, CloseDraft(a) PROVE TypeOK'
  BY <1>20 DEF CloseDraft, database, TypeOK
<1> QED
  BY <1>1, <1>2, <1>3, <1>4, <1>5, <1>6, <1>7, <1>8, <1>9, <1>10, <1>11, <1>12, <1>13,
     <1>14, <1>15, <1>16, <1>17, <1>18, <1>19, <1>20, NextCases DEF StepCases
-----------------------------------------------------------------------------
(* How one step moves the calls, the tables and the provider.              *)

\* A call ends, goes on with its action, or begins with one it may work on.
CallMoves(c) ==
  \/ call'[c] = call[c]
  \/ call'[c] = Idle
  \/ /\ call[c] # Idle /\ call[c].step # "idle"
     /\ call'[c].action = call[c].action
     /\ \/ call'[c].step = "create" /\ SendCreate(c)
        \/ call'[c].step = "settle"
        \/ /\ call'[c].step = "record"
           /\ call'[c].answer \in {"acknowledged", "reconciled"} =>
                call[c].action \in open \/ drafts[call[c].action] > 0
  \/ call'[c].step = "reconcile" /\ call'[c].action \in Uncertain /\ status' = status
  \/ \E a \in Action : PrepareDispatch(c, a) /\ call'[c] = [step |-> "dispatch", action |-> a]

LEMMA SendMoves ==
  ASSUME TypeOK, NEW c \in Caller, SendCreate(c)
  PROVE  /\ call[c] # Idle /\ call[c].step = "dispatch" /\ call[c].action \in Action
         /\ call'[c].step = "create" /\ call'[c].action = call[c].action
         /\ \A d \in Caller \ {c} : call'[d] = call[d]
<1>1. /\ call[c] \in [step : {"dispatch", "create", "reconcile", "settle"}, action : Action]
      /\ call[c] # Idle /\ call[c].step = "dispatch"
  BY CallParts DEF SendCreate, CallState, Idle
<1>2. call' = [call EXCEPT ![c].step = "create"]
  BY DEF SendCreate
<1> QED
  BY <1>1, <1>2 DEF TypeOK

LEMMA CallsMove ==
  ASSUME TypeOK, Next
  PROVE  \A d \in Caller : CallMoves(d)
<1>1. ASSUME NEW c \in Caller, call[c].step # "idle",
             NEW answer \in {"acknowledged", "reconciled", "failed", "indeterminate"},
             Answered(c, answer),
             answer \in {"acknowledged", "reconciled"} =>
               call[c].action \in open \/ drafts[call[c].action] > 0
      PROVE  \A d \in Caller : CallMoves(d)
  <2>1. call[c] # Idle
    BY <1>1, CallParts
  <2>2. /\ call'[c] = [step |-> "record", action |-> call[c].action, answer |-> answer]
        /\ \A d \in Caller \ {c} : call'[d] = call[d]
    BY <1>1, AnswerTyped
  <2>3. call'[c].step = "record" /\ call'[c].action = call[c].action /\ call'[c].answer = answer
    BY <2>2
  <2>4. CallMoves(c)
    BY <1>1, <2>1, <2>3 DEF CallMoves
  <2> QED
    BY <2>2, <2>4 DEF CallMoves
<1>2. ASSUME NEW c \in Caller, call[c].step = "record", Continue(c)
      PROVE  \A d \in Caller : CallMoves(d)
  <2>1. call[c] # Idle /\ call[c].step # "idle"
    BY <1>2, CallParts
  <2>2. /\ call'[c] = Idle \/ call'[c] = [step |-> "settle", action |-> call[c].action]
        /\ \A d \in Caller \ {c} : call'[d] = call[d]
    BY <1>2, ContinueTyped
  <2>3. CallMoves(c)
    BY <2>1, <2>2 DEF CallMoves
  <2> QED
    BY <2>2, <2>3 DEF CallMoves
<1>3. ASSUME call' = call PROVE \A d \in Caller : CallMoves(d)
  BY <1>3 DEF CallMoves
<1>4. ASSUME NEW c \in Caller, call' = [call EXCEPT ![c] = Idle]
      PROVE  \A d \in Caller : CallMoves(d)
  BY <1>4 DEF CallMoves, TypeOK
<1>5. ASSUME NEW c \in Caller, NEW a \in Uncertain, status' = status,
             call' = [call EXCEPT ![c] = [step |-> "reconcile", action |-> a]]
      PROVE  \A d \in Caller : CallMoves(d)
  BY <1>5 DEF CallMoves, TypeOK
<1>6. ASSUME NEW p \in Approval, NEW verdict \in {"approved", "denied"}, Decide(p, verdict)
      PROVE  \A d \in Caller : CallMoves(d)
  BY <1>3, <1>6 DEF Decide
<1>7. CASE LoseAuthority
  BY <1>3, <1>7 DEF LoseAuthority
<1>8. ASSUME NEW c \in Caller, NEW a \in Action, CancelStale(c, a)
      PROVE  \A d \in Caller : CallMoves(d)
  BY <1>3, <1>8 DEF CancelStale
<1>9. ASSUME NEW c \in Caller, NEW a \in Action, PrepareDispatch(c, a)
      PROVE  \A d \in Caller : CallMoves(d)
  <2>1. call' = [call EXCEPT ![c] = [step |-> "dispatch", action |-> a]]
    BY <1>9 DEF PrepareDispatch
  <2> QED
    BY <1>9, <2>1 DEF CallMoves, TypeOK
<1>10. ASSUME NEW c \in Caller, NEW a \in Action, StartReconcile(c, a)
       PROVE  \A d \in Caller : CallMoves(d)
  BY <1>5, <1>10 DEF StartReconcile, database
<1>11. ASSUME NEW c \in Caller, ReconcilePending(c)
       PROVE  \A d \in Caller : CallMoves(d)
  BY <1>3, <1>11 DEF ReconcilePending
<1>12. ASSUME NEW c \in Caller, LookupBeforeCreate(c)
       PROVE  \A d \in Caller : CallMoves(d)
  BY <1>1, <1>12 DEF LookupBeforeCreate, LookupAnswers
<1>13. ASSUME NEW c \in Caller, SendCreate(c)
       PROVE  \A d \in Caller : CallMoves(d)
  <2>1. CallMoves(c)
    BY <1>13, SendMoves DEF CallMoves
  <2> QED
    BY <1>13, <2>1, SendMoves DEF CallMoves
<1>14. ASSUME NEW c \in Caller, CreateAcknowledged(c)
       PROVE  \A d \in Caller : CallMoves(d)
  BY <1>1, <1>14 DEF CreateAcknowledged
<1>15. ASSUME NEW c \in Caller, CreateRefused(c)
       PROVE  \A d \in Caller : CallMoves(d)
  BY <1>1, <1>15 DEF CreateRefused
<1>16. ASSUME NEW c \in Caller, CreateUnknown(c)
       PROVE  \A d \in Caller : CallMoves(d)
  BY <1>1, <1>16 DEF CreateUnknown
<1>17. ASSUME NEW c \in Caller, NextPending(c)
       PROVE  \A d \in Caller : CallMoves(d)
  <2>1. PICK a \in pending[c] :
          call' = IF a \in Uncertain
                  THEN [call EXCEPT ![c] = [step |-> "reconcile", action |-> a]]
                  ELSE call
    BY <1>17 DEF NextPending
  <2>2. status' = status
    BY <1>17 DEF NextPending, database
  <2> QED
    BY <1>3, <1>5, <2>1, <2>2
<1>18. ASSUME NEW c \in Caller, LookupToReconcile(c)
       PROVE  \A d \in Caller : CallMoves(d)
  BY <1>1, <1>18 DEF LookupToReconcile, ReconcileAnswers
<1>19. ASSUME NEW c \in Caller, RecordAnswer(c)
       PROVE  \A d \in Caller : CallMoves(d)
  BY <1>2, <1>19 DEF RecordAnswer
<1>20. ASSUME NEW c \in Caller, AnswerTooLate(c)
       PROVE  \A d \in Caller : CallMoves(d)
  BY <1>2, <1>20 DEF AnswerTooLate
<1>21. ASSUME NEW c \in Caller, Settle(c)
       PROVE  \A d \in Caller : CallMoves(d)
  BY <1>4, <1>21 DEF Settle
<1>22. ASSUME NEW c \in Caller, EndCall(c)
       PROVE  \A d \in Caller : CallMoves(d)
  BY <1>4, <1>22 DEF EndCall
<1>23. ASSUME NEW a \in Action, CreateDraft(a) \/ LoseCreate(a) \/ CloseDraft(a)
       PROVE  \A d \in Caller : CallMoves(d)
  BY <1>3, <1>23 DEF CreateDraft, LoseCreate, CloseDraft
<1> QED
  BY <1>6, <1>7, <1>8, <1>9, <1>10, <1>11, <1>12, <1>13, <1>14, <1>15, <1>16, <1>17, <1>18,
     <1>19, <1>20, <1>21, <1>22, <1>23, NextCases DEF StepCases

\* The tables move by a decision, a cancellation, a dispatch, an answer or a
\* settlement only, and the provider by its own steps and those of a dispatch.
LEMMA TablesMove ==
  ASSUME TypeOK, Next
  PROVE  \/ \E p \in Approval, verdict \in {"approved", "denied"} : Decide(p, verdict)
         \/ \E c \in Caller, a \in Action : CancelStale(c, a)
         \/ \E c \in Caller, a \in Action : PrepareDispatch(c, a)
         \/ \E c \in Caller : RecordAnswer(c)
         \/ \E c \in Caller : Settle(c)
         \/ UNCHANGED <<approval, status, attempt, resv, ledger>>
BY NextCases DEF StepCases, database, LoseAuthority, StartReconcile, ReconcilePending,
   LookupBeforeCreate, SendCreate, CreateAcknowledged, CreateRefused, CreateUnknown, NextPending,
   LookupToReconcile, AnswerTooLate, EndCall, CreateDraft, LoseCreate, CloseDraft

LEMMA ProviderMoves ==
  ASSUME TypeOK, Next
  PROVE  \/ \E c \in Caller : SendCreate(c)
         \/ \E a \in Action : CreateDraft(a)
         \/ wire' \subseteq wire /\ drafts' = drafts /\ open' \subseteq open
BY NextCases DEF StepCases, provider, Decide, CancelStale, PrepareDispatch, RecordAnswer, Settle,
   LoseAuthority, StartReconcile, ReconcilePending, LookupBeforeCreate, CreateAcknowledged,
   CreateRefused, CreateUnknown, NextPending, LookupToReconcile, AnswerTooLate, EndCall,
   LoseCreate, CloseDraft
LEMMA DraftsGrow ==
  ASSUME TypeOK, Next
  PROVE  \A a \in Action : drafts'[a] >= drafts[a]
<1>1. ASSUME NEW b \in Action, CreateDraft(b) PROVE \A a \in Action : drafts'[a] >= drafts[a]
  BY <1>1 DEF CreateDraft, TypeOK
<1>2. ASSUME drafts' = drafts PROVE \A a \in Action : drafts'[a] >= drafts[a]
  BY <1>2 DEF TypeOK
<1> QED
  BY <1>1, <1>2, ProviderMoves DEF SendCreate

-----------------------------------------------------------------------------
(* The parts of the inductive invariant.                                   *)

\* An action that is still undispatched after a step was so before, and the
\* step has left its attempt and its reservation alone.
LEMMA UndispatchedBefore ==
  ASSUME TypeOK, NoTraceBeforeDispatch, Next, NEW a \in Action, Undispatched(a)'
  PROVE  Undispatched(a) /\ attempt'[a] = attempt[a] /\ resv'[a] = resv[a]
<1>1. ASSUME NEW p \in Approval, NEW verdict \in {"approved", "denied"}, Decide(p, verdict)
      PROVE  Undispatched(a) /\ attempt'[a] = attempt[a] /\ resv'[a] = resv[a]
  BY <1>1 DEF Decide, ActionsOf, Undispatched, TypeOK
<1>2. ASSUME NEW c \in Caller, NEW b \in Action, CancelStale(c, b)
      PROVE  Undispatched(a) /\ attempt'[a] = attempt[a] /\ resv'[a] = resv[a]
  BY <1>2 DEF CancelStale, Undispatched, TypeOK
<1>3. ASSUME NEW c \in Caller, NEW b \in Action, PrepareDispatch(c, b)
      PROVE  Undispatched(a) /\ attempt'[a] = attempt[a] /\ resv'[a] = resv[a]
  <2>1. a # b
    BY <1>3 DEF PrepareDispatch, Undispatched, TypeOK
  <2> QED
    BY <1>3, <2>1 DEF PrepareDispatch, Undispatched, TypeOK
<1>4. ASSUME NEW c \in Caller, RecordAnswer(c)
      PROVE  Undispatched(a) /\ attempt'[a] = attempt[a] /\ resv'[a] = resv[a]
  <2>1. /\ call[c].action \in Action
        /\ call[c].answer \in {"acknowledged", "reconciled", "failed", "indeterminate"}
    BY <1>4, CallParts DEF RecordAnswer
  <2>2. status' = [status EXCEPT ![call[c].action] = call[c].answer] /\ resv' = resv
    BY <1>4 DEF RecordAnswer
  <2>3. a # call[c].action
    BY <2>1, <2>2 DEF Undispatched, TypeOK
  <2>4. attempt'[a] = attempt[a]
    BY <1>4, <2>1, <2>3 DEF RecordAnswer, TypeOK
  <2> QED
    BY <2>1, <2>2, <2>3, <2>4 DEF Undispatched, TypeOK
<1>5. ASSUME NEW c \in Caller, Settle(c)
      PROVE  Undispatched(a) /\ attempt'[a] = attempt[a] /\ resv'[a] = resv[a]
  <2>1. call[c] # Idle /\ call[c].action \in Action
    BY <1>5, CallParts DEF Settle
  <2>2. Undispatched(a) /\ attempt'[a] = attempt[a]
    BY <1>5 DEF Settle, Undispatched
  <2>3. a # call[c].action
    BY <2>1, <2>2 DEF NoTraceBeforeDispatch
  <2> QED
    BY <1>5, <2>1, <2>2, <2>3 DEF Settle, TypeOK
<1>6. CASE UNCHANGED <<approval, status, attempt, resv, ledger>>
  BY <1>6 DEF Undispatched
<1> QED
  BY <1>1, <1>2, <1>3, <1>4, <1>5, <1>6, TablesMove

LEMMA NoTraceInvariant ==
  ASSUME TypeOK, NoTraceBeforeDispatch, Next
  PROVE  NoTraceBeforeDispatch'
<1> SUFFICES ASSUME NEW a \in Action, Undispatched(a)'
             PROVE  /\ attempt'[a].number = 0 /\ resv'[a] = "none"
                    /\ a \notin wire' /\ drafts'[a] = 0
                    /\ \A c \in Caller : call'[c] # Idle => call'[c].action # a
  BY DEF NoTraceBeforeDispatch
<1>1. Undispatched(a) /\ attempt'[a].number = 0 /\ resv'[a] = "none"
  BY UndispatchedBefore DEF NoTraceBeforeDispatch
<1>2. a \notin wire /\ drafts[a] = 0 /\ \A c \in Caller : call[c] # Idle => call[c].action # a
  BY <1>1 DEF NoTraceBeforeDispatch
<1>3. a \notin wire' /\ drafts'[a] = 0
  <2>1. ASSUME NEW c \in Caller, SendCreate(c) PROVE a \notin wire' /\ drafts'[a] = 0
    <3>1. call[c] # Idle
      BY <2>1, CallParts DEF SendCreate
    <3> QED
      BY <1>2, <2>1, <3>1 DEF SendCreate
  <2>2. ASSUME NEW b \in Action, CreateDraft(b) PROVE a \notin wire' /\ drafts'[a] = 0
    BY <1>2, <2>2 DEF CreateDraft, TypeOK
  <2> QED
    BY <1>2, <2>1, <2>2, ProviderMoves
<1>4. ASSUME NEW c \in Caller, call'[c] # Idle PROVE call'[c].action # a
  <2>1. CallMoves(c)
    BY CallsMove
  <2>2. ASSUME call'[c].step = "reconcile", call'[c].action \in Uncertain PROVE call'[c].action # a
    BY <1>1, <2>2 DEF Uncertain, UncertainStatus, Undispatched
  <2>3. ASSUME NEW b \in Action, PrepareDispatch(c, b),
               call'[c] = [step |-> "dispatch", action |-> b]
        PROVE  call'[c].action # a
    <3>1. status'[b] = "dispatching"
      BY <2>3 DEF PrepareDispatch, TypeOK
    <3>2. a # b
      BY <3>1 DEF Undispatched
    <3> QED
      BY <2>3, <3>2
  <2> QED
    BY <1>2, <1>4, <2>1, <2>2, <2>3 DEF CallMoves
<1> QED
  BY <1>1, <1>3, <1>4

LEMMA OneDispatcherInvariant ==
  ASSUME TypeOK, NoTraceBeforeDispatch, OneDispatcher, Next
  PROVE  OneDispatcher'
<1>1. ASSUME NEW c \in Caller, call'[c].step \in {"dispatch", "create"}
      PROVE  \/ call'[c] = call[c]
             \/ /\ call[c].step = "dispatch" /\ call'[c].step = "create"
                /\ call'[c].action = call[c].action
             \/ \E a \in Action : PrepareDispatch(c, a) /\ call'[c] = [step |-> "dispatch", action |-> a]
  <2>1. CallMoves(c)
    BY CallsMove
  <2>2. SendCreate(c) => call[c].step = "dispatch"
    BY DEF SendCreate
  <2>3. call'[c] # Idle
    BY <1>1 DEF Idle
  <2> QED
    BY <1>1, <2>1, <2>2, <2>3 DEF CallMoves
<1>2. ASSUME NEW c \in Caller, NEW a \in Action, PrepareDispatch(c, a)
      PROVE  /\ a \notin wire /\ drafts[a] = 0 /\ wire' = wire /\ drafts' = drafts
             /\ \A d \in Caller : call[d] # Idle => call[d].action # a
             /\ \A d \in Caller \ {c} : call'[d] = call[d]
  BY <1>2 DEF PrepareDispatch, provider, MayDispatch, NoTraceBeforeDispatch, Undispatched, TypeOK
<1>3. ASSUME NEW c \in Caller, call'[c].step = "dispatch"
      PROVE  call'[c].action \notin wire' /\ drafts'[call'[c].action] = 0
  <2>1. ASSUME NEW a \in Action, PrepareDispatch(c, a), call'[c] = [step |-> "dispatch", action |-> a]
        PROVE  call'[c].action \notin wire' /\ drafts'[call'[c].action] = 0
    BY <1>2, <2>1
  <2>2. ASSUME call'[c] = call[c]
        PROVE  call'[c].action \notin wire' /\ drafts'[call'[c].action] = 0
    <3>1. call[c].action \notin wire /\ drafts[call[c].action] = 0 /\ call[c].action \in Action
      BY <1>3, <2>2, CallParts DEF OneDispatcher
    <3>2. ASSUME NEW d \in Caller, SendCreate(d)
          PROVE  call[c].action \notin wire' /\ drafts' = drafts
      <4>1. d # c
        BY <1>3, <2>2, <3>2, SendMoves
      <4>2. call[d].action # call[c].action
        BY <1>3, <2>2, <3>2, <4>1 DEF SendCreate, OneDispatcher
      <4> QED
        BY <3>1, <3>2, <4>2 DEF SendCreate
    <3>3. ASSUME NEW b \in Action, CreateDraft(b)
          PROVE  call[c].action \notin wire' /\ drafts'[call[c].action] = 0
      BY <3>1, <3>3 DEF CreateDraft, TypeOK
    <3> QED
      BY <2>2, <3>1, <3>2, <3>3, ProviderMoves
  <2> QED
    BY <1>1, <1>3, <2>1, <2>2
<1>4. ASSUME NEW c \in Caller, NEW d \in Caller,
             call'[c].step \in {"dispatch", "create"}, call'[d].step \in {"dispatch", "create"},
             call'[c].action = call'[d].action, c # d
      PROVE  FALSE
  <2>1. ASSUME NEW e \in Caller, NEW f \in Caller, e # f, NEW a \in Action, PrepareDispatch(e, a),
               call'[e] = [step |-> "dispatch", action |-> a],
               call'[f].step \in {"dispatch", "create"}, call'[f].action = a
        PROVE  FALSE
    <3>1. call'[f] = call[f]
      BY <1>2, <2>1
    <3>2. call[f] # Idle
      BY <2>1, <3>1 DEF Idle
    <3> QED
      BY <1>2, <2>1, <3>1, <3>2
  <2>2. ASSUME NEW e \in Caller, NEW a \in Action, call'[e] = [step |-> "dispatch", action |-> a]
        PROVE  call'[e].action = a
    BY <2>2
  <2>3. /\ call[c].step \in {"dispatch", "create"} /\ call[c].action = call'[c].action
        /\ call[d].step \in {"dispatch", "create"} /\ call[d].action = call'[d].action
    BY <1>1, <1>4, <2>1, <2>2
  <2> QED
    BY <1>4, <2>3 DEF OneDispatcher
<1>5. ASSUME NEW a \in wire' PROVE drafts'[a] = 0
  <2>1. ASSUME NEW c \in Caller, SendCreate(c) PROVE drafts'[a] = 0
    BY <1>5, <2>1 DEF SendCreate, OneDispatcher
  <2>2. ASSUME NEW b \in Action, CreateDraft(b) PROVE drafts'[a] = 0
    BY <1>5, <2>2 DEF CreateDraft, OneDispatcher, TypeOK
  <2> QED
    BY <1>5, <2>1, <2>2, ProviderMoves DEF OneDispatcher
<1> QED
  BY <1>3, <1>4, <1>5 DEF OneDispatcher
LEMMA DraftsAreRealInvariant ==
  ASSUME TypeOK, DraftsAreReal, Next
  PROVE  DraftsAreReal'
<1>1. \A a \in Action : drafts[a] \in Nat /\ drafts'[a] \in Nat /\ drafts'[a] >= drafts[a]
  BY DraftsGrow, TypeInvariant DEF TypeOK
<1>2. ASSUME NEW a \in open' PROVE drafts'[a] > 0
  <2>1. ASSUME NEW b \in Action, CreateDraft(b) PROVE drafts'[a] > 0
    BY <1>2, <2>1 DEF CreateDraft, DraftsAreReal, TypeOK
  <2>2. ASSUME a \in open PROVE drafts'[a] > 0
    BY <1>1, <2>2 DEF DraftsAreReal, TypeOK
  <2> QED
    BY <1>2, <2>1, <2>2, ProviderMoves DEF SendCreate
<1>3. ASSUME NEW c \in Caller, call'[c].step = "record",
             call'[c].answer \in {"acknowledged", "reconciled"}
      PROVE  drafts'[call'[c].action] > 0
  <2>1. CallMoves(c)
    BY CallsMove
  <2>2. ASSUME call'[c] = call[c] PROVE drafts'[call'[c].action] > 0
    <3>1. call[c].action \in Action /\ drafts[call[c].action] > 0
      BY <1>3, <2>2, CallParts DEF DraftsAreReal
    <3> QED
      BY <1>1, <2>2, <3>1
  <2>3. ASSUME call[c].step # "idle", call'[c].action = call[c].action,
               call[c].action \in open \/ drafts[call[c].action] > 0
        PROVE  drafts'[call'[c].action] > 0
    <3>1. call[c].action \in Action /\ drafts[call[c].action] > 0
      BY <2>3, CallParts DEF DraftsAreReal
    <3> QED
      BY <1>1, <2>3, <3>1
  <2>4. call'[c] # Idle
    BY <1>3 DEF Idle
  <2>5. ASSUME NEW a \in Action, call'[c] = [step |-> "dispatch", action |-> a] PROVE FALSE
    BY <1>3, <2>5
  <2> QED
    BY <1>3, <2>1, <2>2, <2>3, <2>4, <2>5 DEF CallMoves
<1> QED
  BY <1>2, <1>3 DEF DraftsAreReal

LEMMA AtMostOneDraftInvariant ==
  ASSUME TypeOK, OneDispatcher, AtMostOneDraft, Next
  PROVE  AtMostOneDraft'
<1>1. ASSUME NEW b \in Action, CreateDraft(b) PROVE AtMostOneDraft'
  <2>1. drafts[b] = 0
    BY <1>1 DEF CreateDraft, OneDispatcher
  <2> QED
    BY <1>1, <2>1 DEF CreateDraft, AtMostOneDraft, TypeOK
<1>2. ASSUME drafts' = drafts PROVE AtMostOneDraft'
  BY <1>2 DEF AtMostOneDraft
<1> QED
  BY <1>1, <1>2, ProviderMoves DEF SendCreate

LEMMA AcknowledgedInvariant ==
  ASSUME TypeOK, DraftsAreReal, AcknowledgedIsDone, Next
  PROVE  AcknowledgedIsDone'
<1> SUFFICES ASSUME NEW a \in Action, status'[a] \in {"acknowledged", "reconciled"}
             PROVE  drafts'[a] > 0
  BY DEF AcknowledgedIsDone
<1>1. drafts[a] \in Nat /\ drafts'[a] \in Nat /\ drafts'[a] >= drafts[a]
  BY DraftsGrow, TypeInvariant DEF TypeOK
<1>2. ASSUME status'[a] = status[a] PROVE drafts'[a] > 0
  BY <1>1, <1>2 DEF AcknowledgedIsDone
<1>3. ASSUME NEW p \in Approval, NEW verdict \in {"approved", "denied"}, Decide(p, verdict)
      PROVE  status'[a] = status[a]
  BY <1>3 DEF Decide, TypeOK
<1>4. ASSUME NEW c \in Caller, NEW b \in Action, CancelStale(c, b) \/ PrepareDispatch(c, b)
      PROVE  status'[a] = status[a]
  BY <1>4 DEF CancelStale, PrepareDispatch, TypeOK
<1>5. ASSUME NEW c \in Caller, RecordAnswer(c), status'[a] # status[a] PROVE drafts'[a] > 0
  <2>1. a = call[c].action /\ call[c].answer = status'[a] /\ call[c].step = "record"
    BY <1>5 DEF RecordAnswer, TypeOK
  <2> QED
    BY <1>1, <2>1 DEF DraftsAreReal
<1> QED
  BY <1>2, <1>3, <1>4, <1>5, TablesMove DEF Settle

LEMMA CallsAreCountedInvariant ==
  ASSUME TypeOK, NoTraceBeforeDispatch, CallsAreCounted, Next
  PROVE  CallsAreCounted'
<1>1. ASSUME NEW p \in Approval, NEW verdict \in {"approved", "denied"}, Decide(p, verdict)
      PROVE  CallsAreCounted'
  BY <1>1 DEF Decide, CallsAreCounted, Undispatched, TypeOK
<1>2. ASSUME NEW c \in Caller, NEW b \in Action, CancelStale(c, b) PROVE CallsAreCounted'
  BY <1>2 DEF CancelStale, CallsAreCounted, Undispatched, TypeOK
<1>3. ASSUME NEW c \in Caller, NEW b \in Action, PrepareDispatch(c, b) PROVE CallsAreCounted'
  <2>1. resv[b] = "none"
    BY <1>3 DEF PrepareDispatch, MayDispatch, NoTraceBeforeDispatch, Undispatched
  <2>2. ledger' = {a \in Action : resv'[a] = "reconciled"}
    BY <1>3, <2>1 DEF PrepareDispatch, CallsAreCounted, TypeOK
  <2>3. ASSUME NetworkLimit # Unbudgeted, NEW a \in Action PROVE Undispatched(a)' \/ resv'[a] # "none"
    <3>1. resv'[b] # "none"
      BY <1>3, <2>1, <2>3 DEF PrepareDispatch, TypeOK
    <3>2. a # b => Undispatched(a)' \/ resv'[a] # "none"
      BY <1>3, <2>3 DEF PrepareDispatch, CallsAreCounted, Undispatched, TypeOK
    <3> QED
      BY <3>1, <3>2
  <2> QED
    BY <2>2, <2>3 DEF CallsAreCounted
<1>4. ASSUME NEW c \in Caller, RecordAnswer(c) PROVE CallsAreCounted'
  <2>1. ASSUME NEW a \in Action, Undispatched(a) PROVE Undispatched(a)'
    BY <1>4, <2>1 DEF RecordAnswer, Recordable, Undispatched, UncertainStatus, TypeOK
  <2> QED
    BY <1>4, <2>1 DEF RecordAnswer, CallsAreCounted
<1>5. ASSUME NEW c \in Caller, Settle(c) PROVE CallsAreCounted'
  <2>1. call[c].action \in Action /\ status' = status
    BY <1>5, CallParts DEF Settle
  <2>2. ASSUME UNCHANGED <<resv, ledger>> PROVE CallsAreCounted'
    BY <2>1, <2>2 DEF CallsAreCounted, Undispatched
  <2>3. ASSUME ledger' = ledger \cup {call[c].action},
               resv' = [resv EXCEPT ![call[c].action] = "reconciled"]
        PROVE  CallsAreCounted'
    <3>1. \A a \in Action : resv'[a] = IF a = call[c].action THEN "reconciled" ELSE resv[a]
      BY <2>1, <2>3 DEF TypeOK
    <3> QED
      BY <2>1, <2>3, <3>1 DEF CallsAreCounted, Undispatched
  <2> QED
    BY <1>5, <2>2, <2>3 DEF Settle
<1>6. CASE UNCHANGED <<approval, status, attempt, resv, ledger>>
  BY <1>6 DEF CallsAreCounted, Undispatched
<1> QED
  BY <1>1, <1>2, <1>3, <1>4, <1>5, <1>6, TablesMove

LEMMA DecisionInvariant ==
  ASSUME TypeOK, DecisionIsFollowed, Next
  PROVE  DecisionIsFollowed'
<1> USE ExternalActionAssumption
<1>1. ASSUME NEW p \in Approval, NEW verdict \in {"approved", "denied"}, Decide(p, verdict)
      PROVE  DecisionIsFollowed'
  <2> SUFFICES ASSUME NEW a \in Action, ApprovalOf[a] # NoApproval
               PROVE  /\ approval'[ApprovalOf[a]] = "requested" <=> status'[a] = "awaiting_approval"
                      /\ approval'[ApprovalOf[a]] = "denied" <=> status'[a] = "denied"
    BY DEF DecisionIsFollowed
  <2>1. ApprovalOf[a] \in Approval
    OBVIOUS
  <2>2. CASE ApprovalOf[a] = p
    BY <1>1, <2>2 DEF Decide, ActionsOf, TypeOK
  <2>3. CASE ApprovalOf[a] # p
    <3>1. status'[a] = status[a] /\ approval'[ApprovalOf[a]] = approval[ApprovalOf[a]]
      BY <1>1, <2>1, <2>3 DEF Decide, ActionsOf, TypeOK
    <3> QED
      BY <3>1 DEF DecisionIsFollowed
  <2> QED
    BY <2>2, <2>3
<1>2. ASSUME approval' = approval,
             \A a \in Action : \/ status'[a] = status[a]
                               \/ /\ status[a] \notin {"awaiting_approval", "denied"}
                                  /\ status'[a] \notin {"awaiting_approval", "denied"}
      PROVE  DecisionIsFollowed'
  BY <1>2 DEF DecisionIsFollowed
<1>3. ASSUME NEW c \in Caller, NEW b \in Action, CancelStale(c, b) PROVE DecisionIsFollowed'
  BY <1>2, <1>3 DEF CancelStale, TypeOK
<1>4. ASSUME NEW c \in Caller, NEW b \in Action, PrepareDispatch(c, b) PROVE DecisionIsFollowed'
  BY <1>2, <1>4 DEF PrepareDispatch, MayDispatch, TypeOK
<1>5. ASSUME NEW c \in Caller, RecordAnswer(c) PROVE DecisionIsFollowed'
  <2>1. /\ call[c].action \in Action
        /\ call[c].answer \in {"acknowledged", "reconciled", "failed", "indeterminate"}
    BY <1>5, CallParts DEF RecordAnswer
  <2>2. /\ approval' = approval
        /\ status' = [status EXCEPT ![call[c].action] = call[c].answer]
        /\ status[call[c].action] \in UncertainStatus
    BY <1>5 DEF RecordAnswer, Recordable
  <2> QED
    BY <1>2, <2>1, <2>2 DEF UncertainStatus, TypeOK
<1>6. ASSUME NEW c \in Caller, Settle(c) PROVE DecisionIsFollowed'
  BY <1>2, <1>6 DEF Settle
<1>7. CASE UNCHANGED <<approval, status, attempt, resv, ledger>>
  BY <1>2, <1>7
<1> QED
  BY <1>1, <1>3, <1>4, <1>5, <1>6, <1>7, TablesMove
LEMMA BudgetInvariant ==
  ASSUME TypeOK, NoTraceBeforeDispatch, CallsAreCounted, CallsWithinBudget, Next
  PROVE  CallsWithinBudget'
<1> SUFFICES ASSUME NetworkLimit # Unbudgeted
             PROVE  /\ Cardinality(Reserved' \cup ledger') <= NetworkLimit
                    /\ \A a \in Action : attempt'[a].number > 0 => a \in Reserved' \cup ledger'
  BY DEF CallsWithinBudget
<1>1. /\ Cardinality(Reserved \cup ledger) <= NetworkLimit
      /\ \A a \in Action : attempt[a].number > 0 => a \in Reserved \cup ledger
  BY DEF CallsWithinBudget
<1>2. ASSUME Reserved' \cup ledger' = Reserved \cup ledger,
             \A a \in Action : attempt'[a].number = attempt[a].number
      PROVE  /\ Cardinality(Reserved' \cup ledger') <= NetworkLimit
             /\ \A a \in Action : attempt'[a].number > 0 => a \in Reserved' \cup ledger'
  BY <1>1, <1>2
<1>3. ASSUME UNCHANGED <<resv, ledger, attempt>>
      PROVE  /\ Cardinality(Reserved' \cup ledger') <= NetworkLimit
             /\ \A a \in Action : attempt'[a].number > 0 => a \in Reserved' \cup ledger'
  BY <1>2, <1>3 DEF Reserved
<1>4. ASSUME NEW c \in Caller, NEW b \in Action, PrepareDispatch(c, b)
      PROVE  /\ Cardinality(Reserved' \cup ledger') <= NetworkLimit
             /\ \A a \in Action : attempt'[a].number > 0 => a \in Reserved' \cup ledger'
  <2>1. resv[b] = "none"
    BY <1>4 DEF PrepareDispatch, MayDispatch, NoTraceBeforeDispatch, Undispatched
  <2>2. ledger = {} /\ Cardinality(Reserved) + 1 <= NetworkLimit
    BY <1>4, <2>1 DEF PrepareDispatch, Admits
  <2>3. resv' = [resv EXCEPT ![b] = "reserved"] /\ ledger' = ledger
    BY <1>4, <2>1 DEF PrepareDispatch, TypeOK
  <2>4. Reserved' = Reserved \cup {b}
    BY <2>3 DEF Reserved, TypeOK
  <2>5. IsFiniteSet(Reserved) /\ b \notin Reserved
    BY <2>1, FS_Subset, ExternalActionAssumption DEF Reserved
  <2>6. Cardinality(Reserved \cup {b}) = Cardinality(Reserved) + 1
    BY <2>5, FS_AddElement
  <2>7. Reserved' \cup ledger' = Reserved \cup {b} /\ Reserved \cup ledger = Reserved
    BY <2>2, <2>3, <2>4
  <2>8. \A a \in Action \ {b} : attempt'[a] = attempt[a]
    BY <1>4 DEF PrepareDispatch, TypeOK
  <2>9. \A a \in Action : attempt'[a].number > 0 => a \in Reserved \cup {b}
    BY <1>1, <2>7, <2>8
  <2> QED
    BY <2>2, <2>6, <2>7, <2>9
<1>5. ASSUME NEW c \in Caller, RecordAnswer(c)
      PROVE  /\ Cardinality(Reserved' \cup ledger') <= NetworkLimit
             /\ \A a \in Action : attempt'[a].number > 0 => a \in Reserved' \cup ledger'
  <2>1. call[c].action \in Action
    BY <1>5, CallParts DEF RecordAnswer
  <2>2. \A a \in Action : attempt'[a].number = attempt[a].number
    <3>1. attempt' = [attempt EXCEPT ![call[c].action].status = AttemptStatusFor(call[c].answer)]
      BY <1>5 DEF RecordAnswer
    <3>2. attempt \in [Action -> AttemptRow]
      BY DEF TypeOK
    <3>3. \A a \in Action : attempt[a] \in [number : Nat, status : AttemptStatus]
      BY <3>2 DEF AttemptRow
    <3> QED
      BY <2>1, <3>1, <3>2, <3>3
  <2>3. Reserved' \cup ledger' = Reserved \cup ledger
    BY <1>5 DEF RecordAnswer, Reserved
  <2> QED
    BY <1>2, <2>2, <2>3
<1>6. ASSUME NEW c \in Caller, Settle(c)
      PROVE  /\ Cardinality(Reserved' \cup ledger') <= NetworkLimit
             /\ \A a \in Action : attempt'[a].number > 0 => a \in Reserved' \cup ledger'
  <2>1. call[c].action \in Action /\ attempt' = attempt
    BY <1>6, CallParts DEF Settle
  <2>2. CASE UNCHANGED <<resv, ledger>>
    BY <1>3, <2>1, <2>2
  <2>3. CASE /\ resv[call[c].action] # "none"
             /\ ledger' = ledger \cup {call[c].action}
             /\ resv' = [resv EXCEPT ![call[c].action] = "reconciled"]
    <3>1. \A a \in Action : resv'[a] = IF a = call[c].action THEN "reconciled" ELSE resv[a]
      BY <2>1, <2>3 DEF TypeOK
    <3>2. call[c].action \in Reserved \cup ledger
      BY <2>1, <2>3 DEF Reserved, CallsAreCounted, TypeOK
    <3>3. Reserved' = Reserved \ {call[c].action}
      BY <3>1 DEF Reserved
    <3>4. Reserved' \cup ledger' = Reserved \cup ledger
      BY <2>3, <3>2, <3>3
    <3> QED
      BY <1>2, <2>1, <3>4
  <2> QED
    BY <1>6, <2>2, <2>3 DEF Settle
<1>7. ASSUME NEW p \in Approval, NEW verdict \in {"approved", "denied"}, Decide(p, verdict)
      PROVE  UNCHANGED <<resv, ledger, attempt>>
  BY <1>7 DEF Decide
<1>8. ASSUME NEW c \in Caller, NEW b \in Action, CancelStale(c, b)
      PROVE  UNCHANGED <<resv, ledger, attempt>>
  BY <1>8 DEF CancelStale
<1> QED
  BY <1>3, <1>4, <1>5, <1>6, <1>7, <1>8, TablesMove

-----------------------------------------------------------------------------
(* The theorems.                                                           *)

LEMMA Stutter ==
  ASSUME InductiveInvariant, UNCHANGED vars
  PROVE  InductiveInvariant'
BY DEF vars, InductiveInvariant, TypeOK, NoTraceBeforeDispatch, OneDispatcher, DraftsAreReal,
   CallsAreCounted, AtMostOneDraft, AcknowledgedIsDone, DecisionIsFollowed, CallsWithinBudget,
   Undispatched, Reserved

LEMMA InitialInvariant ==
  ASSUME Init
  PROVE  InductiveInvariant
<1>1. \A c \in Caller : call[c] = Idle /\ call[c].step = "idle"
  BY DEF Init, Idle
<1>2. TypeOK
  <2>1. attempt \in [Action -> AttemptRow]
    BY DEF Init, AttemptRow, AttemptStatus
  <2>2. call \in [Caller -> CallState]
    BY DEF Init, CallState
  <2> QED
    BY <2>1, <2>2 DEF Init, TypeOK, ApprovalStatus, ActionStatus
<1>3. \A a \in Action : attempt[a].number = 0
  BY DEF Init
<1>4. NoTraceBeforeDispatch
  BY <1>1, <1>3 DEF Init, NoTraceBeforeDispatch
<1>5. OneDispatcher /\ DraftsAreReal
  BY <1>1 DEF Init, OneDispatcher, DraftsAreReal
<1>6. AtMostOneDraft /\ AcknowledgedIsDone
  BY DEF Init, AtMostOneDraft, AcknowledgedIsDone
<1>7. CallsAreCounted
  BY DEF Init, CallsAreCounted, Undispatched
<1>8. DecisionIsFollowed
  BY ExternalActionAssumption DEF Init, DecisionIsFollowed
<1>9. CallsWithinBudget
  <2>1. Reserved \cup ledger = {}
    BY DEF Init, Reserved
  <2>2. Cardinality(Reserved \cup ledger) = 0
    BY <2>1, FS_EmptySet
  <2> QED
    BY <1>3, <2>2, ExternalActionAssumption DEF CallsWithinBudget
<1> QED
  BY <1>2, <1>4, <1>5, <1>6, <1>7, <1>8, <1>9 DEF InductiveInvariant

\* The inductive invariant holds in every state of every instance: any number
\* of actions, approvals and concurrent calls, with or without a budget.
THEOREM InvariantAlways == Spec => []InductiveInvariant
<1>1. Init => InductiveInvariant
  BY InitialInvariant
<1>2. InductiveInvariant /\ [Next]_vars => InductiveInvariant'
  <2> SUFFICES ASSUME InductiveInvariant, Next PROVE InductiveInvariant'
    BY Stutter
  <2> USE DEF InductiveInvariant
  <2>1. TypeOK' /\ NoTraceBeforeDispatch' /\ OneDispatcher' /\ DraftsAreReal'
    BY TypeInvariant, NoTraceInvariant, OneDispatcherInvariant, DraftsAreRealInvariant
  <2>2. CallsAreCounted' /\ AtMostOneDraft' /\ AcknowledgedIsDone'
    BY CallsAreCountedInvariant, AtMostOneDraftInvariant, AcknowledgedInvariant
  <2>3. DecisionIsFollowed' /\ CallsWithinBudget'
    BY DecisionInvariant, BudgetInvariant
  <2> QED
    BY <2>1, <2>2, <2>3
<1> QED
  BY <1>1, <1>2, PTL DEF Spec

\* Every table, call and request of the service keeps its type.
THEOREM TypeCorrectness == Spec => []TypeOK
BY InvariantAlways, PTL DEF InductiveInvariant

\* dispatch, reconcile and reconcilePending, run beside each other, repeated
\* and cut off anywhere, make the provider create at most one draft per action.
THEOREM OneDraft == Spec => []AtMostOneDraft
BY InvariantAlways, PTL DEF InductiveInvariant

\* A denied, cancelled or waiting action has no effect, and none under way.
THEOREM EffectsAreTracked == Spec => []EffectIsTracked
<1>1. InductiveInvariant => EffectIsTracked
  <2> SUFFICES ASSUME InductiveInvariant, NEW a \in Action, a \in wire \/ drafts[a] > 0
               PROVE  status[a] \in UncertainStatus \cup {"reconciled", "failed"}
    BY DEF EffectIsTracked
  <2>1. ~Undispatched(a)
    BY DEF InductiveInvariant, NoTraceBeforeDispatch
  <2> QED
    BY <2>1 DEF InductiveInvariant, TypeOK, ActionStatus, UncertainStatus, FinalStatus, Undispatched
<1> QED
  BY <1>1, InvariantAlways, PTL

\* persistResult never records as done what the provider has not done.
THEOREM AcknowledgementsAreTrue == Spec => []AcknowledgedIsDone
BY InvariantAlways, PTL DEF InductiveInvariant

\* decideApproval decides an approval and all its actions, once.
THEOREM DecisionsAreFollowed == Spec => []DecisionIsFollowed
BY InvariantAlways, PTL DEF InductiveInvariant

\* The network calls reserved and used stay within the budget, and no call is
\* made that is neither.
THEOREM BudgetIsKept == Spec => []CallsWithinBudget
BY InvariantAlways, PTL DEF InductiveInvariant

\* No call, however late, changes a final status.
THEOREM FinalStatusIsKept == Spec => FinalStays
<1>1. InductiveInvariant /\ [Next]_vars =>
        \A a \in Action : status[a] \in FinalStatus => status'[a] = status[a]
  <2> SUFFICES ASSUME TypeOK, Next, NEW a \in Action, status[a] \in FinalStatus
               PROVE  status'[a] = status[a]
    BY DEF InductiveInvariant, vars
  <2>1. ASSUME NEW p \in Approval, NEW verdict \in {"approved", "denied"}, Decide(p, verdict)
        PROVE  status'[a] = status[a]
    BY <2>1 DEF Decide, FinalStatus, TypeOK
  <2>2. ASSUME NEW c \in Caller, NEW b \in Action, CancelStale(c, b) \/ PrepareDispatch(c, b)
        PROVE  status'[a] = status[a]
    BY <2>2 DEF CancelStale, PrepareDispatch, MayDispatch, FinalStatus, TypeOK
  <2>3. ASSUME NEW c \in Caller, RecordAnswer(c) PROVE status'[a] = status[a]
    BY <2>3 DEF RecordAnswer, Recordable, UncertainStatus, FinalStatus, TypeOK
  <2> QED
    BY <2>1, <2>2, <2>3, TablesMove DEF Settle
<1> QED
  BY <1>1, InvariantAlways, PTL DEF Spec, FinalStays
=============================================================================
