-------------------------- MODULE WorkerRunner_proofs -------------------------
(***************************************************************************)
(* A worker sends one result per attempt, a TypeScript worker none that is *)
(* fenced off, and only faults orphan attempts: for any number of attempts *)
(* and tasks, any lease and any retry policy.                              *)
(***************************************************************************)
EXTENDS WorkerRunner, FiniteSetTheorems, TLAPS

-----------------------------------------------------------------------------
(* The invariant.                                                          *)

Rows == [status : {"ready", "leased", "ended"}, lease : -Slack..Lease,
         result : Outcome \cup {"none"}]
Works == [step : {"none", "run", "submit", "over"}, outcome : Outcome \cup {"none"},
          aborted : BOOLEAN, due : Never..(Lease + Interval), sent : SUBSET Outcome]
Calls == [op : Op \cup {"none"}, try : 0..(Retries + 1), wait : 0..Timeout,
          answer : Answer, left : 0..Lease]
Requests == [op : Op, attempt : Attempt \cup {"runner"}, outcome : Outcome \cup {"none"}, id : Nat]
Sent == {q \in Requests : q.op # "claim" => q.attempt \in Attempt}

Types ==
    /\ sdk \in Sdks
    /\ attempt \in [Attempt -> Rows]
    /\ work \in [Attempt -> Works]
    /\ call \in [Caller -> Calls]
    /\ late \subseteq Sent
ControlTypes ==
    /\ loop \in {"waiting", "claiming", "draining", "stopped"}
    /\ stopping \in BOOLEAN /\ drain \in Never..Grace
    /\ faults \in 0..MaxFault

\* Who may wait for what.
CallsMatch ==
    /\ call[Claimer].op \in {"none", "claim"}
    /\ call[Claimer].answer \in Attempt \cup {"none", "no_work"}
    /\ call[Claimer].op = "none" => call[Claimer].answer = "none"
    /\ call[Claimer].try <= Retries + 1
    /\ \A a \in Attempt :
          /\ call[<<a, "beat">>].op \in {"none", "heartbeat"}
          /\ call[<<a, "beat">>].try <= Retries
          /\ call[<<a, "beat">>].op # "none" => work[a].step \in {"run", "submit"}
          /\ call[<<a, "task">>].op \in {"none", "cancellation", "result"}
          /\ call[<<a, "task">>].op # "none" => work[a].step = "submit"

\* An attempt is claimed once: what a claim brings has no task yet.
ClaimsAreNew ==
    \A a \in Attempt :
       /\ work[a].step = "none" => work[a] = NoTask
       /\ work[a].step # "none" \/ call[Claimer].answer = a => attempt[a].status # "ready"
       /\ call[Claimer].answer = a => work[a].step = "none"

\* What is sent is the outcome of the task.
SentIsOutcome ==
    \A a \in Attempt : /\ work[a].sent \subseteq {work[a].outcome}
                       /\ work[a].step = "run" => work[a].sent = {}
                       /\ work[a].step = "submit" => work[a].outcome \in Outcome

\* An aborted task of the TypeScript SDK waits for nothing.
FencedTs == sdk = "ts" => \A a \in Attempt : work[a].aborted => call[<<a, "task">>].op = "none"

Core == Types /\ CallsMatch /\ ClaimsAreNew /\ SentIsOutcome /\ FencedTs

\* The runner claims when it has room for another task.
Room ==
    /\ IsFiniteSet(Active) /\ Cardinality(Active) <= Concurrency
    /\ call[Claimer].op = "claim" => Cardinality(Active) < Concurrency

\* What the server leased to the worker without the worker knowing.
Orphans == {a \in Attempt : /\ attempt[a].status = "leased" /\ work[a].step = "none"
                            /\ call[Claimer].answer # a}
LateClaims == {q \in late : q.op = "claim"}

\* Every orphan, and every claim that may still make one, is the work of a fault.
Lost ==
    /\ IsFiniteSet(Orphans) /\ IsFiniteSet(LateClaims)
    /\ Cardinality(Orphans) + Cardinality(LateClaims) <= faults
    /\ \A q \in LateClaims : q.id < faults

\* Only the claim loop waits for a claim.
LoopMatches == call[Claimer].op = "claim" => loop = "claiming"

WorkerInv == Core /\ ControlTypes /\ LoopMatches /\ Room /\ Lost

\* No step sends what is fenced off.
SentStays == sdk = "ts" => \A a \in Attempt : work[a].aborted => work'[a].sent = work[a].sent

\* A step that starts no task and no claim.
Calm == Active' \subseteq Active /\ (call'[Claimer].op = "claim" => call[Claimer].op = "claim")

\* A step that loses nothing.
Harmless == Orphans' \subseteq Orphans /\ LateClaims' \subseteq LateClaims

LEMMA Callers ==
  /\ Claimer \in Caller
  /\ \A a \in Attempt : <<a, "beat">> \in Caller /\ <<a, "task">> \in Caller
  /\ \A c \in Caller : c = Claimer \/ \E a \in Attempt : c = <<a, "beat">> \/ c = <<a, "task">>
  /\ \A a \in Attempt : /\ <<a, "beat">> # Claimer /\ <<a, "task">> # Claimer
                        /\ <<a, "beat">>[1] = a /\ <<a, "task">>[1] = a
  /\ \A a, b \in Attempt : /\ <<a, "beat">> # <<b, "task">>
                           /\ a # b => <<a, "beat">> # <<b, "beat">> /\ <<a, "task">> # <<b, "task">>
BY DEF Caller, Claimer

LEMMA Constants ==
  /\ Concurrency \in Nat \ {0} /\ Lease \in Nat \ {0} /\ Interval \in Nat \ {0}
  /\ Timeout \in Nat \ {0} /\ Slack \in Nat \ {0}
  /\ Retries \in Nat /\ Grace \in Nat /\ MaxFault \in Nat
  /\ "none" \notin Attempt /\ "no_work" \notin Attempt /\ "runner" \notin Attempt
  /\ "lease_expired" \notin Attempt /\ "continue" \notin Attempt
BY WorkerAssumption

\* The records the steps make.
LEMMA TasksMade ==
  ASSUME NEW w \in Works
  PROVE  /\ Aborted(w) \in Works /\ Finished(w) \in Works /\ LaterTask(w) \in Works
         /\ Aborted(w).step = w.step /\ Aborted(w).outcome = w.outcome
         /\ Aborted(w).sent = w.sent /\ Aborted(w).aborted
         /\ Finished(w).step = "over" /\ Finished(w).outcome = w.outcome
         /\ Finished(w).sent = w.sent /\ Finished(w).aborted
         /\ LaterTask(w).step = w.step /\ LaterTask(w).outcome = w.outcome
         /\ LaterTask(w).sent = w.sent /\ LaterTask(w).aborted = w.aborted
         /\ w = NoTask => LaterTask(w) = NoTask
<1>1. w.due \in Never..(Lease + Interval) /\ Less(w.due) \in Never..(Lease + Interval)
  BY Constants DEF Works, Less, Never
<1>2. Never \in Never..(Lease + Interval)
  BY Constants DEF Never
<1>3. Aborted(w) \in Works /\ Finished(w) \in Works /\ LaterTask(w) \in Works
  BY <1>1, <1>2 DEF Works, Aborted, Finished, LaterTask
<1>4. w = NoTask => LaterTask(w) = NoTask
  BY DEF NoTask, LaterTask, Less
<1> QED
  BY <1>3, <1>4 DEF Aborted, Finished, LaterTask

LEMMA ReturnedTask ==
  ASSUME NEW w \in Works, NEW o \in Outcome
  PROVE  /\ Returned(w, o) \in Works
         /\ Returned(w, o).step = "submit" /\ Returned(w, o).outcome = o
         /\ Returned(w, o).sent = w.sent /\ Returned(w, o).aborted = w.aborted
BY DEF Works, Returned

LEMMA StartedTask ==
  ASSUME NEW left \in 0..Lease
  PROVE  /\ Started(left) \in Works
         /\ Started(left).step = "run" /\ Started(left).sent = {} /\ ~Started(left).aborted
<1>1. HalfOf(left) \in Never..(Lease + Interval) /\ 0 \in Never..(Lease + Interval)
  BY Constants DEF HalfOf, Never
<1> QED
  BY <1>1 DEF Started, Works

LEMMA CallsMade ==
  ASSUME NEW k \in Calls
  PROVE  /\ k.try + 1 <= Retries + 1 => Again(k) \in Calls
         /\ k.wait > 0 => LaterCall(k) \in Calls
         /\ Again(k).op = k.op /\ Again(k).answer = "none" /\ Again(k).try = k.try + 1
         /\ LaterCall(k).op = k.op /\ LaterCall(k).answer = k.answer /\ LaterCall(k).try = k.try
BY Constants DEF Calls, Answer, Again, LaterCall

LEMMA AnsweredCall ==
  ASSUME NEW k \in Calls, NEW answer \in Answer
  PROVE  /\ Answered(k, answer) \in Calls
         /\ Answered(k, answer).op = k.op /\ Answered(k, answer).answer = answer
         /\ Answered(k, answer).try = k.try
BY Constants DEF Calls, Answered

LEMMA NewCalls ==
  /\ Idle \in Calls /\ Idle.op = "none" /\ Idle.answer = "none" /\ Idle.try = 0
  /\ \A op \in Op : /\ Asked(op) \in Calls
                    /\ Asked(op).op = op /\ Asked(op).answer = "none" /\ Asked(op).try = 0
BY Constants DEF Asked, Idle, Calls, Answer

LEMMA CalmKeepsRoom ==
  ASSUME Room, LoopMatches, Calm
  PROVE  Room' /\ (loop' = loop => LoopMatches')
<1>1. IsFiniteSet(Active') /\ Cardinality(Active') <= Cardinality(Active)
  BY FS_Subset DEF Room, Calm
<1>2. Cardinality(Active) \in Nat /\ Cardinality(Active') \in Nat
  BY <1>1, FS_CardinalityType DEF Room
<1> QED
  BY <1>1, <1>2, Constants DEF Room, Calm, LoopMatches

-----------------------------------------------------------------------------
(* The control plane.                                                      *)

\* What the server does to an attempt, and what it answers.
LEMMA ServerKeepsRows ==
  ASSUME Types, NEW q \in Sent, NEW s \in Served(q)
  PROVE  /\ s.attempt \in [Attempt -> Rows]
         /\ \A a \in Attempt : attempt[a].status # "ready" => s.attempt[a].status # "ready"
         /\ s.answer \in Answer
         /\ q.op = "claim" =>
              \/ s.answer = "no_work" /\ s.attempt = attempt
              \/ /\ s.answer \in Attempt
                 /\ attempt[s.answer].status = "ready" /\ s.attempt[s.answer].status = "leased"
                 /\ \A a \in Attempt \ {s.answer} : s.attempt[a] = attempt[a]
         /\ q.op # "claim" =>
              \A a \in Attempt : s.attempt[a].status = "leased" => attempt[a].status = "leased"
<1> USE Constants DEF Types
<1>1. CASE q.op = "claim"
  <2>1. s \in ServeClaim
    BY <1>1 DEF Served
  <2>2. CASE s = [answer |-> "no_work", attempt |-> attempt]
    BY <1>1, <2>2 DEF Answer
  <2>3. ASSUME NEW b \in Attempt, attempt[b].status = "ready",
               s = [answer |-> b,
                    attempt |-> [attempt EXCEPT ![b] = LeasedRow(@)]]
        PROVE  /\ s.attempt \in [Attempt -> Rows]
               /\ s.answer = b /\ s.attempt[b].status = "leased"
               /\ \A a \in Attempt \ {b} : s.attempt[a] = attempt[a]
    BY <2>3 DEF Rows, LeasedRow
  <2>4. \/ s = [answer |-> "no_work", attempt |-> attempt]
        \/ \E b \in Attempt : attempt[b].status = "ready" /\
             s = [answer |-> b,
                  attempt |-> [attempt EXCEPT ![b] = LeasedRow(@)]]
    BY <2>1 DEF ServeClaim
  <2>5. CASE \E b \in Attempt : attempt[b].status = "ready" /\
             s = [answer |-> b,
                  attempt |-> [attempt EXCEPT ![b] = LeasedRow(@)]]
    <3>1. PICK b \in Attempt : attempt[b].status = "ready" /\
             s = [answer |-> b,
                  attempt |-> [attempt EXCEPT ![b] = LeasedRow(@)]]
      BY <2>5
    <3> QED
      BY <1>1, <2>3, <3>1 DEF Answer
  <2> QED
    BY <2>2, <2>4, <2>5
<1>2. CASE q.op = "heartbeat"
  <2>1. s \in ServeHeartbeat(q.attempt)
    BY <1>2 DEF Served
  <2>2. \/ s.attempt = attempt
        \/ attempt[q.attempt].status = "leased" /\ s.attempt = [attempt EXCEPT ![q.attempt] = LeasedRow(@)]
    <3>1. CASE Refusal(q.attempt) # "none"
      BY <2>1, <3>1 DEF ServeHeartbeat
    <3>2. CASE Refusal(q.attempt) = "none"
      <4>1. attempt[q.attempt].status = "leased"
        BY <3>2 DEF Refusal
      <4> DEFINE renewed == [attempt EXCEPT ![q.attempt] = LeasedRow(@)]
      <4>2. s \in {[answer |-> w, attempt |-> renewed] : w \in {"continue", "cancel"}}
        BY <2>1, <3>2 DEF ServeHeartbeat
      <4>3. s.attempt = renewed
        <5> HIDE DEF renewed
        <5>. QED
          BY <4>2
      <4>. QED
        BY <4>1, <4>3
    <3>. QED
      BY <3>1, <3>2
  <2>3. s.answer \in Answer
    BY <2>1 DEF ServeHeartbeat, Refusal, Answer
  <2>4. \A a \in Attempt : LeasedRow(attempt[a]) \in Rows /\ LeasedRow(attempt[a]).status = "leased"
    BY DEF Rows, LeasedRow
  <2>5. q.attempt \in Attempt
    BY <1>2 DEF Sent
  <2> QED
    BY <1>2, <2>2, <2>3, <2>4, <2>5
<1>3. CASE q.op = "cancellation"
  <2>1. s \in ServeCancellation(q.attempt)
    BY <1>3 DEF Served
  <2> QED
    BY <1>3, <2>1 DEF ServeCancellation, Answer
<1>4. CASE q.op = "result"
  <2>1. s = ServeResult(q.attempt, q.outcome)
    BY <1>4 DEF Served
  <2>2. \/ s.attempt = attempt
        \/ s.attempt = [attempt EXCEPT ![q.attempt] = EndedRow(q.outcome)]
    BY <2>1 DEF ServeResult
  <2>3. s.answer \in Answer
    BY <2>1 DEF ServeResult, Refusal, Answer
  <2>4. q.outcome \in Outcome \cup {"none"} /\ q.attempt \in Attempt
    BY <1>4 DEF Sent, Requests
  <2>5. EndedRow(q.outcome) \in Rows /\ EndedRow(q.outcome).status = "ended"
    BY <2>4 DEF Rows, EndedRow
  <2> QED
    BY <1>4, <2>2, <2>3, <2>4, <2>5
<1> QED
  BY <1>1, <1>2, <1>3, <1>4 DEF Sent, Requests, Op

\* A request is of the kind its caller makes.
LEMMA RequestsAreTyped ==
  ASSUME Core, ControlTypes, NEW c \in Caller, Waiting(c)
  PROVE  /\ Request(c) \in Sent /\ Request(c).op = call[c].op
         /\ call[c].op = "claim" <=> c = Claimer
<1> USE Callers, Constants DEF Core, Types, ControlTypes, CallsMatch
<1>1. call[c].op \in Op
  BY DEF Waiting, Calls
<1>2. call[c].op = "claim" <=> c = Claimer
  BY DEF Waiting
<1>3. c[1] \in Attempt \cup {"runner"}
  BY DEF Claimer
<1>4. call[c].op = "result" => work[c[1]].outcome \in Outcome \cup {"none"}
  <2>1. call[c].op = "result" => c # Claimer
    OBVIOUS
  <2>2. call[c].op = "result" => c[1] \in Attempt
    BY <2>1
  <2> QED
    BY <2>2 DEF Works
<1> QED
  BY <1>1, <1>2, <1>3, <1>4 DEF Request, Sent, Requests

\* A step that loses nothing keeps the count.
LEMMA HarmlessKeepsLost ==
  ASSUME ControlTypes, Lost, Harmless, faults' = faults
  PROVE  Lost'
<1>1. /\ IsFiniteSet(Orphans') /\ Cardinality(Orphans') <= Cardinality(Orphans)
      /\ IsFiniteSet(LateClaims') /\ Cardinality(LateClaims') <= Cardinality(LateClaims)
  BY FS_Subset DEF Lost, Harmless
<1>2. /\ Cardinality(Orphans) \in Nat /\ Cardinality(Orphans') \in Nat
      /\ Cardinality(LateClaims) \in Nat /\ Cardinality(LateClaims') \in Nat
  BY <1>1, FS_CardinalityType DEF Lost
<1>3. faults \in Nat
  BY Constants DEF ControlTypes
<1>4. \A q \in LateClaims' : q.id < faults'
  BY DEF Lost, Harmless
<1>5. Cardinality(Orphans') + Cardinality(LateClaims') <= faults'
  BY <1>1, <1>2, <1>3 DEF Lost
<1> QED
  BY <1>1, <1>4, <1>5 DEF Lost

\* The size of a set that grows by one element at most.
LEMMA AddedElement ==
  ASSUME NEW S, NEW T, NEW x, IsFiniteSet(S), T \subseteq S \cup {x}
  PROVE  IsFiniteSet(T) /\ Cardinality(T) \in Nat /\ Cardinality(T) <= Cardinality(S) + 1
<1>1. Cardinality(S) \in Nat
  BY FS_CardinalityType
<1>2. /\ IsFiniteSet(S \cup {x}) /\ Cardinality(S \cup {x}) <= Cardinality(S) + 1
      /\ Cardinality(S \cup {x}) \in Nat
  BY <1>1, FS_AddElement
<1>3. IsFiniteSet(T) /\ Cardinality(T) <= Cardinality(S \cup {x})
  BY <1>2, FS_Subset
<1>4. Cardinality(T) \in Nat
  BY <1>3, FS_CardinalityType
<1> QED
  BY <1>1, <1>2, <1>3, <1>4

\* A fault loses one attempt or one claim at most.
LEMMA FaultKeepsLost ==
  ASSUME ControlTypes, Lost, faults' = faults + 1, LateClaims \subseteq Sent,
         \/ /\ \E a : Orphans' \subseteq Orphans \cup {a}
            /\ LateClaims' \subseteq LateClaims
         \/ /\ Orphans' \subseteq Orphans
            /\ \E q : q.id = faults /\ LateClaims' \subseteq LateClaims \cup {q}
  PROVE  Lost'
<1>1. faults \in Nat
  BY Constants DEF ControlTypes
<1>2. \A q \in LateClaims : q.id \in Nat
  BY DEF Sent, Requests
<1>3. \A q \in LateClaims' : q.id < faults'
  BY <1>1, <1>2 DEF Lost
<1>4. /\ Cardinality(Orphans) \in Nat /\ Cardinality(LateClaims) \in Nat
  BY FS_CardinalityType DEF Lost
<1>6. ASSUME NEW S, NEW T, IsFiniteSet(S), T \subseteq S
      PROVE  IsFiniteSet(T) /\ Cardinality(T) \in Nat /\ Cardinality(T) <= Cardinality(S)
  BY <1>6, FS_Subset, FS_CardinalityType
<1>7. CASE /\ \E a : Orphans' \subseteq Orphans \cup {a}
           /\ LateClaims' \subseteq LateClaims
  <2>1. IsFiniteSet(Orphans') /\ Cardinality(Orphans') \in Nat /\ Cardinality(Orphans') <= Cardinality(Orphans) + 1
    BY AddedElement, <1>7 DEF Lost
  <2>2. IsFiniteSet(LateClaims') /\ Cardinality(LateClaims') \in Nat /\ Cardinality(LateClaims') <= Cardinality(LateClaims)
    BY <1>6, <1>7 DEF Lost
  <2>3. Cardinality(Orphans') + Cardinality(LateClaims') <= faults'
    BY <1>1, <1>4, <2>1, <2>2 DEF Lost
  <2> QED
    BY <1>3, <2>1, <2>2, <2>3 DEF Lost
<1>8. CASE /\ Orphans' \subseteq Orphans
           /\ \E q : q.id = faults /\ LateClaims' \subseteq LateClaims \cup {q}
  <2>1. IsFiniteSet(LateClaims') /\ Cardinality(LateClaims') \in Nat /\ Cardinality(LateClaims') <= Cardinality(LateClaims) + 1
    BY AddedElement, <1>8 DEF Lost
  <2>2. IsFiniteSet(Orphans') /\ Cardinality(Orphans') \in Nat /\ Cardinality(Orphans') <= Cardinality(Orphans)
    BY <1>6, <1>8 DEF Lost
  <2>3. Cardinality(Orphans') + Cardinality(LateClaims') <= faults'
    BY <1>1, <1>4, <2>1, <2>2 DEF Lost
  <2> QED
    BY <1>3, <2>1, <2>2, <2>3 DEF Lost
<1> QED
  BY <1>7, <1>8

-----------------------------------------------------------------------------
(* The parts of the steps.                                                 *)

\* The end of tasks.
LEMMA EndedKeeps ==
  ASSUME Core, ControlTypes, NEW A \in SUBSET Attempt, \A a \in A : work[a].step # "none",
         Ended(A), UNCHANGED <<sdk, attempt>>
  PROVE  Core' /\ Calm /\ Harmless
<1> USE Callers, Constants DEF Core, Types
<1>1. /\ work' \in [Attempt -> Works]
      /\ \A a \in Attempt : IF a \in A THEN /\ work'[a].step = "over" /\ work'[a].aborted
                                            /\ work'[a].outcome = work[a].outcome
                                            /\ work'[a].sent = work[a].sent
                                       ELSE work'[a] = work[a]
  BY TasksMade DEF Ended
<1>2. /\ call' \in [Caller -> Calls]
      /\ \A c \in Caller : call'[c] = IF c \in CallersOf(A) THEN Idle ELSE call[c]
  BY NewCalls DEF Ended
<1>3. /\ call'[Claimer] = call[Claimer]
      /\ \A a \in Attempt : /\ call'[<<a, "beat">>] = IF a \in A THEN Idle ELSE call[<<a, "beat">>]
                            /\ call'[<<a, "task">>] = IF a \in A THEN Idle ELSE call[<<a, "task">>]
  BY <1>2 DEF CallersOf, Claimer
<1>4. \A c \in CallersOf(A) : Waiting(c) => Request(c) \in Sent /\ Request(c).op # "claim"
  BY RequestsAreTyped DEF CallersOf, Claimer, Caller
<1>5. late' \subseteq Sent /\ LateClaims' = LateClaims
  BY <1>4 DEF Ended, Unserved, LateClaims
<1>6. Types'
  BY <1>1, <1>2, <1>5
<1>7. CallsMatch'
  BY <1>1, <1>3, NewCalls DEF CallsMatch
<1>8. ClaimsAreNew'
  BY <1>1, <1>3 DEF ClaimsAreNew
<1>9. SentIsOutcome'
  BY <1>1 DEF SentIsOutcome
<1>11. FencedTs'
  <2> SUFFICES ASSUME sdk = "ts", NEW a \in Attempt, work'[a].aborted
               PROVE  call'[<<a, "task">>].op = "none"
    BY DEF FencedTs
  <2>1. CASE a \in A
    BY <1>3, <2>1, NewCalls
  <2>2. CASE a \notin A
    BY <1>1, <1>3, <2>2 DEF FencedTs
  <2> QED
    BY <2>1, <2>2
<1>10. Calm /\ Harmless
  BY <1>1, <1>3, <1>5 DEF Calm, Harmless, Active, Orphans
<1> QED
  BY <1>6, <1>7, <1>8, <1>9, <1>10, <1>11

\* The end of a heartbeat loop, which tells its task.
LEMMA AbortPyKeeps ==
  ASSUME Core, ControlTypes, NEW a \in Attempt, work[a].step # "none", AbortPy(a),
         sdk = "ts" => call[<<a, "task">>].op = "none", UNCHANGED <<sdk, attempt>>
  PROVE  Core' /\ Calm /\ Harmless
<1> USE Callers, Constants DEF Core, Types
<1>1. /\ work' \in [Attempt -> Works]
      /\ \A b \in Attempt : IF b = a THEN /\ work'[b].step = work[b].step
                                          /\ work'[b].outcome = work[b].outcome
                                          /\ work'[b].sent = work[b].sent
                                     ELSE work'[b] = work[b]
  BY TasksMade DEF AbortPy
<1>2. /\ call' \in [Caller -> Calls]
      /\ call'[Claimer] = call[Claimer]
      /\ \A b \in Attempt : /\ call'[<<b, "beat">>] = IF b = a THEN Idle ELSE call[<<b, "beat">>]
                            /\ call'[<<b, "task">>] = call[<<b, "task">>]
  BY NewCalls DEF AbortPy
<1>3. Types' /\ LateClaims' = LateClaims
  BY <1>1, <1>2 DEF AbortPy, LateClaims
<1>4. CallsMatch'
  BY <1>1, <1>2, NewCalls DEF CallsMatch
<1>5. ClaimsAreNew'
  BY <1>1, <1>2 DEF ClaimsAreNew
<1>6. SentIsOutcome' /\ FencedTs'
  BY <1>1, <1>2 DEF SentIsOutcome, FencedTs
<1>7. Calm /\ Harmless
  BY <1>1, <1>2, <1>3 DEF Calm, Harmless, Active, Orphans
<1> QED
  BY <1>3, <1>4, <1>5, <1>6, <1>7

LEMMA AbortKeeps ==
  ASSUME Core, ControlTypes, NEW a \in Attempt, call[<<a, "beat">>].op # "none", Abort(a),
         UNCHANGED <<sdk, attempt>>
  PROVE  Core' /\ Calm /\ Harmless
<1>1. work[a].step \in {"run", "submit"}
  BY DEF Core, CallsMatch
<1>2. CASE sdk = "ts" /\ work[a].step = "submit"
  BY <1>2, EndedKeeps, {a} \in SUBSET Attempt DEF Abort, AbortTs
<1>3. CASE ~(sdk = "ts" /\ work[a].step = "submit")
  <2>1. AbortPy(a)
    BY <1>3 DEF Abort, AbortTs
  <2>2. sdk = "ts" => call[<<a, "task">>].op = "none"
    BY <1>1, <1>3 DEF Core, CallsMatch
  <2> QED
    BY <1>1, <2>1, <2>2, AbortPyKeeps
<1> QED
  BY <1>2, <1>3

\* A request is tried again.
LEMMA RetriedKeeps ==
  ASSUME Core, ControlTypes, NEW c \in Caller, Waiting(c), MayRetry(c), call' = Retried(c),
         late' \subseteq Sent, UNCHANGED <<sdk, attempt, work>>
  PROVE  Core' /\ Calm /\ (\A d \in Caller \ {c} : call'[d] = call[d]) /\ call'[c].answer = "none"
<1> USE Callers, Constants DEF Core, Types
<1>1. call[c].try + 1 <= Retries + 1 /\ (c # Claimer => call[c].try + 1 <= Retries)
  <2>1. Tries(call[c].op) \in {Retries + 1, Retries + 2} /\ (c # Claimer => Tries(call[c].op) = Retries + 1)
    BY RequestsAreTyped DEF Tries
  <2>2. call[c].try \in Nat
    BY DEF Calls
  <2> QED
    BY <2>1, <2>2 DEF MayRetry
<1>2. /\ call' \in [Caller -> Calls]
      /\ \A d \in Caller \ {c} : call'[d] = call[d]
      /\ call'[c].op = call[c].op /\ call'[c].answer = "none"
      /\ call'[c].try = call[c].try + 1
  BY <1>1, CallsMade DEF Retried
<1>3. Types'
  BY <1>2
<1>4. CallsMatch'
  BY <1>1, <1>2 DEF CallsMatch, Waiting
<1>5. ClaimsAreNew'
  BY <1>2 DEF ClaimsAreNew
<1>6. SentIsOutcome' /\ Calm
  BY <1>2 DEF SentIsOutcome, Calm, Active
<1>7. FencedTs'
  <2>1. \A a \in Attempt : call'[<<a, "task">>].op = call[<<a, "task">>].op
    BY <1>2
  <2> QED
    BY <2>1 DEF FencedTs
<1> QED
  BY <1>2, <1>3, <1>4, <1>5, <1>6, <1>7

-----------------------------------------------------------------------------
(* The steps.                                                              *)

LEMMA ServeKeeps ==
  ASSUME WorkerInv, NEW c \in Caller, Serve(c)
  PROVE  WorkerInv'
<1> USE Callers, Constants DEF WorkerInv, Core, Types
<1>1. Request(c) \in Sent /\ Request(c).op = call[c].op /\ (call[c].op = "claim" <=> c = Claimer)
  BY RequestsAreTyped DEF Serve
<1>2. PICK s \in Served(Request(c)) : /\ attempt' = s.attempt
                                      /\ call' = [call EXCEPT ![c] = Answered(@, s.answer)]
  BY DEF Serve
<1>3. /\ attempt' \in [Attempt -> Rows] /\ s.answer \in Answer
      /\ \A a \in Attempt : attempt[a].status # "ready" => attempt'[a].status # "ready"
      /\ c = Claimer =>
           \/ s.answer = "no_work" /\ attempt' = attempt
           \/ /\ s.answer \in Attempt
              /\ attempt[s.answer].status = "ready" /\ attempt'[s.answer].status = "leased"
              /\ \A a \in Attempt \ {s.answer} : attempt'[a] = attempt[a]
      /\ c # Claimer =>
           \A a \in Attempt : attempt'[a].status = "leased" => attempt[a].status = "leased"
  BY <1>1, <1>2, ServerKeepsRows
<1>4. /\ call' \in [Caller -> Calls]
      /\ \A d \in Caller : call'[d].op = call[d].op /\ call'[d].try = call[d].try
      /\ \A d \in Caller \ {c} : call'[d] = call[d]
      /\ call'[c].answer = s.answer
  BY <1>2, <1>3, AnsweredCall
<1>5. UNCHANGED <<sdk, loop, stopping, drain, work, late, faults>>
  BY DEF Serve
<1>6. Types' /\ ControlTypes'
  BY <1>3, <1>4, <1>5 DEF ControlTypes
<1>7. CallsMatch'
  BY <1>3, <1>4, <1>5 DEF CallsMatch, Serve, Waiting
<1>8. ClaimsAreNew'
  BY <1>3, <1>4, <1>5 DEF ClaimsAreNew
<1>9. SentIsOutcome'
  BY <1>5 DEF SentIsOutcome
<1>10. FencedTs'
  <2>1. \A a \in Attempt : call'[<<a, "task">>].op = call[<<a, "task">>].op
    BY <1>4
  <2> QED
    BY <1>5, <2>1 DEF FencedTs
<1>11. Room' /\ LoopMatches'
  <2>1. Calm
    BY <1>4, <1>5 DEF Calm, Active
  <2> QED
    BY <1>5, <2>1, CalmKeepsRoom
<1>12. Lost'
  <2>1. Harmless
    BY <1>3, <1>4, <1>5 DEF Harmless, Orphans, LateClaims, ClaimsAreNew, Serve
  <2> QED
    BY <1>5, <2>1, HarmlessKeepsLost
<1> QED
  BY <1>6, <1>7, <1>8, <1>9, <1>10, <1>11, <1>12

LEMMA ServeLateKeeps ==
  ASSUME WorkerInv, NEW q \in late, ServeLate(q)
  PROVE  WorkerInv'
<1> USE Callers, Constants DEF WorkerInv, Core, Types
<1>1. PICK s \in Served(q) : attempt' = s.attempt
  BY DEF ServeLate
<1>2. /\ attempt' \in [Attempt -> Rows]
      /\ \A a \in Attempt : attempt[a].status # "ready" => attempt'[a].status # "ready"
      /\ q.op = "claim" =>
           \/ attempt' = attempt
           \/ \E b \in Attempt : \A a \in Attempt \ {b} : attempt'[a] = attempt[a]
      /\ q.op # "claim" =>
           \A a \in Attempt : attempt'[a].status = "leased" => attempt[a].status = "leased"
  BY <1>1, ServerKeepsRows
<1>3. late' = late \ {q} /\ UNCHANGED <<sdk, loop, stopping, drain, work, call, faults>>
  BY DEF ServeLate
<1>4. Types' /\ ControlTypes' /\ CallsMatch' /\ SentIsOutcome'
  BY <1>2, <1>3 DEF ControlTypes, CallsMatch, SentIsOutcome
<1>5. ClaimsAreNew'
  BY <1>2, <1>3 DEF ClaimsAreNew
<1>6. FencedTs' /\ Room' /\ LoopMatches'
  BY <1>3 DEF FencedTs, Room, Active, LoopMatches
<1>7. Lost'
  <2>1. CASE q.op # "claim" \/ attempt' = attempt
    <3>1. Harmless
      BY <1>2, <1>3, <2>1 DEF Harmless, Orphans, LateClaims
    <3> QED
      BY <1>3, <3>1, HarmlessKeepsLost
  <2>2. CASE q.op = "claim" /\ attempt' # attempt
    <3>1. PICK b \in Attempt : \A a \in Attempt \ {b} : attempt'[a] = attempt[a]
      BY <1>2, <2>2
    <3>2. Orphans' \subseteq Orphans \cup {b}
      BY <1>3, <3>1 DEF Orphans
    <3>3. LateClaims' = LateClaims \ {q} /\ q \in LateClaims
      BY <1>3, <2>2 DEF LateClaims
    <3>4. /\ Cardinality(Orphans) \in Nat /\ Cardinality(LateClaims) \in Nat
          /\ IsFiniteSet(LateClaims') /\ Cardinality(LateClaims') = Cardinality(LateClaims) - 1
      BY <3>3, FS_CardinalityType, FS_RemoveElement DEF Lost
    <3>6. IsFiniteSet(Orphans') /\ Cardinality(Orphans') \in Nat /\ Cardinality(Orphans') <= Cardinality(Orphans) + 1
      BY <3>2, AddedElement DEF Lost
    <3>7. faults \in Nat
      BY DEF ControlTypes
    <3>8. Cardinality(Orphans') + Cardinality(LateClaims') <= faults'
      BY <1>3, <3>4, <3>6, <3>7 DEF Lost
    <3>9. \A r \in LateClaims' : r.id < faults'
      BY <1>3, <3>3 DEF Lost
    <3> QED
      BY <3>4, <3>6, <3>8, <3>9 DEF Lost
  <2> QED
    BY <2>1, <2>2
<1> QED
  BY <1>4, <1>5, <1>6, <1>7

LEMMA EndAttemptKeeps ==
  ASSUME WorkerInv, NEW a \in Attempt, EndAttempt(a)
  PROVE  WorkerInv'
<1> USE Callers, Constants DEF WorkerInv, Core, Types
<1>1. /\ EndedRow(attempt[a].result) \in Rows /\ EndedRow(attempt[a].result).status = "ended"
  BY DEF EndedRow, Rows
<1>2. /\ attempt' \in [Attempt -> Rows] /\ attempt'[a].status = "ended"
      /\ \A b \in Attempt \ {a} : attempt'[b] = attempt[b]
  BY <1>1 DEF EndAttempt
<1>3. UNCHANGED <<sdk, loop, stopping, drain, work, call, late, faults>>
  BY DEF EndAttempt
<1>4. Types' /\ ControlTypes' /\ CallsMatch' /\ SentIsOutcome'
  BY <1>2, <1>3 DEF ControlTypes, CallsMatch, SentIsOutcome
<1>5. ClaimsAreNew'
  BY <1>2, <1>3 DEF ClaimsAreNew
<1>6. FencedTs' /\ Room' /\ LoopMatches'
  BY <1>3 DEF FencedTs, Room, Active, LoopMatches
<1>7. Harmless
  BY <1>2, <1>3 DEF Harmless, Orphans, LateClaims
<1>8. Lost'
  BY <1>3, <1>7, HarmlessKeepsLost
<1> QED
  BY <1>4, <1>5, <1>6, <1>8

LEMMA BeatKeeps ==
  ASSUME WorkerInv, NEW a \in Attempt, Beat(a)
  PROVE  WorkerInv'
<1> USE Callers, Constants DEF WorkerInv, Core, Types
<1>1. UNCHANGED <<sdk, attempt, loop, stopping, drain, late, faults>>
  BY DEF Beat
<1>2. /\ work' \in [Attempt -> Works]
      /\ \A b \in Attempt : /\ work'[b].step = work[b].step /\ work'[b].outcome = work[b].outcome
                            /\ work'[b].sent = work[b].sent /\ (work'[b].aborted <=> work[b].aborted)
                            /\ work[b].step = "none" => work'[b] = work[b]
  <2>1. work' = [work EXCEPT ![a].due = Never] /\ work[a].step # "none"
    BY DEF Beat, Active
  <2>2. Never \in Never..(Lease + Interval)
    BY DEF Never
  <2> QED
    BY <2>1, <2>2 DEF Works
<1>3. /\ call' \in [Caller -> Calls]
      /\ \A c \in Caller \ {<<a, "beat">>} : call'[c] = call[c]
      /\ call'[<<a, "beat">>].op = "heartbeat" /\ call'[<<a, "beat">>].try = 0
  BY NewCalls DEF Beat, Op
<1>4. Types' /\ ControlTypes'
  BY <1>1, <1>2, <1>3 DEF ControlTypes
<1>5. CallsMatch'
  <2>1. work[a].step \in {"run", "submit"}
    BY DEF Beat, Active
  <2>2. /\ call'[Claimer] = call[Claimer]
        /\ \A b \in Attempt : call'[<<b, "task">>] = call[<<b, "task">>]
        /\ \A b \in Attempt \ {a} : call'[<<b, "beat">>] = call[<<b, "beat">>]
    BY <1>3
  <2> QED
    BY <1>2, <1>3, <2>1, <2>2 DEF CallsMatch
<1>6. ClaimsAreNew'
  <2>1. call'[Claimer] = call[Claimer]
    BY <1>3
  <2> QED
    BY <1>1, <1>2, <2>1 DEF ClaimsAreNew
<1>10. SentIsOutcome'
  BY <1>2 DEF SentIsOutcome
<1>7. FencedTs'
  <2>1. \A b \in Attempt : call'[<<b, "task">>] = call[<<b, "task">>]
    BY <1>3
  <2> QED
    BY <1>1, <1>2, <2>1 DEF FencedTs
<1>8. Room' /\ LoopMatches'
  BY <1>1, <1>2, <1>3, CalmKeepsRoom DEF Calm, Active
<1>9. Lost'
  BY <1>1, <1>2, <1>3, HarmlessKeepsLost DEF Harmless, Orphans, LateClaims
<1> QED
  BY <1>4, <1>5, <1>6, <1>7, <1>8, <1>9, <1>10

\* The task has its outcome and asks whether it may submit it, or submits it.
LEMMA SubmitKeeps ==
  ASSUME Core, ControlTypes, NEW a \in Attempt, work[a].step = "submit",
         sdk = "ts" => ~work[a].aborted, Submit(a), UNCHANGED <<sdk, attempt>>
  PROVE  Core' /\ Calm /\ Harmless
<1> USE Callers, Constants DEF Core, Types
<1>1. /\ work' \in [Attempt -> Works]
      /\ \A b \in Attempt \ {a} : work'[b] = work[b]
      /\ work'[a].step = "submit" /\ work'[a].outcome = work[a].outcome
      /\ (work'[a].aborted <=> work[a].aborted)
      /\ work'[a].sent \subseteq work[a].sent \cup {work[a].outcome}
  <2>1. work[a].outcome \in Outcome
    BY DEF SentIsOutcome
  <2>2. work' = [work EXCEPT ![a].sent = @ \cup {work[a].outcome}]
    BY DEF Submit
  <2> QED
    BY <2>1, <2>2 DEF Works
<1>2. /\ call' \in [Caller -> Calls]
      /\ \A c \in Caller \ {<<a, "task">>} : call'[c] = call[c]
      /\ call'[<<a, "task">>].op = "result"
  BY NewCalls DEF Submit, Op
<1>3. Types' /\ LateClaims' = LateClaims
  BY <1>1, <1>2 DEF Submit, LateClaims
<1>4. CallsMatch'
  BY <1>1, <1>2 DEF CallsMatch
<1>5. ClaimsAreNew'
  BY <1>1, <1>2 DEF ClaimsAreNew
<1>6. SentIsOutcome'
  BY <1>1 DEF SentIsOutcome
<1>7. FencedTs'
  <2>1. \A b \in Attempt \ {a} : call'[<<b, "task">>] = call[<<b, "task">>]
    BY <1>2
  <2>2. sdk = "ts" => ~work'[a].aborted
    BY <1>1
  <2> QED
    BY <1>1, <2>1, <2>2 DEF FencedTs
<1>8. Calm /\ Harmless
  BY <1>1, <1>2, <1>3 DEF Calm, Harmless, Active, Orphans
<1> QED
  BY <1>3, <1>4, <1>5, <1>6, <1>7, <1>8

LEMMA ComponentEndsKeeps ==
  ASSUME WorkerInv, NEW a \in Attempt, ComponentEnds(a)
  PROVE  WorkerInv'
<1> USE Callers, Constants DEF WorkerInv, Core, Types
<1>1. UNCHANGED <<sdk, attempt, loop, stopping, drain, faults>> /\ work[a].step = "run"
  BY DEF ComponentEnds
<1>2. CASE Over(a)
  <2>1. Core' /\ Calm /\ Harmless
    BY <1>1, <1>2, EndedKeeps, {a} \in SUBSET Attempt DEF Over
  <2> QED
    BY <1>1, <2>1, CalmKeepsRoom, HarmlessKeepsLost DEF ControlTypes
<1>3. ASSUME NEW o \in Outcome, work' = [work EXCEPT ![a] = Returned(@, o)], ~work[a].aborted,
             call' = [call EXCEPT ![<<a, "task">>] = Asked("cancellation")], UNCHANGED late
      PROVE  WorkerInv'
  <2>1. /\ work' \in [Attempt -> Works]
        /\ \A b \in Attempt \ {a} : work'[b] = work[b]
        /\ work'[a].step = "submit" /\ work'[a].sent = work[a].sent
        /\ ~work'[a].aborted /\ work'[a].outcome = o
    BY <1>3, ReturnedTask
  <2>2. /\ call' \in [Caller -> Calls]
        /\ \A c \in Caller \ {<<a, "task">>} : call'[c] = call[c]
        /\ call'[<<a, "task">>].op = "cancellation"
    BY <1>3, NewCalls DEF Op
  <2>3. Types' /\ ControlTypes'
    BY <1>1, <1>3, <2>1, <2>2 DEF ControlTypes
  <2>4. CallsMatch'
    BY <1>1, <2>1, <2>2 DEF CallsMatch
  <2>5. ClaimsAreNew' /\ SentIsOutcome'
    BY <1>1, <2>1, <2>2 DEF ClaimsAreNew, SentIsOutcome
  <2>6. FencedTs'
    <3>1. \A b \in Attempt \ {a} : call'[<<b, "task">>] = call[<<b, "task">>]
      BY <2>2
    <3> QED
      BY <1>1, <2>1, <3>1 DEF FencedTs
  <2>7. Room' /\ LoopMatches'
    BY <1>1, <2>1, <2>2, CalmKeepsRoom DEF Calm, Active
  <2>8. Lost'
    BY <1>1, <1>3, <2>1, <2>2, HarmlessKeepsLost DEF Harmless, Orphans, LateClaims
  <2> QED
    BY <2>3, <2>4, <2>5, <2>6, <2>7, <2>8
<1> QED
  BY <1>2, <1>3 DEF ComponentEnds

\* A step of the claim loop that keeps the tasks.
LEMMA LoopKeeps ==
  ASSUME Core, ControlTypes, UNCHANGED <<sdk, attempt, work, late>>,
         call[Claimer].answer \notin Attempt \/ attempt[call[Claimer].answer].status # "leased",
         \E k \in {Idle, Asked("claim")} : call' = [call EXCEPT ![Claimer] = k]
  PROVE  Core' /\ Harmless
<1> USE Callers, Constants DEF Core, Types
<1>1. /\ call' \in [Caller -> Calls]
      /\ \A c \in Caller \ {Claimer} : call'[c] = call[c]
      /\ call'[Claimer].op \in {"none", "claim"} /\ call'[Claimer].answer = "none"
      /\ call'[Claimer].try = 0
  BY NewCalls DEF Op
<1>2. Types' /\ CallsMatch' /\ ClaimsAreNew' /\ SentIsOutcome'
  BY <1>1 DEF CallsMatch, ClaimsAreNew, SentIsOutcome
<1>3. FencedTs'
  <2>1. \A a \in Attempt : call'[<<a, "task">>] = call[<<a, "task">>]
    BY <1>1
  <2> QED
    BY <2>1 DEF FencedTs
<1>4. Harmless
  BY <1>1 DEF Harmless, Orphans, LateClaims
<1> QED
  BY <1>2, <1>3, <1>4

LEMMA WakeKeeps ==
  ASSUME WorkerInv, Wake
  PROVE  WorkerInv'
<1> USE Callers, Constants DEF WorkerInv, Core, Types
<1>1. /\ UNCHANGED <<sdk, attempt, stopping, work, late, faults>>
      /\ loop = "waiting" /\ call[Claimer].op = "none" /\ call[Claimer].answer = "none"
  BY DEF Wake, LoopMatches, CallsMatch
<1>2. /\ loop' = Onward(Cardinality(Active), TRUE) /\ Draining(loop')
      /\ call' = [call EXCEPT ![Claimer] = Claiming(loop')]
  BY DEF Wake
<1>3. Core' /\ Harmless
  BY <1>1, <1>2, LoopKeeps DEF Claiming
<1>4. loop' \in {"waiting", "claiming", "draining"} /\ drain' \in Never..Grace
  BY <1>2 DEF Onward, Draining, Never
<1>5. ControlTypes' /\ Lost'
  BY <1>1, <1>3, <1>4, HarmlessKeepsLost DEF ControlTypes
<1>6. call'[Claimer].op = "claim" => loop' = "claiming" /\ Cardinality(Active) < Concurrency
  <2>1. call'[Claimer] = Claiming(loop')
    BY <1>2
  <2>2. loop' = "claiming" => ~(Cardinality(Active) >= Concurrency)
    BY <1>2 DEF Onward
  <2>3. Cardinality(Active) \in Nat
    BY FS_CardinalityType DEF Room
  <2> QED
    BY <2>1, <2>2, <2>3, NewCalls DEF Claiming
<1>7. Room' /\ LoopMatches'
  BY <1>1, <1>6 DEF Room, LoopMatches, Active
<1> QED
  BY <1>3, <1>5, <1>7

LEMMA StopKeeps == WorkerInv /\ Stop => WorkerInv'
BY DEF WorkerInv, Stop, Core, Types, ControlTypes, CallsMatch, ClaimsAreNew, SentIsOutcome,
       FencedTs, LoopMatches, Room, Lost, Active, Orphans, LateClaims

LEMMA StoppedKeeps ==
  ASSUME WorkerInv, Stopped
  PROVE  WorkerInv'
<1> USE Constants DEF WorkerInv
<1>1. Core' /\ Calm /\ Harmless
  BY EndedKeeps, Active \in SUBSET Attempt DEF Stopped, Active
<1>2. ControlTypes' /\ Lost'
  BY <1>1, HarmlessKeepsLost DEF ControlTypes, Stopped, Never
<1>3. Room' /\ LoopMatches'
  BY <1>1, CalmKeepsRoom DEF Stopped, LoopMatches, Calm
<1> QED
  BY <1>1, <1>2, <1>3

LEMMA KillKeeps ==
  ASSUME WorkerInv, Kill
  PROVE  WorkerInv'
<1> USE Callers, Constants DEF WorkerInv, Core, Types
<1>1. UNCHANGED <<sdk, attempt>> /\ faults' = faults + 1 /\ faults < MaxFault
  BY DEF Kill
<1>2. /\ work' \in [Attempt -> Works]
      /\ \A a \in Attempt : IF a \in Active THEN /\ work'[a].step = "over" /\ work'[a].aborted
                                                 /\ work'[a].outcome = work[a].outcome
                                                 /\ work'[a].sent = work[a].sent
                                            ELSE work'[a] = work[a]
  BY TasksMade DEF Kill
<1>3. /\ call' \in [Caller -> Calls]
      /\ \A c \in Caller : call'[c] = Idle
  BY NewCalls DEF Kill
<1>4. /\ \A c \in Caller : Waiting(c) => Request(c) \in Sent /\ (Request(c).op = "claim" => c = Claimer)
      /\ Request(Claimer).id = faults
  BY RequestsAreTyped DEF Request
<1>5. late' = late \cup Unserved(Caller)
  BY DEF Kill
<1>6. late' \subseteq Sent
  BY <1>4, <1>5 DEF Unserved
<1>7. Types'
  BY <1>1, <1>2, <1>3, <1>6
<1>8. CallsMatch'
  BY <1>3, NewCalls DEF CallsMatch
<1>15. FencedTs' /\ LoopMatches'
  BY <1>3, NewCalls DEF FencedTs, LoopMatches
<1>9. ClaimsAreNew'
  BY <1>1, <1>2, <1>3, NewCalls DEF ClaimsAreNew, Active
<1>10. SentIsOutcome'
  BY <1>2 DEF SentIsOutcome
<1>11. ControlTypes'
  BY <1>1 DEF ControlTypes, Kill, Never
<1>12. Calm
  BY <1>2, <1>3, NewCalls DEF Calm, Active
<1>13. Room'
  BY <1>12, CalmKeepsRoom
<1>14. Lost'
  <2>1. \A a \in Attempt : work'[a].step = "none" => work[a].step = "none"
    BY <1>2
  <2>2. CASE Waiting(Claimer) /\ call[Claimer].answer = "none"
    <3>1. Orphans' \subseteq Orphans
      BY <1>1, <2>1, <2>2 DEF Orphans
    <3>2. LateClaims' \subseteq LateClaims \cup {Request(Claimer)}
      BY <1>4, <1>5 DEF LateClaims, Unserved
    <3> QED
      BY <1>1, <1>4, <3>1, <3>2, FaultKeepsLost, LateClaims \subseteq Sent DEF LateClaims
  <2>3. CASE ~(Waiting(Claimer) /\ call[Claimer].answer = "none")
    <3>1. Orphans' \subseteq Orphans \cup {call[Claimer].answer}
      BY <1>1, <2>1 DEF Orphans
    <3>2. LateClaims' \subseteq LateClaims
      BY <1>4, <1>5, <2>3 DEF LateClaims, Unserved
    <3> QED
      BY <1>1, <3>1, <3>2, FaultKeepsLost, LateClaims \subseteq Sent DEF LateClaims
  <2> QED
    BY <2>2, <2>3
<1> QED
  BY <1>7, <1>8, <1>9, <1>10, <1>11, <1>13, <1>14, <1>15

LEMMA TickKeeps ==
  ASSUME WorkerInv, Tick
  PROVE  WorkerInv'
<1> USE Callers, Constants DEF WorkerInv, Core, Types
<1>1. UNCHANGED <<sdk, loop, stopping, late, faults>>
  BY DEF Tick
<1>2. /\ attempt' \in [Attempt -> Rows]
      /\ \A a \in Attempt : attempt'[a].status = attempt[a].status
  <2>1. \A row \in Rows : LaterRow(row) \in Rows /\ LaterRow(row).status = row.status
    BY DEF Rows, LaterRow
  <2> QED
    BY <2>1 DEF Tick
<1>3. /\ work' \in [Attempt -> Works]
      /\ \A a \in Attempt : /\ work'[a].step = work[a].step /\ work'[a].outcome = work[a].outcome
                            /\ work'[a].sent = work[a].sent /\ (work'[a].aborted <=> work[a].aborted)
                            /\ work[a] = NoTask => work'[a] = NoTask
  BY TasksMade DEF Tick
<1>4. /\ call' \in [Caller -> Calls]
      /\ \A c \in Caller : call'[c].op = call[c].op /\ call'[c].try <= call[c].try
      /\ call'[Claimer].answer = call[Claimer].answer
  <2>1. \A c \in Caller : call'[c] = IF Waiting(c) THEN LaterCall(call[c]) ELSE Idle
    BY DEF Tick
  <2>2. \A c \in Caller : Waiting(c) => call[c].wait > 0
    BY DEF Tick
  <2>3. \A c \in Caller : call[c].try \in 0..(Retries + 1)
    BY DEF Calls
  <2>4. call' \in [Caller -> Calls]
    BY <2>1, <2>2, CallsMade, NewCalls DEF Tick
  <2> QED
    BY <2>1, <2>3, <2>4, CallsMade, NewCalls DEF Waiting, CallsMatch
<1>5. Types'
  BY <1>1, <1>2, <1>3, <1>4
<1>6. ControlTypes'
  BY <1>1 DEF ControlTypes, Tick, Less, Never
<1>7. CallsMatch'
  <2>1. \A c \in Caller : call[c].try \in Nat /\ call'[c].try \in Nat
    BY <1>4 DEF Calls
  <2> QED
    BY <1>3, <1>4, <2>1 DEF CallsMatch
<1>8. ClaimsAreNew'
  BY <1>2, <1>3, <1>4 DEF ClaimsAreNew
<1>9. SentIsOutcome'
  BY <1>3 DEF SentIsOutcome
<1>10. FencedTs'
  <2>1. \A a \in Attempt : call'[<<a, "task">>].op = call[<<a, "task">>].op
    BY <1>4
  <2>2. \A a \in Attempt : work'[a].aborted => work[a].aborted
    BY <1>3
  <2> QED
    BY <1>1, <2>1, <2>2 DEF FencedTs
<1>11. Room' /\ LoopMatches'
  BY <1>1, <1>3, <1>4, CalmKeepsRoom DEF Calm, Active
<1>12. Lost'
  BY <1>1, <1>2, <1>3, <1>4, HarmlessKeepsLost DEF Harmless, Orphans, LateClaims
<1> QED
  BY <1>5, <1>6, <1>7, <1>8, <1>9, <1>10, <1>11, <1>12

\* An envelope arrives.
LEMMA ClaimedKeeps ==
  ASSUME WorkerInv, call[Claimer].op = "claim", NEW a \in Attempt, call[Claimer].answer = a,
         Claimed(a), UNCHANGED <<sdk, attempt, stopping, faults>>
  PROVE  WorkerInv'
<1> USE Callers, Constants DEF WorkerInv, Core, Types
<1>1. /\ loop' = Onward(Cardinality(Active) + 1, FALSE) /\ Draining(loop') /\ UNCHANGED late
      /\ work' = [work EXCEPT ![a] = Started(call[Claimer].left)]
      /\ call' = [call EXCEPT ![Claimer] = Claiming(loop')]
  BY DEF Claimed
<1>2. work[a].step = "none" /\ work[a] = NoTask /\ attempt[a].status # "ready"
  BY DEF ClaimsAreNew
<1>3. /\ work' \in [Attempt -> Works]
      /\ \A b \in Attempt \ {a} : work'[b] = work[b]
      /\ work'[a].step = "run" /\ work'[a].sent = {} /\ ~work'[a].aborted
  <2>1. call[Claimer].left \in 0..Lease
    BY DEF Calls
  <2> QED
    BY <1>1, <2>1, StartedTask
<1>4. /\ call' \in [Caller -> Calls]
      /\ \A c \in Caller \ {Claimer} : call'[c] = call[c]
      /\ call'[Claimer].op = IF loop' = "claiming" THEN "claim" ELSE "none"
      /\ call'[Claimer].answer = "none" /\ call'[Claimer].try = 0
  BY <1>1, NewCalls DEF Claiming, Op
<1>5. \A b \in Attempt : /\ call'[<<b, "task">>] = call[<<b, "task">>]
                         /\ call'[<<b, "beat">>] = call[<<b, "beat">>]
  BY <1>4
<1>6. Types'
  BY <1>1, <1>3, <1>4
<1>7. loop' \in {"waiting", "claiming", "draining"} /\ drain' \in Never..Grace
  BY <1>1 DEF Onward, Draining, Never
<1>8. ControlTypes' /\ LoopMatches'
  BY <1>4, <1>7 DEF ControlTypes, LoopMatches
<1>9. CallsMatch'
  BY <1>2, <1>3, <1>4, <1>5 DEF CallsMatch
<1>10. ClaimsAreNew'
  BY <1>2, <1>3, <1>4 DEF ClaimsAreNew
<1>11. SentIsOutcome'
  BY <1>3 DEF SentIsOutcome
<1>12. FencedTs'
  BY <1>3, <1>5 DEF FencedTs
<1>13. Room'
  <2>1. Active' \subseteq Active \cup {a}
    BY <1>3 DEF Active
  <2>2. IsFiniteSet(Active') /\ Cardinality(Active') \in Nat /\ Cardinality(Active') <= Cardinality(Active) + 1
    BY <2>1, AddedElement DEF Room
  <2>3. Cardinality(Active) \in Nat /\ Cardinality(Active) < Concurrency
    BY FS_CardinalityType DEF Room
  <2>4. call'[Claimer].op = "claim" => ~(Cardinality(Active) + 1 >= Concurrency)
    BY <1>1, <1>4 DEF Onward
  <2> QED
    BY <2>2, <2>3, <2>4 DEF Room
<1>14. Lost'
  BY <1>1, <1>3, <1>4, HarmlessKeepsLost DEF Harmless, Orphans, LateClaims
<1> QED
  BY <1>6, <1>8, <1>9, <1>10, <1>11, <1>12, <1>13, <1>14

LEMMA DeliverKeeps ==
  ASSUME WorkerInv, NEW c \in Caller, Deliver(c)
  PROVE  WorkerInv'
<1> USE Callers, Constants DEF WorkerInv, Core, Types
<1>1. UNCHANGED <<sdk, attempt, stopping, faults>> /\ Waiting(c)
  BY DEF Deliver
<1>2. ASSUME Core', Calm, Harmless, UNCHANGED <<loop, drain>>
      PROVE  WorkerInv'
  BY <1>1, <1>2, CalmKeepsRoom, HarmlessKeepsLost DEF ControlTypes
<1>3. CASE RetryableAnswer(call[c].answer) /\ MayRetry(c)
  <2>1. call' = Retried(c) /\ UNCHANGED <<loop, drain, work, late>>
    BY <1>3 DEF Deliver
  <2>2. call[c].answer = "lease_expired" /\ c # Claimer
    BY <1>3 DEF RetryableAnswer, CallsMatch
  <2>3. Core' /\ Calm /\ call'[Claimer] = call[Claimer]
    BY <1>1, <1>3, <2>1, <2>2, RetriedKeeps
  <2>4. Harmless
    BY <1>1, <2>1, <2>3 DEF Harmless, Orphans, LateClaims
  <2> QED
    BY <1>2, <2>1, <2>3, <2>4
<1>4. CASE ~(RetryableAnswer(call[c].answer) /\ MayRetry(c))
  <2>1. /\ Handle(c, call[c].answer) /\ (call[c].op # "claim" => UNCHANGED <<loop, drain>>)
        /\ call[c].answer # "none"
    BY <1>4 DEF Deliver
  <2>2. CASE c = Claimer
    <3>1. call[Claimer].op = "claim"
      BY <1>1, <2>2, RequestsAreTyped
    <3>2. CASE call[Claimer].answer \in Attempt
      <4>1. Claimed(call[Claimer].answer)
        BY <2>1, <2>2, <3>1, <3>2 DEF Handle
      <4> QED
        BY <1>1, <3>1, <3>2, <4>1, ClaimedKeeps
    <3>3. CASE call[Claimer].answer \notin Attempt
      <4>1. NotClaimed
        BY <2>1, <2>2, <3>1, <3>3 DEF Handle
      <4>2. call' = [call EXCEPT ![Claimer] = Idle] /\ loop' = "waiting" /\ UNCHANGED <<drain, work, late>>
        BY <4>1 DEF NotClaimed
      <4>3. Core' /\ Harmless
        BY <1>1, <3>3, <4>2, LoopKeeps
      <4>4. call'[Claimer].op = "none"
        BY <4>2, NewCalls
      <4>5. Calm
        BY <4>2, <4>4 DEF Calm, Active
      <4> QED
        BY <1>1, <4>2, <4>3, <4>4, <4>5, CalmKeepsRoom, HarmlessKeepsLost DEF ControlTypes, LoopMatches
    <3> QED
      BY <3>2, <3>3
  <2>3. CASE \E a \in Attempt : c = <<a, "beat">>
    <3>1. PICK a \in Attempt : c = <<a, "beat">>
      BY <2>3
    <3>2. call[c].op = "heartbeat" /\ c[1] = a /\ work[a].step \in {"run", "submit"}
      BY <1>1, <3>1 DEF CallsMatch, Waiting
    <3>3. CASE call[c].answer = "continue"
      <4>1. Renewed(a)
        BY <2>1, <3>2, <3>3 DEF Handle
      <4>2. /\ work' \in [Attempt -> Works]
            /\ \A b \in Attempt : /\ work'[b].step = work[b].step /\ work'[b].outcome = work[b].outcome
                                  /\ work'[b].sent = work[b].sent /\ (work'[b].aborted <=> work[b].aborted)
                                  /\ work[b].step = "none" => work'[b] = work[b]
        <5>1. call[c].left \in 0..Lease
          BY DEF Calls
        <5>2. /\ HalfOf(call[c].left) \in Never..(Lease + Interval)
              /\ Interval \in Never..(Lease + Interval)
          BY <5>1 DEF HalfOf, Never
        <5> DEFINE d == IF sdk = "py" THEN Interval ELSE HalfOf(call[<<a, "beat">>].left)
        <5>3. d \in Never..(Lease + Interval)
          BY <3>1, <5>2
        <5>4. work' = [work EXCEPT ![a].due = d]
          BY <4>1 DEF Renewed
        <5> HIDE DEF d
        <5> QED
          BY <3>2, <5>3, <5>4 DEF Works
      <4>3. /\ call' \in [Caller -> Calls]
            /\ call'[<<a, "beat">>] = Idle
            /\ \A d \in Caller \ {c} : call'[d] = call[d]
        BY <3>1, <4>1, NewCalls DEF Renewed
      <4>4. /\ call'[Claimer] = call[Claimer]
            /\ \A b \in Attempt : /\ call'[<<b, "task">>] = call[<<b, "task">>]
                                  /\ b # a => call'[<<b, "beat">>] = call[<<b, "beat">>]
        BY <3>1, <4>3
      <4>5. Types'
        BY <1>1, <4>1, <4>2, <4>3 DEF Renewed
      <4>6. CallsMatch'
        BY <4>2, <4>3, <4>4, NewCalls DEF CallsMatch
      <4>7. ClaimsAreNew' /\ SentIsOutcome'
        BY <1>1, <4>2, <4>4 DEF ClaimsAreNew, SentIsOutcome
      <4>8. FencedTs'
        <5>1. \A b \in Attempt : work'[b].aborted => work[b].aborted
          BY <4>2
        <5>2. \A b \in Attempt : call'[<<b, "task">>] = call[<<b, "task">>]
          BY <4>4
        <5> QED
          BY <1>1, <5>1, <5>2 DEF FencedTs
      <4>9. Calm /\ Harmless
        BY <1>1, <4>1, <4>2, <4>4 DEF Calm, Harmless, Active, Orphans, LateClaims, Renewed
      <4> QED
        BY <1>2, <2>1, <3>2, <4>5, <4>6, <4>7, <4>8, <4>9
    <3>4. CASE call[c].answer # "continue"
      <4>1. Abort(a)
        BY <2>1, <3>2, <3>4 DEF Handle
      <4>2. Core' /\ Calm /\ Harmless
        BY <1>1, <3>1, <3>2, <4>1, AbortKeeps
      <4> QED
        BY <1>2, <2>1, <3>2, <4>2
    <3> QED
      BY <3>3, <3>4
  <2>4. CASE \E a \in Attempt : c = <<a, "task">>
    <3>1. PICK a \in Attempt : c = <<a, "task">>
      BY <2>4
    <3>2. call[c].op \in {"cancellation", "result"} /\ c[1] = a /\ work[a].step = "submit"
      BY <1>1, <3>1 DEF CallsMatch, Waiting
    <3>3. CASE call[c].op = "cancellation" /\ call[c].answer = "continue"
      <4>1. Submit(a)
        BY <2>1, <3>2, <3>3 DEF Handle
      <4>2. sdk = "ts" => ~work[a].aborted
        BY <3>1, <3>2 DEF FencedTs
      <4>3. Core' /\ Calm /\ Harmless
        BY <1>1, <3>2, <4>1, <4>2, SubmitKeeps
      <4> QED
        BY <1>2, <2>1, <3>2, <4>3
    <3>4. CASE ~(call[c].op = "cancellation" /\ call[c].answer = "continue")
      <4>1. Ended({a})
        BY <2>1, <3>2, <3>4 DEF Handle, Over
      <4>2. Core' /\ Calm /\ Harmless
        BY <1>1, <3>2, <4>1, EndedKeeps, {a} \in SUBSET Attempt
      <4> QED
        BY <1>2, <2>1, <3>2, <4>2
    <3> QED
      BY <3>3, <3>4
  <2> QED
    BY <2>2, <2>3, <2>4
<1> QED
  BY <1>3, <1>4

LEMMA TryFailsKeeps ==
  ASSUME WorkerInv, NEW c \in Caller, TryFails(c)
  PROVE  WorkerInv'
<1> USE Callers, Constants DEF WorkerInv, Core, Types
<1>1. /\ UNCHANGED <<sdk, attempt, stopping>> /\ Waiting(c)
      /\ faults < MaxFault /\ faults' = faults + 1 /\ faults \in Nat
  BY DEF TryFails, ControlTypes
<1>2. /\ Request(c) \in Sent /\ Request(c).op = call[c].op
      /\ (call[c].op = "claim" <=> c = Claimer)
  BY <1>1, RequestsAreTyped
<1>3. Unserved({c}) \subseteq {Request(c)} /\ (Unserved({c}) = {} \/ call[c].answer = "none")
  BY DEF Unserved
<1>4. LateClaims \subseteq Sent
  BY DEF LateClaims
<1>5. ASSUME Core', Calm, Harmless, UNCHANGED <<loop, drain>>
      PROVE  WorkerInv'
  <2>1. Lost'
    BY <1>1, <1>4, <1>5, FaultKeepsLost DEF Harmless
  <2> QED
    BY <1>1, <1>5, <2>1, CalmKeepsRoom DEF ControlTypes
<1>6. ASSUME c = Claimer, call'[Claimer].answer = "none", UNCHANGED work,
             late' = late \cup Unserved({c})
      PROVE  Lost'
  <2>1. Request(c).id = faults
    BY <1>6 DEF Request
  <2>2. CASE call[Claimer].answer = "none"
    <3>1. Orphans' \subseteq Orphans
      BY <1>1, <1>6, <2>2 DEF Orphans
    <3>2. LateClaims' \subseteq LateClaims \cup {Request(c)}
      BY <1>3, <1>6 DEF LateClaims
    <3> QED
      BY <1>1, <1>4, <2>1, <3>1, <3>2, FaultKeepsLost
  <2>3. CASE call[Claimer].answer # "none"
    <3>1. Orphans' \subseteq Orphans \cup {call[Claimer].answer}
      BY <1>1, <1>6 DEF Orphans
    <3>2. LateClaims' \subseteq LateClaims
      BY <1>3, <1>6, <2>3 DEF LateClaims
    <3> QED
      BY <1>1, <1>4, <3>1, <3>2, FaultKeepsLost
  <2> QED
    BY <2>2, <2>3
<1>7. CASE MayRetry(c)
  <2>1. call' = Retried(c) /\ late' = late \cup Unserved({c}) /\ UNCHANGED <<loop, drain, work>>
    BY <1>7 DEF TryFails
  <2>2. late' \subseteq Sent
    BY <1>2, <1>3, <2>1
  <2>3. /\ Core' /\ Calm /\ call'[c].answer = "none"
        /\ \A d \in Caller \ {c} : call'[d] = call[d]
    BY <1>1, <1>7, <2>1, <2>2, RetriedKeeps
  <2>4. CASE c = Claimer
    <3>1. Lost'
      BY <1>6, <2>1, <2>3, <2>4
    <3>2. Room' /\ LoopMatches'
      BY <2>1, <2>3, CalmKeepsRoom
    <3>3. ControlTypes'
      BY <1>1, <2>1 DEF ControlTypes
    <3> QED
      BY <2>3, <3>1, <3>2, <3>3
  <2>5. CASE c # Claimer
    <3>1. call'[Claimer] = call[Claimer]
      BY <2>3, <2>5
    <3>2. LateClaims' = LateClaims
      BY <1>2, <1>3, <2>1, <2>5 DEF LateClaims
    <3>3. Harmless
      BY <1>1, <2>1, <3>1, <3>2 DEF Harmless, Orphans
    <3> QED
      BY <1>5, <2>1, <2>3, <3>3
  <2> QED
    BY <2>4, <2>5
<1>8. CASE ~MayRetry(c)
  <2>1. CASE c = Claimer
    <3>1. /\ loop' = "waiting" /\ call' = [call EXCEPT ![c] = Idle]
          /\ late' = late \cup Unserved({c}) /\ UNCHANGED <<drain, work>>
      BY <1>2, <1>8, <2>1 DEF TryFails
    <3>2. /\ call' \in [Caller -> Calls]
          /\ \A d \in Caller \ {Claimer} : call'[d] = call[d]
          /\ call'[Claimer].op = "none" /\ call'[Claimer].answer = "none" /\ call'[Claimer].try = 0
      BY <2>1, <3>1, NewCalls
    <3>3. late' \subseteq Sent
      BY <1>2, <1>3, <3>1
    <3>4. Types'
      BY <1>1, <3>1, <3>2, <3>3
    <3>8. CallsMatch'
      BY <3>1, <3>2 DEF CallsMatch
    <3>9. ClaimsAreNew'
      BY <1>1, <3>1, <3>2 DEF ClaimsAreNew
    <3>10. SentIsOutcome'
      BY <3>1 DEF SentIsOutcome
    <3>5. FencedTs'
      <4>1. \A a \in Attempt : call'[<<a, "task">>] = call[<<a, "task">>]
        BY <3>2
      <4> QED
        BY <1>1, <3>1, <4>1 DEF FencedTs
    <3>6. Calm /\ LoopMatches'
      BY <3>1, <3>2 DEF Calm, Active, LoopMatches
    <3>7. Lost'
      BY <1>6, <2>1, <3>1, <3>2
    <3> QED
      <4>1. ControlTypes'
        BY <1>1, <3>1 DEF ControlTypes
      <4>2. Room'
        BY <3>6, CalmKeepsRoom
      <4> QED
        BY <3>4, <3>5, <3>6, <3>7, <3>8, <3>9, <3>10, <4>1, <4>2
  <2>2. CASE \E a \in Attempt : c = <<a, "beat">>
    <3>1. PICK a \in Attempt : c = <<a, "beat">>
      BY <2>2
    <3>2. call[c].op = "heartbeat" /\ c[1] = a
      BY <1>1, <3>1 DEF CallsMatch, Waiting
    <3>3. Abort(a) /\ UNCHANGED <<loop, drain>>
      BY <1>8, <3>2 DEF TryFails
    <3>4. Core' /\ Calm /\ Harmless
      BY <1>1, <3>1, <3>2, <3>3, AbortKeeps
    <3> QED
      BY <1>5, <3>3, <3>4
  <2>3. CASE \E a \in Attempt : c = <<a, "task">>
    <3>1. PICK a \in Attempt : c = <<a, "task">>
      BY <2>3
    <3>2. call[c].op \in {"cancellation", "result"} /\ c[1] = a /\ work[a].step = "submit"
      BY <1>1, <3>1 DEF CallsMatch, Waiting
    <3>3. Ended({a}) /\ UNCHANGED <<loop, drain>>
      BY <1>8, <3>2 DEF TryFails, Over
    <3>4. Core' /\ Calm /\ Harmless
      BY <1>1, <3>2, <3>3, EndedKeeps, {a} \in SUBSET Attempt
    <3> QED
      BY <1>5, <3>3, <3>4
  <2> QED
    BY <2>1, <2>2, <2>3
<1> QED
  BY <1>7, <1>8

LEMMA InitWorks == Init => WorkerInv
<1> SUFFICES ASSUME Init PROVE WorkerInv
  OBVIOUS
<1> USE Callers, Constants DEF Init
<1>1. NoTask \in Works /\ [status |-> "ready", lease |-> 0, result |-> "none"] \in Rows
  BY DEF NoTask, Works, Rows, Never
<1>2. \A c \in Caller : call[c] = Idle /\ Idle \in Calls
  BY NewCalls
<1>3. Types
  <2>1. call \in [Caller -> Calls]
    BY <1>2
  <2>2. work \in [Attempt -> Works] /\ attempt \in [Attempt -> Rows]
    BY <1>1
  <2> QED
    BY <2>1, <2>2 DEF Types
<1>4. ControlTypes
  <2>1. loop \in {"waiting", "claiming", "draining", "stopped"} /\ stopping \in BOOLEAN
    OBVIOUS
  <2>2. drain \in Never..Grace /\ faults \in 0..MaxFault
    BY DEF Never
  <2> QED
    BY <2>1, <2>2 DEF ControlTypes
<1>5. \A a \in Attempt : work[a] = NoTask /\ attempt[a].status = "ready"
  OBVIOUS
<1>6. CallsMatch /\ LoopMatches
  BY <1>2, NewCalls DEF CallsMatch, LoopMatches
<1>7. ClaimsAreNew /\ SentIsOutcome
  BY <1>2, <1>5, NewCalls DEF ClaimsAreNew, SentIsOutcome, NoTask
<1>8. FencedTs
  BY <1>2, NewCalls DEF FencedTs
<1>9. Active = {} /\ Orphans = {} /\ LateClaims = {}
  BY <1>5 DEF Active, Orphans, LateClaims, NoTask
<1>10. Room /\ Lost
  BY <1>2, <1>9, NewCalls, FS_EmptySet DEF Room, Lost
<1> QED
  BY <1>3, <1>4, <1>6, <1>7, <1>8, <1>10 DEF WorkerInv, Core

LEMMA NextWorks == WorkerInv /\ [Next]_vars => WorkerInv'
<1> SUFFICES ASSUME WorkerInv, [Next]_vars PROVE WorkerInv'
  OBVIOUS
<1>1. CASE UNCHANGED vars
  BY <1>1 DEF vars, WorkerInv, Core, Types, ControlTypes, CallsMatch, ClaimsAreNew, SentIsOutcome,
              FencedTs, LoopMatches, Room, Lost, Active, Orphans, LateClaims
<1>2. CASE \E c \in Caller : Serve(c) \/ Deliver(c) \/ TryFails(c)
  BY <1>2, ServeKeeps, DeliverKeeps, TryFailsKeeps
<1>3. CASE \E q \in late : ServeLate(q)
  BY <1>3, ServeLateKeeps
<1>4. CASE \E a \in Attempt : EndAttempt(a) \/ Beat(a) \/ ComponentEnds(a)
  BY <1>4, EndAttemptKeeps, BeatKeeps, ComponentEndsKeeps
<1>5. CASE Wake \/ Stop \/ Stopped \/ Kill \/ Tick
  BY <1>5, WakeKeeps, StopKeeps, StoppedKeeps, KillKeeps, TickKeeps
<1> QED
  BY <1>1, <1>2, <1>3, <1>4, <1>5 DEF Next

\* What the runner and the protocol client keep, by induction.
THEOREM WorkerInvariant == Spec => []WorkerInv
BY InitWorks, NextWorks, PTL DEF Spec

\* No step of the TypeScript SDK sends a result its task is fenced off from.
LEMMA FencedTasksSendNothing ==
  ASSUME WorkerInv, [Next]_vars
  PROVE  SentStays
<1> SUFFICES ASSUME sdk = "ts", NEW a \in Attempt, work[a].aborted PROVE work'[a].sent = work[a].sent
  BY DEF SentStays
<1> USE Callers DEF WorkerInv, Core, Types
<1>1. ASSUME NEW A \in SUBSET Attempt, Ended(A) PROVE work'[a].sent = work[a].sent
  BY <1>1, TasksMade DEF Ended
<1>2. ASSUME NEW b \in Attempt, Abort(b) PROVE work'[a].sent = work[a].sent
  BY <1>1, <1>2, TasksMade, {b} \in SUBSET Attempt DEF Abort, AbortTs, AbortPy
<1>3. CASE UNCHANGED work
  BY <1>3
<1>4. ASSUME NEW c \in Caller, Deliver(c), ~UNCHANGED work PROVE work'[a].sent = work[a].sent
  <2>1. Handle(c, call[c].answer) /\ Waiting(c)
    BY <1>4 DEF Deliver
  <2>2. CASE c = Claimer
    <3>1. call[c].op = "claim"
      BY <2>1, <2>2, RequestsAreTyped
    <3>2. call[c].answer \in Attempt /\ Claimed(call[c].answer)
      BY <1>4, <2>1, <3>1 DEF Handle, NotClaimed
    <3>3. work[call[c].answer].step = "none"
      BY <2>2, <3>2 DEF ClaimsAreNew
    <3>4. a # call[c].answer
      BY <2>2, <3>2, <3>3 DEF ClaimsAreNew, NoTask
    <3> QED
      BY <3>2, <3>4 DEF Claimed
  <2>3. CASE \E b \in Attempt : c = <<b, "beat">>
    <3>1. PICK b \in Attempt : c = <<b, "beat">>
      BY <2>3
    <3>2. call[c].op = "heartbeat" /\ c[1] = b
      BY <2>1, <3>1 DEF CallsMatch, Waiting
    <3>3. Renewed(b) \/ Abort(b)
      BY <2>1, <3>2 DEF Handle
    <3>4. ASSUME Renewed(b) PROVE work'[a].sent = work[a].sent
      BY <3>4 DEF Renewed, Works
    <3> QED
      BY <1>2, <3>3, <3>4
  <2>4. CASE \E b \in Attempt : c = <<b, "task">>
    <3>1. PICK b \in Attempt : c = <<b, "task">>
      BY <2>4
    <3>2. call[c].op \in {"cancellation", "result"} /\ c[1] = b
      BY <2>1, <3>1 DEF CallsMatch, Waiting
    <3>3. Submit(b) \/ Ended({b})
      BY <2>1, <3>2 DEF Handle, Over
    <3>4. b # a
      BY <3>1, <3>2 DEF FencedTs
    <3>5. Submit(b) => work'[a].sent = work[a].sent
      BY <3>4 DEF Submit
    <3> QED
      BY <1>1, <3>3, <3>5, {b} \in SUBSET Attempt
  <2> QED
    BY <2>2, <2>3, <2>4
<1>5. ASSUME NEW c \in Caller, TryFails(c), ~UNCHANGED work PROVE work'[a].sent = work[a].sent
  <2>1. c # Claimer /\ Waiting(c)
    BY <1>5, RequestsAreTyped DEF TryFails
  <2>2. PICK b \in Attempt : c = <<b, "beat">> \/ c = <<b, "task">>
    BY <2>1
  <2>3. c[1] = b /\ call[c].op \in {"heartbeat", "cancellation", "result"}
    BY <2>1, <2>2 DEF CallsMatch, Waiting
  <2>4. Abort(b) \/ Ended({b})
    BY <1>5, <2>3 DEF TryFails, Over
  <2> QED
    BY <1>1, <1>2, <2>4, {b} \in SUBSET Attempt
<1>6. ASSUME NEW b \in Attempt, Beat(b) PROVE work'[a].sent = work[a].sent
  BY <1>6 DEF Beat, Works
<1>7. ASSUME NEW b \in Attempt, ComponentEnds(b) PROVE work'[a].sent = work[a].sent
  <2>1. CASE Over(b)
    BY <1>1, <2>1, {b} \in SUBSET Attempt DEF Over
  <2>2. CASE \E o \in Outcome : work' = [work EXCEPT ![b] = Returned(@, o)]
    BY <2>2, ReturnedTask
  <2> QED
    BY <1>7, <2>1, <2>2 DEF ComponentEnds
<1>8. CASE Stopped
  BY <1>1, <1>8, Active \in SUBSET Attempt DEF Stopped, Active
<1>9. CASE Kill
  BY <1>9, TasksMade DEF Kill
<1>10. CASE Tick
  BY <1>10, TasksMade DEF Tick
<1>11. CASE \/ UNCHANGED vars \/ Wake \/ Stop
            \/ (\E c \in Caller : Serve(c)) \/ (\E q \in late : ServeLate(q))
            \/ (\E b \in Attempt : EndAttempt(b))
  BY <1>11 DEF vars, Wake, Stop, Serve, ServeLate, EndAttempt
<1> QED
  BY <1>3, <1>4, <1>5, <1>6, <1>7, <1>8, <1>9, <1>10, <1>11 DEF Next

\* In the TypeScript SDK no result is sent once the task knows that its lease is lost
\* or its attempt cancelled.
THEOREM SubmissionIsFenced == Spec => SubmissionFencedTs
<1>1. WorkerInv /\ [Next]_vars =>
        [sdk = "ts" => \A a \in Attempt : work[a].aborted => work'[a].sent = work[a].sent]_vars
  BY FencedTasksSendNothing DEF SentStays
<1> QED
  BY <1>1, WorkerInvariant, PTL DEF Spec, SubmissionFencedTs

\* One result is sent for an attempt, however many requests carry it.
THEOREM OneResult == Spec => []OneResultPerAttempt
<1>1. WorkerInv => OneResultPerAttempt
  <2> SUFFICES ASSUME WorkerInv, NEW a \in Attempt PROVE Cardinality(work[a].sent) <= 1
    BY DEF OneResultPerAttempt
  <2>1. work[a].sent \subseteq {work[a].outcome}
    BY DEF WorkerInv, Core, SentIsOutcome
  <2>2. IsFiniteSet({work[a].outcome}) /\ Cardinality({work[a].outcome}) = 1
    BY FS_Singleton
  <2>3. Cardinality(work[a].sent) <= Cardinality({work[a].outcome})
    BY <2>1, <2>2, FS_Subset
  <2> QED
    BY <2>2, <2>3
<1> QED
  BY <1>1, WorkerInvariant, PTL

\* An attempt nobody works on was lost by a failed claim or by a kill.
THEOREM OrphansCounted == Spec => []OrphansAreFaults
<1>1. WorkerInv => OrphansAreFaults
  <2> SUFFICES ASSUME WorkerInv PROVE OrphansAreFaults
    OBVIOUS
  <2>1. Cardinality(Orphans) \in Nat /\ Cardinality(LateClaims) \in Nat
    BY FS_CardinalityType DEF WorkerInv, Lost
  <2>2. faults \in Nat
    BY Constants DEF WorkerInv, ControlTypes
  <2> QED
    BY <2>1, <2>2 DEF WorkerInv, Lost, OrphansAreFaults, Orphans
<1> QED
  BY <1>1, WorkerInvariant, PTL

\* The types, and that no more tasks run than the runner is given.
THEOREM WorkerTypes == Spec => []TypeOK
<1>1. WorkerInv => TypeOK
  BY DEF WorkerInv, Core, Types, ControlTypes, CallsMatch, Room, TypeOK, Rows, Works, Calls
<1> QED
  BY <1>1, WorkerInvariant, PTL
=============================================================================
