--------------------------- MODULE RepositoryTask ---------------------------
(***************************************************************************)
(* The worker component of repository tasks and the executor it calls.  A  *)
(* task compiles its plan, compares the repository with the identity the   *)
(* request names, applies the graph in a detached worktree of the base     *)
(* revision, takes the patch, runs the trusted verification stages as      *)
(* child processes under a time budget, removes the worktree, compares the *)
(* repository again and answers with the artifacts.  Tasks of one worker,  *)
(* and two attempts of one execution, run side by side on one repository,  *)
(* whose owner commits and edits meanwhile.                                *)
(*                                                                         *)
(* Time is counted down: what is left of the budget and of the timer of    *)
(* the running stage.  Statements that read one snapshot are one action.   *)
(* The stages are external: they end when they like, may write into the    *)
(* worktree, and may leave descendants: some hold the output of the stage  *)
(* open, others, detached with streams of their own, outlive the stage and *)
(* the answer unnoticed and write as long as there is a worktree.          *)
(***************************************************************************)
EXTENDS RepositoryTaskPlan

CONSTANTS
    Task,           \* executions the workers hold
    Requests,       \* name -> a task input they may get
    FirstTree,      \* the tree of revision 1
    Scratch,        \* paths a stage may rewrite in its worktree
    MaxRevisions,   \* bound: revisions of the repository
    MaxEdits,       \* bound: changes of the clean state
    MaxCrashes      \* bound: kills of a worker

ASSUME TaskAssumption ==
    /\ {MaxRevisions, MaxEdits, MaxCrashes} \subseteq Nat
    /\ Trusted \in [DOMAIN Trusted -> Seq(Nat)]

VARIABLES
    history,   \* the trees of the revisions of the repository
    head,      \* the revision checked out at the repository root
    edits,     \* changes of the clean state so far: the root is clean when even
    crashes,   \* kills so far
    task       \* [t] where the component stands

vars == <<history, head, edits, crashes, task>>
repository == <<history, head, edits>>

NoPatch == [path \in {} |-> Absent]
NoProcess == [child |-> "none", held |-> FALSE, timer |-> 0, timedOut |-> FALSE, exit |-> Nothing]
Idle == [step |-> "idle", request |-> Nothing, checkout |-> NoPatch,
         worktree |-> FALSE, left |-> 0, stage |-> NoProcess, verified |-> <<>>,
         status |-> "running", found |-> Nothing, patch |-> NoPatch]

\* What the compiler makes of a request, and the executor's checks of that: both
\* depend on nothing else.
Compilation ==
    [r \in DOMAIN Requests |-> Compile(Requests[r].plan, Requests[r].profile, Requests[r].files)]
Verdict ==
    [r \in DOMAIN Requests |->
        GraphRefusal(Requests[r].plan, Requests[r].profile, Compilation[r].graph)]

\* What the schemas of an input make sure of, and what a tree is: it maps every
\* path the task may write to what is there.  A snapshot holds files only.
Tree == [DOMAIN FirstTree -> Entries]
Snapshot == [DOMAIN FirstTree -> Contents]

Finite(content) == IsFiniteSet(content.names) /\ IsFiniteSet(content.modules)

ASSUME RequestAssumption ==
    /\ FirstTree \in Tree
    /\ \A r \in DOMAIN Requests :
         LET plan == Requests[r].plan
         IN  /\ Requests[r] \in [valid : BOOLEAN, plan : PlanRecord, profile : ProfileRecord, files : Snapshot,
                                 identity : [repository : STRING, base : Nat, snapshot : Snapshot]]
             /\ IsFiniteSet(plan.outputs) /\ Finite(Rendered(plan)) /\ Finite(RenderedTest(plan))
             /\ \A path \in DOMAIN FirstTree : Finite(Requests[r].files[path])
             /\ \A o \in Operations(Compilation[r].graph) : o.path \in DOMAIN FirstTree

Request(t) == Requests[task[t].request]
Plan(t) == Request(t).plan
Profile(t) == Request(t).profile
Graph(t) == Compilation[task[t].request].graph
Stages(t) == Trusted[Plan(t).verification]

Init ==
    /\ history = <<FirstTree>> /\ head = 1 /\ edits = 0 /\ crashes = 0
    /\ task = [t \in Task |-> Idle]

Set(t, record) == task' = [task EXCEPT ![t] = record]

\* failedResult, and the answer of an execution: the artifacts of the task.
Answered(t, status, found) ==
    [task[t] EXCEPT !.step = "answered", !.status = status, !.found = found]

\* An answer that does not carry what the execution found.
Unavailable(t, found) ==
    [Answered(t, "failed", found) EXCEPT !.patch = NoPatch, !.verified = <<>>]

-----------------------------------------------------------------------------
(* The component.                                                          *)

Claim(t) ==
    /\ task[t].step = "idle"
    /\ \E r \in DOMAIN Requests :
         LET compiled == Compilation[r]
         IN  Set(t, IF ~Requests[r].valid
                    THEN [Unavailable(t, "worker.input-invalid") EXCEPT !.request = r]
                    ELSE IF compiled.diagnostics # {}
                    THEN [Unavailable(t, CHOOSE d \in compiled.diagnostics : TRUE)
                            EXCEPT !.request = r]
                    ELSE [task[t] EXCEPT !.step = "before", !.request = r])
    /\ UNCHANGED <<repository, crashes>>

\* The identity the request names against plan, profile, snapshot and repository.
Identified(r) ==
    /\ r.identity.repository = r.plan.repository /\ r.plan.repository = r.profile.repository
    /\ r.identity.base = r.plan.base
    /\ r.identity.snapshot = r.files
    /\ head = r.identity.base
    /\ edits % 2 = 0

CheckBefore(t) ==
    /\ task[t].step = "before"
    /\ Set(t, IF Identified(Request(t))
              THEN [task[t] EXCEPT !.step = "graph", !.left = Plan(t).maxVerification]
              ELSE Unavailable(t, "worker.repository-identity-mismatch"))
    /\ UNCHANGED <<repository, crashes>>

\* The result of the execution stays when the repository still is what it was.
\* Mutant: the patch of a task that failed is dropped.
Final_Bare(t) ==
    IF task[t].status = "failed" THEN Unavailable(t, task[t].found)
    ELSE Answered(t, task[t].status, task[t].found)

Final(t) ==
    IF Identified(Request(t)) THEN Answered(t, task[t].status, task[t].found)
    ELSE Unavailable(t, "worker.repository-identity-mismatch")

CheckAfter(t) ==
    /\ task[t].step = "after"
    /\ Set(t, Final(t))
    /\ UNCHANGED <<repository, crashes>>

-----------------------------------------------------------------------------
(* The executor.                                                           *)

\* A thrown ExecutionFailure: patch and evidence are those collected so far.
Failed(record, found) ==
    [record EXCEPT !.step = "cleanup", !.status = "failed", !.found = found]

CheckGraph(t) ==
    /\ task[t].step = "graph"
    /\ LET refusal == Verdict[task[t].request]
       IN  Set(t, IF refusal # Nothing THEN Failed(task[t], refusal)
                  ELSE IF Plan(t).base \notin DOMAIN history
                  THEN Failed(task[t], "executor.base-unavailable")
                  ELSE [task[t] EXCEPT !.step = "checkout"])
    /\ UNCHANGED <<repository, crashes>>

\* git worktree add may fail.
AddWorktree(t) ==
    /\ task[t].step = "checkout"
    /\ \/ Set(t, [task[t] EXCEPT !.step = "preflight", !.worktree = TRUE,
                                 !.checkout = history[Plan(t).base]])
       \/ Set(t, Failed(task[t], "executor.unexpected-failure"))
    /\ UNCHANGED <<repository, crashes>>

CheckTargets(t) ==
    /\ task[t].step = "preflight"
    /\ LET refusal == Preflight(Graph(t), task[t].checkout)
       IN  Set(t, IF refusal # Nothing THEN Failed(task[t], refusal)
                  ELSE [task[t] EXCEPT !.step = "apply"])
    /\ UNCHANGED <<repository, crashes>>

\* The operations, git add, git diff and git write-tree; any of them may fail.
Apply(t) ==
    /\ task[t].step = "apply"
    /\ LET applied == Applied(Graph(t), task[t].checkout)
           patch == Difference(history[Plan(t).base], applied)
           written == [task[t] EXCEPT !.checkout = applied]
       IN  \/ Set(t, IF PatchBytes(patch) > Plan(t).maxPatchBytes
                     THEN Failed(written, "executor.max-patch-bytes-exceeded")
                     ELSE [written EXCEPT !.step = "stage", !.patch = patch])
           \/ Set(t, Failed(written, "executor.unexpected-failure"))
    /\ UNCHANGED <<repository, crashes>>

\* The evidence of a stage, and what follows from it.
Recorded(t, status) ==
    LET record == [task[t] EXCEPT !.verified = Append(@, status),
                                  !.stage = [NoProcess EXCEPT !.held = task[t].stage.held]]
    IN  CASE status = "succeeded" -> [record EXCEPT !.step = "stage"]
          [] status = "timed-out" -> Failed(record, "verification.timeout")
          [] OTHER -> Failed(record, "verification.failed")

Smaller(m, n) == IF m < n THEN m ELSE n

\* The next stage gets what is left of the budget; a command may not start.  Here
\* it is chosen whether descendants will hold its output.
StartStage(t) ==
    /\ task[t].step = "stage"
    /\ LET n == Len(task[t].verified) + 1
       IN  IF n > Len(Stages(t))
           THEN Set(t, [task[t] EXCEPT !.step = "cleanup", !.status = "succeeded"])
           ELSE IF task[t].left = 0 THEN Set(t, Failed(task[t], "verification.timeout"))
           ELSE \/ \E held \in BOOLEAN :
                     Set(t, [task[t] EXCEPT !.step = "running",
                               !.stage = [NoProcess EXCEPT !.child = "running", !.held = held,
                                            !.timer = Smaller(Stages(t)[n], task[t].left)]])
                \/ Set(t, Recorded(t, "failed"))
    /\ UNCHANGED <<repository, crashes>>

\* The timer of a stage that has not settled kills the child, not its descendants.
\* Mutant: the child ignores the signal.
TimerFires_Ignored(t) ==
    /\ task[t].step = "running" /\ task[t].stage.timer = 0 /\ ~task[t].stage.timedOut
    /\ Set(t, [task[t] EXCEPT !.stage.timedOut = TRUE])
    /\ UNCHANGED <<repository, crashes>>

TimerFires(t) ==
    /\ task[t].step = "running" /\ task[t].stage.timer = 0 /\ ~task[t].stage.timedOut
    /\ Set(t, [task[t] EXCEPT !.stage.timedOut = TRUE, !.stage.child = "ended"])
    /\ UNCHANGED <<repository, crashes>>

StageStatus(stage) ==
    IF stage.timedOut THEN "timed-out" ELSE IF stage.exit = "zero" THEN "succeeded" ELSE "failed"

\* close is emitted when the child has ended and nobody holds its output; a
\* detached descendant does not delay it.
Closed(stage) == stage.child = "ended" /\ ~stage.held

StageCloses(t) ==
    /\ task[t].step = "running" /\ Closed(task[t].stage)
    /\ Set(t, Recorded(t, StageStatus(task[t].stage)))
    /\ UNCHANGED <<repository, crashes>>

\* The finally block: failures of git and of rm are swallowed.
\* Mutant: the patch is taken of the worktree as the stages left it.
Cleanup_Patch(t) ==
    /\ task[t].step = "cleanup"
    /\ Set(t, [task[t] EXCEPT !.step = "after", !.worktree = FALSE, !.checkout = NoPatch,
                 !.patch = IF task[t].status = "succeeded"
                           THEN Difference(history[Plan(t).base], task[t].checkout) ELSE @])
    /\ UNCHANGED <<repository, crashes>>

Cleanup(t) ==
    /\ task[t].step = "cleanup"
    /\ \E removed \in BOOLEAN :
         Set(t, [task[t] EXCEPT !.step = "after", !.worktree = @ /\ ~removed,
                                !.checkout = IF removed THEN NoPatch ELSE @])
    /\ UNCHANGED <<repository, crashes>>

-----------------------------------------------------------------------------
(* The environment: stages, time, the repository's owner, kills.           *)

ChildExits(t) ==
    /\ task[t].stage.child = "running"
    /\ \E exit \in {"zero", "other"} :
         Set(t, [task[t] EXCEPT !.stage.child = "ended", !.stage.exit = exit])
    /\ UNCHANGED <<repository, crashes>>

DescendantsEnd(t) ==
    /\ task[t].stage.held
    /\ Set(t, [task[t] EXCEPT !.stage.held = FALSE])
    /\ UNCHANGED <<repository, crashes>>

\* From the first stage on, the child, those who hold its output, or a detached
\* descendant of this or of an earlier stage; when the worktree is removed there
\* is nothing to write to.
StageWrites(t) ==
    /\ task[t].step = "running" \/ task[t].verified # <<>>
    /\ task[t].worktree
    /\ \E path \in Scratch :
         Set(t, [task[t] EXCEPT !.checkout[path] = Content("text", {}, {})])
    /\ UNCHANGED <<repository, crashes>>

\* The time the steps before the first stage took passes when they are done:
\* none of them looks at the budget.
Tick(t) ==
    /\ task[t].step \in {"stage", "running"}
    /\ task[t].left > 0
    /\ Set(t, [task[t] EXCEPT !.left = @ - 1,
                              !.stage.timer = IF @ > 0 THEN @ - 1 ELSE 0])
    /\ UNCHANGED <<repository, crashes>>

Patched(tree, patch) ==
    [path \in DOMAIN tree |-> IF path \in DOMAIN patch THEN patch[path] ELSE tree[path]]

\* A succeeded patch is committed on top of the checked out revision.
Land(t) ==
    /\ task[t].step = "answered" /\ task[t].status = "succeeded"
    /\ Len(history) < MaxRevisions
    /\ history' = Append(history, Patched(history[head], task[t].patch))
    /\ head' = Len(history) + 1
    /\ UNCHANGED <<edits, crashes, task>>

Edit ==
    /\ edits < MaxEdits /\ edits' = edits + 1
    /\ UNCHANGED <<history, head, crashes, task>>

\* The worker is killed: the execution gets another attempt, in another worktree.
Crash(t) ==
    /\ task[t].step \notin {"idle", "answered"} /\ crashes < MaxCrashes
    /\ crashes' = crashes + 1 /\ Set(t, Idle)
    /\ UNCHANGED repository

-----------------------------------------------------------------------------

Step(t) ==
    \/ Claim(t) \/ CheckBefore(t) \/ CheckAfter(t)
    \/ CheckGraph(t) \/ AddWorktree(t) \/ CheckTargets(t) \/ Apply(t)
    \/ StartStage(t) \/ TimerFires(t) \/ StageCloses(t) \/ Cleanup(t)

Environment(t) ==
    \/ ChildExits(t) \/ DescendantsEnd(t) \/ StageWrites(t)
    \/ Land(t) \/ Crash(t)

Next == Edit \/ \E t \in Task : Step(t) \/ Environment(t) \/ Tick(t)

Spec == Init /\ [][Next]_vars

\* A worker goes on, the attempt of one that was killed is claimed again, and time
\* passes.  Nothing obliges a stage or its descendants to end.
Fairness ==
    \A t \in Task : WF_vars(Step(t)) /\ WF_vars(Tick(t))

FairSpec == Spec /\ Fairness
-----------------------------------------------------------------------------
(* Properties.                                                             *)

\* A task keeps its fields, and a checkout and a patch map paths of the repository.
PartialTree(tree) == DOMAIN tree \subseteq DOMAIN FirstTree /\ \A path \in DOMAIN tree : tree[path] \in Entries

IsTask(k) ==
    /\ k \in [step : {"idle", "before", "graph", "checkout", "preflight", "apply", "stage", "running",
                      "cleanup", "after", "answered"},
              request : DOMAIN Requests \cup {Nothing}, checkout : {k.checkout},
              worktree : BOOLEAN, left : Nat,
              stage : [child : {"none", "running", "ended"}, held : BOOLEAN, timer : Nat,
                       timedOut : BOOLEAN, exit : {Nothing, "zero", "other"}],
              verified : Seq({"succeeded", "failed", "timed-out"}),
              status : {"running", "succeeded", "failed"}, found : {k.found}, patch : {k.patch}]
    /\ PartialTree(k.checkout) /\ PartialTree(k.patch)

TypeOK ==
    /\ history \in Seq(Tree) /\ head \in DOMAIN history
    /\ edits \in Nat /\ crashes \in Nat
    /\ DOMAIN task = Task /\ \A t \in Task : IsTask(task[t])

HasGraph(t) == task[t].step # "idle" /\ Graph(t).operations # <<>>

Ended(t) == task[t].step = "answered"

\* A patch is the reviewed operations and nothing else: every path it names is
\* one of the compiled graph, with its content, whatever the stages of this or
\* of another task wrote and whatever was committed meanwhile.
PatchIsReviewed ==
    \A t \in Task : task[t].patch # NoPatch =>
        LET reviewed == Graph(t)
        IN  /\ DOMAIN task[t].patch = {o.path : o \in Operations(reviewed)}
            /\ \A o \in Operations(reviewed) : task[t].patch[o.path] = o.content

AllSucceeded(statuses) == \A i \in DOMAIN statuses : statuses[i] = "succeeded"

\* The evidence of an answer tells how far the task came: success means that
\* every trusted stage ran, in order; a failed or timed out verification keeps
\* the patch and ends with the stage that failed, or before the stage there was
\* no time for; any other failure carries neither patch nor stages.
EvidenceIsComplete ==
    \A t \in Task : Ended(t) =>
        LET found == task[t].found
            verified == task[t].verified
        IN  IF task[t].status = "succeeded"
            THEN task[t].patch # NoPatch /\ Len(verified) = Len(Stages(t)) /\ AllSucceeded(verified)
            ELSE IF found = "verification.failed"
            THEN task[t].patch # NoPatch /\ Last(verified) = "failed" /\ AllSucceeded(Front(verified))
            ELSE IF found = "verification.timeout"
            THEN /\ task[t].patch # NoPatch
                 /\ \/ Len(verified) < Len(Stages(t)) /\ AllSucceeded(verified)
                    \/ Last(verified) = "timed-out" /\ AllSucceeded(Front(verified))
            ELSE task[t].patch = NoPatch /\ verified = <<>>

\* Under FairSpec every task that was claimed is answered, although no stage need
\* end by itself: the timer kills the child, the next stage gets what is left of
\* the budget, and no failure of git or of a stage keeps the answer back.  Only a
\* descendant that holds the output of a stage can: it may hold it for ever.
EveryTaskIsAnswered ==
    \A t \in Task :
        (task[t].step # "idle") ~> (task[t].step = "answered" \/ task[t].stage.held)

\* What the compiler accepts the executor refuses for a reason of its own only:
\* a profile that is not in canonical form, a verification profile the worker
\* does not trust, a revision that is gone, a snapshot that is not the tree of
\* the base revision, an output declared as evidence, which the compiler does not
\* count as a file, or a patch whose headers take it over the limit.
RefusedForAReason ==
    \A t \in Task :
        LET found == task[t].found
            request == Request(t)
        IN  HasGraph(t) =>
            /\ found = "executor.profile-digest-mismatch" => ~Profile(t).canonical
            /\ found = "verification.profile-unavailable" => Plan(t).verification \notin DOMAIN Trusted
            /\ found = "executor.base-unavailable" => Plan(t).base \notin DOMAIN history
            /\ found \in TargetRefusals =>
                    \E o \in Operations(Graph(t)) :
                        request.files[o.path] # history[Plan(t).base][o.path]
            /\ found = "executor.max-files-exceeded" => \E o \in Plan(t).outputs : o.kind = "evidence"
            /\ found = "executor.max-patch-bytes-exceeded" =>
                    ContentBytes(Operations(Graph(t))) <= Plan(t).maxPatchBytes
            /\ found \notin {"executor.plan-identity-mismatch", "executor.path-unsafe",
                             "executor.path-not-allowed", "executor.path-outside-profile",
                             "executor.output-mismatch", "executor.duplicate-path"}

\* The recipe has nothing to add to a snapshot its own graph was applied to,
\* and finds no conflict with it.
RecipeIsStable ==
    \A t \in Task : HasGraph(t) =>
        Resolve(Plan(t), Normalized(Profile(t)), Applied(Graph(t), Request(t).files))
            = Resolution({}, Nothing)

=============================================================================
