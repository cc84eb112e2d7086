------------------------- MODULE ArtifactPublication ------------------------
(***************************************************************************)
(* The bytes behind a result.  A worker asks for a place (stage), sends    *)
(* the bytes (upload) and submits a result that names them.  The commit    *)
(* publishes metadata in one transaction and moves the bytes afterwards,   *)
(* object by object; reconciliation finishes what a crash left, marks rows *)
(* whose bytes are gone and removes objects that no row names.             *)
(*                                                                         *)
(* The database and the blob store share no transaction.  Every statement  *)
(* of a request that reads or writes one of them is a step of its own, and *)
(* any number of uploads, submissions and batches run beside each other.   *)
(* The store is a directory or an S3 bucket: a directory is removed entry  *)
(* by entry, so that a crash may leave a torn object.                      *)
(*                                                                         *)
(* Attempts are what these requests see of them: active or not, with a     *)
(* lease.  Staged references are numbered in the order of their UUIDv7.    *)
(***************************************************************************)
EXTENDS Integers, Sequences, FiniteSets

CONSTANTS
  Attempt,    \* execution attempts that have been leased
  Digest,     \* contents, by digest
  Submitter,  \* requests to submit a result that may be open at once
  Uploader,   \* requests to upload that may be open at once
  Results,    \* proposed results a worker may submit
  Refused,    \* those whose events, usage or actions the commit refuses
  Store,      \* kinds of blob store
  Lease,      \* leaseDurationMs
  Grace,      \* orphanGraceSeconds
  Limit,      \* limit of a reconciliation batch
  MaxRef,     \* bound: places asked for
  MaxTime,    \* bound: the clock
  MaxCrash,   \* bound: crashes of the control plane
  MaxFault    \* bound: promotions that fail for a reason of the store

ASSUME ArtifactAssumption ==
  /\ Store \subseteq {"filesystem", "s3"} /\ Store # {}
  /\ Lease \in Nat \ {0} /\ Grace \in Nat /\ Lease <= Grace + 1
  /\ Limit \in Nat \ {0} /\ MaxRef \in Nat
  /\ MaxTime \in Nat /\ MaxCrash \in Nat /\ MaxFault \in Nat
  /\ Results \subseteq [status : {"completed", "failed"}, staged : Seq(1..MaxRef)]
  /\ Refused \subseteq Results

VARIABLES
  now,        \* the clock
  lease,      \* execution_attempts.lease_expires_at, 0 for null
  attempt,    \* execution_attempts.status
  upload,     \* worker_artifact_uploads, by staged_ref
  row,        \* artifact_staging, by staged_ref
  artifacts,  \* the artifacts table: age of a digest, 0 if it has no row
  submission, \* worker_result_submissions, by attempt
  kind,       \* the store in use
  blob,       \* staged objects
  committed,  \* digests of the committed objects
  up,         \* open uploads
  req,        \* open submissions
  job,        \* the promotion or removal a submission or the batch performs
  batch,      \* the reconciliation batch
  boot,       \* how far startup has come
  crashes, faults

clocks == <<now, lease, attempt>>
database == <<upload, row, artifacts, submission>>
store == <<kind, blob, committed>>
processes == <<up, req, job, batch, boot>>
bounds == <<crashes, faults>>
vars == <<clocks, database, store, processes, bounds>>

Ref == 1..MaxRef
Never == -1 - Grace
Known == {d \in Digest : artifacts[d] # 0}
NoUpload == [attempt |-> "none", digest |-> "none", expires |-> Never]
NoResult == [status |-> "none", staged |-> <<>>]
NoSubmission == [result |-> NoResult, done |-> FALSE]

Active(a) == attempt[a] = "active" /\ now < lease[a]

----------------------------------------------------------------------------
(* The blob store.  An object is absent, whole, or torn.                   *)

Absent == [is |-> "absent", at |-> Never]
Torn == [is |-> "torn", at |-> Never]
Whole(r) == blob[r].is = "whole"

\* stage, after the bytes matched the expected digest and size: the object is
\* renamed or put into place unless one is there.  An identical object is kept
\* with its age; an object that does not verify is a conflict.
FilesystemStage(r) ==
  /\ blob[r].is # "torn"
  /\ blob' = [blob EXCEPT ![r] = IF Whole(r) THEN @ ELSE [is |-> "whole", at |-> now]]

S3Stage(r) ==
  blob' = [blob EXCEPT ![r] = IF Whole(r) THEN @ ELSE [is |-> "whole", at |-> now]]

Staged(r) == IF kind = "s3" THEN S3Stage(r) ELSE FilesystemStage(r)

\* promote, up to the removal of the staged object: what it throws, if anything.
FilesystemPromote(r, d) ==
  CASE d \in committed \/ Whole(r) -> "none"
    [] blob[r].is = "absent" /\ d \notin committed -> "not_found"
    [] OTHER -> "staging_conflict"

S3Promote(r, d) == IF d \in committed \/ Whole(r) THEN "none" ELSE "not_found"

Promote(r, d) == IF kind = "s3" THEN S3Promote(r, d) ELSE FilesystemPromote(r, d)

\* removeStaged: rm -r deletes the entries of the directory one after another.
FilesystemRemove(r) ==
  \/ blob[r].is = "whole" /\ blob' = [blob EXCEPT ![r] = Torn]
  \/ blob[r].is # "whole" /\ blob' = [blob EXCEPT ![r] = Absent]

S3Remove(r) == blob' = [blob EXCEPT ![r] = Absent]

Remove(r) == IF kind = "s3" THEN S3Remove(r) ELSE FilesystemRemove(r)

\* stagedExists and committedExists verify the object they find.
StagedExists(r) == Whole(r)
CommittedExists(d) == d \in committed

\* listStaged: the staged objects after the cursor, at most Limit; it throws
\* not_found if one of them does not verify.
After(cursor) == {r \in Ref : r > cursor /\ blob[r].is # "absent"}
Page(cursor) == {r \in After(cursor) : Cardinality({s \in After(cursor) : s < r}) < Limit}
ListThrows(cursor) == \E r \in Page(cursor) : ~Whole(r)

----------------------------------------------------------------------------
(* The worker's requests: heartbeat, stage, upload.                        *)

NoJob == [ref |-> 0, digest |-> "none", step |-> "none"]
IdleUp == [pc |-> "idle", ref |-> 0]
IdleReq == [pc |-> "idle", attempt |-> "none", result |-> NoResult,
            expired |-> FALSE, promotions |-> <<>>]
IdleBatch == [pc |-> "idle", todo |-> {}, at |-> 0, cutoff |-> Never, cursor |-> 0, orphans |-> FALSE]
Booter == "startup"
Requester == Submitter \cup {Booter}
Promoter == Requester \cup {"batch"}

Heartbeat(a) ==
  /\ boot = "no" /\ Active(a) /\ lease[a] < now + Lease
  /\ lease' = [lease EXCEPT ![a] = now + Lease]
  /\ UNCHANGED <<now, attempt, database, store, processes, bounds>>

\* stage: the next reference, authorized until the lease ends.
Stage(a, d) ==
  /\ boot = "no" /\ Active(a)
  /\ \E r \in Ref :
       /\ upload[r] = NoUpload /\ \A s \in Ref : s < r => upload[s] # NoUpload
       /\ upload' = [upload EXCEPT ![r] = [attempt |-> a, digest |-> d,
            expires |-> IF lease[a] < now + Lease THEN lease[a] ELSE now + Lease]]
  /\ UNCHANGED <<clocks, row, artifacts, submission, store, processes, bounds>>

Authorized(r) == Active(upload[r].attempt) /\ now < upload[r].expires

\* upload, before the stream is read.
Authorize(u, r) ==
  /\ boot = "no" /\ up[u].pc = "idle"
  /\ upload[r] # NoUpload /\ Authorized(r)
  /\ up' = [up EXCEPT ![u] = [pc |-> "write", ref |-> r]]
  /\ UNCHANGED <<clocks, database, store, req, job, batch, boot, bounds>>

\* The stream ends.  Bytes that do not match are refused and leave nothing.
Write(u) ==
  /\ up[u].pc = "write"
  /\ \/ Staged(up[u].ref) /\ up' = [up EXCEPT ![u] = [pc |-> "register", ref |-> @.ref]]
     \/ blob' = blob /\ up' = [up EXCEPT ![u] = IdleUp]
  /\ UNCHANGED <<clocks, database, kind, committed, req, job, batch, boot, bounds>>

\* The transaction after it: the attempt and the authorization are checked
\* again, and the row is inserted unless an earlier upload has inserted it.
Register(u) ==
  /\ up[u].pc = "register"
  /\ up' = [up EXCEPT ![u] = IdleUp]
  /\ LET r == up[u].ref
     IN row' = IF Authorized(r) /\ row[r].status = "none"
               THEN [row EXCEPT ![r] = [status |-> "staged", linked |-> FALSE, created |-> now]]
               ELSE row
  /\ UNCHANGED <<clocks, upload, artifacts, submission, store, req, job, batch, boot, bounds>>
----------------------------------------------------------------------------
(* Submitting a result: prevalidation, handoff, commit, promotions.        *)

Names(x) == {x.staged[i] : i \in 1..Len(x.staged)}
Ids(x) == Len(x.staged)
UploadedBy(a, r) == upload[r].attempt = a /\ row[r].status = "staged"

Answer(q) == req' = [req EXCEPT ![q] = IdleReq]

\* withResultPrevalidation: a result that has a submission goes on; the bytes
\* of a completed one are read and checked against its schema.
Prevalidated(a, x) ==
  \/ submission[a] # NoSubmission
  \/ /\ Active(a)
     /\ x.status = "completed" => \A r \in Names(x) : UploadedBy(a, r) /\ Whole(r)

Submit(q, a, x) ==
  /\ boot = "no" /\ req[q].pc = "idle" /\ Prevalidated(a, x)
  /\ req' = [req EXCEPT ![q] = [IdleReq EXCEPT !.pc = "handoff", !.attempt = a, !.result = x]]
  /\ UNCHANGED <<clocks, database, store, up, job, batch, boot, bounds>>

\* submitResult: the handoff transaction keeps one submission of an attempt.
Handoff(q) ==
  /\ req[q].pc = "handoff"
  /\ LET a == req[q].attempt  x == req[q].result
         free == submission[a] = NoSubmission
         valid == Active(a) /\ \A r \in Names(x) : UploadedBy(a, r)
     IN IF (free /\ valid) \/ submission[a].result = x
        THEN /\ submission' = IF free THEN [submission EXCEPT ![a] = [result |-> x, done |-> FALSE]]
                            ELSE submission
             /\ req' = [req EXCEPT ![q].pc = "read"]
        ELSE Answer(q) /\ UNCHANGED submission
  /\ UNCHANGED <<clocks, upload, row, artifacts, store, up, job, batch, boot, bounds>>

\* commitSubmittedResult: the submission of the attempt is read by attempt, so
\* that it may by now be another one, or none.
ReadSubmission(q) ==
  /\ req[q].pc = "read"
  /\ LET s == submission[req[q].attempt]
     IN IF s = NoSubmission THEN Answer(q)
        ELSE req' = [req EXCEPT ![q].pc = "commit", ![q].result = s.result]
  /\ UNCHANGED <<clocks, database, store, up, job, batch, boot, bounds>>

\* validateStaged, for every artifact the result names, and the bytes of a
\* completed one unless a receipt says they were checked before.
Validated(a, x) ==
  /\ Cardinality(Names(x)) = Ids(x)
  /\ \A r \in Names(x) : UploadedBy(a, r)
  /\ x.status = "completed" => \A r \in Names(x) : StagedExists(r)

\* publishArtifact: an artifact per new digest, a link from each row.  What one
\* transaction inserts has one created_at.
Published(x) ==
  IF x.status = "completed"
  THEN /\ row' = [r \in Ref |-> IF r \in Names(x) THEN [row[r] EXCEPT !.linked = TRUE] ELSE row[r]]
       /\ artifacts' = [d \in Digest |->
            IF artifacts[d] = 0 /\ \E r \in Names(x) : upload[r].digest = d
            THEN Cardinality(Known) + 1 ELSE artifacts[d]]
  ELSE UNCHANGED <<row, artifacts>>

\* The commit transaction.  Refusals leave it through the handler that deletes
\* the submission.
Commit(q) ==
  /\ req[q].pc = "commit"
  /\ LET a == req[q].attempt  x == req[q].result  s == submission[a]
         mine == s = NoSubmission \/ s.result = x
         authority == attempt[a] = "active" /\ (req[q].expired \/ now < lease[a])
     IN \/ /\ mine /\ s.done
           /\ Answer(q) /\ UNCHANGED <<lease, attempt, database>>
        \/ /\ mine /\ ~s.done /\ authority /\ x \notin Refused /\ Validated(a, x)
           /\ submission' = [submission EXCEPT ![a] = [result |-> x, done |-> TRUE]]
           /\ attempt' = [attempt EXCEPT ![a] = x.status] /\ lease' = [lease EXCEPT ![a] = 0]
           /\ Published(x)
           /\ UNCHANGED upload
           /\ req' = [req EXCEPT ![q].pc = "promote",
                        ![q].promotions = IF x.status = "completed" THEN x.staged ELSE <<>>]
        \/ /\ ~mine \/ (~s.done /\ ~(authority /\ x \notin Refused /\ Validated(a, x)))
           /\ req' = [req EXCEPT ![q].pc = "refused"] /\ UNCHANGED <<lease, attempt, database>>
  /\ UNCHANGED <<now, store, up, job, batch, boot, bounds>>

\* The handler: the submission with this digest goes, unless it is committed.
Withdraw(q) ==
  /\ req[q].pc = "refused"
  /\ LET a == req[q].attempt
     IN submission' = IF submission[a] = [result |-> req[q].result, done |-> FALSE]
                      THEN [submission EXCEPT ![a] = NoSubmission] ELSE submission
  /\ Answer(q)
  /\ UNCHANGED <<clocks, upload, row, artifacts, store, up, job, batch, boot, bounds>>

\* The loop over the promotions; the answer is sent after it.
NextPromotion(q) ==
  /\ req[q].pc = "promote" /\ job[q].step = "none"
  /\ IF req[q].promotions = <<>> THEN Answer(q) /\ UNCHANGED job
     ELSE LET r == Head(req[q].promotions)
          IN /\ job' = [job EXCEPT ![q] = [ref |-> r, digest |-> upload[r].digest, step |-> "publish"]]
             /\ req' = [req EXCEPT ![q].promotions = Tail(@)]
  /\ UNCHANGED <<clocks, database, store, up, batch, boot, bounds>>

----------------------------------------------------------------------------
(* One promotion, of a commit or of the batch.  What the commit cannot     *)
(* promote is left to reconciliation; the batch reports an object that is  *)
(* missing or wrong and throws any other error.                            *)

Drop(p) == job' = [job EXCEPT ![p] = NoJob]

\* Mutant: the staged object is removed before it is put into place.
Publish_RemovesFirst(p) ==
  /\ job[p].step = "publish"
  /\ blob' = [blob EXCEPT ![job[p].ref] = Absent]
  /\ IF Promote(job[p].ref, job[p].digest) = "none"
     THEN job' = [job EXCEPT ![p].step = "mark"] ELSE Drop(p)
  /\ UNCHANGED <<clocks, database, kind, committed, up, req, batch, boot, bounds>>

Publish(p) ==
  /\ job[p].step = "publish"
  /\ LET r == job[p].ref  d == job[p].digest
     IN \/ /\ Promote(r, d) = "none"
           /\ committed' = committed \cup {d}
           /\ job' = [job EXCEPT ![p].step = "remove"]
           /\ UNCHANGED faults
        \/ /\ Promote(r, d) # "none"
           /\ Drop(p) /\ UNCHANGED <<committed, faults>>
        \/ /\ faults < MaxFault /\ faults' = faults + 1
           /\ Drop(p) /\ UNCHANGED committed
  /\ batch' = IF p = "batch" /\ faults' # faults THEN [batch EXCEPT !.pc = "failed"] ELSE batch
  /\ UNCHANGED <<clocks, database, kind, blob, up, req, boot, crashes>>

Unstage(p) ==
  /\ job[p].step \in {"remove", "unlink"}
  /\ LET r == job[p].ref
     IN /\ Remove(r)
        /\ IF blob'[r].is # "absent" THEN UNCHANGED job
           ELSE IF job[p].step = "unlink" THEN Drop(p)
           ELSE job' = [job EXCEPT ![p].step = "mark"]
  /\ UNCHANGED <<clocks, database, kind, committed, up, req, batch, boot, bounds>>

MarkPromoted(p) ==
  /\ job[p].step = "mark"
  /\ row' = [row EXCEPT ![job[p].ref].status = "promoted", ![job[p].ref].linked = TRUE]
  /\ Drop(p)
  /\ UNCHANGED <<clocks, upload, artifacts, submission, store, up, req, batch, boot, bounds>>
----------------------------------------------------------------------------
(* ArtifactReconciliationService.runBatch, from the maintenance command,   *)
(* which knows directories only and removes orphans, or from startup,      *)
(* which removes nothing.  Both go on from cursor to cursor.               *)

Oldest(S, A, age) ==
  /\ S \subseteq A /\ (S = A \/ Cardinality(S) = Limit) /\ Cardinality(S) <= Limit
  /\ \A x \in S, y \in A \ S : age[x] <= age[y]

RowAge == [r \in Ref |-> row[r].created]
InBatch == <<clocks, upload, submission, kind, up, req, bounds>>

\* findCommittedArtifactsNeedingBlobCheck: the oldest committed artifacts.
StartBatch(cutoff, cursor, orphans) ==
  \E S \in SUBSET Known :
    /\ Oldest(S, Known, artifacts)
    /\ batch' = [pc |-> "artifacts", todo |-> S, at |-> 0, cutoff |-> cutoff, cursor |-> cursor, orphans |-> orphans]

RunBatch ==
  /\ batch.pc = "idle" /\ job["batch"].step = "none"
  /\ boot = "reconcile" \/ (boot = "no" /\ kind = "filesystem")
  /\ StartBatch(now - Grace, 0, boot = "no")
  /\ UNCHANGED <<InBatch, row, artifacts, blob, committed, job, boot>>

\* Mutant: only rows older than the cutoff are sources.
CheckArtifact_OldRows ==
  /\ batch.pc = "artifacts" /\ job["batch"].step = "none"
  /\ \E d \in batch.todo :
       /\ batch' = [batch EXCEPT !.todo = @ \ {d}]
       /\ \E r \in Ref :
            job' = IF CommittedExists(d) \/ ~row[r].linked \/ row[r].created >= batch.cutoff THEN job
                   ELSE [job EXCEPT !["batch"] = [ref |-> r, digest |-> d, step |-> "publish"]]
  /\ UNCHANGED <<InBatch, row, artifacts, blob, committed, boot>>

\* An artifact without committed bytes gets them from a staged row it is
\* linked to; without such a row it is reported.
CheckArtifact ==
  /\ batch.pc = "artifacts" /\ job["batch"].step = "none"
  /\ \E d \in batch.todo :
       /\ batch' = [batch EXCEPT !.todo = @ \ {d}]
       /\ LET source == {r \in Ref : row[r].linked /\ upload[r].digest = d /\ row[r].status = "staged"}
          IN IF CommittedExists(d) \/ source = {} THEN UNCHANGED job
             ELSE \E r \in source :
                    /\ \A s \in source : RowAge[r] <= RowAge[s]
                    /\ job' = [job EXCEPT !["batch"] = [ref |-> r, digest |-> d, step |-> "publish"]]
  /\ UNCHANGED <<InBatch, row, artifacts, blob, committed, boot>>

\* listReconciliationCandidates: staged rows older than the cutoff.  Those of
\* an artifact are passed over as they were read.
ListRows ==
  /\ batch.pc = "artifacts" /\ batch.todo = {} /\ job["batch"].step = "none"
  /\ LET old == {r \in Ref : row[r].status = "staged" /\ row[r].created < batch.cutoff}
     IN \E S \in SUBSET old :
          /\ Oldest(S, old, RowAge)
          /\ batch' = [batch EXCEPT !.pc = "rows", !.todo = {r \in S : ~row[r].linked}]
  /\ UNCHANGED <<InBatch, row, artifacts, blob, committed, job, boot>>

CheckRow ==
  /\ batch.pc = "rows"
  /\ \E r \in batch.todo :
       batch' = IF StagedExists(r) THEN [batch EXCEPT !.todo = @ \ {r}]
                ELSE [batch EXCEPT !.pc = "abandon", !.todo = @ \ {r}, !.at = r]
  /\ UNCHANGED <<InBatch, row, artifacts, blob, committed, job, boot>>

\* markStagingAbandoned, whatever the row has become since it was listed.
AbandonRow ==
  /\ batch.pc = "abandon"
  /\ row' = [row EXCEPT ![batch.at].status = "abandoned"]
  /\ batch' = [batch EXCEPT !.pc = "rows", !.at = 0]
  /\ UNCHANGED <<InBatch, artifacts, blob, committed, job, boot>>

\* Mutant: the grace period is not kept.
ListObjects_AnyAge ==
  /\ batch.pc = "rows" /\ batch.todo = {}
  /\ batch' = [batch EXCEPT !.pc = "objects", !.cursor = 0, !.todo = Page(batch.cursor)]
  /\ UNCHANGED <<InBatch, row, artifacts, blob, committed, job, boot>>

\* Of a page of staged objects, those the batch may remove: old ones.
ListObjects ==
  /\ batch.pc = "rows" /\ batch.todo = {}
  /\ LET page == Page(batch.cursor)
         more == {r \in After(batch.cursor) \ page : page # {}}
     IN IF ListThrows(batch.cursor)
        THEN batch' = [batch EXCEPT !.pc = "failed"]
        ELSE \E next \in page \cup {0} :
               /\ IF more = {} THEN next = 0 ELSE next # 0 /\ \A r \in page : r <= next
               /\ batch' = [batch EXCEPT !.pc = "objects", !.cursor = next,
                              !.todo = {r \in page : blob[r].at < batch.cutoff}]
  /\ UNCHANGED <<InBatch, row, artifacts, blob, committed, job, boot>>

\* readStagingRowsByLocator; the removal is a step of its own.
CheckObject ==
  /\ batch.pc = "objects" /\ job["batch"].step = "none"
  /\ \E r \in batch.todo :
       /\ batch' = [batch EXCEPT !.todo = @ \ {r}]
       /\ job' = IF row[r].status = "none" /\ batch.orphans
                 THEN [job EXCEPT !["batch"] = [ref |-> r, digest |-> "none", step |-> "unlink"]]
                 ELSE job
  /\ UNCHANGED <<InBatch, row, artifacts, blob, committed, boot>>

\* The end of a batch: startup and the operator go on from its cursor.
FinishBatch ==
  /\ batch.pc = "objects" /\ batch.todo = {} /\ job["batch"].step = "none"
  /\ IF batch.cursor = 0
     THEN batch' = IdleBatch /\ boot' = "no"
     ELSE StartBatch(now - Grace, batch.cursor, batch.orphans) /\ UNCHANGED boot
  /\ UNCHANGED <<InBatch, row, artifacts, blob, committed, job>>

\* A batch that throws ends the command, or the start of the control plane,
\* which its supervisor starts again.
FailBatch ==
  /\ batch.pc = "failed"
  /\ batch' = IdleBatch
  /\ boot' = IF boot = "reconcile" THEN "commit" ELSE boot
  /\ UNCHANGED <<InBatch, row, artifacts, blob, committed, job>>

----------------------------------------------------------------------------
(* Startup: submissions first, then expired attempts, then a batch.  Until *)
(* it ends no request is served.                                           *)

Pending == {a \in Attempt : submission[a] # NoSubmission /\ ~submission[a].done}

CommitSubmitted(a) ==
  /\ boot = "commit" /\ req[Booter].pc = "idle" /\ a \in Pending
  /\ req' = [req EXCEPT ![Booter] = [IdleReq EXCEPT !.pc = "commit", !.attempt = a,
               !.result = submission[a].result, !.expired = TRUE]]
  /\ UNCHANGED <<clocks, database, store, up, job, batch, boot, bounds>>

AbandonExpired ==
  /\ boot = "commit" /\ req[Booter].pc = "idle" /\ Pending = {}
  /\ LET expired == {a \in Attempt : attempt[a] = "active" /\ lease[a] <= now}
     IN /\ attempt' = [a \in Attempt |-> IF a \in expired THEN "lost" ELSE attempt[a]]
        /\ lease' = [a \in Attempt |-> IF a \in expired THEN 0 ELSE lease[a]]
  /\ boot' = "reconcile"
  /\ UNCHANGED <<now, database, store, up, req, job, batch, bounds>>

Crash ==
  /\ crashes < MaxCrash /\ crashes' = crashes + 1
  /\ up' = [u \in Uploader |-> IdleUp]
  /\ req' = [q \in Requester |-> IdleReq]
  /\ job' = [p \in Promoter |-> NoJob]
  /\ batch' = IdleBatch
  /\ boot' = "commit"
  /\ UNCHANGED <<clocks, database, store, faults>>

\* An operator cancels the run, or the region moves to another epoch.
Fence(a) ==
  /\ boot = "no" /\ attempt[a] = "active"
  /\ attempt' = [attempt EXCEPT ![a] = "lost"] /\ lease' = [lease EXCEPT ![a] = 0]
  /\ UNCHANGED <<now, database, store, processes, bounds>>

Tick ==
  /\ now < MaxTime /\ now' = now + 1
  /\ UNCHANGED <<lease, attempt, database, store, processes, bounds>>

----------------------------------------------------------------------------
Init ==
  /\ now = 0 /\ lease = [a \in Attempt |-> Lease] /\ attempt = [a \in Attempt |-> "active"]
  /\ upload = [r \in Ref |-> NoUpload]
  /\ row = [r \in Ref |-> [status |-> "none", linked |-> FALSE, created |-> Never]]
  /\ artifacts = [d \in Digest |-> 0]
  /\ submission = [a \in Attempt |-> NoSubmission]
  /\ kind \in Store /\ blob = [r \in Ref |-> Absent] /\ committed = {}
  /\ up = [u \in Uploader |-> IdleUp] /\ req = [q \in Requester |-> IdleReq]
  /\ job = [p \in Promoter |-> NoJob] /\ batch = IdleBatch
  /\ boot = "no" /\ crashes = 0 /\ faults = 0

Worker ==
  \/ \E a \in Attempt : Heartbeat(a) \/ \E d \in Digest : Stage(a, d)
  \/ \E u \in Uploader, r \in Ref : Authorize(u, r)
  \/ \E q \in Submitter, a \in Attempt, x \in Results : Submit(q, a, x)

Serve ==
  \/ \E u \in Uploader : Write(u) \/ Register(u)
  \/ \E q \in Requester : Handoff(q) \/ ReadSubmission(q) \/ Commit(q) \/ Withdraw(q) \/ NextPromotion(q)

Move == \E p \in Promoter : Publish(p) \/ Unstage(p) \/ MarkPromoted(p)

Reconcile ==
  \/ CheckArtifact \/ ListRows \/ CheckRow \/ AbandonRow
  \/ ListObjects \/ CheckObject \/ FinishBatch \/ FailBatch

Startup == (\E a \in Attempt : CommitSubmitted(a)) \/ AbandonExpired \/ (boot = "reconcile" /\ RunBatch)

Next ==
  \/ Worker \/ Serve \/ Move \/ Reconcile \/ Startup \/ RunBatch
  \/ Crash \/ Tick \/ \E a \in Attempt : Fence(a)

\* A request, a batch and a start go on until they end; workers, operators and
\* the clock need not do anything.
Fairness == WF_vars(Serve) /\ WF_vars(Move) /\ WF_vars(Reconcile) /\ WF_vars(Startup)

Spec == Init /\ [][Next]_vars /\ Fairness

----------------------------------------------------------------------------
ObjectState == {Absent, Torn} \cup [is : {"whole"}, at : Nat]
Step == {"none", "publish", "remove", "mark", "unlink"}

TypeOK ==
  /\ now \in Nat /\ lease \in [Attempt -> Nat]
  /\ attempt \in [Attempt -> {"active", "completed", "failed", "lost"}]
  /\ upload \in [Ref -> {NoUpload} \cup [attempt : Attempt, digest : Digest, expires : Nat]]
  /\ row \in [Ref -> [status : {"none", "staged", "promoted", "abandoned"},
                      linked : BOOLEAN, created : Nat \cup {Never}]]
  /\ artifacts \in [Digest -> Nat]
  /\ submission \in [Attempt -> {NoSubmission} \cup [result : Results, done : BOOLEAN]]
  /\ kind \in Store /\ blob \in [Ref -> ObjectState] /\ committed \subseteq Digest
  /\ up \in [Uploader -> [pc : {"idle", "write", "register"}, ref : Ref \cup {0}]]
  /\ req \in [Requester -> [pc : {"idle", "handoff", "read", "commit", "refused", "promote"},
                            attempt : Attempt \cup {"none"},
                            result : Results \cup {NoResult}, expired : BOOLEAN, promotions : Seq(Ref)]]
  /\ job \in [Promoter -> [ref : Ref \cup {0}, digest : Digest \cup {"none"}, step : Step]]
  /\ batch \in [pc : {"idle", "artifacts", "rows", "abandon", "objects", "failed"},
                todo : SUBSET (Digest \cup Ref), at : Ref \cup {0}, cutoff : Int,
                cursor : Ref \cup {0}, orphans : BOOLEAN]
  /\ boot \in {"no", "commit", "reconcile"}
  /\ crashes \in Nat /\ faults \in Nat

\* Committed metadata always has its bytes: in the committed store, or whole in
\* a staged object whose row leads reconciliation to it.
CommittedBytesKept ==
  \A d \in Known :
    d \in committed
    \/ \E r \in Ref : row[r].linked /\ row[r].status = "staged" /\ upload[r].digest = d /\ Whole(r)

\* An upload that was registered can be committed: its bytes stay until a commit
\* links the row, whatever reconciliation decides from what it read before.
RegisteredBytesKept ==
  \A r \in Ref : row[r].status # "none" /\ ~row[r].linked => row[r].status = "staged" /\ Whole(r)

\* Each start leaves every committed artifact with its committed bytes, however
\* the control plane stopped before.
StartRepairs ==
  \A d \in Digest : boot # "no" /\ d \in Known ~> d \in committed

=============================================================================
