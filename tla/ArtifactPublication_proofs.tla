--------------------- MODULE ArtifactPublication_proofs ---------------------
(***************************************************************************)
(* Committed artifacts and registered uploads keep their bytes: for any    *)
(* number of attempts, contents, places, requests and crashes, any lease   *)
(* and grace period that fit together, and both kinds of store.            *)
(***************************************************************************)
EXTENDS ArtifactPublication, FiniteSetTheorems, SequenceTheorems, TLAPS

-----------------------------------------------------------------------------
(* The invariant.                                                          *)

\* Nobody can register an upload for the place any more.
Gone(r) == upload[r] # NoUpload /\ upload[r].expires <= now

\* A place: its object is younger than the authorization it was written under,
\* and a row that an artifact is linked to has its bytes in one of two stores.
PlaceOK(r) ==
  /\ upload[r].expires <= now + Lease
  /\ upload[r] = NoUpload => blob[r] = Absent /\ row[r].status = "none"
  /\ row[r].status = "none" => ~row[r].linked
  /\ Whole(r) => upload[r].expires <= blob[r].at + Lease
  /\ row[r].linked => \/ upload[r].digest \in committed
                      \/ row[r].status = "staged" /\ Whole(r)

KnownAreLinked ==
  \A d \in Known : \E r \in Ref : row[r].linked /\ upload[r].digest = d

\* A removal is of a promoted object, or of one nobody can register.
JobOK(p) ==
  job[p].step # "none" =>
    /\ job[p].ref \in Ref
    /\ job[p].step \in {"publish", "remove", "mark"} =>
         row[job[p].ref].linked /\ upload[job[p].ref].digest = job[p].digest
    /\ job[p].step \in {"remove", "mark"} => job[p].digest \in committed
    /\ job[p].step = "unlink" => Gone(job[p].ref) /\ row[job[p].ref].status = "none"

\* An upload that is about to be registered is there, unless that comes too late.
UpOK(u) ==
  up[u].pc # "idle" =>
    /\ up[u].ref \in Ref /\ upload[up[u].ref] # NoUpload
    /\ up[u].pc = "register" =>
         row[up[u].ref].status # "none" \/ Gone(up[u].ref) \/ Whole(up[u].ref)

ReqOK(q) ==
  /\ req[q].pc # "idle" => req[q].attempt \in Attempt /\ req[q].result \in Results
  /\ \A i \in 1..Len(req[q].promotions) : row[req[q].promotions[i]].linked

\* What the batch has read and will act on cannot change to the worse.
BatchOK ==
  /\ batch.cutoff <= now - Grace
  /\ batch.pc = "artifacts" => batch.todo \subseteq Digest
  /\ batch.pc \in {"rows", "abandon"} =>
       \A r \in batch.todo : r \in Ref /\ row[r].status # "none"
  /\ batch.pc = "abandon" =>
       batch.at \in Ref /\ row[batch.at].linked /\ upload[batch.at].digest \in committed
  /\ batch.pc = "objects" =>
       \A r \in batch.todo : r \in Ref /\ Gone(r)

ProcessesOK ==
  /\ \A p \in Promoter : JobOK(p)
  /\ \A q \in Requester : ReqOK(q)
  /\ BatchOK

BytesOK ==
  /\ \A r \in Ref : PlaceOK(r)
  /\ RegisteredBytesKept
  /\ \A u \in Uploader : UpOK(u)

PublicationInvariant == TypeOK /\ BytesOK /\ KnownAreLinked /\ ProcessesOK

-----------------------------------------------------------------------------
(* What no step takes back, and what therefore stays true of the processes *)
(* that do not move.                                                       *)

Advance ==
  /\ now' \in Nat /\ now <= now'
  /\ committed \subseteq committed'
  /\ \A r \in Ref :
       /\ upload[r] # NoUpload => upload'[r] = upload[r]
       /\ row[r].linked => row'[r].linked
       /\ row[r].status # "none" => row'[r].status # "none"
       /\ Gone(r) /\ row[r].status = "none" => row'[r].status = "none"

\* The rows, places and published digests stay.
Still == UNCHANGED <<now, upload, row, committed>>

LEMMA StillAdvance ==
  ASSUME PublicationInvariant, Still
  PROVE  Advance
BY DEF PublicationInvariant, TypeOK, Still, Advance

LEMMA GoneStays ==
  ASSUME TypeOK, Advance
  PROVE  \A r \in Ref : Gone(r) => Gone(r)'
<1> SUFFICES ASSUME NEW r \in Ref, Gone(r)
             PROVE  Gone(r)'
  OBVIOUS
<1>1. upload'[r] = upload[r] /\ now <= now' /\ upload[r] # NoUpload /\ upload[r].expires <= now
  BY DEF Advance, Gone
<1>2. upload[r].expires \in Int /\ now \in Int
  BY ArtifactAssumption DEF TypeOK, NoUpload, Never
<1>3. now' \in Int
  BY DEF Advance
<1> QED
  BY <1>1, <1>2, <1>3 DEF Gone

\* A linked row has a place, which stays.
LEMMA LinkedStays ==
  ASSUME PublicationInvariant, Advance
  PROVE  \A r \in Ref : row[r].linked => row'[r].linked /\ upload'[r] = upload[r]
BY DEF PublicationInvariant, BytesOK, PlaceOK, Advance

LEMMA JobFrame ==
  ASSUME PublicationInvariant, Advance, NEW p \in Promoter, job'[p] = job[p]
  PROVE  JobOK(p)'
<1>1. JobOK(p) /\ TypeOK
  BY DEF PublicationInvariant, ProcessesOK
<1> SUFFICES ASSUME job[p].step # "none"
             PROVE  JobOK(p)'
  BY DEF JobOK
<1> DEFINE r == job[p].ref
<1>2. r \in Ref
  BY <1>1 DEF JobOK
<1>3. job[p].step = "unlink" => Gone(r)' /\ row'[r].status = "none"
  BY <1>1, <1>2, GoneStays DEF JobOK, Advance
<1>4. job[p].step \in {"publish", "remove", "mark"} =>
        row'[r].linked /\ upload'[r].digest = job[p].digest
  BY <1>1, <1>2, LinkedStays DEF JobOK
<1>5. job[p].step \in {"remove", "mark"} => job[p].digest \in committed'
  BY <1>1 DEF JobOK, Advance
<1> QED
  BY <1>2, <1>3, <1>4, <1>5 DEF JobOK

LEMMA ReqFrame ==
  ASSUME PublicationInvariant, Advance, NEW q \in Requester, req'[q] = req[q]
  PROVE  ReqOK(q)'
<1>1. ReqOK(q) /\ req[q].promotions \in Seq(Ref)
  BY DEF PublicationInvariant, ProcessesOK, TypeOK
<1>2. \A i \in 1..Len(req[q].promotions) : req[q].promotions[i] \in Ref
  BY <1>1, ElementOfSeq
<1> QED
  BY <1>1, <1>2, LinkedStays DEF ReqOK

LEMMA BatchFrame ==
  ASSUME PublicationInvariant, Advance, batch' = batch
  PROVE  BatchOK'
<1>1. BatchOK /\ TypeOK
  BY DEF PublicationInvariant, ProcessesOK
<1>2. batch.cutoff <= now' - Grace
  BY <1>1, ArtifactAssumption DEF BatchOK, TypeOK, Advance
<1>3. batch.pc \in {"rows", "abandon"} =>
        \A r \in batch.todo : r \in Ref /\ row'[r].status # "none"
  BY <1>1 DEF BatchOK, Advance
<1>4. batch.pc = "abandon" => /\ batch.at \in Ref /\ row'[batch.at].linked
                              /\ upload'[batch.at].digest \in committed'
  BY <1>1, LinkedStays DEF BatchOK, Advance
<1>5. batch.pc = "objects" => \A r \in batch.todo : r \in Ref /\ Gone(r)'
  BY <1>1, GoneStays DEF BatchOK
<1> QED
  BY <1>1, <1>2, <1>3, <1>4, <1>5 DEF BatchOK

LEMMA ProcessesFrame ==
  ASSUME PublicationInvariant, Advance, UNCHANGED <<job, req, batch>>
  PROVE  ProcessesOK'
BY JobFrame, ReqFrame, BatchFrame DEF ProcessesOK

LEMMA KnownFrame ==
  ASSUME PublicationInvariant, Advance, artifacts' = artifacts
  PROVE  KnownAreLinked'
BY LinkedStays DEF PublicationInvariant, KnownAreLinked, Known

\* A place that is not written, removed, registered or linked.
LEMMA PlaceFrame ==
  ASSUME PublicationInvariant, Advance, NEW r \in Ref,
         upload'[r] = upload[r], row'[r] = row[r], blob'[r] = blob[r]
  PROVE  PlaceOK(r)'
<1>1. PlaceOK(r) /\ TypeOK
  BY DEF PublicationInvariant, BytesOK
<1>2. upload[r].expires <= now' + Lease
  <2>1. upload[r].expires \in Int
    BY <1>1, ArtifactAssumption DEF TypeOK, NoUpload, Never
  <2> QED
    BY <1>1, <2>1, ArtifactAssumption DEF PlaceOK, TypeOK, Advance
<1> QED
  BY <1>1, <1>2 DEF PlaceOK, Whole, Advance

LEMMA UpFrame ==
  ASSUME PublicationInvariant, Advance, NEW u \in Uploader, up'[u] = up[u],
         \A r \in Ref : Whole(r) /\ row[r].status = "none" /\ ~Gone(r) => Whole(r)'
  PROVE  UpOK(u)'
<1>1. UpOK(u) /\ TypeOK
  BY DEF PublicationInvariant, BytesOK
<1> QED
  BY <1>1, GoneStays DEF UpOK, Advance

LEMMA BytesFrame ==
  ASSUME PublicationInvariant, Advance, UNCHANGED <<upload, row, blob, up>>
  PROVE  BytesOK'
<1>1. \A r \in Ref : PlaceOK(r)'
  BY PlaceFrame
<1>2. \A u \in Uploader : UpOK(u)'
  BY UpFrame DEF Whole
<1> QED
  BY <1>1, <1>2 DEF PublicationInvariant, BytesOK, RegisteredBytesKept, Whole

-----------------------------------------------------------------------------
(* Types.                                                                  *)

LEMMA KnownIsFinite ==
  ASSUME KnownAreLinked
  PROVE  IsFiniteSet(Known)
<1> DEFINE f == [r \in Ref |-> upload[r].digest]
           F == {f[r] : r \in Ref}
<1>1. IsFiniteSet(Ref)
  BY FS_Interval, ArtifactAssumption DEF Ref
<1>2. f \in Surjection(Ref, F)
  BY DEF Surjection
<1>3. IsFiniteSet(F)
  BY <1>1, <1>2, FS_Surjection
<1>4. Known \subseteq F
  BY DEF KnownAreLinked
<1> QED
  BY <1>3, <1>4, FS_Subset

LEMMA ResultFacts ==
  ASSUME NEW x \in Results
  PROVE  /\ x.status \in {"completed", "failed"}
         /\ x.staged \in Seq(Ref)
         /\ Names(x) \subseteq Ref
         /\ \A i \in 1..Len(x.staged) : x.staged[i] \in Names(x)
<1>1. x.status \in {"completed", "failed"} /\ x.staged \in Seq(Ref)
  BY ArtifactAssumption DEF Ref
<1>2. \A i \in 1..Len(x.staged) : x.staged[i] \in Ref
  BY <1>1, ElementOfSeq
<1> QED
  BY <1>1, <1>2 DEF Names

LEMMA IdleTypes ==
  /\ IdleReq \in [pc : {"idle", "handoff", "read", "commit", "refused", "promote"},
                  attempt : Attempt \cup {"none"}, result : Results \cup {NoResult},
                  expired : BOOLEAN, promotions : Seq(Ref)]
  /\ IdleReq.pc = "idle" /\ IdleReq.promotions = <<>> /\ IdleReq.result = NoResult
  /\ IdleUp \in [pc : {"idle", "write", "register"}, ref : Ref \cup {0}]
  /\ IdleUp.pc = "idle"
  /\ NoJob \in [ref : Ref \cup {0}, digest : Digest \cup {"none"}, step : Step]
  /\ NoJob.step = "none"
  /\ Never \in Int
<1>1. <<>> \in Seq(Ref)
  BY EmptySeq
<1>2. Never \in Int
  BY ArtifactAssumption DEF Never
<1> QED
  BY <1>1, <1>2 DEF IdleReq, IdleUp, NoJob, Step

LEMMA WorkerTypes ==
  ASSUME TypeOK, Worker
  PROVE  TypeOK'
<1>1. ASSUME NEW a \in Attempt, Heartbeat(a)
      PROVE  TypeOK'
  BY <1>1, ArtifactAssumption DEF Heartbeat, TypeOK, database, store, processes, bounds
<1>2. ASSUME NEW a \in Attempt, NEW d \in Digest, Stage(a, d)
      PROVE  TypeOK'
  <2>1. PICK r \in Ref :
          upload' = [upload EXCEPT ![r] = [attempt |-> a, digest |-> d,
            expires |-> IF lease[a] < now + Lease THEN lease[a] ELSE now + Lease]]
    BY <1>2 DEF Stage
  <2>2. (IF lease[a] < now + Lease THEN lease[a] ELSE now + Lease) \in Nat
    BY ArtifactAssumption DEF TypeOK
  <2> QED
    BY <1>2, <2>1, <2>2 DEF Stage, TypeOK, clocks, store, processes, bounds
<1>3. ASSUME NEW u \in Uploader, NEW r \in Ref, Authorize(u, r)
      PROVE  TypeOK'
  BY <1>3 DEF Authorize, TypeOK, clocks, database, store, bounds
<1>4. ASSUME NEW q \in Submitter, NEW a \in Attempt, NEW x \in Results, Submit(q, a, x)
      PROVE  TypeOK'
  <2>1. q \in Requester
    BY DEF Requester
  <2>2. req' = [req EXCEPT ![q] = [IdleReq EXCEPT !.pc = "handoff", !.attempt = a, !.result = x]]
    BY <1>4 DEF Submit
  <2>3. req' \in [Requester -> [pc : {"idle", "handoff", "read", "commit", "refused", "promote"},
                            attempt : Attempt \cup {"none"},
                            result : Results \cup {NoResult}, expired : BOOLEAN, promotions : Seq(Ref)]]
    BY <2>1, <2>2, IdleTypes DEF TypeOK
  <2> QED
    BY <1>4, <2>3 DEF Submit, TypeOK, clocks, database, store, bounds
<1> QED
  BY <1>1, <1>2, <1>3, <1>4 DEF Worker

LEMMA UploadTypes ==
  ASSUME TypeOK, NEW u \in Uploader, Write(u) \/ Register(u), UpOK(u)
  PROVE  TypeOK'
<1>1. CASE Write(u)
  <2>1. up[u].ref \in Ref
    BY <1>1 DEF Write, UpOK
  <2>2. blob' \in [Ref -> ObjectState]
    <3>1. CASE blob' = blob
      BY <3>1 DEF TypeOK
    <3>2. CASE blob' = [blob EXCEPT ![up[u].ref] = [is |-> "whole", at |-> now]]
      BY <2>1, <3>2 DEF TypeOK, ObjectState
    <3>3. Staged(up[u].ref) => blob' = blob \/ blob' = [blob EXCEPT ![up[u].ref] = [is |-> "whole", at |-> now]]
      BY <2>1 DEF Staged, S3Stage, FilesystemStage, TypeOK
    <3> QED
      BY <1>1, <3>1, <3>2, <3>3 DEF Write
  <2>3. up' \in [Uploader -> [pc : {"idle", "write", "register"}, ref : Ref \cup {0}]]
    <3>1. up' = [up EXCEPT ![u] = IdleUp] \/ up' = [up EXCEPT ![u] = [pc |-> "register", ref |-> up[u].ref]]
      BY <1>1 DEF Write, TypeOK
    <3>2. CASE up' = [up EXCEPT ![u] = IdleUp]
      BY <3>2, IdleTypes DEF TypeOK
    <3>3. CASE up' = [up EXCEPT ![u] = [pc |-> "register", ref |-> up[u].ref]]
      BY <2>1, <3>3 DEF TypeOK
    <3> QED
      BY <3>1, <3>2, <3>3
  <2> QED
    BY <1>1, <2>2, <2>3 DEF Write, TypeOK, clocks, database, bounds
<1>2. CASE Register(u)
  <2>1. row' \in [Ref -> [status : {"none", "staged", "promoted", "abandoned"},
                          linked : BOOLEAN, created : Nat \cup {Never}]]
    BY <1>2 DEF Register, TypeOK
  <2>2. up' \in [Uploader -> [pc : {"idle", "write", "register"}, ref : Ref \cup {0}]]
    BY <1>2, IdleTypes DEF Register, TypeOK
  <2> QED
    BY <1>2, <2>1, <2>2 DEF Register, TypeOK, clocks, store, bounds
<1> QED
  BY <1>1, <1>2

Requests ==
  [Requester -> [pc : {"idle", "handoff", "read", "commit", "refused", "promote"},
                 attempt : Attempt \cup {"none"}, result : Results \cup {NoResult},
                 expired : BOOLEAN, promotions : Seq(Ref)]]

LEMMA AnswerTypes ==
  ASSUME req \in Requests, NEW q \in Requester, Answer(q)
  PROVE  req' \in Requests
BY IdleTypes DEF Answer, Requests

LEMMA HandoffTypes ==
  ASSUME TypeOK, NEW q \in Requester, ReqOK(q),
         Handoff(q) \/ ReadSubmission(q) \/ Withdraw(q)
  PROVE  TypeOK'
<1> DEFINE a == req[q].attempt
           x == req[q].result
<1>0. req \in Requests
  BY DEF TypeOK, Requests
<1>1. CASE Handoff(q)
  <2>1. a \in Attempt /\ x \in Results
    BY <1>1 DEF Handoff, ReqOK
  <2>2. req' \in Requests
    <3>1. CASE Answer(q)
      BY <1>0, <3>1, AnswerTypes
    <3>2. CASE req' = [req EXCEPT ![q].pc = "read"]
      BY <1>0, <3>2 DEF Requests
    <3> QED
      BY <1>1, <3>1, <3>2 DEF Handoff
  <2>3. submission' \in [Attempt -> {NoSubmission} \cup [result : Results, done : BOOLEAN]]
    <3>1. CASE submission' = submission
      BY <3>1 DEF TypeOK
    <3>2. CASE submission' # submission
      <4>1. submission' = [submission EXCEPT ![a] = [result |-> x, done |-> FALSE]]
        BY <1>1, <3>2 DEF Handoff
      <4> QED
        BY <2>1, <4>1 DEF TypeOK
    <3> QED
      BY <3>1, <3>2
  <2> QED
    BY <1>1, <2>2, <2>3 DEF Handoff, TypeOK, Requests, clocks, store, bounds
<1>2. CASE ReadSubmission(q)
  <2>1. a \in Attempt
    BY <1>2 DEF ReadSubmission, ReqOK
  <2>2. req' \in Requests
    <3>1. CASE Answer(q)
      BY <1>0, <3>1, AnswerTypes
    <3>2. CASE ~Answer(q)
      <4>1. submission[a] # NoSubmission
        BY <1>2, <3>2 DEF ReadSubmission
      <4>2. submission[a].result \in Results
        BY <2>1, <4>1 DEF TypeOK
      <4>3. req' = [req EXCEPT ![q].pc = "commit", ![q].result = submission[a].result]
        BY <1>2, <4>1 DEF ReadSubmission
      <4>4. req' = [req EXCEPT ![q] = [req[q] EXCEPT !.pc = "commit", !.result = submission[a].result]]
        BY <1>0, <4>3 DEF Requests
      <4>5. [req[q] EXCEPT !.pc = "commit", !.result = submission[a].result]
              \in [pc : {"idle", "handoff", "read", "commit", "refused", "promote"},
                  attempt : Attempt \cup {"none"}, result : Results \cup {NoResult},
                  expired : BOOLEAN, promotions : Seq(Ref)]
        BY <1>0, <4>2 DEF Requests
      <4> QED
        BY <1>0, <4>4, <4>5 DEF Requests
    <3> QED
      BY <3>1, <3>2
  <2> QED
    BY <1>2, <2>2 DEF ReadSubmission, TypeOK, Requests, clocks, database, store, bounds
<1>3. CASE Withdraw(q)
  <2>1. req' \in Requests
    BY <1>0, <1>3, AnswerTypes DEF Withdraw
  <2>2. submission' \in [Attempt -> {NoSubmission} \cup [result : Results, done : BOOLEAN]]
    BY <1>3 DEF Withdraw, TypeOK
  <2> QED
    BY <1>3, <2>1, <2>2 DEF Withdraw, TypeOK, Requests, clocks, store, bounds
<1> QED
  BY <1>1, <1>2, <1>3

LEMMA PublishedTypes ==
  ASSUME TypeOK, KnownAreLinked, NEW x \in Results, Published(x)
  PROVE  /\ row' \in [Ref -> [status : {"none", "staged", "promoted", "abandoned"},
                              linked : BOOLEAN, created : Nat \cup {Never}]]
         /\ artifacts' \in [Digest -> Nat]
<1>1. Cardinality(Known) \in Nat
  BY KnownIsFinite, FS_CardinalityType
<1>2. CASE x.status = "completed"
  <2>1. row' = [r \in Ref |-> IF r \in Names(x) THEN [row[r] EXCEPT !.linked = TRUE] ELSE row[r]]
    BY <1>2 DEF Published
  <2>2. artifacts' = [d \in Digest |->
            IF artifacts[d] = 0 /\ \E r \in Names(x) : upload[r].digest = d
            THEN Cardinality(Known) + 1 ELSE artifacts[d]]
    BY <1>2 DEF Published
  <2>3. \A d \in Digest : artifacts[d] \in Nat
    BY DEF TypeOK
  <2>4. artifacts' \in [Digest -> Nat]
    BY <1>1, <2>2, <2>3
  <2>5. row' \in [Ref -> [status : {"none", "staged", "promoted", "abandoned"},
                          linked : BOOLEAN, created : Nat \cup {Never}]]
    <3> DEFINE T == [status : {"none", "staged", "promoted", "abandoned"},
                     linked : BOOLEAN, created : Nat \cup {Never}]
    <3>1. \A r \in Ref : row[r] \in T
      BY DEF TypeOK
    <3>2. \A r \in Ref : [row[r] EXCEPT !.linked = TRUE] \in T
      BY <3>1
    <3> HIDE DEF T
    <3>3. row' \in [Ref -> T]
      BY <2>1, <3>1, <3>2
    <3> QED
      BY <3>3 DEF T
  <2> QED
    BY <2>4, <2>5
<1>3. CASE x.status # "completed"
  BY <1>3 DEF Published, TypeOK
<1> QED
  BY <1>2, <1>3

LEMMA CommitTypes ==
  ASSUME TypeOK, KnownAreLinked, NEW q \in Requester, ReqOK(q), Commit(q)
  PROVE  TypeOK'
<1> DEFINE a == req[q].attempt
           x == req[q].result
<1>0. req \in Requests
  BY DEF TypeOK, Requests
<1>1. a \in Attempt /\ x \in Results
  BY DEF Commit, ReqOK
<1>2. CASE Answer(q) /\ UNCHANGED <<lease, attempt, database>>
  <2>1. req' \in Requests
    BY <1>0, <1>2, AnswerTypes
  <2> QED
    BY <1>2, <2>1 DEF Commit, TypeOK, Requests, database, store, bounds
<1>3. CASE req' = [req EXCEPT ![q].pc = "refused"] /\ UNCHANGED <<lease, attempt, database>>
  <2>1. req' \in Requests
    BY <1>0, <1>3 DEF Requests
  <2> QED
    BY <1>3, <2>1 DEF Commit, TypeOK, Requests, database, store, bounds
<1>4. CASE /\ submission' = [submission EXCEPT ![a] = [result |-> x, done |-> TRUE]]
           /\ attempt' = [attempt EXCEPT ![a] = x.status] /\ lease' = [lease EXCEPT ![a] = 0]
           /\ Published(x)
           /\ UNCHANGED upload
           /\ req' = [req EXCEPT ![q].pc = "promote",
                        ![q].promotions = IF x.status = "completed" THEN x.staged ELSE <<>>]
  <2> DEFINE named == IF x.status = "completed" THEN x.staged ELSE <<>>
  <2>1. named \in Seq(Ref)
    BY <1>1, ResultFacts, EmptySeq
  <2> HIDE DEF named
  <2>2. req' \in Requests
    <3>1. req' = [req EXCEPT ![q].pc = "promote", ![q].promotions = named]
      BY <1>4 DEF named
    <3> QED
      BY <1>0, <2>1, <3>1 DEF Requests
  <2>3. submission' \in [Attempt -> {NoSubmission} \cup [result : Results, done : BOOLEAN]]
    BY <1>1, <1>4 DEF TypeOK
  <2>4. attempt' \in [Attempt -> {"active", "completed", "failed", "lost"}]
    BY <1>1, <1>4, ResultFacts DEF TypeOK
  <2>5. lease' \in [Attempt -> Nat]
    BY <1>1, <1>4 DEF TypeOK
  <2>6. UNCHANGED <<now, upload, store, up, job, batch, boot, bounds>>
    BY <1>4 DEF Commit
  <2>7. /\ row' \in [Ref -> [status : {"none", "staged", "promoted", "abandoned"},
                             linked : BOOLEAN, created : Nat \cup {Never}]]
        /\ artifacts' \in [Digest -> Nat]
    BY <1>1, <1>4, PublishedTypes
  <2> QED
    BY <2>2, <2>3, <2>4, <2>5, <2>6, <2>7 DEF TypeOK, Requests, store, bounds
<1> QED
  BY <1>2, <1>3, <1>4 DEF Commit

LEMMA NextPromotionFacts ==
  ASSUME TypeOK, NEW q \in Requester, NextPromotion(q), req[q].promotions # <<>>
  PROVE  /\ Head(req[q].promotions) \in Ref
         /\ Tail(req[q].promotions) \in Seq(Ref)
         /\ Head(req[q].promotions) = req[q].promotions[1]
         /\ 1 \in 1..Len(req[q].promotions)
         /\ \A i \in 1..Len(Tail(req[q].promotions)) :
              /\ i + 1 \in 1..Len(req[q].promotions)
              /\ Tail(req[q].promotions)[i] = req[q].promotions[i + 1]
<1> DEFINE s == req[q].promotions
<1>1. s \in Seq(Ref) /\ s # <<>>
  BY DEF TypeOK
<1> HIDE DEF s
<1>2. /\ Head(s) \in Ref
      /\ Tail(s) \in Seq(Ref)
      /\ Len(Tail(s)) = Len(s) - 1
      /\ \A i \in 1..Len(Tail(s)) : Tail(s)[i] = s[i + 1]
  BY <1>1, HeadTailProperties
<1>3. Len(s) \in Nat \ {0} /\ Head(s) = s[1]
  BY <1>1, EmptySeq
<1> QED
  BY <1>2, <1>3 DEF s

LEMMA NextPromotionTypes ==
  ASSUME TypeOK, \A r \in Ref : PlaceOK(r), NEW q \in Requester, ReqOK(q), NextPromotion(q)
  PROVE  TypeOK'
<1>0. req \in Requests /\ q \in Promoter
  BY DEF TypeOK, Requests, Promoter
<1>1. CASE req[q].promotions = <<>>
  <2>1. req' \in Requests
    BY <1>0, <1>1, AnswerTypes DEF NextPromotion
  <2> QED
    BY <1>1, <2>1 DEF NextPromotion, TypeOK, Requests, clocks, database, store, bounds
<1>2. CASE req[q].promotions # <<>>
  <2> DEFINE r == Head(req[q].promotions)
             rest == Tail(req[q].promotions)
  <2>1. r \in Ref /\ rest \in Seq(Ref) /\ row[r].linked
    BY <1>2, NextPromotionFacts DEF ReqOK
  <2>2. /\ job' = [job EXCEPT ![q] = [ref |-> r, digest |-> upload[r].digest, step |-> "publish"]]
        /\ req' = [req EXCEPT ![q].promotions = rest]
    BY <1>2 DEF NextPromotion, TypeOK
  <2> HIDE DEF r, rest
  <2>3. upload[r].digest \in Digest
    BY <2>1 DEF PlaceOK, TypeOK
  <2>4. req' \in Requests
    BY <1>0, <2>1, <2>2 DEF Requests
  <2>5. job' \in [Promoter -> [ref : Ref \cup {0}, digest : Digest \cup {"none"}, step : Step]]
    BY <1>0, <2>1, <2>2, <2>3 DEF TypeOK, Step
  <2> QED
    BY <1>2, <2>4, <2>5 DEF NextPromotion, TypeOK, Requests, clocks, database, store, bounds
<1> QED
  BY <1>1, <1>2

LEMMA ServeTypes ==
  ASSUME PublicationInvariant, Serve
  PROVE  TypeOK'
<1>1. /\ TypeOK /\ KnownAreLinked /\ \A r \in Ref : PlaceOK(r)
      /\ \A u \in Uploader : UpOK(u)
      /\ \A q \in Requester : ReqOK(q)
  BY DEF PublicationInvariant, BytesOK, ProcessesOK
<1> QED
  BY <1>1, UploadTypes, HandoffTypes, CommitTypes, NextPromotionTypes DEF Serve

LEMMA RowTypes ==
  ASSUME row \in [Ref -> [status : {"none", "staged", "promoted", "abandoned"},
                          linked : BOOLEAN, created : Nat \cup {Never}]],
         NEW r \in Ref
  PROVE  /\ [row EXCEPT ![r].status = "abandoned"]
              \in [Ref -> [status : {"none", "staged", "promoted", "abandoned"},
                           linked : BOOLEAN, created : Nat \cup {Never}]]
         /\ [row EXCEPT ![r] = [@ EXCEPT !.status = "promoted", !.linked = TRUE]]
              \in [Ref -> [status : {"none", "staged", "promoted", "abandoned"},
                           linked : BOOLEAN, created : Nat \cup {Never}]]
<1> DEFINE T == [status : {"none", "staged", "promoted", "abandoned"},
                 linked : BOOLEAN, created : Nat \cup {Never}]
<1>1. row[r] \in T
  OBVIOUS
<1>2. [row[r] EXCEPT !.status = "abandoned"] \in T
  BY <1>1
<1>3. [row[r] EXCEPT !.status = "promoted", !.linked = TRUE] \in T
  BY <1>1
<1> HIDE DEF T
<1>4. [row EXCEPT ![r] = [row[r] EXCEPT !.status = "abandoned"]] \in [Ref -> T]
  BY <1>2 DEF T
<1>5. [row EXCEPT ![r] = [row[r] EXCEPT !.status = "promoted", !.linked = TRUE]] \in [Ref -> T]
  BY <1>3 DEF T
<1> QED
  BY <1>4, <1>5 DEF T

\* Each step of a promotion leaves its job as it is, idle, or one step further.
LEMMA MoveTypes ==
  ASSUME PublicationInvariant, NEW p \in Promoter,
         Publish(p) \/ Unstage(p) \/ MarkPromoted(p)
  PROVE  TypeOK'
<1>0. TypeOK /\ job[p].ref \in Ref
  BY DEF PublicationInvariant, ProcessesOK, JobOK, Publish, Unstage, MarkPromoted
<1>1. /\ job' = job \/ Drop(p) \/ \E s \in Step : job' = [job EXCEPT ![p].step = s]
      /\ UNCHANGED <<clocks, upload, artifacts, submission, kind, up, req, boot>>
  BY DEF Publish, Unstage, MarkPromoted, Drop, Step, database, store
<1>2. job' \in [Promoter -> [ref : Ref \cup {0}, digest : Digest \cup {"none"}, step : Step]]
  <2> DEFINE T == [ref : Ref \cup {0}, digest : Digest \cup {"none"}, step : Step]
  <2>1. job \in [Promoter -> T] /\ NoJob \in T
    BY <1>0, IdleTypes DEF TypeOK
  <2>2. \A s \in Step : [job[p] EXCEPT !.step = s] \in T
    BY <2>1
  <2> HIDE DEF T
  <2>3. job' = job \/ \E j \in T : job' = [job EXCEPT ![p] = j]
    BY <1>1, <2>1, <2>2 DEF Drop
  <2>4. job' \in [Promoter -> T]
    BY <2>1, <2>3
  <2> QED
    BY <2>4 DEF T
<1>3. CASE Publish(p)
  <2>1. committed' \subseteq Digest
    <3>1. CASE committed' = committed
      BY <1>0, <3>1 DEF TypeOK
    <3>2. CASE committed' = committed \cup {job[p].digest}
      <4>1. job[p].step = "publish" /\ JobOK(p) /\ \A r \in Ref : PlaceOK(r)
        BY <1>3 DEF Publish, PublicationInvariant, ProcessesOK, BytesOK
      <4>2. upload[job[p].ref] # NoUpload /\ upload[job[p].ref].digest = job[p].digest
        BY <1>0, <4>1 DEF JobOK, PlaceOK
      <4>3. job[p].digest \in Digest
        BY <1>0, <4>2 DEF TypeOK
      <4> QED
        BY <1>0, <3>2, <4>3 DEF TypeOK
    <3> QED
      BY <1>3, <3>1, <3>2 DEF Publish
  <2>2. faults' \in Nat /\ crashes' \in Nat
    BY <1>0, <1>3 DEF Publish, TypeOK
  <2>3. batch' = batch \/ batch' = [batch EXCEPT !.pc = "failed"]
    BY <1>3 DEF Publish
  <2>4. batch' \in [pc : {"idle", "artifacts", "rows", "abandon", "objects", "failed"},
                    todo : SUBSET (Digest \cup Ref), at : Ref \cup {0}, cutoff : Int,
                    cursor : Ref \cup {0}, orphans : BOOLEAN]
    BY <1>0, <2>3 DEF TypeOK
  <2> QED
    BY <1>0, <1>1, <1>2, <1>3, <2>1, <2>2, <2>4 DEF Publish, TypeOK, clocks, database
<1>4. CASE Unstage(p)
  <2>1. \E v \in ObjectState : blob' = [blob EXCEPT ![job[p].ref] = v]
    BY <1>4 DEF Unstage, Remove, S3Remove, FilesystemRemove, ObjectState
  <2>2. blob' \in [Ref -> ObjectState]
    BY <1>0, <2>1 DEF TypeOK
  <2> QED
    BY <1>0, <1>1, <1>2, <1>4, <2>2 DEF Unstage, TypeOK, clocks, database, bounds
<1>5. CASE MarkPromoted(p)
  <2>1. row' \in [Ref -> [status : {"none", "staged", "promoted", "abandoned"},
                          linked : BOOLEAN, created : Nat \cup {Never}]]
    <3>1. row' = [row EXCEPT ![job[p].ref] = [@ EXCEPT !.status = "promoted", !.linked = TRUE]]
      BY <1>5 DEF MarkPromoted
    <3> QED
      BY <1>0, <3>1, RowTypes DEF TypeOK
  <2> QED
    BY <1>0, <1>1, <1>2, <1>5, <2>1 DEF MarkPromoted, TypeOK, clocks, store, bounds
<1> QED
  BY <1>3, <1>4, <1>5

Batches ==
  [pc : {"idle", "artifacts", "rows", "abandon", "objects", "failed"},
   todo : SUBSET (Digest \cup Ref), at : Ref \cup {0}, cutoff : Int,
   cursor : Ref \cup {0}, orphans : BOOLEAN]

LEMMA BatchTypes ==
  ASSUME TypeOK
  PROVE  /\ IdleBatch \in Batches
         /\ IdleBatch.pc = "idle" /\ IdleBatch.cutoff = Never
         /\ \A cutoff \in Int, cursor \in Ref \cup {0}, orphans \in BOOLEAN :
              StartBatch(cutoff, cursor, orphans) =>
                /\ batch' \in Batches
                /\ batch'.pc = "artifacts" /\ batch'.cutoff = cutoff
                /\ batch'.todo \subseteq Digest
<1>1. IdleBatch \in Batches /\ IdleBatch.pc = "idle" /\ IdleBatch.cutoff = Never
  BY IdleTypes DEF IdleBatch, Batches
<1>2. ASSUME NEW cutoff \in Int, NEW cursor \in Ref \cup {0}, NEW orphans \in BOOLEAN,
             StartBatch(cutoff, cursor, orphans)
      PROVE  /\ batch' \in Batches
             /\ batch'.pc = "artifacts" /\ batch'.cutoff = cutoff
             /\ batch'.todo \subseteq Digest
  <2>1. PICK S \in SUBSET Known :
          batch' = [pc |-> "artifacts", todo |-> S, at |-> 0, cutoff |-> cutoff,
                    cursor |-> cursor, orphans |-> orphans]
    BY <1>2 DEF StartBatch
  <2>2. S \subseteq Digest
    BY DEF Known
  <2> QED
    BY <2>1, <2>2 DEF Batches
<1> QED
  BY <1>1, <1>2

\* What a batch does next, but for the start of another one.
LEMMA ReconcileTypes ==
  ASSUME PublicationInvariant, Reconcile
  PROVE  TypeOK'
<1> DEFINE Kept == UNCHANGED <<clocks, upload, submission, artifacts, kind, blob, committed,
                               up, req, crashes, faults>>
<1>0. TypeOK /\ BatchOK /\ KnownAreLinked /\ \A r \in Ref : PlaceOK(r)
  BY DEF PublicationInvariant, BytesOK, ProcessesOK
<1>1. Kept
  BY DEF Reconcile, CheckArtifact, ListRows, CheckRow, AbandonRow, ListObjects, CheckObject,
         FinishBatch, FailBatch, InBatch, bounds
<1>2. "batch" \in Promoter
  BY DEF Promoter
<1>3. batch' \in Batches
  <2>0. batch \in Batches /\ now - Grace \in Int
    BY <1>0, ArtifactAssumption DEF TypeOK, Batches
  <2>1. CASE CheckArtifact \/ CheckObject
    <3>1. PICK d \in batch.todo : batch' = [batch EXCEPT !.todo = @ \ {d}]
      BY <2>1 DEF CheckArtifact, CheckObject
    <3> QED
      BY <2>0, <3>1 DEF Batches
  <2>2. CASE ListRows
    <3>1. PICK S \in SUBSET Ref : batch' = [batch EXCEPT !.pc = "rows", !.todo = {r \in S : ~row[r].linked}]
      BY <2>2 DEF ListRows
    <3> QED
      BY <2>0, <3>1 DEF Batches
  <2>3. CASE CheckRow
    <3>1. PICK r \in batch.todo :
            \/ batch' = [batch EXCEPT !.todo = @ \ {r}]
            \/ batch' = [batch EXCEPT !.pc = "abandon", !.todo = @ \ {r}, !.at = r]
      BY <2>3 DEF CheckRow
    <3>2. r \in Ref
      BY <1>0, <2>3 DEF CheckRow, BatchOK
    <3> QED
      BY <2>0, <3>1, <3>2 DEF Batches
  <2>4. CASE AbandonRow
    BY <2>0, <2>4 DEF AbandonRow, Batches
  <2>5. CASE ListObjects
    <3>1. CASE batch' = [batch EXCEPT !.pc = "failed"]
      BY <2>0, <3>1 DEF Batches
    <3>2. ASSUME NEW next \in Ref \cup {0}, NEW S \in SUBSET Ref,
                 batch' = [batch EXCEPT !.pc = "objects", !.cursor = next, !.todo = S]
          PROVE  batch' \in Batches
      BY <2>0, <3>2 DEF Batches
    <3>3. {r \in Page(batch.cursor) : blob[r].at < batch.cutoff} \subseteq Ref
      BY DEF Page, After
    <3>4. Page(batch.cursor) \subseteq Ref
      BY DEF Page, After
    <3>5. ListThrows(batch.cursor) => batch' = [batch EXCEPT !.pc = "failed"]
      BY <2>5 DEF ListObjects
    <3>6. ~ListThrows(batch.cursor) =>
            \E next \in Page(batch.cursor) \cup {0} :
              batch' = [batch EXCEPT !.pc = "objects", !.cursor = next,
                          !.todo = {r \in Page(batch.cursor) : blob[r].at < batch.cutoff}]
      BY <2>5 DEF ListObjects
    <3> QED
      BY <3>1, <3>2, <3>3, <3>4, <3>5, <3>6
  <2>6. CASE FinishBatch
    <3>1. batch' = IdleBatch \/ StartBatch(now - Grace, batch.cursor, batch.orphans)
      BY <2>6 DEF FinishBatch
    <3>2. batch.cursor \in Ref \cup {0} /\ batch.orphans \in BOOLEAN
      BY <2>0 DEF Batches
    <3> QED
      BY <1>0, <2>0, <3>1, <3>2, BatchTypes
  <2>7. CASE FailBatch
    BY <1>0, <2>7, BatchTypes DEF FailBatch
  <2> QED
    BY <2>1, <2>2, <2>3, <2>4, <2>5, <2>6, <2>7 DEF Reconcile
<1>4. row' \in [Ref -> [status : {"none", "staged", "promoted", "abandoned"},
                        linked : BOOLEAN, created : Nat \cup {Never}]]
  <2>1. row' = row \/ (AbandonRow /\ row' = [row EXCEPT ![batch.at].status = "abandoned"])
    BY DEF Reconcile, CheckArtifact, ListRows, CheckRow, AbandonRow, ListObjects, CheckObject,
           FinishBatch, FailBatch
  <2> QED
    <3>1. AbandonRow => batch.at \in Ref
      BY <1>0 DEF AbandonRow, BatchOK
    <3>2. row \in [Ref -> [status : {"none", "staged", "promoted", "abandoned"},
                           linked : BOOLEAN, created : Nat \cup {Never}]]
      BY <1>0 DEF TypeOK
    <3>3. CASE AbandonRow
      <4>1. PICK r \in Ref : row' = row \/ row' = [row EXCEPT ![r].status = "abandoned"]
        BY <2>1, <3>1, <3>3
      <4>2. [row EXCEPT ![r].status = "abandoned"] \in
              [Ref -> [status : {"none", "staged", "promoted", "abandoned"},
                       linked : BOOLEAN, created : Nat \cup {Never}]]
        BY <3>2, RowTypes, Zenon
      <4> QED
        BY <3>2, <4>1, <4>2, Zenon
    <3> QED
      BY <2>1, <3>2, <3>3
<1>5. job' \in [Promoter -> [ref : Ref \cup {0}, digest : Digest \cup {"none"}, step : Step]]
  <2>1. CASE job' = job
    BY <1>0, <2>1 DEF TypeOK
  <2>2. CASE CheckArtifact /\ job' # job
    <3>1. PICK d \in batch.todo, r \in Ref :
            job' = [job EXCEPT !["batch"] = [ref |-> r, digest |-> d, step |-> "publish"]]
      BY <2>2 DEF CheckArtifact
    <3>2. d \in Digest
      BY <1>0, <2>2 DEF CheckArtifact, BatchOK
    <3> QED
      BY <1>0, <1>2, <3>1, <3>2 DEF TypeOK, Step
  <2>3. CASE CheckObject /\ job' # job
    <3>1. PICK r \in batch.todo :
            job' = [job EXCEPT !["batch"] = [ref |-> r, digest |-> "none", step |-> "unlink"]]
      BY <2>3 DEF CheckObject
    <3>2. r \in Ref
      BY <1>0, <2>3 DEF CheckObject, BatchOK
    <3> QED
      BY <1>0, <1>2, <3>1, <3>2 DEF TypeOK, Step
  <2> QED
    BY <2>1, <2>2, <2>3
    DEF Reconcile, ListRows, CheckRow, AbandonRow, ListObjects, FinishBatch, FailBatch
<1>6. boot' \in {"no", "commit", "reconcile"}
  BY <1>0 DEF Reconcile, CheckArtifact, ListRows, CheckRow, AbandonRow, ListObjects, CheckObject,
       FinishBatch, FailBatch, TypeOK
<1> QED
  BY <1>0, <1>1, <1>3, <1>4, <1>5, <1>6 DEF TypeOK, Batches, clocks

LEMMA StartTypes ==
  ASSUME PublicationInvariant, RunBatch \/ Startup \/ Crash
  PROVE  TypeOK'
<1>0. TypeOK /\ now - Grace \in Int
  BY ArtifactAssumption DEF PublicationInvariant, TypeOK
<1>1. CASE RunBatch
  <2>1. batch' \in Batches
    BY <1>0, <1>1, BatchTypes DEF RunBatch
  <2> QED
    BY <1>0, <1>1, <2>1 DEF RunBatch, InBatch, clocks, bounds, TypeOK, Batches
<1>2. ASSUME NEW a \in Attempt, CommitSubmitted(a)
      PROVE  TypeOK'
  <2>1. submission[a].result \in Results /\ Booter \in Requester
    BY <1>0, <1>2 DEF CommitSubmitted, Pending, TypeOK, Requester
  <2>2. req' = [req EXCEPT ![Booter] = [IdleReq EXCEPT !.pc = "commit", !.attempt = a,
                  !.result = submission[a].result, !.expired = TRUE]]
    BY <1>2 DEF CommitSubmitted
  <2>3. [IdleReq EXCEPT !.pc = "commit", !.attempt = a, !.result = submission[a].result, !.expired = TRUE]
          \in [pc : {"idle", "handoff", "read", "commit", "refused", "promote"},
               attempt : Attempt \cup {"none"}, result : Results \cup {NoResult},
               expired : BOOLEAN, promotions : Seq(Ref)]
    BY <2>1, IdleTypes
  <2>4. req \in Requests
    BY <1>0 DEF TypeOK, Requests
  <2>5. req' \in Requests
    BY <2>1, <2>2, <2>3, <2>4 DEF Requests
  <2> QED
    BY <1>0, <1>2, <2>5 DEF CommitSubmitted, TypeOK, Requests, clocks, database, store, bounds
<1>3. CASE AbandonExpired
  <2>1. /\ attempt' \in [Attempt -> {"active", "completed", "failed", "lost"}]
        /\ lease' \in [Attempt -> Nat]
    BY <1>0, <1>3 DEF AbandonExpired, TypeOK
  <2> QED
    BY <1>0, <1>3, <2>1 DEF AbandonExpired, TypeOK, database, store, bounds
<1>4. CASE Crash
  <2>1. /\ up' \in [Uploader -> [pc : {"idle", "write", "register"}, ref : Ref \cup {0}]]
        /\ req' \in Requests
        /\ job' \in [Promoter -> [ref : Ref \cup {0}, digest : Digest \cup {"none"}, step : Step]]
        /\ batch' \in Batches
    BY <1>0, <1>4, IdleTypes, BatchTypes DEF Crash, Requests
  <2>2. crashes' \in Nat
    BY <1>0, <1>4 DEF Crash, TypeOK
  <2> QED
    BY <1>0, <1>4, <2>1, <2>2 DEF Crash, TypeOK, Requests, Batches, clocks, database, store
<1> QED
  BY <1>1, <1>2, <1>3, <1>4 DEF Startup

LEMMA TypesKept ==
  ASSUME PublicationInvariant, [Next]_vars
  PROVE  TypeOK'
<1>0. TypeOK
  BY DEF PublicationInvariant
<1>1. CASE UNCHANGED vars
  BY <1>0, <1>1 DEF vars, clocks, database, store, processes, bounds, TypeOK
<1>2. CASE Tick
  BY <1>0, <1>2 DEF Tick, database, store, processes, bounds, TypeOK
<1>3. ASSUME NEW a \in Attempt, Fence(a)
      PROVE  TypeOK'
  BY <1>0, <1>3 DEF Fence, database, store, processes, bounds, TypeOK
<1>4. CASE Worker \/ Serve
  BY <1>0, <1>4, WorkerTypes, ServeTypes
<1>5. CASE Move
  BY <1>5, MoveTypes DEF Move
<1>6. CASE Reconcile
  BY <1>6, ReconcileTypes
<1>7. CASE RunBatch \/ Startup \/ Crash
  BY <1>7, StartTypes
<1> QED
  BY <1>1, <1>2, <1>3, <1>4, <1>5, <1>6, <1>7 DEF Next

-----------------------------------------------------------------------------
(* The steps.  Most leave places, rows and published digests as they are.   *)

LEMMA StillBytes ==
  ASSUME PublicationInvariant, Advance, UNCHANGED <<upload, row, blob, artifacts, up>>
  PROVE  BytesOK' /\ KnownAreLinked'
BY BytesFrame, KnownFrame

LEMMA IdleOK ==
  /\ \A q \in Requester : req'[q] = IdleReq => ReqOK(q)'
  /\ \A p \in Promoter : job'[p] = NoJob => JobOK(p)'
  /\ \A u \in Uploader : up'[u] = IdleUp => UpOK(u)'
<1>1. Len(IdleReq.promotions) = 0
  BY IdleTypes, EmptySeq
<1> QED
  BY <1>1, IdleTypes DEF ReqOK, JobOK, UpOK

\* Heartbeats, time, cancellation and the requests' steps that only the tables
\* of submissions and attempts see.
LEMMA QuietStep ==
  ASSUME PublicationInvariant, TypeOK',
         now' >= now, UNCHANGED <<upload, row, artifacts, blob, committed, up, req, job, batch>>
  PROVE  PublicationInvariant'
<1>1. Advance
  BY DEF Advance, TypeOK, PublicationInvariant
<1> QED
  BY <1>1, StillBytes, ProcessesFrame DEF PublicationInvariant

LEMMA RequestStep ==
  ASSUME PublicationInvariant, TypeOK', NEW q \in Requester, ReqOK(q)',
         \A p \in Requester : p # q => req'[p] = req[p],
         UNCHANGED <<now, upload, row, artifacts, blob, committed, up, job, batch>>
  PROVE  PublicationInvariant'
<1>1. Advance
  BY StillAdvance DEF Still
<1>2. \A p \in Requester : ReqOK(p)'
  BY <1>1, ReqFrame
<1>3. (\A p \in Promoter : JobOK(p)') /\ BatchOK'
  BY <1>1, JobFrame, BatchFrame
<1> QED
  BY <1>1, <1>2, <1>3, StillBytes DEF PublicationInvariant, ProcessesOK

LEMMA HandoffStep ==
  ASSUME PublicationInvariant, TypeOK', NEW q \in Requester,
         Handoff(q) \/ ReadSubmission(q) \/ Withdraw(q)
  PROVE  PublicationInvariant'
<1>1. TypeOK /\ ReqOK(q)
  BY DEF PublicationInvariant, ProcessesOK
<1>2. /\ \A p \in Requester : p # q => req'[p] = req[p]
      /\ UNCHANGED <<now, upload, row, artifacts, blob, committed, up, job, batch>>
  BY <1>1 DEF TypeOK, Handoff, ReadSubmission, Withdraw, Answer, clocks, database, store
<1>3. CASE Answer(q)
  <2>1. ReqOK(q)'
    BY <1>1, <1>3, IdleOK DEF Answer, TypeOK
  <2> QED
    BY <1>2, <2>1, RequestStep
<1>4. CASE ~Answer(q)
  <2>1. /\ req[q].pc # "idle" /\ req'[q].attempt = req[q].attempt
        /\ req'[q].promotions = req[q].promotions
        /\ \/ req'[q].result = req[q].result
           \/ /\ submission[req[q].attempt] # NoSubmission
              /\ req'[q].result = submission[req[q].attempt].result
    BY <1>1, <1>4 DEF TypeOK, Handoff, ReadSubmission, Withdraw
  <2>2. ReqOK(q)'
    BY <1>1, <1>2, <2>1 DEF ReqOK, TypeOK
  <2> QED
    BY <1>2, <2>2, RequestStep
<1> QED
  BY <1>3, <1>4

LEMMA SubmitStep ==
  ASSUME PublicationInvariant, TypeOK',
         NEW q \in Submitter, NEW a \in Attempt, NEW x \in Results, Submit(q, a, x)
  PROVE  PublicationInvariant'
<1>1. q \in Requester /\ TypeOK
  BY DEF Requester, PublicationInvariant
<1>2. /\ \A p \in Requester : p # q => req'[p] = req[p]
      /\ req'[q] = [IdleReq EXCEPT !.pc = "handoff", !.attempt = a, !.result = x]
      /\ UNCHANGED <<now, upload, row, artifacts, blob, committed, up, job, batch>>
  BY <1>1 DEF TypeOK, Submit, clocks, database, store
<1>3. req'[q].attempt = a /\ req'[q].result = x /\ Len(req'[q].promotions) = 0
  BY <1>2, EmptySeq DEF IdleReq
<1>4. ReqOK(q)'
  BY <1>3 DEF ReqOK
<1> QED
  BY <1>1, <1>2, <1>4, RequestStep

LEMMA CommitSubmittedStep ==
  ASSUME PublicationInvariant, TypeOK', NEW a \in Attempt, CommitSubmitted(a)
  PROVE  PublicationInvariant'
<1>1. Booter \in Requester /\ TypeOK
  BY DEF Requester, PublicationInvariant
<1>2. /\ \A p \in Requester : p # Booter => req'[p] = req[p]
      /\ req'[Booter] = [IdleReq EXCEPT !.pc = "commit", !.attempt = a,
                           !.result = submission[a].result, !.expired = TRUE]
      /\ UNCHANGED <<now, upload, row, artifacts, blob, committed, up, job, batch>>
  BY <1>1 DEF TypeOK, CommitSubmitted, clocks, database, store
<1>3. submission[a].result \in Results
  BY <1>1 DEF CommitSubmitted, Pending, TypeOK
<1>4. req'[Booter].attempt = a /\ req'[Booter].result \in Results /\ Len(req'[Booter].promotions) = 0
  BY <1>2, <1>3, EmptySeq DEF IdleReq
<1>5. ReqOK(Booter)'
  BY <1>4 DEF ReqOK
<1> QED
  BY <1>1, <1>2, <1>5, RequestStep

\* An upload is authorized for a place that is there.
LEMMA AuthorizeStep ==
  ASSUME PublicationInvariant, TypeOK', NEW u \in Uploader, NEW r \in Ref, Authorize(u, r)
  PROVE  PublicationInvariant'
<1>1. /\ UNCHANGED <<now, upload, row, artifacts, blob, committed, req, job, batch>>
      /\ upload[r] # NoUpload
      /\ up' = [up EXCEPT ![u] = [pc |-> "write", ref |-> r]]
  BY DEF Authorize, clocks, database, store
<1>2. Advance
  BY <1>1, StillAdvance DEF Still
<1>3. UpOK(u)'
  BY <1>1 DEF UpOK, PublicationInvariant, TypeOK
<1>4. \A w \in Uploader : w # u => UpOK(w)'
  BY <1>1, <1>2, UpFrame DEF PublicationInvariant, TypeOK, Whole
<1>5. \A s \in Ref : PlaceOK(s)'
  BY <1>1, <1>2, PlaceFrame
<1>6. RegisteredBytesKept'
  BY <1>1 DEF PublicationInvariant, BytesOK, RegisteredBytesKept, Whole
<1> QED
  BY <1>1, <1>2, <1>3, <1>4, <1>5, <1>6, KnownFrame, ProcessesFrame
  DEF PublicationInvariant, BytesOK

\* A new place is empty, and its authorization ends with the lease.
LEMMA StageStep ==
  ASSUME PublicationInvariant, TypeOK', NEW a \in Attempt, NEW d \in Digest, Stage(a, d)
  PROVE  PublicationInvariant'
<1>0. TypeOK /\ \A s \in Ref : PlaceOK(s)
  BY DEF PublicationInvariant, BytesOK
<1>1. PICK r \in Ref :
        /\ upload[r] = NoUpload
        /\ upload' = [upload EXCEPT ![r] = [attempt |-> a, digest |-> d,
             expires |-> IF lease[a] < now + Lease THEN lease[a] ELSE now + Lease]]
  BY DEF Stage
<1>2. UNCHANGED <<now, row, artifacts, blob, committed, up, req, job, batch>>
  BY DEF Stage, clocks, store, processes
<1>3. Advance
  BY <1>0, <1>1, <1>2 DEF Advance, TypeOK
<1>4. PlaceOK(r)'
  <2>1. upload'[r].expires = IF lease[a] < now + Lease THEN lease[a] ELSE now + Lease
    BY <1>0, <1>1 DEF TypeOK
  <2>2. upload'[r].expires <= now + Lease
    BY <1>0, <2>1, ArtifactAssumption DEF TypeOK
  <2>3. upload'[r] # NoUpload
    BY <1>0, <1>1, <2>1, ArtifactAssumption DEF TypeOK, NoUpload, Never
  <2>4. ~Whole(r) /\ row[r].status = "none" /\ ~row[r].linked
    BY <1>0, <1>1 DEF PlaceOK, Whole, Absent
  <2> QED
    BY <1>2, <2>2, <2>3, <2>4 DEF PlaceOK, Whole
<1>5. \A s \in Ref : s # r => PlaceOK(s)'
  BY <1>0, <1>1, <1>2, <1>3, PlaceFrame DEF TypeOK
<1>6. RegisteredBytesKept' /\ \A u \in Uploader : UpOK(u)'
  BY <1>2, <1>3, UpFrame DEF PublicationInvariant, BytesOK, RegisteredBytesKept, Whole
<1> QED
  BY <1>2, <1>3, <1>4, <1>5, <1>6, KnownFrame, ProcessesFrame
  DEF PublicationInvariant, BytesOK

\* A written object is younger than the authorization it was written under.
LEMMA WriteStep ==
  ASSUME PublicationInvariant, TypeOK', NEW u \in Uploader, Write(u)
  PROVE  PublicationInvariant'
<1>0. TypeOK /\ (\A s \in Ref : PlaceOK(s)) /\ RegisteredBytesKept /\ UpOK(u)
  BY DEF PublicationInvariant, BytesOK
<1>1. PICK r \in Ref : r = up[u].ref /\ upload[r] # NoUpload
  BY <1>0 DEF Write, UpOK
<1>2. UNCHANGED <<now, upload, row, artifacts, committed, req, job, batch>>
  BY DEF Write, clocks, database
<1>3. Advance
  BY <1>2, StillAdvance DEF Still
<1>4. /\ blob' = blob \/ blob' = [blob EXCEPT ![r] = [is |-> "whole", at |-> now]]
      /\ up'[u] = IdleUp \/ (up'[u] = [pc |-> "register", ref |-> r] /\ Whole(r)')
      /\ \A w \in Uploader : w # u => up'[w] = up[w]
  BY <1>0, <1>1 DEF Write, Staged, S3Stage, FilesystemStage, TypeOK, Whole
<1>5. \A s \in Ref : Whole(s) => Whole(s)'
  <2>1. CASE blob' = blob
    BY <2>1 DEF Whole
  <2>2. CASE blob' = [blob EXCEPT ![r] = [is |-> "whole", at |-> now]]
    BY <1>0, <2>2 DEF TypeOK, Whole
  <2> QED
    BY <1>4, <2>1, <2>2
<1>6. PlaceOK(r)'
  <2>1. CASE blob' = blob
    BY <1>1, <1>2, <1>3, <2>1, PlaceFrame
  <2>2. CASE blob' = [blob EXCEPT ![r] = [is |-> "whole", at |-> now]]
    <3>1. blob'[r].at = now
      BY <1>0, <1>1, <2>2 DEF TypeOK
    <3> QED
      BY <1>0, <1>1, <1>2, <1>5, <3>1 DEF PlaceOK
  <2> QED
    BY <1>4, <2>1, <2>2
<1>7. \A s \in Ref : s # r => PlaceOK(s)'
  BY <1>0, <1>2, <1>3, <1>4, PlaceFrame DEF TypeOK
<1>8. RegisteredBytesKept'
  BY <1>0, <1>2, <1>5 DEF RegisteredBytesKept
<1>9. \A w \in Uploader : UpOK(w)'
  <2>1. \A w \in Uploader : w # u => UpOK(w)'
    BY <1>3, <1>4, <1>5, UpFrame
  <2>2. up'[u] = IdleUp => UpOK(u)'
    BY IdleOK
  <2>3. up'[u] = [pc |-> "register", ref |-> r] /\ Whole(r)' => UpOK(u)'
    BY <1>1, <1>2 DEF UpOK
  <2> QED
    BY <1>4, <2>1, <2>2, <2>3
<1> QED
  BY <1>2, <1>3, <1>6, <1>7, <1>8, <1>9, KnownFrame, ProcessesFrame
  DEF PublicationInvariant, BytesOK

\* A row is registered only while the place is authorized, and then it is whole.
LEMMA RegisterStep ==
  ASSUME PublicationInvariant, TypeOK', NEW u \in Uploader, Register(u)
  PROVE  PublicationInvariant'
<1>0. TypeOK /\ (\A s \in Ref : PlaceOK(s)) /\ RegisteredBytesKept /\ UpOK(u)
  BY DEF PublicationInvariant, BytesOK
<1>1. PICK r \in Ref : r = up[u].ref /\ upload[r] # NoUpload /\ (row[r].status # "none" \/ Gone(r) \/ Whole(r))
  BY <1>0 DEF Register, UpOK
<1>2. /\ UNCHANGED <<now, upload, artifacts, blob, committed, req, job, batch>>
      /\ up' = [up EXCEPT ![u] = IdleUp]
  BY DEF Register, clocks, store
<1>3. \/ row' = row
      \/ /\ Authorized(r) /\ row[r].status = "none"
         /\ row' = [row EXCEPT ![r] = [status |-> "staged", linked |-> FALSE, created |-> now]]
  BY <1>1 DEF Register
<1>4. Authorized(r) => ~Gone(r)
  <2>1. now \in Int /\ upload[r] \in {NoUpload} \cup [attempt : Attempt, digest : Digest, expires : Nat]
    BY <1>0 DEF TypeOK
  <2>2. upload[r] \in [attempt : Attempt, digest : Digest, expires : Nat]
    BY <1>1, <2>1
  <2>3. upload[r].expires \in Int
    BY <2>2
  <2> QED
    BY <2>1, <2>3 DEF Authorized, Gone
<1>5. Advance
  <2>1. CASE row' = row
    BY <1>2, <2>1, StillAdvance DEF Still
  <2>2. CASE /\ Authorized(r) /\ row[r].status = "none"
             /\ row' = [row EXCEPT ![r] = [status |-> "staged", linked |-> FALSE, created |-> now]]
    <3>1. ~row[r].linked
      BY <1>0, <1>1, <2>2 DEF PlaceOK
    <3> QED
      BY <1>0, <1>1, <1>2, <1>4, <2>2, <3>1 DEF Advance, TypeOK
  <2> QED
    BY <1>3, <2>1, <2>2
<1>6. \A s \in Ref : PlaceOK(s)' /\ (row'[s].status # "none" /\ ~row'[s].linked
                                       => row'[s].status = "staged" /\ Whole(s)')
  <2> TAKE s \in Ref
  <2>1. CASE row'[s] = row[s]
    BY <1>0, <1>2, <1>5, <2>1, PlaceFrame DEF RegisteredBytesKept, Whole
  <2>2. CASE row'[s] # row[s]
    <3>1. /\ s = r /\ Whole(r)
          /\ row'[r] = [status |-> "staged", linked |-> FALSE, created |-> now]
      BY <1>0, <1>1, <1>3, <1>4, <2>2 DEF TypeOK
    <3> QED
      BY <1>0, <1>1, <1>2, <3>1 DEF PlaceOK, Whole
  <2> QED
    BY <2>1, <2>2
<1>7. \A w \in Uploader : UpOK(w)'
  <2>1. \A w \in Uploader : w # u => UpOK(w)'
    BY <1>0, <1>2, <1>5, UpFrame DEF TypeOK, Whole
  <2>2. UpOK(u)'
    BY <1>0, <1>2, IdleOK DEF TypeOK
  <2> QED
    BY <2>1, <2>2
<1> QED
  BY <1>2, <1>5, <1>6, <1>7, KnownFrame, ProcessesFrame
  DEF PublicationInvariant, BytesOK, RegisteredBytesKept

\* What the commit links was whole in the transaction that links it.
LEMMA CommitStep ==
  ASSUME PublicationInvariant, TypeOK', NEW q \in Requester, Commit(q)
  PROVE  PublicationInvariant'
<1> DEFINE a == req[q].attempt
           x == req[q].result
<1>0. /\ TypeOK /\ (\A s \in Ref : PlaceOK(s)) /\ RegisteredBytesKept
      /\ KnownAreLinked /\ ReqOK(q)
  BY DEF PublicationInvariant, BytesOK, ProcessesOK
<1>1. x \in Results /\ Names(x) \subseteq Ref
  BY <1>0, ResultFacts DEF Commit, ReqOK
<1>2. /\ UNCHANGED <<now, upload, blob, committed, up, job, batch>>
      /\ \A p \in Requester : p # q => req'[p] = req[p]
  BY <1>0 DEF Commit, Answer, TypeOK, database, store
<1>3. CASE Answer(q) /\ UNCHANGED <<lease, attempt, database>>
  <2>1. ReqOK(q)' /\ UNCHANGED <<row, artifacts>>
    BY <1>0, <1>3, IdleOK DEF Answer, TypeOK, database
  <2> QED
    BY <1>2, <2>1, RequestStep
<1>4. CASE req' = [req EXCEPT ![q].pc = "refused"] /\ UNCHANGED <<lease, attempt, database>>
  <2>1. ReqOK(q)' /\ UNCHANGED <<row, artifacts>>
    BY <1>0, <1>4 DEF Commit, ReqOK, TypeOK, database
  <2> QED
    BY <1>2, <2>1, RequestStep
<1>5. CASE /\ Validated(a, x) /\ Published(x)
           /\ req' = [req EXCEPT ![q].pc = "promote",
                        ![q].promotions = IF x.status = "completed" THEN x.staged ELSE <<>>]
  <2>1. /\ req'[q].attempt = a /\ req'[q].result = x
        /\ req'[q].promotions = IF x.status = "completed" THEN x.staged ELSE <<>>
    BY <1>0, <1>5 DEF TypeOK
  <2>2. CASE x.status # "completed"
    <3>1. UNCHANGED <<row, artifacts>>
      BY <1>5, <2>2 DEF Published
    <3>2. Len(req'[q].promotions) = 0
      BY <2>1, <2>2, EmptySeq
    <3>3. ReqOK(q)'
      BY <1>0, <2>1, <3>2 DEF ReqOK, Commit
    <3> QED
      BY <1>2, <3>1, <3>3, RequestStep
  <2>3. CASE x.status = "completed"
    <3>1. \A r \in Names(x) : Whole(r) /\ row[r].status = "staged"
      BY <1>5, <2>3 DEF Validated, UploadedBy, StagedExists
    <3>2. row' = [r \in Ref |-> IF r \in Names(x) THEN [row[r] EXCEPT !.linked = TRUE] ELSE row[r]]
      BY <1>5, <2>3 DEF Published
    <3>3. \A r \in Ref : /\ row'[r].status = row[r].status
                         /\ row'[r].linked = (row[r].linked \/ r \in Names(x))
                         /\ r \notin Names(x) => row'[r] = row[r]
      <4> TAKE r \in Ref
      <4>1. row[r].linked \in BOOLEAN /\ row[r] = [status |-> row[r].status, linked |-> row[r].linked, created |-> row[r].created]
        BY <1>0 DEF TypeOK
      <4>2. row'[r] = IF r \in Names(x) THEN [row[r] EXCEPT !.linked = TRUE] ELSE row[r]
        BY <3>2
      <4> QED
        BY <4>1, <4>2
    <3>4. Advance
      BY <1>0, <1>2, <3>3 DEF Advance, TypeOK
    <3>5. \A r \in Ref : PlaceOK(r)'
      <4>1. ASSUME NEW r \in Ref, r \notin Names(x)
            PROVE  PlaceOK(r)'
        BY <1>2, <3>3, <3>4, <4>1, PlaceFrame
      <4>2. ASSUME NEW r \in Ref, r \in Names(x)
            PROVE  PlaceOK(r)'
        BY <1>0, <1>2, <3>1, <3>3, <4>2 DEF PlaceOK, Whole
      <4> QED
        BY <4>1, <4>2
    <3>6. RegisteredBytesKept'
      BY <1>0, <1>2, <3>3 DEF RegisteredBytesKept, Whole
    <3>7. \A u \in Uploader : UpOK(u)'
      BY <1>2, <3>4, UpFrame DEF Whole
    <3>8. KnownAreLinked'
      <4> SUFFICES ASSUME NEW d \in Digest, artifacts'[d] # 0
                   PROVE  \E r \in Ref : row'[r].linked /\ upload'[r].digest = d
        BY DEF KnownAreLinked, Known
      <4>1. artifacts[d] # 0 \/ \E r \in Names(x) : upload[r].digest = d
        BY <1>5, <2>3 DEF Published
      <4> QED
        BY <1>0, <1>1, <1>2, <3>3, <4>1 DEF KnownAreLinked, Known
    <3>9. ReqOK(q)'
      <4>1. \A i \in 1..Len(x.staged) : x.staged[i] \in Names(x)
        BY <1>1, ResultFacts
      <4>2. \A i \in 1..Len(req'[q].promotions) : row'[req'[q].promotions[i]].linked
        BY <1>1, <2>1, <2>3, <3>3, <4>1
      <4> QED
        BY <1>0, <2>1, <4>2 DEF ReqOK, Commit
    <3>10. ProcessesOK'
      BY <1>2, <3>4, <3>9, JobFrame, ReqFrame, BatchFrame DEF ProcessesOK
    <3> QED
      BY <3>5, <3>6, <3>7, <3>8, <3>10 DEF PublicationInvariant, BytesOK
  <2> QED
    BY <2>2, <2>3
<1> QED
  BY <1>3, <1>4, <1>5 DEF Commit

\* The loop takes the next row of those the commit linked.
LEMMA NextPromotionStep ==
  ASSUME PublicationInvariant, TypeOK', NEW q \in Requester, NextPromotion(q)
  PROVE  PublicationInvariant'
<1>0. TypeOK /\ ReqOK(q) /\ q \in Promoter
  BY DEF PublicationInvariant, ProcessesOK, Promoter
<1>1. UNCHANGED <<now, upload, row, artifacts, blob, committed, up, batch>>
  BY DEF NextPromotion, clocks, database, store
<1>2. Advance
  BY <1>1, StillAdvance DEF Still
<1>3. CASE req[q].promotions = <<>>
  <2>1. job' = job /\ Answer(q)
    BY <1>3 DEF NextPromotion
  <2>2. ReqOK(q)' /\ \A p \in Requester : p # q => req'[p] = req[p]
    BY <1>0, <2>1, IdleOK DEF Answer, TypeOK
  <2> QED
    BY <1>1, <2>1, <2>2, RequestStep
<1>4. CASE req[q].promotions # <<>>
  <2>1. PICK r \in Ref, rest \in Seq(Ref) :
          /\ r = Head(req[q].promotions) /\ rest = Tail(req[q].promotions)
          /\ row[r].linked
          /\ \A i \in 1..Len(rest) : row[rest[i]].linked
    <3>1. /\ Head(req[q].promotions) \in Ref
          /\ Tail(req[q].promotions) \in Seq(Ref)
          /\ Head(req[q].promotions) = req[q].promotions[1]
          /\ 1 \in 1..Len(req[q].promotions)
      BY <1>0, <1>4, NextPromotionFacts
    <3>2. \A i \in 1..Len(Tail(req[q].promotions)) :
             /\ i + 1 \in 1..Len(req[q].promotions)
             /\ Tail(req[q].promotions)[i] = req[q].promotions[i + 1]
      BY <1>0, <1>4, NextPromotionFacts
    <3>3. \A i \in 1..Len(req[q].promotions) : row[req[q].promotions[i]].linked
      BY <1>0 DEF ReqOK
    <3>4. row[Head(req[q].promotions)].linked
      BY <3>1, <3>3
    <3>5. \A i \in 1..Len(Tail(req[q].promotions)) : row[Tail(req[q].promotions)[i]].linked
      BY <3>2, <3>3
    <3> QED
      BY <3>1, <3>4, <3>5
  <2>2. /\ job' = [job EXCEPT ![q] = [ref |-> r, digest |-> upload[r].digest, step |-> "publish"]]
        /\ req' = [req EXCEPT ![q].promotions = rest]
        /\ req[q].pc # "idle"
    BY <1>4, <2>1 DEF NextPromotion
  <2>3. /\ \A p \in Promoter : p # q => job'[p] = job[p]
        /\ job'[q] = [ref |-> r, digest |-> upload[r].digest, step |-> "publish"]
        /\ \A p \in Requester : p # q => req'[p] = req[p]
        /\ req'[q].attempt = req[q].attempt /\ req'[q].result = req[q].result
        /\ req'[q].promotions = rest
    BY <1>0, <2>2 DEF TypeOK
  <2>4. JobOK(q)'
    BY <1>1, <2>1, <2>3 DEF JobOK
  <2>5. ReqOK(q)'
    BY <1>0, <1>1, <2>1, <2>2, <2>3 DEF ReqOK
  <2>6. ProcessesOK'
    BY <1>1, <1>2, <2>3, <2>4, <2>5, JobFrame, ReqFrame, BatchFrame DEF ProcessesOK
  <2> QED
    BY <1>1, <1>2, <2>6, StillBytes DEF PublicationInvariant
<1> QED
  BY <1>3, <1>4

\* The bytes are in the committed store before the staged object goes.
LEMMA PublishStep ==
  ASSUME PublicationInvariant, TypeOK', NEW p \in Promoter, Publish(p)
  PROVE  PublicationInvariant'
<1>0. TypeOK /\ JobOK(p) /\ BatchOK
  BY DEF PublicationInvariant, ProcessesOK
<1>1. /\ UNCHANGED <<now, upload, row, artifacts, blob, up, req>>
      /\ committed \subseteq committed'
  BY DEF Publish, clocks, database
<1>2. Advance
  BY <1>0, <1>1 DEF Advance, TypeOK
<1>3. JobOK(p)'
  <2>1. CASE Drop(p)
    BY <1>0, <2>1, IdleOK DEF Drop, TypeOK
  <2>2. CASE job' = [job EXCEPT ![p].step = "remove"] /\ committed' = committed \cup {job[p].digest}
    <3>1. job'[p].step = "remove" /\ job'[p].ref = job[p].ref /\ job'[p].digest = job[p].digest
      BY <1>0, <2>2 DEF TypeOK
    <3> QED
      BY <1>0, <1>1, <2>2, <3>1 DEF JobOK, Publish
  <2> QED
    BY <2>1, <2>2 DEF Publish
<1>4. \A r \in Promoter : r # p => job'[r] = job[r]
  BY <1>0 DEF Publish, Drop, TypeOK
<1>5. BatchOK'
  <2>1. CASE batch' = batch
    BY <1>2, <2>1, BatchFrame
  <2>2. CASE batch' = [batch EXCEPT !.pc = "failed"]
    <3>1. batch'.pc = "failed" /\ batch'.cutoff = batch.cutoff
      BY <1>0, <2>2 DEF TypeOK
    <3> QED
      BY <1>0, <1>1, <3>1 DEF BatchOK
  <2> QED
    BY <2>1, <2>2 DEF Publish
<1>6. ProcessesOK'
  BY <1>1, <1>2, <1>3, <1>4, <1>5, JobFrame, ReqFrame DEF ProcessesOK
<1> QED
  BY <1>1, <1>2, <1>6, StillBytes DEF PublicationInvariant

\* An object is removed if its digest is committed or nobody can register it.
LEMMA UnstageStep ==
  ASSUME PublicationInvariant, TypeOK', NEW p \in Promoter, Unstage(p)
  PROVE  PublicationInvariant'
<1>0. TypeOK /\ JobOK(p) /\ (\A s \in Ref : PlaceOK(s)) /\ RegisteredBytesKept
  BY DEF PublicationInvariant, ProcessesOK, BytesOK
<1>1. PICK r \in Ref : r = job[p].ref
  BY <1>0 DEF Unstage, JobOK
<1>2. UNCHANGED <<now, upload, row, artifacts, committed, up, req, batch>>
  BY DEF Unstage, clocks, database
<1>3. Advance
  BY <1>2, StillAdvance DEF Still
<1>4. PICK v \in {Torn, Absent} : blob' = [blob EXCEPT ![r] = v]
  BY <1>1 DEF Unstage, Remove, S3Remove, FilesystemRemove
<1>5. /\ \A s \in Ref : s # r => blob'[s] = blob[s]
      /\ ~Whole(r)'
  BY <1>0, <1>4 DEF TypeOK, Whole, Torn, Absent
<1>6. \/ row[r].linked /\ upload[r].digest \in committed
      \/ Gone(r) /\ row[r].status = "none" /\ ~row[r].linked
  BY <1>0, <1>1 DEF Unstage, JobOK, PlaceOK
<1>7. PlaceOK(r)'
  <2>1. row[r].status = "none" => upload[r] # NoUpload
    BY <1>0, <1>6 DEF PlaceOK, Gone
  <2>2. row[r].status # "none" => upload[r] # NoUpload
    BY <1>0 DEF PlaceOK
  <2> QED
    BY <1>0, <1>2, <1>5, <1>6, <2>1, <2>2 DEF PlaceOK
<1>8. \A s \in Ref : s # r => PlaceOK(s)'
  BY <1>2, <1>3, <1>5, PlaceFrame
<1>9. RegisteredBytesKept'
  <2>1. \A s \in Ref : s # r => (Whole(s)' <=> Whole(s))
    BY <1>5 DEF Whole
  <2> QED
    BY <1>0, <1>2, <1>6, <2>1 DEF RegisteredBytesKept
<1>10. \A s \in Ref : Whole(s) /\ row[s].status = "none" /\ ~Gone(s) => Whole(s)'
  BY <1>0, <1>5, <1>6 DEF PlaceOK, Whole
<1>11. \A u \in Uploader : UpOK(u)'
  BY <1>2, <1>3, <1>10, UpFrame
<1>12. JobOK(p)'
  <2>1. \/ job'[p] = job[p] \/ job'[p] = NoJob
        \/ /\ job[p].step = "remove" /\ job'[p].step = "mark"
           /\ job'[p].ref = job[p].ref /\ job'[p].digest = job[p].digest
    BY <1>0 DEF Unstage, Drop, TypeOK
  <2>2. job'[p].step = "mark" /\ job[p].step = "remove" /\ job'[p].ref = job[p].ref
          /\ job'[p].digest = job[p].digest => JobOK(p)'
    BY <1>0, <1>2 DEF JobOK
  <2> QED
    BY <1>3, <2>1, <2>2, JobFrame, IdleOK
<1>13. ProcessesOK'
  <2>1. \A s \in Promoter : s # p => job'[s] = job[s]
    BY <1>0 DEF Unstage, Drop, TypeOK
  <2> QED
    BY <1>2, <1>3, <1>12, <2>1, JobFrame, ReqFrame, BatchFrame DEF ProcessesOK
<1> QED
  BY <1>2, <1>3, <1>7, <1>8, <1>9, <1>11, <1>13, KnownFrame DEF PublicationInvariant, BytesOK

\* A row whose digest is committed may be marked, as promoted or as abandoned.
LEMMA MarkedRow ==
  ASSUME PublicationInvariant, TypeOK', NEW r \in Ref,
         row[r].linked, upload[r].digest \in committed,
         row'[r].linked, row'[r].status # "none",
         \A s \in Ref : s # r => row'[s] = row[s],
         UNCHANGED <<now, upload, artifacts, blob, committed, up>>
  PROVE  Advance /\ BytesOK' /\ KnownAreLinked'
<1>0. TypeOK /\ (\A s \in Ref : PlaceOK(s)) /\ RegisteredBytesKept
  BY DEF PublicationInvariant, BytesOK
<1>1. row[r].status # "none"
  BY <1>0 DEF PlaceOK
<1>2. Advance
  <2>1. \A s \in Ref :
          /\ row[s].linked => row'[s].linked
          /\ row[s].status # "none" => row'[s].status # "none"
          /\ row[s].status = "none" => row'[s].status = "none"
    BY <1>1
  <2>2. now' \in Nat /\ now <= now'
    BY <1>0 DEF TypeOK
  <2> QED
    BY <2>1, <2>2 DEF Advance
<1>3. PlaceOK(r)'
  BY <1>0, <1>1 DEF PlaceOK, Whole
<1>4. \A s \in Ref : s # r => PlaceOK(s)'
  BY <1>2, PlaceFrame
<1>5. RegisteredBytesKept'
  BY <1>0 DEF RegisteredBytesKept, Whole
<1>6. \A u \in Uploader : UpOK(u)'
  BY <1>2, UpFrame DEF Whole
<1> QED
  BY <1>2, <1>3, <1>4, <1>5, <1>6, KnownFrame DEF BytesOK

LEMMA MarkPromotedStep ==
  ASSUME PublicationInvariant, TypeOK', NEW p \in Promoter, MarkPromoted(p)
  PROVE  PublicationInvariant'
<1>0. TypeOK /\ JobOK(p)
  BY DEF PublicationInvariant, ProcessesOK
<1>1. PICK r \in Ref : r = job[p].ref
  BY <1>0 DEF MarkPromoted, JobOK
<1>2. row[r].linked /\ upload[r].digest \in committed
  BY <1>0, <1>1 DEF MarkPromoted, JobOK
<1>3. UNCHANGED <<now, upload, artifacts, blob, committed, up, req, batch>>
  BY DEF MarkPromoted, clocks, store
<1>4. /\ row'[r].linked /\ row'[r].status = "promoted"
      /\ \A s \in Ref : s # r => row'[s] = row[s]
  BY <1>0, <1>1 DEF MarkPromoted, TypeOK
<1>5. Advance /\ BytesOK' /\ KnownAreLinked'
  BY <1>2, <1>3, <1>4, MarkedRow
<1>6. JobOK(p)' /\ \A s \in Promoter : s # p => job'[s] = job[s]
  BY <1>0, IdleOK DEF MarkPromoted, Drop, TypeOK
<1> QED
  BY <1>3, <1>5, <1>6, JobFrame, ReqFrame, BatchFrame DEF PublicationInvariant, ProcessesOK

-----------------------------------------------------------------------------
(* The batch: what it reads stays true until it acts on it.                 *)

\* A step of the batch that leaves rows and objects alone.
LEMMA BatchStep ==
  ASSUME PublicationInvariant, TypeOK', BatchOK',
         "batch" \in Promoter => JobOK("batch")',
         \A p \in Promoter : p # "batch" => job'[p] = job[p],
         UNCHANGED <<now, upload, row, artifacts, blob, committed, up, req>>
  PROVE  PublicationInvariant'
<1>1. Advance
  BY StillAdvance DEF Still
<1>2. ProcessesOK'
  BY <1>1, JobFrame, ReqFrame DEF ProcessesOK
<1> QED
  BY <1>1, <1>2, StillBytes DEF PublicationInvariant

LEMMA ReadStep ==
  ASSUME PublicationInvariant, TypeOK', BatchOK',
         UNCHANGED <<now, upload, row, artifacts, blob, committed, up, req, job>>
  PROVE  PublicationInvariant'
<1>1. Advance
  BY StillAdvance DEF Still
<1> QED
  BY <1>1, BatchStep, JobFrame

LEMMA StartBatchOK ==
  ASSUME TypeOK, now' = now, NEW cursor \in Ref \cup {0}, NEW orphans \in BOOLEAN,
         StartBatch(now - Grace, cursor, orphans)
  PROVE  BatchOK'
<1>1. now - Grace \in Int
  BY ArtifactAssumption DEF TypeOK
<1>2. batch'.pc = "artifacts" /\ batch'.cutoff = now - Grace /\ batch'.todo \subseteq Digest
  BY <1>1, BatchTypes
<1> QED
  BY <1>1, <1>2 DEF BatchOK

LEMMA IdleBatchOK ==
  ASSUME TypeOK', batch' = IdleBatch
  PROVE  BatchOK'
<1>1. batch'.pc = "idle" /\ batch'.cutoff = Never
  BY DEF IdleBatch
<1>2. Never <= now' - Grace
  BY ArtifactAssumption DEF TypeOK, Never
<1> QED
  BY <1>1, <1>2 DEF BatchOK

LEMMA RunBatchStep ==
  ASSUME PublicationInvariant, TypeOK', RunBatch \/ FinishBatch \/ FailBatch
  PROVE  PublicationInvariant'
<1>1. UNCHANGED <<now, upload, row, artifacts, blob, committed, up, req, job>>
  BY DEF RunBatch, FinishBatch, FailBatch, InBatch, clocks
<1>2. TypeOK /\ batch.cursor \in Ref \cup {0} /\ batch.orphans \in BOOLEAN
  BY DEF PublicationInvariant, TypeOK
<1>3. \/ StartBatch(now - Grace, 0, boot = "no")
      \/ StartBatch(now - Grace, batch.cursor, batch.orphans)
      \/ batch' = IdleBatch
  BY DEF RunBatch, FinishBatch, FailBatch
<1>4. BatchOK'
  BY <1>1, <1>2, <1>3, StartBatchOK, IdleBatchOK
<1> QED
  BY <1>1, <1>4, ReadStep

LEMMA CheckArtifactStep ==
  ASSUME PublicationInvariant, TypeOK', CheckArtifact
  PROVE  PublicationInvariant'
<1>0. TypeOK /\ BatchOK /\ "batch" \in Promoter
  BY DEF PublicationInvariant, ProcessesOK, Promoter
<1>1. UNCHANGED <<now, upload, row, artifacts, blob, committed, up, req>>
  BY DEF CheckArtifact, InBatch, clocks
<1>2. Advance
  BY <1>1, StillAdvance DEF Still
<1>3. PICK d \in batch.todo :
        /\ batch' = [batch EXCEPT !.todo = @ \ {d}]
        /\ \/ job' = job
           \/ \E r \in Ref :
                /\ row[r].linked /\ upload[r].digest = d
                /\ job' = [job EXCEPT !["batch"] = [ref |-> r, digest |-> d, step |-> "publish"]]
  BY DEF CheckArtifact
<1>4. BatchOK'
  <2>1. /\ batch.pc = "artifacts" /\ batch'.pc = "artifacts" /\ batch'.cutoff = batch.cutoff
        /\ batch'.todo = batch.todo \ {d}
    BY <1>0, <1>3 DEF CheckArtifact, TypeOK
  <2> QED
    BY <1>0, <1>1, <2>1 DEF BatchOK
<1>5. JobOK("batch")'
  <2>1. CASE job' = job
    BY <1>0, <1>2, <2>1, JobFrame
  <2>2. ASSUME NEW r \in Ref, row[r].linked, upload[r].digest = d,
               job' = [job EXCEPT !["batch"] = [ref |-> r, digest |-> d, step |-> "publish"]]
        PROVE  JobOK("batch")'
    <3>1. job'["batch"] = [ref |-> r, digest |-> d, step |-> "publish"]
      BY <1>0, <2>2 DEF TypeOK
    <3> QED
      BY <1>1, <2>2, <3>1 DEF JobOK
  <2> QED
    BY <1>3, <2>1, <2>2
<1>6. \A p \in Promoter : p # "batch" => job'[p] = job[p]
  BY <1>0, <1>3 DEF TypeOK
<1> QED
  BY <1>1, <1>4, <1>5, <1>6, BatchStep

LEMMA ListRowsStep ==
  ASSUME PublicationInvariant, TypeOK', ListRows
  PROVE  PublicationInvariant'
<1>0. TypeOK /\ BatchOK
  BY DEF PublicationInvariant, ProcessesOK
<1>1. UNCHANGED <<now, upload, row, artifacts, blob, committed, up, req, job>>
  BY DEF ListRows, InBatch, clocks
<1>2. PICK S \in SUBSET Ref :
        /\ \A r \in S : row[r].status # "none"
        /\ batch' = [batch EXCEPT !.pc = "rows", !.todo = S]
  <2>1. PICK S \in SUBSET {r \in Ref : row[r].status = "staged" /\ row[r].created < batch.cutoff} :
          batch' = [batch EXCEPT !.pc = "rows", !.todo = {r \in S : ~row[r].linked}]
    BY DEF ListRows
  <2>2. {r \in S : ~row[r].linked} \in SUBSET Ref
    OBVIOUS
  <2>3. \A r \in {s \in S : ~row[s].linked} : row[r].status # "none"
    OBVIOUS
  <2> QED
    BY <2>1, <2>2, <2>3
<1>3. batch'.pc = "rows" /\ batch'.cutoff = batch.cutoff /\ batch'.todo = S
  BY <1>0, <1>2 DEF TypeOK
<1>4. BatchOK'
  BY <1>0, <1>1, <1>2, <1>3 DEF BatchOK
<1> QED
  BY <1>1, <1>4, ReadStep

\* A row without a whole object has been linked and promoted since it was read.
LEMMA CheckRowStep ==
  ASSUME PublicationInvariant, TypeOK', CheckRow
  PROVE  PublicationInvariant'
<1>0. TypeOK /\ BatchOK /\ RegisteredBytesKept /\ \A s \in Ref : PlaceOK(s)
  BY DEF PublicationInvariant, ProcessesOK, BytesOK
<1>1. UNCHANGED <<now, upload, row, artifacts, blob, committed, up, req, job>>
  BY DEF CheckRow, InBatch, clocks
<1>2. PICK r \in batch.todo :
        batch' = IF StagedExists(r) THEN [batch EXCEPT !.todo = @ \ {r}]
                 ELSE [batch EXCEPT !.pc = "abandon", !.todo = @ \ {r}, !.at = r]
  BY DEF CheckRow
<1>3. r \in Ref /\ row[r].status # "none" /\ \A s \in batch.todo : s \in Ref /\ row[s].status # "none"
  BY <1>0 DEF CheckRow, BatchOK
<1>4. ~StagedExists(r) => row[r].linked /\ upload[r].digest \in committed
  BY <1>0, <1>3 DEF StagedExists, RegisteredBytesKept, PlaceOK
<1>5. /\ batch'.cutoff = batch.cutoff /\ batch'.todo \subseteq batch.todo
      /\ \/ batch'.pc = "rows"
         \/ batch'.pc = "abandon" /\ batch'.at = r /\ ~StagedExists(r)
  BY <1>0, <1>2 DEF CheckRow, TypeOK
<1>6. BatchOK'
  BY <1>0, <1>1, <1>3, <1>4, <1>5 DEF BatchOK
<1> QED
  BY <1>1, <1>6, ReadStep

LEMMA AbandonRowStep ==
  ASSUME PublicationInvariant, TypeOK', AbandonRow
  PROVE  PublicationInvariant'
<1>0. TypeOK /\ BatchOK
  BY DEF PublicationInvariant, ProcessesOK
<1>1. PICK r \in Ref : r = batch.at /\ row[r].linked /\ upload[r].digest \in committed
  BY <1>0 DEF AbandonRow, BatchOK
<1>2. UNCHANGED <<now, upload, artifacts, blob, committed, up, req, job>>
  BY DEF AbandonRow, InBatch, clocks
<1>3. /\ row'[r].linked /\ row'[r].status = "abandoned"
      /\ \A s \in Ref : s # r => row'[s] = row[s]
  BY <1>0, <1>1 DEF AbandonRow, TypeOK
<1>4. Advance /\ BytesOK' /\ KnownAreLinked'
  BY <1>1, <1>2, <1>3, MarkedRow
<1>5. /\ batch.pc = "abandon" /\ batch'.pc = "rows" /\ batch'.cutoff = batch.cutoff
      /\ batch'.todo = batch.todo
  BY <1>0 DEF AbandonRow, TypeOK
<1>6. BatchOK'
  BY <1>0, <1>2, <1>4, <1>5 DEF BatchOK, Advance
<1> QED
  BY <1>2, <1>4, <1>6, JobFrame, ReqFrame DEF PublicationInvariant, ProcessesOK

\* An object older than the grace period has outlived its authorization.
LEMMA ListObjectsStep ==
  ASSUME PublicationInvariant, TypeOK', ListObjects
  PROVE  PublicationInvariant'
<1>0. TypeOK /\ BatchOK /\ \A s \in Ref : PlaceOK(s)
  BY DEF PublicationInvariant, ProcessesOK, BytesOK
<1>1. UNCHANGED <<now, upload, row, artifacts, blob, committed, up, req, job>>
  BY DEF ListObjects, InBatch, clocks
<1>2. CASE batch' = [batch EXCEPT !.pc = "failed"]
  <2>1. batch'.pc = "failed" /\ batch'.cutoff = batch.cutoff
    BY <1>0, <1>2 DEF TypeOK
  <2>2. BatchOK'
    BY <1>0, <1>1, <2>1 DEF BatchOK
  <2> QED
    BY <1>1, <2>2, ReadStep
<1>3. ASSUME NEW next,
             ~ListThrows(batch.cursor),
             batch' = [batch EXCEPT !.pc = "objects", !.cursor = next,
                         !.todo = {r \in Page(batch.cursor) : blob[r].at < batch.cutoff}]
      PROVE  PublicationInvariant'
  <2>1. \A r \in Page(batch.cursor) : r \in Ref /\ Whole(r)
    BY <1>3 DEF ListThrows, Page, After
  <2>2. ASSUME NEW r \in Ref, Whole(r), blob[r].at < batch.cutoff
        PROVE  Gone(r)
    <3>1. upload[r] # NoUpload /\ upload[r].expires <= blob[r].at + Lease
      BY <1>0, <2>2 DEF PlaceOK, Whole, Absent
    <3>2. upload[r].expires \in Nat
      <4>1. upload[r] \in {NoUpload} \cup [attempt : Attempt, digest : Digest, expires : Nat]
        BY <1>0 DEF TypeOK
      <4>2. upload[r] \in [attempt : Attempt, digest : Digest, expires : Nat]
        BY <3>1, <4>1
      <4> QED
        BY <4>2
    <3>3. blob[r].at \in Nat
      <4>1. blob[r] \in {Absent, Torn} \cup [is : {"whole"}, at : Nat]
        BY <1>0 DEF TypeOK, ObjectState
      <4>2. blob[r] # Absent /\ blob[r] # Torn
        BY <2>2 DEF Whole, Absent, Torn
      <4>3. blob[r] \in [is : {"whole"}, at : Nat]
        BY <4>1, <4>2
      <4> QED
        BY <4>3
    <3>4. batch.cutoff \in Int /\ now \in Nat /\ batch.cutoff <= now - Grace
      BY <1>0 DEF TypeOK, BatchOK
    <3>5. upload[r].expires <= now
      BY <2>2, <3>1, <3>2, <3>3, <3>4, ArtifactAssumption
    <3> QED
      BY <3>1, <3>5 DEF Gone
  <2>3. /\ batch'.pc = "objects" /\ batch'.cutoff = batch.cutoff
        /\ batch'.todo = {r \in Page(batch.cursor) : blob[r].at < batch.cutoff}
    BY <1>0, <1>3 DEF TypeOK
  <2>4. \A r \in batch'.todo : r \in Ref /\ Gone(r)'
    BY <1>1, <2>1, <2>2, <2>3 DEF Gone
  <2>5. BatchOK'
    BY <1>0, <1>1, <2>3, <2>4 DEF BatchOK
  <2> QED
    BY <1>1, <2>5, ReadStep
<1> QED
  BY <1>2, <1>3 DEF ListObjects

LEMMA CheckObjectStep ==
  ASSUME PublicationInvariant, TypeOK', CheckObject
  PROVE  PublicationInvariant'
<1>0. TypeOK /\ BatchOK /\ "batch" \in Promoter
  BY DEF PublicationInvariant, ProcessesOK, Promoter
<1>1. UNCHANGED <<now, upload, row, artifacts, blob, committed, up, req>>
  BY DEF CheckObject, InBatch, clocks
<1>2. Advance
  BY <1>1, StillAdvance DEF Still
<1>3. PICK r \in batch.todo :
        /\ batch' = [batch EXCEPT !.todo = @ \ {r}]
        /\ job' = IF row[r].status = "none" /\ batch.orphans
                  THEN [job EXCEPT !["batch"] = [ref |-> r, digest |-> "none", step |-> "unlink"]]
                  ELSE job
  BY DEF CheckObject
<1>4. r \in Ref /\ Gone(r) /\ \A s \in batch.todo : s \in Ref /\ Gone(s)
  BY <1>0 DEF CheckObject, BatchOK
<1>5. BatchOK'
  <2>1. /\ batch'.pc = "objects" /\ batch'.cutoff = batch.cutoff
        /\ batch'.todo \subseteq batch.todo
    BY <1>0, <1>3 DEF CheckObject, TypeOK
  <2>2. \A s \in batch'.todo : s \in Ref /\ Gone(s)'
    BY <1>1, <1>4, <2>1 DEF Gone
  <2> QED
    BY <1>0, <1>1, <2>1, <2>2 DEF BatchOK
<1>6. JobOK("batch")'
  <2>1. CASE job' = job
    BY <1>0, <1>2, <2>1, JobFrame
  <2>2. CASE job' # job
    <3>1. /\ job'["batch"] = [ref |-> r, digest |-> "none", step |-> "unlink"]
          /\ row[r].status = "none"
      BY <1>0, <1>3, <2>2 DEF TypeOK
    <3> QED
      BY <1>1, <1>4, <3>1 DEF JobOK, Gone
  <2> QED
    BY <2>1, <2>2
<1>7. \A p \in Promoter : p # "batch" => job'[p] = job[p]
  BY <1>0, <1>3 DEF TypeOK
<1> QED
  BY <1>1, <1>5, <1>6, <1>7, BatchStep

LEMMA CrashStep ==
  ASSUME PublicationInvariant, TypeOK', Crash
  PROVE  PublicationInvariant'
<1>1. UNCHANGED <<now, upload, row, artifacts, blob, committed>>
  BY DEF Crash, clocks, database, store
<1>2. Advance
  BY <1>1, StillAdvance DEF Still
<1>3. ProcessesOK'
  <2>1. (\A q \in Requester : req'[q] = IdleReq) /\ (\A p \in Promoter : job'[p] = NoJob)
    BY DEF Crash
  <2>2. BatchOK'
    BY IdleBatchOK DEF Crash
  <2> QED
    BY <2>1, <2>2, IdleOK DEF ProcessesOK
<1>4. \A u \in Uploader : UpOK(u)'
  BY IdleOK DEF Crash
<1>5. \A r \in Ref : PlaceOK(r)'
  BY <1>1, <1>2, PlaceFrame
<1>6. RegisteredBytesKept'
  BY <1>1 DEF PublicationInvariant, BytesOK, RegisteredBytesKept, Whole
<1> QED
  BY <1>1, <1>2, <1>3, <1>4, <1>5, <1>6, KnownFrame DEF PublicationInvariant, BytesOK

-----------------------------------------------------------------------------
(* The invariant holds in every state.                                     *)

LEMMA InitialInvariant == Init => PublicationInvariant
<1> SUFFICES ASSUME Init
             PROVE  PublicationInvariant
  OBVIOUS
<1>1. TypeOK
  <2>1. "none" \in Step /\ NoJob \in [ref : Ref \cup {0}, digest : Digest \cup {"none"}, step : Step]
    BY DEF NoJob, Step
  <2>2. IdleBatch \in [pc : {"idle", "artifacts", "rows", "abandon", "objects", "failed"},
                       todo : SUBSET (Digest \cup Ref), at : Ref \cup {0}, cutoff : Int,
                       cursor : Ref \cup {0}, orphans : BOOLEAN]
    BY ArtifactAssumption DEF IdleBatch, Never
  <2>3. Lease \in Nat /\ now = 0 /\ lease = [a \in Attempt |-> Lease]
    BY ArtifactAssumption DEF Init
  <2>4. req \in Requests
    BY IdleTypes DEF Init, Requests
  <2>5. up \in [Uploader -> [pc : {"idle", "write", "register"}, ref : Ref \cup {0}]]
    BY DEF Init, IdleUp
  <2>6. blob \in [Ref -> ObjectState] /\ committed \subseteq Digest /\ kind \in Store
    BY DEF Init, ObjectState
  <2>7. row \in [Ref -> [status : {"none", "staged", "promoted", "abandoned"},
                         linked : BOOLEAN, created : Nat \cup {Never}]]
    BY DEF Init
  <2> QED
    BY <2>1, <2>2, <2>3, <2>4, <2>5, <2>6, <2>7 DEF Init, TypeOK, Requests
<1>2. \A r \in Ref : PlaceOK(r)
  <2>1. Never <= now + Lease
    BY ArtifactAssumption DEF Init, Never
  <2> QED
    BY <2>1 DEF Init, PlaceOK, Whole, Absent, NoUpload
<1>3. RegisteredBytesKept /\ \A u \in Uploader : UpOK(u)
  BY DEF Init, RegisteredBytesKept, UpOK, IdleUp
<1>4. KnownAreLinked
  BY DEF Init, KnownAreLinked, Known
<1>5. BatchOK
  <2>1. Never <= now - Grace
    BY ArtifactAssumption DEF Init, Never
  <2> QED
    BY <2>1 DEF Init, BatchOK, IdleBatch
<1>6. \A q \in Requester : ReqOK(q)
  <2>1. Len(IdleReq.promotions) = 0 /\ IdleReq.pc = "idle"
    BY EmptySeq DEF IdleReq
  <2> QED
    BY <2>1 DEF Init, ReqOK
<1>7. \A p \in Promoter : JobOK(p)
  BY DEF Init, JobOK, NoJob
<1> QED
  BY <1>1, <1>2, <1>3, <1>4, <1>5, <1>6, <1>7 DEF PublicationInvariant, BytesOK, ProcessesOK

LEMMA EveryStep ==
  ASSUME PublicationInvariant, [Next]_vars
  PROVE  PublicationInvariant'
<1>0. TypeOK'
  BY TypesKept
<1>10. now \in Int
  BY DEF PublicationInvariant, TypeOK
<1>1. ASSUME now' >= now,
             UNCHANGED <<upload, row, artifacts, blob, committed, up, req, job, batch>>
      PROVE  PublicationInvariant'
  BY <1>0, <1>1, QuietStep
<1>2. CASE UNCHANGED vars
  BY <1>10, <1>1, <1>2 DEF vars, clocks, database, store, processes
<1>3. CASE Worker
  <2>1. ASSUME NEW a \in Attempt, Heartbeat(a)
        PROVE  PublicationInvariant'
    BY <1>10, <1>1, <2>1 DEF Heartbeat, database, store, processes
  <2> QED
    BY <1>0, <1>3, <2>1, StageStep, AuthorizeStep, SubmitStep DEF Worker
<1>4. CASE Serve
  <2>1. ASSUME NEW u \in Uploader, Write(u) \/ Register(u)
        PROVE  PublicationInvariant'
    BY <1>0, <2>1, WriteStep, RegisterStep
  <2>2. ASSUME NEW q \in Requester,
               Handoff(q) \/ ReadSubmission(q) \/ Commit(q) \/ Withdraw(q) \/ NextPromotion(q)
        PROVE  PublicationInvariant'
    BY <1>0, <2>2, HandoffStep, CommitStep, NextPromotionStep
  <2> QED
    BY <1>4, <2>1, <2>2 DEF Serve
<1>5. CASE Move
  BY <1>0, <1>5, PublishStep, UnstageStep, MarkPromotedStep DEF Move
<1>6. CASE Reconcile \/ RunBatch
  BY <1>0, <1>6, RunBatchStep, CheckArtifactStep, ListRowsStep, CheckRowStep, AbandonRowStep,
     ListObjectsStep, CheckObjectStep DEF Reconcile
<1>7. CASE Startup
  <2>1. CASE AbandonExpired
    BY <1>10, <1>1, <2>1 DEF AbandonExpired, database, store
  <2> QED
    BY <1>0, <1>6, <1>7, <2>1, CommitSubmittedStep DEF Startup
<1>8. CASE Tick
  BY <1>10, <1>1, <1>8 DEF Tick, database, store, processes
<1>9. ASSUME NEW a \in Attempt, Fence(a)
      PROVE  PublicationInvariant'
  BY <1>10, <1>1, <1>9 DEF Fence, database, store, processes
<1> QED
  BY <1>0, <1>2, <1>3, <1>4, <1>5, <1>6, <1>7, <1>8, <1>9, CrashStep DEF Next

THEOREM PublicationAlways == Spec => []PublicationInvariant
<1>1. PublicationInvariant /\ [Next]_vars => PublicationInvariant'
  BY EveryStep
<1> QED
  BY <1>1, InitialInvariant, PTL DEF Spec

\* The rows, objects, requests and batches keep their types.
THEOREM ArtifactTypes == Spec => []TypeOK
<1>1. PublicationInvariant => TypeOK
  BY DEF PublicationInvariant
<1> QED
  BY <1>1, PublicationAlways, PTL

\* Committed metadata always has its bytes, in one store or the other.
THEOREM CommittedBytesAreKept == Spec => []CommittedBytesKept
<1>1. PublicationInvariant => CommittedBytesKept
  BY DEF PublicationInvariant, BytesOK, PlaceOK, KnownAreLinked, CommittedBytesKept
<1> QED
  BY <1>1, PublicationAlways, PTL

\* A registered upload keeps its bytes until a commit takes it.
THEOREM RegisteredBytesAreKept == Spec => []RegisteredBytesKept
<1>1. PublicationInvariant => RegisteredBytesKept
  BY DEF PublicationInvariant, BytesOK
<1> QED
  BY <1>1, PublicationAlways, PTL

=============================================================================
