------------------------ MODULE RepositoryTask_proofs ------------------------
(***************************************************************************)
(* What the planner accepts, what the executor makes of it, and what a     *)
(* task answers with, for any tasks, requests, trusted profiles and        *)
(* bounds, while the repository moves and workers are killed.              *)
(***************************************************************************)
EXTENDS RepositoryTask, FiniteSetTheorems, SequenceTheorems, TLAPS

\* A nonempty set of naturals has a least element.
LEMMA LeastNatural ==
  ASSUME NEW S \in SUBSET Nat, S # {}
  PROVE  Min(S) \in S /\ \A n \in S : Min(S) <= n
<1>1. PICK x \in S : \A y \in S : ~(<<y, x>> \in OpToRel(<, Nat))
  BY NatLessThanWellFounded, WFMin, Zenon
<1>2. \A y \in S : ~(y < x)
  BY <1>1, Zenon DEF OpToRel
<1>3. \A y \in S : x <= y
  BY <1>2
<1>. QED
  BY <1>3 DEF Min

\* The first failed check of a list is one of its failed checks.
LEMMA FirstFailedCheck ==
  ASSUME NEW checks, DOMAIN checks \in SUBSET Nat
  PROVE  /\ \/ FirstFailed(checks) = Nothing
            \/ \E i \in DOMAIN checks : checks[i][2] /\ FirstFailed(checks) = checks[i][1]
         /\ (\A i \in DOMAIN checks : ~checks[i][2]) => FirstFailed(checks) = Nothing
         /\ (\A i \in DOMAIN checks : checks[i][1] # Nothing) /\ FirstFailed(checks) = Nothing
              => \A i \in DOMAIN checks : ~checks[i][2]
<1> DEFINE failed == {i \in DOMAIN checks : checks[i][2]}
<1>1. CASE failed = {}
  BY <1>1 DEF FirstFailed
<1>2. CASE failed # {}
  <2>1. Min(failed) \in failed
    BY <1>2, LeastNatural
  <2>2. FirstFailed(checks) = checks[Min(failed)][1]
    BY <1>2 DEF FirstFailed
  <2>. QED
    BY <2>1, <2>2
<1>. QED
  BY <1>1, <1>2

\* When no check failed, none of the conditions held.
LEMMA NoneFailed ==
  ASSUME NEW checks, AllFailed(checks) = {}
  PROVE  \A c \in checks : ~c[2]
BY DEF AllFailed

\* A plan without diagnostics.
LEMMA PlanAccepted ==
  ASSUME NEW plan, PlanDiagnostics(plan) = {}
  PROVE  /\ \A o \in plan.outputs : SafePath(o.path) /\ ~HasGlob(o.path)
         /\ ~(Cardinality({o \in plan.outputs : o.kind # "evidence"}) > plan.maxFiles)
<1> DEFINE unsafe == \E o \in plan.outputs : ~SafePath(o.path) \/ HasGlob(o.path)
<1> DEFINE many == Cardinality({o \in plan.outputs : o.kind # "evidence"}) > plan.maxFiles
<1> DEFINE checks == {
    <<"path.unsafe", \E c \in plan.allowedPaths : ~SafePath(c.base)>>,
    <<"path.unsupported-pattern", \E c \in plan.allowedPaths : SafePath(c.base) /\ HasGlob(c.base)>>,
    <<"path.unsafe", \E o \in plan.outputs : ~SafePath(o.path) \/ HasGlob(o.path)>>,
    <<"output.outside-allowed-paths",
        \E o \in plan.outputs : SafePath(o.path) /\ ~HasGlob(o.path) /\ ~Within(o.path, plan.allowedPaths)>>,
    <<"output.duplicate-name", \E o, p \in plan.outputs : o # p /\ o.name = p.name>>,
    <<"resource.max-files-exceeded",
        Cardinality({o \in plan.outputs : o.kind # "evidence"}) > plan.maxFiles>>,
    <<"recipe.unsupported-version", plan.version # "1">>,
    <<"capability.not-allowed", ~(plan.capabilities \subseteq Capabilities)>> }
<1>1. AllFailed(checks) = {}
  BY DEF PlanDiagnostics
<1>2. <<"path.unsafe", unsafe>> \in checks /\ <<"resource.max-files-exceeded", many>> \in checks
  OBVIOUS
<1> HIDE DEF checks
<1>3. ~<<"path.unsafe", unsafe>>[2] /\ ~<<"resource.max-files-exceeded", many>>[2]
  BY <1>1, <1>2, NoneFailed
<1>. QED
  BY <1>3

\* A plan the profile does not object to.
LEMMA ProfileAccepted ==
  ASSUME NEW plan, NEW profile, AgainstProfile(plan, profile) = {}
  PROVE  PackageOf(plan, profile) # {} /\ plan.verification \in profile.verificationProfiles
<1> DEFINE checks == {
    <<"profile.repository-mismatch", plan.repository # profile.repository>>,
    <<"profile.path-outside-boundaries",
        \E c \in plan.allowedPaths : ~Within(c.base, profile.boundaries)>>,
    <<"profile.recipe-unsupported", plan.version \notin profile.versions>>,
    <<"profile.verification-profile-unsupported",
        plan.verification \notin profile.verificationProfiles>>,
    <<"profile.package-unknown", PackageOf(plan, profile) = {}>>,
    <<"profile.output-outside-package",
        \E p \in PackageOf(plan, profile), o \in plan.outputs : ~IsPrefix(p.path, o.path)>> }
<1> DEFINE untrusted == plan.verification \notin profile.verificationProfiles
<1> DEFINE unknown == PackageOf(plan, profile) = {}
<1>1. AllFailed(checks) = {}
  BY DEF AgainstProfile
<1>2. <<"profile.verification-profile-unsupported", untrusted>> \in checks
      /\ <<"profile.package-unknown", unknown>> \in checks
  OBVIOUS
<1> HIDE DEF checks
<1>3. ~<<"profile.verification-profile-unsupported", untrusted>>[2]
      /\ ~<<"profile.package-unknown", unknown>>[2]
  BY <1>1, <1>2, NoneFailed
<1>. QED
  BY <1>3

\* Operations without diagnostics.
LEMMA ResolutionAccepted ==
  ASSUME NEW plan, NEW profile, NEW operations,
         ResolutionDiagnostics(plan, profile, operations) = {}
  PROVE  /\ \A o \in operations : Within(o.path, plan.allowedPaths)
         /\ \A o \in operations : Within(o.path, profile.boundaries)
         /\ \A o, p \in operations : o # p => o.path # p.path
         /\ \A o \in plan.outputs : \E p \in operations : p.id = o.name
<1> DEFINE ids == {o.id : o \in operations}
<1> DEFINE checks == {
        <<"graph.output-mismatch",
            \E o \in operations, d \in plan.outputs : d.name = o.id /\ d.path # o.path>>,
        <<"graph.operation-outside-plan-boundaries",
            \E o \in operations : ~Within(o.path, plan.allowedPaths)>>,
        <<"graph.operation-outside-profile-boundaries",
            \E o \in operations : ~Within(o.path, profile.boundaries)>>,
        <<"graph.path-conflict", \E o, p \in operations : o # p /\ o.path = p.path>>,
        <<"graph.output-operation-missing", \E o \in plan.outputs : o.name \notin ids>>,
        <<"graph.missing-dependency", \E o \in operations : ~(o.dependsOn \subseteq ids)>>,
        <<"graph.dependency-cycle", \E o \in operations : o.id \in o.dependsOn>> }
<1> DEFINE outsidePlan == \E o \in operations : ~Within(o.path, plan.allowedPaths)
<1> DEFINE outsideProfile == \E o \in operations : ~Within(o.path, profile.boundaries)
<1> DEFINE conflict == \E o, p \in operations : o # p /\ o.path = p.path
<1> DEFINE missing == \E o \in plan.outputs : o.name \notin ids
<1>1. AllFailed(checks) = {}
  BY DEF ResolutionDiagnostics
<1>2. /\ <<"graph.operation-outside-plan-boundaries", outsidePlan>> \in checks
      /\ <<"graph.operation-outside-profile-boundaries", outsideProfile>> \in checks
      /\ <<"graph.path-conflict", conflict>> \in checks
      /\ <<"graph.output-operation-missing", missing>> \in checks
  OBVIOUS
<1> HIDE DEF checks
<1>3. /\ ~<<"graph.operation-outside-plan-boundaries", outsidePlan>>[2]
      /\ ~<<"graph.operation-outside-profile-boundaries", outsideProfile>>[2]
      /\ ~<<"graph.path-conflict", conflict>>[2]
      /\ ~<<"graph.output-operation-missing", missing>>[2]
  BY <1>1, <1>2, NoneFailed
<1>. QED
  BY <1>3

\* The recipe proposes something exactly when none of its checks fails.
LEMMA RecipeChecks ==
  ASSUME NEW plan, NEW paths, NEW files
  PROVE  RecipeRefusal(plan, paths, files) = Nothing <=>
           /\ ~InvalidInputs(plan)
           /\ \A name \in DOMAIN paths : Targets(plan, name, paths[name])
           /\ plan.tests \subseteq plan.exports
           /\ files[paths.index] # Absent
           /\ \A f \in DOMAIN files \ {paths.implementation, paths.test} :
                 Declares(files[f]) \cap plan.exports = {}
           /\ ~Conflicts(files[paths.implementation], Rendered(plan))
           /\ ~Conflicts(files[paths.test], RenderedTest(plan))
<1> DEFINE untargeted == ~ \A name \in DOMAIN paths : Targets(plan, name, paths[name])
<1> DEFINE untested == ~(plan.tests \subseteq plan.exports)
<1> DEFINE closed == files[paths.index] = Absent
<1> DEFINE declared == \E f \in DOMAIN files \ {paths.implementation, paths.test} :
                          Declares(files[f]) \cap plan.exports # {}
<1> DEFINE module == Conflicts(files[paths.implementation], Rendered(plan))
<1> DEFINE test == Conflicts(files[paths.test], RenderedTest(plan))
<1> DEFINE checks == <<
    <<"recipe.invalid-inputs", InvalidInputs(plan)>>,
    <<"recipe.output-path-mismatch", untargeted>>,
    <<"recipe.test-export-unknown", untested>>,
    <<"recipe.public-export-file-missing", closed>>,
    <<"recipe.export-name-conflict", declared>>,
    <<"recipe.existing-module-conflict", module>>,
    <<"recipe.existing-test-conflict", test>> >>
<1>1. DOMAIN checks = 1..7 /\ \A i \in 1..7 : checks[i][1] # Nothing
  BY DEF Nothing
<1>2. RecipeRefusal(plan, paths, files) = FirstFailed(checks)
  BY DEF RecipeRefusal
<1>3. DOMAIN checks \in SUBSET Nat
  BY <1>1
<1>4. (\A i \in 1..7 : ~checks[i][2]) <=>
         /\ ~InvalidInputs(plan) /\ ~untargeted /\ ~untested /\ ~closed /\ ~declared
         /\ ~module /\ ~test
  <2> HIDE DEF untargeted, untested, closed, declared, module, test
  <2>1. (\A i \in 1..7 : ~checks[i][2]) <=>
           /\ ~checks[1][2] /\ ~checks[2][2] /\ ~checks[3][2] /\ ~checks[4][2]
           /\ ~checks[5][2] /\ ~checks[6][2] /\ ~checks[7][2]
    <3> HIDE DEF checks
    <3>. QED  OBVIOUS
  <2>2. /\ checks[1][2] <=> InvalidInputs(plan)
        /\ checks[2][2] <=> untargeted
        /\ checks[3][2] <=> untested
        /\ checks[4][2] <=> closed
    OBVIOUS
  <2>3. /\ checks[5][2] <=> declared
        /\ checks[6][2] <=> module
        /\ checks[7][2] <=> test
    OBVIOUS
  <2> HIDE DEF checks
  <2>. QED
    BY <2>1, <2>2, <2>3
<1> HIDE DEF checks
<1>5. FirstFailed(checks) = Nothing <=> \A i \in 1..7 : ~checks[i][2]
  BY <1>1, <1>3, FirstFailedCheck
<1>. QED
  BY <1>2, <1>4, <1>5

-----------------------------------------------------------------------------
(* The order of the operations.                                            *)

\* The ids of the recipe have different ranks.
LEMMA Ranks ==
  ASSUME NEW o, o.id \in {"implementation", "index", "test"}
  PROVE  Rank(o) = IF o.id = "implementation" THEN 1 ELSE IF o.id = "index" THEN 2 ELSE 3
<1> DEFINE ids == <<"implementation", "index", "test">>
<1>1. /\ ids[1] = "implementation" /\ ids[2] = "index" /\ ids[3] = "test"
  OBVIOUS
<1>2. \A i \in 1..3 : i = 1 \/ i = 2 \/ i = 3
  OBVIOUS
<1> HIDE DEF ids
<1>3. \A i \in 1..3 : ids[i] = o.id <=>
         i = IF o.id = "implementation" THEN 1 ELSE IF o.id = "index" THEN 2 ELSE 3
  BY <1>1, <1>2
<1>4. Rank(o) = CHOOSE i \in 1..3 : ids[i] = o.id
  BY DEF Rank, ids
<1>. QED
  BY <1>3, <1>4

\* A set of three operations as the recipe proposes them has an order.
LEMMA OrderedOperations ==
  ASSUME NEW a, NEW b, NEW c,
         a.id = "implementation", b.id = "index", c.id = "test",
         a.dependsOn = {}, b.dependsOn = {"implementation"}, c.dependsOn = {"implementation"}
  PROVE  LET operations == {a, b, c}
             order == Ordered(operations)
         IN  /\ order \in [1..3 -> operations]
             /\ \A i, j \in 1..3 : i # j => order[i] # order[j]
             /\ \A o \in operations : \E i \in 1..3 : order[i] = o
<1> DEFINE operations == {a, b, c}
<1> DEFINE placed(order, i) == {order[j] : j \in 1 .. i - 1}
<1> DEFINE ready(order, i) ==
     {o \in operations \ placed(order, i) : o.dependsOn \subseteq {p.id : p \in placed(order, i)}}
<1> DEFINE Kahn(order) ==
     \A i \in DOMAIN order :
        order[i] \in ready(order, i) /\ \A o \in ready(order, i) : Rank(order[i]) <= Rank(o)
<1>1. a # b /\ a # c /\ b # c
  OBVIOUS
<1>2. Cardinality(operations) = 3
  <2>1. Cardinality({a}) = 1 /\ IsFiniteSet({a})
    BY FS_Singleton
  <2>2. Cardinality({a} \cup {b}) = 2 /\ IsFiniteSet({a} \cup {b})
    <3>1. b \notin {a}
      BY <1>1
    <3>2. /\ IsFiniteSet({a} \cup {b})
          /\ Cardinality({a} \cup {b}) = Cardinality({a}) + 1
      BY <2>1, <3>1, FS_AddElement, Zenon
    <3>. QED
      BY <2>1, <3>2
  <2>3. Cardinality(({a} \cup {b}) \cup {c}) = 3
    <3>1. c \notin {a} \cup {b}
      BY <1>1
    <3>2. Cardinality(({a} \cup {b}) \cup {c}) = Cardinality({a} \cup {b}) + 1
      BY <2>2, <3>1, FS_AddElement, Zenon
    <3>. QED
      BY <2>2, <3>2
  <2>4. ({a} \cup {b}) \cup {c} = operations
    OBVIOUS
  <2>. QED
    BY <2>3, <2>4
<1>3. Ordered(operations) = CHOOSE order \in [1..3 -> operations] : Kahn(order)
  BY <1>2 DEF Ordered
<1>4. \E order \in [1..3 -> operations] : Kahn(order)
  <2> DEFINE order == [i \in 1..3 |-> IF i = 1 THEN a ELSE IF i = 2 THEN b ELSE c]
  <2>1. order \in [1..3 -> operations] /\ order[1] = a /\ order[2] = b /\ order[3] = c
    OBVIOUS
  <2> HIDE DEF order
  <2>2. placed(order, 1) = {} /\ placed(order, 2) = {a} /\ placed(order, 3) = {a, b}
    <3>1. 1 .. 1 - 1 = {} /\ 1 .. 2 - 1 = {1} /\ 1 .. 3 - 1 = {1, 2}
      OBVIOUS
    <3>. QED
      BY <2>1, <3>1
  <2>3. /\ ready(order, 1) \subseteq {a} /\ a \in ready(order, 1)
        /\ ready(order, 2) \subseteq {b, c} /\ b \in ready(order, 2)
        /\ ready(order, 3) \subseteq {c} /\ c \in ready(order, 3)
    <3>1. ready(order, 1) \subseteq {a} /\ a \in ready(order, 1)
      BY <2>2
    <3>2. ready(order, 2) \subseteq {b, c} /\ b \in ready(order, 2)
      BY <1>1, <2>2
    <3>3. ready(order, 3) \subseteq {c} /\ c \in ready(order, 3)
      BY <1>1, <2>2
    <3>. QED
      BY <3>1, <3>2, <3>3
  <2>4. Rank(a) = 1 /\ Rank(b) = 2 /\ Rank(c) = 3
    BY Ranks
  <2>5. \A i \in 1..3 : order[i] \in ready(order, i) /\ \A o \in ready(order, i) : Rank(order[i]) <= Rank(o)
    <3> HIDE DEF ready
    <3> TAKE i \in 1..3
    <3>1. CASE i = 1
      BY <2>1, <2>3, <2>4, <3>1
    <3>2. CASE i = 2
      BY <2>1, <2>3, <2>4, <3>2
    <3>3. CASE i = 3
      BY <2>1, <2>3, <2>4, <3>3
    <3>. QED
      BY <3>1, <3>2, <3>3
  <2>6. DOMAIN order = 1..3
    BY <2>1
  <2>7. Kahn(order)
    BY <2>5, <2>6
  <2>. QED
    BY <2>1, <2>7
<1> DEFINE order == Ordered(operations)
<1>5. order \in [1..3 -> operations] /\ Kahn(order)
  <2> HIDE DEF Kahn
  <2>. QED
    BY <1>3, <1>4
<1> HIDE DEF order
<1>6. \A i \in 1..3 : \A j \in 1 .. i - 1 : order[i] # order[j]
  BY <1>5
<1>7. order[1] # order[2] /\ order[1] # order[3] /\ order[2] # order[3]
  <2>1. 1 \in 1 .. 2 - 1 /\ 1 \in 1 .. 3 - 1 /\ 2 \in 1 .. 3 - 1
    OBVIOUS
  <2>. QED
    BY <1>6, <2>1
<1>8. \A i, j \in 1..3 : i # j => order[i] # order[j]
  <2>1. \A i \in 1..3 : i = 1 \/ i = 2 \/ i = 3
    OBVIOUS
  <2>. QED
    BY <1>7, <2>1
<1>9. order[1] \in operations /\ order[2] \in operations /\ order[3] \in operations
  BY <1>5
<1>10. \A o \in operations : o = order[1] \/ o = order[2] \/ o = order[3]
  BY <1>1, <1>7, <1>9
<1>11. \A o \in operations : \E i \in 1..3 : order[i] = o
  BY <1>10
<1>. QED
  BY <1>5, <1>8, <1>11 DEF order

-----------------------------------------------------------------------------
(* What the compiler accepts.                                              *)

Accepted(r) == Compilation[r].diagnostics = {}
Paths(r) ==
  ExpectedPaths(Requests[r].plan,
                CHOOSE p \in PackageOf(Requests[r].plan, Requests[r].profile) : TRUE)
Reviewed(r) == ModuleOperations(Requests[r].plan, Paths(r), Requests[r].files)

\* The parts of a request.
LEMMA RequestTypes ==
  ASSUME NEW r \in DOMAIN Requests
  PROVE  /\ Requests[r].valid \in BOOLEAN
         /\ Requests[r].plan \in PlanRecord
         /\ Requests[r].profile \in ProfileRecord
         /\ Requests[r].files \in Snapshot
BY RequestAssumption

LEMMA RequestFinite ==
  ASSUME NEW r \in DOMAIN Requests
  PROVE  /\ IsFiniteSet(Requests[r].plan.outputs)
         /\ Finite(Rendered(Requests[r].plan)) /\ Finite(RenderedTest(Requests[r].plan))
         /\ \A path \in DOMAIN FirstTree : Finite(Requests[r].files[path])
         /\ \A o \in Operations(Compilation[r].graph) : o.path \in DOMAIN FirstTree
BY RequestAssumption

\* What a compilation without diagnostics has passed, and what its graph is.
LEMMA AcceptedRequest ==
  ASSUME NEW r \in DOMAIN Requests
  PROVE  LET plan == Requests[r].plan
             profile == Requests[r].profile
             files == Requests[r].files
         IN  IF Accepted(r)
             THEN /\ PlanDiagnostics(plan) = {} /\ AgainstProfile(plan, profile) = {}
                  /\ RecipeRefusal(plan, Paths(r), files) = Nothing
                  /\ ~(ContentBytes(Proposals(plan, Paths(r), files)) > plan.maxPatchBytes)
                  /\ ResolutionDiagnostics(plan, profile, Proposals(plan, Paths(r), files)) = {}
                  /\ Compilation[r].graph =
                       [operations |-> Ordered(Proposals(plan, Paths(r), files)),
                        plan |-> plan, profile |-> Normalized(profile)]
             ELSE Compilation[r].graph = NoGraph
<1> DEFINE plan == Requests[r].plan
<1> DEFINE profile == Requests[r].profile
<1> DEFINE files == Requests[r].files
<1> DEFINE resolved == Resolve(plan, profile, files)
<1> DEFINE reported == ResolutionDiagnostics(plan, profile, resolved.operations)
<1> DEFINE proposed == Proposals(plan, Paths(r), files)
<1>1. Compilation[r] = Compile(plan, profile, files)
  BY DEF Compilation
<1>2. \A D : Refused(D).diagnostics = D /\ Refused(D).graph = NoGraph
  BY DEF Refused, Compiled
<1>3. CASE PlanDiagnostics(plan) # {}
  BY <1>1, <1>2, <1>3 DEF Compile, Accepted
<1>4. CASE PlanDiagnostics(plan) = {} /\ ProfileDiagnostics(profile) # {}
  BY <1>1, <1>2, <1>4 DEF Compile, Accepted
<1>5. CASE PlanDiagnostics(plan) = {} /\ ProfileDiagnostics(profile) = {} /\ AgainstProfile(plan, profile) # {}
  BY <1>1, <1>2, <1>5 DEF Compile, Accepted
<1>6. CASE /\ PlanDiagnostics(plan) = {} /\ ProfileDiagnostics(profile) = {}
           /\ AgainstProfile(plan, profile) = {}
  <2>1. Compilation[r] =
          IF resolved.refusal # Nothing THEN Refused({resolved.refusal})
          ELSE IF reported # {} THEN Refused(reported)
          ELSE Compiled([operations |-> Ordered(resolved.operations),
                         plan |-> plan, profile |-> Normalized(profile)], {})
    BY <1>1, <1>6 DEF Compile
  <2>2. resolved = IF RecipeRefusal(plan, Paths(r), files) # Nothing
                   THEN Resolution({}, RecipeRefusal(plan, Paths(r), files))
                   ELSE IF ContentBytes(proposed) > plan.maxPatchBytes
                   THEN Resolution({}, "recipe.max-patch-bytes-exceeded")
                   ELSE Resolution(proposed, Nothing)
    BY DEF Resolve, Paths
  <2>3. \A O, f : Resolution(O, f).operations = O /\ Resolution(O, f).refusal = f
    BY DEF Resolution
  <2>4. \A g, D : Compiled(g, D).graph = g /\ Compiled(g, D).diagnostics = D
    BY DEF Compiled
  <2> HIDE DEF resolved, plan, profile, files
  <2>5. CASE resolved.refusal # Nothing
    BY <1>2, <2>1, <2>5 DEF Accepted, plan, profile, files
  <2>6. CASE resolved.refusal = Nothing /\ reported # {}
    BY <1>2, <2>1, <2>6 DEF Accepted, plan, profile, files
  <2>7. CASE resolved.refusal = Nothing /\ reported = {}
    <3>1. RecipeRefusal(plan, Paths(r), files) = Nothing
      BY <2>2, <2>3, <2>7
    <3>2. ~(ContentBytes(proposed) > plan.maxPatchBytes)
      BY <2>2, <2>3, <2>7, <3>1 DEF Nothing
    <3>3. resolved.operations = proposed
      BY <2>2, <2>3, <3>1, <3>2
    <3>4. Compilation[r] = Compiled([operations |-> Ordered(proposed),
                                     plan |-> plan, profile |-> Normalized(profile)], {})
      BY <2>1, <2>7, <3>3
    <3>5. Accepted(r) /\ Compilation[r].graph = [operations |-> Ordered(proposed),
                                     plan |-> plan, profile |-> Normalized(profile)]
      BY <2>4, <3>4 DEF Accepted
    <3>. QED
      BY <1>6, <2>7, <3>1, <3>2, <3>3, <3>5 DEF plan, profile, files
  <2>. QED
    BY <2>5, <2>6, <2>7
<1>. QED
  BY <1>3, <1>4, <1>5, <1>6

Implementation(r) ==
  Operation("implementation", "create", Paths(r).implementation, Rendered(Requests[r].plan), Absent, {})
PublicExport(r) ==
  Operation("index", "update", Paths(r).index,
            WithExport(Requests[r].files[Paths(r).index], Requests[r].plan),
            Requests[r].files[Paths(r).index], {"implementation"})
UnitTest(r) ==
  Operation("test", "create", Paths(r).test, RenderedTest(Requests[r].plan), Absent, {"implementation"})

\* The three operations, field by field.
LEMMA ReviewedFields ==
  ASSUME NEW r
  PROVE  /\ Reviewed(r) = {Implementation(r), PublicExport(r), UnitTest(r)}
         /\ Implementation(r).id = "implementation" /\ Implementation(r).operation = "create"
         /\ Implementation(r).path = Paths(r).implementation
         /\ Implementation(r).content = Rendered(Requests[r].plan)
         /\ Implementation(r).dependsOn = {}
         /\ PublicExport(r).id = "index" /\ PublicExport(r).operation = "update"
         /\ PublicExport(r).path = Paths(r).index
         /\ PublicExport(r).content = WithExport(Requests[r].files[Paths(r).index], Requests[r].plan)
         /\ PublicExport(r).expected = Requests[r].files[Paths(r).index]
         /\ PublicExport(r).dependsOn = {"implementation"}
         /\ UnitTest(r).id = "test" /\ UnitTest(r).operation = "create"
         /\ UnitTest(r).path = Paths(r).test
         /\ UnitTest(r).content = RenderedTest(Requests[r].plan)
         /\ UnitTest(r).dependsOn = {"implementation"}
BY DEF Reviewed, ModuleOperations, Operation, Implementation, PublicExport, UnitTest

LEMMA PathsFields ==
  ASSUME NEW r
  PROVE  DOMAIN Paths(r) = {"implementation", "test", "index"}
         /\ Paths(r)["implementation"] = Paths(r).implementation
         /\ Paths(r)["test"] = Paths(r).test /\ Paths(r)["index"] = Paths(r).index
BY DEF Paths, ExpectedPaths

\* The recipe proposes all three operations or the compiler refuses the plan.
LEMMA AllProposed ==
  ASSUME NEW r \in DOMAIN Requests, Accepted(r)
  PROVE  Proposals(Requests[r].plan, Paths(r), Requests[r].files) = Reviewed(r)
<1> DEFINE plan == Requests[r].plan
<1> DEFINE files == Requests[r].files
<1> DEFINE proposed == Proposals(plan, Paths(r), files)
<1>1. proposed \subseteq Reviewed(r)
  BY DEF Proposals, Reviewed
<1>2. \A name \in DOMAIN Paths(r) : \E o \in plan.outputs : o.name = name
  <2>1. \A name \in DOMAIN Paths(r) : Targets(plan, name, Paths(r)[name])
    BY AcceptedRequest, RecipeChecks
  <2>. QED
    BY <2>1 DEF Targets, OutputNamed
<1>3. \A o \in plan.outputs : \E p \in proposed : p.id = o.name
  <2>1. ResolutionDiagnostics(plan, Requests[r].profile, proposed) = {}
    BY AcceptedRequest
  <2> HIDE DEF plan, proposed
  <2>. QED
    BY <2>1, ResolutionAccepted
<1>4. \A name \in DOMAIN Paths(r) : \E p \in proposed : p.id = name
  BY <1>2, <1>3
<1> HIDE DEF plan, files, proposed
<1>5. Implementation(r) \in proposed /\ PublicExport(r) \in proposed /\ UnitTest(r) \in proposed
  BY <1>1, <1>4, ReviewedFields, PathsFields
<1>6. Reviewed(r) \subseteq proposed
  BY <1>5, ReviewedFields
<1>. QED
  BY <1>1, <1>6 DEF plan, files, proposed

\* The graph of an accepted plan has all three operations, each once.
LEMMA GraphOperations ==
  ASSUME NEW r \in DOMAIN Requests, Accepted(r)
  PROVE  LET graph == Compilation[r].graph
         IN  /\ graph.plan = Requests[r].plan /\ graph.profile = Normalized(Requests[r].profile)
             /\ graph.operations \in [1..3 -> Reviewed(r)] /\ Len(graph.operations) = 3
             /\ \A i, j \in 1..3 : i # j => graph.operations[i] # graph.operations[j]
             /\ Operations(graph) = Reviewed(r)
<1> DEFINE graph == Compilation[r].graph
<1>1. graph = [operations |-> Ordered(Reviewed(r)), plan |-> Requests[r].plan,
               profile |-> Normalized(Requests[r].profile)]
  BY AcceptedRequest, AllProposed
<1>2. /\ graph.operations = Ordered(Reviewed(r)) /\ graph.plan = Requests[r].plan
      /\ graph.profile = Normalized(Requests[r].profile)
  BY <1>1
<1> HIDE DEF graph
<1>3. /\ Ordered(Reviewed(r)) \in [1..3 -> Reviewed(r)]
      /\ \A i, j \in 1..3 : i # j => Ordered(Reviewed(r))[i] # Ordered(Reviewed(r))[j]
      /\ \A o \in Reviewed(r) : \E i \in 1..3 : Ordered(Reviewed(r))[i] = o
  <2> DEFINE a == Implementation(r)
  <2> DEFINE b == PublicExport(r)
  <2> DEFINE c == UnitTest(r)
  <2>1. /\ a.id = "implementation" /\ b.id = "index" /\ c.id = "test"
        /\ a.dependsOn = {} /\ b.dependsOn = {"implementation"} /\ c.dependsOn = {"implementation"}
        /\ Reviewed(r) = {a, b, c}
    BY ReviewedFields
  <2> HIDE DEF a, b, c
  <2>. QED
    BY <2>1, OrderedOperations
<1>4. Len(Ordered(Reviewed(r))) = 3
  BY <1>3
<1>5. Operations(graph) = Reviewed(r)
  BY <1>2, <1>3 DEF Operations, ToSet
<1>. QED
  BY <1>2, <1>3, <1>4, <1>5 DEF graph

LEMMA RenderedContents ==
  ASSUME NEW plan \in PlanRecord
  PROVE  /\ Rendered(plan) \in Contents /\ Rendered(plan) # Absent
         /\ RenderedTest(plan) \in Contents /\ RenderedTest(plan) # Absent
<1>1. plan.exports \subseteq STRING /\ plan.tests \subseteq STRING /\ plan.module \in STRING
  BY DEF PlanRecord
<1>. QED
  BY <1>1 DEF Rendered, RenderedTest, Content, Contents, Absent

LEMMA ExportedContents ==
  ASSUME NEW plan \in PlanRecord, NEW index \in Contents, index # Absent
  PROVE  /\ WithExport(index, plan) \in Contents /\ WithExport(index, plan) # Absent
         /\ Declares(WithExport(index, plan)) = Declares(index)
         /\ WithExport(WithExport(index, plan), plan) = WithExport(index, plan)
<1>1. index \in [kind : {"module", "test", "text"}, names : SUBSET STRING, modules : SUBSET STRING]
  BY DEF Contents
<1>2. plan.module \in STRING
  BY DEF PlanRecord
<1>3. WithExport(index, plan) = [kind |-> index.kind, names |-> index.names,
                                 modules |-> index.modules \cup {plan.module}]
  BY <1>1 DEF WithExport
<1>4. WithExport(index, plan)
        \in [kind : {"module", "test", "text"}, names : SUBSET STRING, modules : SUBSET STRING]
  BY <1>1, <1>2, <1>3
<1>5. WithExport(index, plan) # Absent
  BY <1>4 DEF Absent, Content
<1>6. Declares(WithExport(index, plan)) = Declares(index)
  BY <1>1, <1>3 DEF Declares
<1>7. WithExport(WithExport(index, plan), plan)
        = [kind |-> index.kind, names |-> index.names,
           modules |-> (index.modules \cup {plan.module}) \cup {plan.module}]
  BY <1>3, <1>4 DEF WithExport
<1>8. (index.modules \cup {plan.module}) \cup {plan.module} = index.modules \cup {plan.module}
  OBVIOUS
<1>9. WithExport(WithExport(index, plan), plan) = WithExport(index, plan)
  BY <1>3, <1>7, <1>8
<1>. QED
  BY <1>4, <1>5, <1>6, <1>9 DEF Contents

\* Each operation of an accepted plan changes the snapshot at a path of its own.
LEMMA ReviewedOperations ==
  ASSUME NEW r \in DOMAIN Requests, Accepted(r)
  PROVE  /\ \A o, p \in Reviewed(r) : o # p => o.path # p.path
         /\ \A o \in Reviewed(r) :
              /\ o.path \in DOMAIN FirstTree /\ o.content \in Contents
              /\ o.content # Requests[r].files[o.path]
              /\ \/ o.operation = "create" /\ Requests[r].files[o.path] = Absent /\ o.content # Absent
                 \/ o.operation = "update" /\ Requests[r].files[o.path] = o.expected
<1> DEFINE plan == Requests[r].plan
<1> DEFINE files == Requests[r].files
<1>1. \A o, p \in Reviewed(r) : o # p => o.path # p.path
  <2>1. ResolutionDiagnostics(plan, Requests[r].profile, Reviewed(r)) = {}
    BY AcceptedRequest, AllProposed
  <2>. QED
    BY <2>1, ResolutionAccepted
<1>2. \A o \in Reviewed(r) : o.path \in DOMAIN FirstTree
  BY GraphOperations, RequestFinite
<1>3. \A o \in Reviewed(r) : o.content # files[o.path]
  BY AllProposed DEF Proposals
<1>4. /\ files[Paths(r).index] # Absent
      /\ ~Conflicts(files[Paths(r).implementation], Rendered(plan))
      /\ ~Conflicts(files[Paths(r).test], RenderedTest(plan))
  BY AcceptedRequest, RecipeChecks
<1>5. plan \in PlanRecord /\ files \in Snapshot
  BY RequestTypes
<1>6. files[Paths(r).index] \in Contents
  BY <1>2, <1>5, ReviewedFields DEF Snapshot
<1> HIDE DEF plan, files
<1>7. \A o \in Reviewed(r) : o.content \in Contents /\ (o.operation = "create" => o.content # Absent)
  BY <1>4, <1>5, <1>6, ReviewedFields, RenderedContents, ExportedContents DEF plan, files
<1>8. \A o \in Reviewed(r) :
        \/ o.operation = "create" /\ files[o.path] = Absent
        \/ o.operation = "update" /\ files[o.path] = o.expected
  <2>1. files[Paths(r).implementation] = Absent /\ files[Paths(r).test] = Absent
    BY <1>3, <1>4, ReviewedFields DEF Conflicts, plan
  <2>. QED
    BY <2>1, ReviewedFields DEF files
<1>. QED
  BY <1>1, <1>2, <1>3, <1>7, <1>8 DEF files

-----------------------------------------------------------------------------
(* What the executor refuses of it.                                        *)

\* The output an operation is for names its path.
LEMMA OutputOfOperation ==
  ASSUME NEW r \in DOMAIN Requests, Accepted(r), NEW o \in Reviewed(r)
  PROVE  \E d \in OutputNamed(Requests[r].plan, o.id) : d.path = o.path
<1>1. \A name \in DOMAIN Paths(r) : Targets(Requests[r].plan, name, Paths(r)[name])
  BY AcceptedRequest, RecipeChecks
<1>2. o.id \in DOMAIN Paths(r) /\ o.path = Paths(r)[o.id]
  BY ReviewedFields, PathsFields
<1>. QED
  BY <1>1, <1>2 DEF Targets

\* A finite set with three different names has at least three members.
LEMMA ThreeMembers ==
  ASSUME NEW S, IsFiniteSet(S), NEW x \in S, NEW y \in S, NEW z \in S, x # y, x # z, y # z
  PROVE  Cardinality(S) \in Nat /\ 3 <= Cardinality(S)
<1>1. IsFiniteSet({x}) /\ Cardinality({x}) = 1
  BY FS_Singleton
<1>2. IsFiniteSet({x} \cup {y}) /\ Cardinality({x} \cup {y}) = 2
  <2>1. y \notin {x}
    OBVIOUS
  <2>2. IsFiniteSet({x} \cup {y}) /\ Cardinality({x} \cup {y}) = Cardinality({x}) + 1
    BY <1>1, <2>1, FS_AddElement, Zenon
  <2>. QED
    BY <1>1, <2>2
<1>3. Cardinality(({x} \cup {y}) \cup {z}) = 3
  <2>1. z \notin {x} \cup {y}
    OBVIOUS
  <2>2. Cardinality(({x} \cup {y}) \cup {z}) = Cardinality({x} \cup {y}) + 1
    BY <1>2, <2>1, FS_AddElement, Zenon
  <2>. QED
    BY <1>2, <2>2
<1>4. ({x} \cup {y}) \cup {z} \subseteq S
  OBVIOUS
<1>5. Cardinality(({x} \cup {y}) \cup {z}) <= Cardinality(S)
  BY <1>4, FS_Subset, Zenon
<1>6. Cardinality(S) \in Nat
  BY FS_CardinalityType
<1>. QED
  BY <1>3, <1>5, <1>6

\* The compiler counts every output that is not declared as evidence.
LEMMA FilesCounted ==
  ASSUME NEW r \in DOMAIN Requests, Accepted(r), 3 > Requests[r].plan.maxFiles
  PROVE  \E o \in Requests[r].plan.outputs : o.kind = "evidence"
<1> DEFINE plan == Requests[r].plan
<1> DEFINE files == {o \in plan.outputs : o.kind # "evidence"}
<1> SUFFICES ASSUME \A o \in plan.outputs : o.kind # "evidence"
             PROVE  FALSE
  OBVIOUS
<1>1. plan.maxFiles \in Nat /\ IsFiniteSet(plan.outputs)
  BY RequestTypes, RequestFinite DEF PlanRecord
<1>2. ~(Cardinality(files) > plan.maxFiles)
  BY AcceptedRequest, PlanAccepted
<1>3. files = plan.outputs
  OBVIOUS
<1>4. \A o \in Reviewed(r) : \E d \in plan.outputs : d.name = o.id
  BY OutputOfOperation DEF OutputNamed
<1>5. PICK x \in plan.outputs : x.name = "implementation"
  BY <1>4, ReviewedFields
<1>6. PICK y \in plan.outputs : y.name = "index"
  BY <1>4, ReviewedFields
<1>7. PICK z \in plan.outputs : z.name = "test"
  BY <1>4, ReviewedFields
<1>8. Cardinality(plan.outputs) \in Nat /\ 3 <= Cardinality(plan.outputs)
  BY <1>1, <1>5, <1>6, <1>7, ThreeMembers
<1> HIDE DEF files, plan
<1>. QED
  BY <1>1, <1>2, <1>3, <1>8 DEF plan

LEMMA CanonicalProfile ==
  ASSUME NEW profile \in ProfileRecord, profile.canonical
  PROVE  Normalized(profile) = profile
BY DEF ProfileRecord, Normalized

\* Of the executor's checks of an accepted graph three can fail, each for a reason.
LEMMA RefusalReasons ==
  ASSUME NEW r \in DOMAIN Requests, Accepted(r)
  PROVE  LET plan == Requests[r].plan
             refusal == GraphRefusal(plan, Requests[r].profile, Compilation[r].graph)
         IN  \/ refusal = Nothing /\ plan.verification \in DOMAIN Trusted
             \/ refusal = "executor.profile-digest-mismatch" /\ ~Requests[r].profile.canonical
             \/ refusal = "verification.profile-unavailable" /\ plan.verification \notin DOMAIN Trusted
             \/ refusal = "executor.max-files-exceeded" /\ \E o \in plan.outputs : o.kind = "evidence"
<1> DEFINE plan == Requests[r].plan
<1> DEFINE profile == Requests[r].profile
<1> DEFINE graph == Compilation[r].graph
<1> DEFINE digest == graph.profile # profile
<1> DEFINE identity == graph.plan # plan
<1> DEFINE untrusted == plan.verification \notin profile.verificationProfiles \cap DOMAIN Trusted
<1> DEFINE unsafe == \E o \in Operations(graph) : ~SafePath(o.path)
<1> DEFINE disallowed == \E o \in Operations(graph) : ~Within(o.path, plan.allowedPaths)
<1> DEFINE outside == \E o \in Operations(graph) : ~Within(o.path, profile.boundaries)
<1> DEFINE mismatch == \E o \in Operations(graph) : \A d \in OutputNamed(plan, o.id) : d.path # o.path
<1> DEFINE duplicate == \E i, j \in DOMAIN graph.operations :
                           i # j /\ graph.operations[i].path = graph.operations[j].path
<1> DEFINE many == Len(graph.operations) > plan.maxFiles
<1> DEFINE big == ContentBytes(Operations(graph)) > plan.maxPatchBytes
<1> DEFINE checks == <<
    <<"executor.profile-digest-mismatch", digest>>,
    <<"executor.plan-identity-mismatch", identity>>,
    <<"verification.profile-unavailable", untrusted>>,
    <<"executor.path-unsafe", unsafe>>,
    <<"executor.path-not-allowed", disallowed>>,
    <<"executor.path-outside-profile", outside>>,
    <<"executor.output-mismatch", mismatch>>,
    <<"executor.duplicate-path", duplicate>>,
    <<"executor.max-files-exceeded", many>>,
    <<"executor.max-patch-bytes-exceeded", big>> >>
<1>1. GraphRefusal(plan, profile, graph) = FirstFailed(checks)
  BY DEF GraphRefusal
<1>2. DOMAIN checks = 1..10
  OBVIOUS
<1>3. /\ plan \in PlanRecord /\ profile \in ProfileRecord
      /\ graph.plan = plan /\ graph.profile = Normalized(profile)
      /\ Operations(graph) = Reviewed(r)
      /\ graph.operations \in [1..3 -> Reviewed(r)] /\ Len(graph.operations) = 3
      /\ \A i, j \in 1..3 : i # j => graph.operations[i] # graph.operations[j]
  BY GraphOperations, RequestTypes
<1>4. digest => ~profile.canonical
  BY <1>3, CanonicalProfile
<1>5. ~identity
  BY <1>3
<1>6. untrusted => plan.verification \notin DOMAIN Trusted
  <2>1. plan.verification \in profile.verificationProfiles
    BY AcceptedRequest, ProfileAccepted
  <2>. QED
    BY <2>1
<1>7. ~unsafe
  <2>1. \A d \in plan.outputs : SafePath(d.path)
    BY AcceptedRequest, PlanAccepted
  <2>2. \A o \in Reviewed(r) : \E d \in plan.outputs : d.path = o.path
    BY OutputOfOperation DEF OutputNamed
  <2>. QED
    BY <1>3, <2>1, <2>2
<1>8. ~disallowed /\ ~outside
  <2>1. ResolutionDiagnostics(plan, profile, Reviewed(r)) = {}
    BY AcceptedRequest, AllProposed
  <2> HIDE DEF plan, profile
  <2>. QED
    BY <1>3, <2>1, ResolutionAccepted
<1>9. ~mismatch
  BY <1>3, OutputOfOperation
<1>10. ~duplicate
  BY <1>3, ReviewedOperations
<1>11. many => \E o \in plan.outputs : o.kind = "evidence"
  BY <1>3, FilesCounted
<1>12. ~big
  BY <1>3, AcceptedRequest, AllProposed
<1> HIDE DEF digest, identity, untrusted, unsafe, disallowed, outside, mismatch, duplicate, many, big
<1>13. /\ checks[1] = <<"executor.profile-digest-mismatch", digest>>
       /\ checks[3] = <<"verification.profile-unavailable", untrusted>>
       /\ checks[9] = <<"executor.max-files-exceeded", many>>
  OBVIOUS
<1>14. /\ ~checks[2][2] /\ ~checks[4][2] /\ ~checks[5][2] /\ ~checks[6][2] /\ ~checks[7][2]
       /\ ~checks[8][2] /\ ~checks[10][2]
  BY <1>5, <1>7, <1>8, <1>9, <1>10, <1>12
<1> HIDE DEF checks
<1>15. \A i \in 1..10 : i = 1 \/ i = 2 \/ i = 3 \/ i = 4 \/ i = 5 \/ i = 6 \/ i = 7 \/ i = 8 \/ i = 9 \/ i = 10
  OBVIOUS
<1>16. \A i \in 1..10 : checks[i][2] => i = 1 \/ i = 3 \/ i = 9
  BY <1>14, <1>15
<1>17. /\ \/ FirstFailed(checks) = Nothing
          \/ \E i \in 1..10 : checks[i][2] /\ FirstFailed(checks) = checks[i][1]
       /\ (\A i \in 1..10 : checks[i][1] # Nothing) /\ FirstFailed(checks) = Nothing => ~checks[3][2]
  <2>1. DOMAIN checks \in SUBSET Nat
    BY <1>2
  <2>. QED
    BY <1>2, <2>1, FirstFailedCheck
<1>18. CASE FirstFailed(checks) = Nothing
  <2>1. \A i \in 1..10 : checks[i][1] # Nothing
    BY DEF checks, Nothing
  <2>2. ~untrusted
    BY <1>13, <1>17, <1>18, <2>1
  <2>. QED
    BY <1>1, <1>18, <2>2 DEF untrusted
<1>19. CASE \E i \in 1..10 : checks[i][2] /\ FirstFailed(checks) = checks[i][1]
  <2>1. PICK i \in 1..10 : checks[i][2] /\ FirstFailed(checks) = checks[i][1]
    BY <1>19
  <2>2. CASE i = 1
    <3>1. digest /\ FirstFailed(checks) = "executor.profile-digest-mismatch"
      BY <1>13, <2>1, <2>2
    <3>. QED
      BY <1>1, <1>4, <3>1
  <2>3. CASE i = 3
    <3>1. untrusted /\ FirstFailed(checks) = "verification.profile-unavailable"
      BY <1>13, <2>1, <2>3
    <3>. QED
      BY <1>1, <1>6, <3>1
  <2>4. CASE i = 9
    <3>1. many /\ FirstFailed(checks) = "executor.max-files-exceeded"
      BY <1>13, <2>1, <2>4
    <3>. QED
      BY <1>1, <1>11, <3>1
  <2>. QED
    BY <1>16, <2>1, <2>2, <2>3, <2>4
<1>. QED
  BY <1>17, <1>18, <1>19

\* The bytes of the operations are counted: their contents are finite.
LEMMA ContentBytesOfReviewed ==
  ASSUME NEW r \in DOMAIN Requests, Accepted(r)
  PROVE  ContentBytes(Operations(Compilation[r].graph)) \in Nat
<1> DEFINE taken(o) == {o.id} \X (1 .. Bytes(o.content))
<1> DEFINE all == {taken(o) : o \in Reviewed(r)}
<1>1. \A o \in Reviewed(r) : Finite(o.content)
  <2>1. Paths(r).index \in DOMAIN FirstTree
    BY ReviewedOperations, ReviewedFields
  <2>2. Finite(Requests[r].files[Paths(r).index])
    BY <2>1, RequestFinite
  <2>3. Requests[r].files[Paths(r).index] \in Contents /\ Requests[r].files[Paths(r).index] # Absent
    BY <2>1, RequestTypes, AcceptedRequest, RecipeChecks DEF Snapshot
  <2>4. Finite(WithExport(Requests[r].files[Paths(r).index], Requests[r].plan))
    <3> DEFINE index == Requests[r].files[Paths(r).index]
    <3> DEFINE module == Requests[r].plan.module
    <3>1. WithExport(index, Requests[r].plan).names = index.names
          /\ WithExport(index, Requests[r].plan).modules = index.modules \cup {module}
      <4>1. index \in [kind : {"module", "test", "text"}, names : SUBSET STRING, modules : SUBSET STRING]
        BY <2>3 DEF Contents
      <4> HIDE DEF index
      <4>. QED
        BY <4>1 DEF WithExport
    <3> HIDE DEF index, module
    <3>2. IsFiniteSet(index.modules \cup {module})
      BY <2>2, FS_AddElement DEF Finite, index
    <3>. QED
      BY <2>2, <3>1, <3>2 DEF Finite, index
  <2>. QED
    BY <2>4, RequestFinite, ReviewedFields
<1>2. \A o \in Reviewed(r) : Bytes(o.content) \in Nat
  BY <1>1, FS_CardinalityType DEF Finite, Bytes
<1>3. \A o \in Reviewed(r) : IsFiniteSet(taken(o))
  <2> TAKE o \in Reviewed(r)
  <2>1. IsFiniteSet({o.id})
    BY FS_Singleton
  <2>2. Bytes(o.content) \in Int /\ 1 \in Int
    BY <1>2
  <2>3. IsFiniteSet(1 .. Bytes(o.content))
    BY <2>2, FS_Interval, Zenon
  <2>. QED
    BY <2>1, <2>3, FS_Product, Zenon
<1>4. IsFiniteSet(all)
  <2>1. all = {taken(Implementation(r)), taken(PublicExport(r)), taken(UnitTest(r))}
    BY ReviewedFields
  <2> DEFINE x == taken(Implementation(r))
  <2> DEFINE y == taken(PublicExport(r))
  <2> DEFINE z == taken(UnitTest(r))
  <2>2. all = ({x} \cup {y}) \cup {z}
    BY <2>1
  <2> HIDE DEF x, y, z, all
  <2>3. IsFiniteSet({x})
    BY FS_Singleton
  <2>4. IsFiniteSet({x} \cup {y})
    BY <2>3, FS_AddElement, Zenon
  <2>5. IsFiniteSet(({x} \cup {y}) \cup {z})
    BY <2>4, FS_AddElement, Zenon
  <2>. QED
    BY <2>2, <2>5
<1>5. IsFiniteSet(UNION all)
  <2>1. \A T \in all : IsFiniteSet(T)
    BY <1>3
  <2> HIDE DEF all
  <2>. QED
    BY <1>4, <2>1, FS_UNION
<1>6. ContentBytes(Operations(Compilation[r].graph)) = Cardinality(UNION all)
  BY GraphOperations DEF ContentBytes
<1>. QED
  BY <1>5, <1>6, FS_CardinalityType

-----------------------------------------------------------------------------
(* What the executor makes of it.                                          *)

\* Applied to a tree, a graph writes its operations and nothing else.
LEMMA AppliedTree ==
  ASSUME NEW r \in DOMAIN Requests, Accepted(r), NEW tree \in Tree
  PROVE  LET applied == Applied(Compilation[r].graph, tree)
         IN  /\ applied \in Tree
             /\ \A o \in Reviewed(r) : applied[o.path] = o.content
             /\ \A path \in DOMAIN FirstTree :
                   (\A o \in Reviewed(r) : o.path # path) => applied[path] = tree[path]
<1> DEFINE applied == Applied(Compilation[r].graph, tree)
<1>1. DOMAIN tree = DOMAIN FirstTree
  BY DEF Tree
<1>2. applied = [path \in DOMAIN FirstTree |->
                   IF \E o \in Reviewed(r) : o.path = path
                   THEN (CHOOSE o \in Reviewed(r) : o.path = path).content ELSE tree[path]]
  BY <1>1, GraphOperations DEF Applied
<1> HIDE DEF applied
<1>3. \A o \in Reviewed(r) : (CHOOSE p \in Reviewed(r) : p.path = o.path) = o
  BY ReviewedOperations
<1>4. \A o \in Reviewed(r) : applied[o.path] = o.content
  BY <1>2, <1>3, ReviewedOperations
<1>5. \A path \in DOMAIN FirstTree :
         (\A o \in Reviewed(r) : o.path # path) => applied[path] = tree[path]
  BY <1>2
<1>6. \A path \in DOMAIN FirstTree : applied[path] \in Entries
  BY <1>4, <1>5, ReviewedOperations DEF Tree, Entries
<1>7. applied \in Tree
  BY <1>2, <1>6 DEF Tree
<1>. QED
  BY <1>4, <1>5, <1>7 DEF applied

\* A graph that passes has no target that is refused, one that does not gets the
\* refusal of one of its targets.
LEMMA PreflightTargets ==
  ASSUME NEW r \in DOMAIN Requests, Accepted(r), NEW tree
  PROVE  LET refusal == Preflight(Compilation[r].graph, tree)
         IN  \/ refusal = Nothing /\ \A o \in Reviewed(r) : TargetRefusal(o, tree) = Nothing
             \/ refusal # Nothing /\ \E o \in Reviewed(r) : refusal = TargetRefusal(o, tree)
<1> DEFINE graph == Compilation[r].graph
<1> DEFINE refused == {i \in DOMAIN graph.operations : TargetRefusal(graph.operations[i], tree) # Nothing}
<1> DEFINE first == CHOOSE i \in refused : \A j \in refused : i <= j
<1>1. /\ graph.operations \in [1..3 -> Reviewed(r)] /\ DOMAIN graph.operations = 1..3
      /\ Reviewed(r) = {graph.operations[i] : i \in 1..3}
  BY GraphOperations DEF Operations, ToSet
<1>2. Preflight(graph, tree) =
        IF refused = {} THEN Nothing ELSE TargetRefusal(graph.operations[first], tree)
  BY DEF Preflight
<1>3. CASE refused = {}
  <2>1. \A i \in 1..3 : TargetRefusal(graph.operations[i], tree) = Nothing
    BY <1>1, <1>3
  <2>. QED
    BY <1>1, <1>2, <1>3, <2>1
<1>4. CASE refused # {}
  <2>1. refused \subseteq 1..3
    BY <1>1
  <2>2. \E i \in refused : \A j \in refused : i <= j
    <3> HIDE DEF refused
    <3>1. \A i \in refused : i = 1 \/ i = 2 \/ i = 3
      BY <2>1
    <3>2. CASE 1 \in refused
      BY <3>1, <3>2
    <3>3. CASE 1 \notin refused /\ 2 \in refused
      BY <3>1, <3>3
    <3>4. CASE 1 \notin refused /\ 2 \notin refused
      BY <1>4, <3>1, <3>4
    <3>. QED
      BY <3>2, <3>3, <3>4
  <2>3. first \in refused
    BY <2>2
  <2>4. TargetRefusal(graph.operations[first], tree) # Nothing /\ graph.operations[first] \in Reviewed(r)
    BY <1>1, <2>3
  <2>. QED
    BY <1>2, <1>4, <2>4
<1>. QED
  BY <1>3, <1>4

\* A target is refused when the snapshot differs from the tree there.
LEMMA PreflightRefusals ==
  ASSUME NEW r \in DOMAIN Requests, Accepted(r), NEW tree \in Tree
  PROVE  LET refusal == Preflight(Compilation[r].graph, tree)
         IN  \/ refusal = Nothing
             \/ /\ refusal \in TargetRefusals
                /\ \E o \in Reviewed(r) : Requests[r].files[o.path] # tree[o.path]
<1> DEFINE refusal == Preflight(Compilation[r].graph, tree)
<1>1. CASE refusal # Nothing
  <2>1. PICK o \in Reviewed(r) : refusal = TargetRefusal(o, tree)
    BY <1>1, PreflightTargets
  <2>2. Requests[r].files[o.path] \notin {Link, Directory}
    <3>1. Requests[r].files[o.path] \in Contents
      BY ReviewedOperations, RequestTypes DEF Snapshot
    <3>. QED
      BY <3>1 DEF Contents, Link, Directory, Absent, Content
  <2>. QED
    BY <1>1, <2>1, <2>2, ReviewedOperations DEF TargetRefusal, TargetRefusals
<1>. QED
  BY <1>1

\* The patch of a tree that passed is the reviewed operations.
LEMMA PatchOfReviewed ==
  ASSUME NEW r \in DOMAIN Requests, Accepted(r), NEW tree \in Tree,
         Preflight(Compilation[r].graph, tree) = Nothing
  PROVE  LET patch == Difference(tree, Applied(Compilation[r].graph, tree))
         IN  /\ DOMAIN patch = {o.path : o \in Reviewed(r)}
             /\ \A o \in Reviewed(r) : patch[o.path] = o.content
             /\ patch # NoPatch
<1> DEFINE applied == Applied(Compilation[r].graph, tree)
<1> DEFINE patch == Difference(tree, applied)
<1>1. DOMAIN tree = DOMAIN FirstTree
  BY DEF Tree
<1>2. \A o \in Reviewed(r) : tree[o.path] # o.content
  <2>1. \A o \in Reviewed(r) :
          /\ o.operation = "create" => tree[o.path] = Absent
          /\ o.operation = "update" => tree[o.path] = o.expected
    BY PreflightTargets DEF TargetRefusal, Nothing
  <2>. QED
    BY <2>1, ReviewedOperations
<1>3. /\ \A o \in Reviewed(r) : applied[o.path] = o.content
      /\ \A path \in DOMAIN FirstTree :
           (\A o \in Reviewed(r) : o.path # path) => applied[path] = tree[path]
  BY AppliedTree
<1>4. \A o \in Reviewed(r) : o.path \in DOMAIN FirstTree
  BY ReviewedOperations
<1> HIDE DEF applied
<1>5. {p \in DOMAIN tree : tree[p] # applied[p]} = {o.path : o \in Reviewed(r)}
  BY <1>1, <1>2, <1>3, <1>4
<1>6. DOMAIN patch = {o.path : o \in Reviewed(r)} /\ \A o \in Reviewed(r) : patch[o.path] = o.content
  BY <1>3, <1>5 DEF Difference
<1>7. DOMAIN patch # {}
  <2>1. Implementation(r) \in Reviewed(r)
    BY ReviewedFields
  <2>2. Implementation(r).path \in DOMAIN patch
    BY <1>6, <2>1
  <2>. QED
    BY <2>2
<1>8. DOMAIN NoPatch = {}
  BY DEF NoPatch
<1>. QED
  BY <1>6, <1>7, <1>8 DEF applied

\* The recipe leaves alone what it has written.
LEMMA RecipeLeavesAlone ==
  ASSUME NEW r \in DOMAIN Requests, Accepted(r)
  PROVE  Resolve(Requests[r].plan, Normalized(Requests[r].profile),
                 Applied(Compilation[r].graph, Requests[r].files)) = Resolution({}, Nothing)
<1> DEFINE plan == Requests[r].plan
<1> DEFINE files == Requests[r].files
<1> DEFINE after == Applied(Compilation[r].graph, files)
<1>1. /\ plan \in PlanRecord /\ files \in Snapshot /\ files \in Tree
      /\ Requests[r].profile \in ProfileRecord
  BY RequestTypes DEF Snapshot, Tree, Entries
<1>2. PackageOf(plan, Normalized(Requests[r].profile)) = PackageOf(plan, Requests[r].profile)
  BY <1>1 DEF PackageOf, Normalized, ProfileRecord
<1>3. /\ after \in Tree
      /\ \A o \in Reviewed(r) : after[o.path] = o.content
      /\ \A path \in DOMAIN FirstTree :
           (\A o \in Reviewed(r) : o.path # path) => after[path] = files[path]
  BY <1>1, AppliedTree
<1> HIDE DEF after
<1>4. /\ after[Paths(r).implementation] = Rendered(plan)
      /\ after[Paths(r).test] = RenderedTest(plan)
      /\ after[Paths(r).index] = WithExport(files[Paths(r).index], plan)
  BY <1>3, ReviewedFields
<1>5. RecipeRefusal(plan, Paths(r), files) = Nothing
  BY AcceptedRequest
<1>6. /\ ~InvalidInputs(plan)
      /\ \A name \in DOMAIN Paths(r) : Targets(plan, name, Paths(r)[name])
      /\ plan.tests \subseteq plan.exports
      /\ files[Paths(r).index] # Absent
      /\ \A f \in DOMAIN files \ {Paths(r).implementation, Paths(r).test} :
            Declares(files[f]) \cap plan.exports = {}
  BY <1>5, RecipeChecks
<1>7. /\ Paths(r).index \in DOMAIN FirstTree
      /\ Paths(r).index # Paths(r).implementation /\ Paths(r).index # Paths(r).test
  BY ReviewedOperations, ReviewedFields
<1>8. files[Paths(r).index] \in Contents
  BY <1>1, <1>7 DEF Snapshot
<1> HIDE DEF plan, files
<1>9. /\ WithExport(files[Paths(r).index], plan) # Absent
      /\ Declares(WithExport(files[Paths(r).index], plan)) = Declares(files[Paths(r).index])
      /\ WithExport(WithExport(files[Paths(r).index], plan), plan) = WithExport(files[Paths(r).index], plan)
  BY <1>1, <1>6, <1>8, ExportedContents
<1>10. DOMAIN after = DOMAIN FirstTree /\ DOMAIN files = DOMAIN FirstTree
  BY <1>1, <1>3 DEF Tree, Snapshot
<1>11. \A f \in DOMAIN after \ {Paths(r).implementation, Paths(r).test} :
          Declares(after[f]) = Declares(files[f])
  <2> TAKE f \in DOMAIN after \ {Paths(r).implementation, Paths(r).test}
  <2>1. CASE f = Paths(r).index
    BY <1>4, <1>9, <2>1
  <2>2. CASE f # Paths(r).index
    <3>1. \A o \in Reviewed(r) : o.path # f
      BY <2>2, ReviewedFields
    <3>. QED
      BY <1>3, <1>10, <3>1
  <2>. QED
    BY <2>1, <2>2
<1>12. RecipeRefusal(plan, Paths(r), after) = Nothing
  <2>1. ~Conflicts(after[Paths(r).implementation], Rendered(plan))
        /\ ~Conflicts(after[Paths(r).test], RenderedTest(plan))
    BY <1>4 DEF Conflicts
  <2>2. \A f \in DOMAIN after \ {Paths(r).implementation, Paths(r).test} :
            Declares(after[f]) \cap plan.exports = {}
    BY <1>6, <1>10, <1>11
  <2>3. after[Paths(r).index] # Absent
    BY <1>4, <1>9
  <2>. QED
    BY <1>6, <2>1, <2>2, <2>3, RecipeChecks
<1>13. Proposals(plan, Paths(r), after) = {}
  BY <1>4, <1>9 DEF Proposals, ModuleOperations, Operation
<1>14. ContentBytes({}) = 0
  <2>1. {{o.id} \X (1 .. Bytes(o.content)) : o \in {}} = {}
    OBVIOUS
  <2>2. UNION {{o.id} \X (1 .. Bytes(o.content)) : o \in {}} = {}
    BY <2>1
  <2>. QED
    BY <2>2, FS_EmptySet DEF ContentBytes
<1>15. ~(ContentBytes({}) > plan.maxPatchBytes)
  BY <1>1, <1>14 DEF PlanRecord
<1>16. ExpectedPaths(plan, CHOOSE p \in PackageOf(plan, Normalized(Requests[r].profile)) : TRUE) = Paths(r)
  BY <1>2 DEF Paths, plan
<1>17. Resolve(plan, Normalized(Requests[r].profile), after) = Resolution({}, Nothing)
  BY <1>12, <1>13, <1>15, <1>16 DEF Resolve
<1>. QED
  BY <1>17 DEF plan, after, files

\* No diagnostic is a verdict of the verification.
Verdicts == {"verification.failed", "verification.timeout"}

\* No diagnostic of the compiler has the code of a verification's failure.
LEMMA DiagnosticCodes ==
  ASSUME NEW r \in DOMAIN Requests
  PROVE  \A d \in Compilation[r].diagnostics : d \notin Verdicts
<1> DEFINE plan == Requests[r].plan
<1> DEFINE profile == Requests[r].profile
<1> DEFINE files == Requests[r].files
<1> DEFINE resolved == Resolve(plan, profile, files)
<1>1. \A d \in PlanDiagnostics(plan) : d \notin Verdicts
  <2> DEFINE failed1 == \E c \in plan.allowedPaths : ~SafePath(c.base)
  <2> DEFINE failed2 == \E c \in plan.allowedPaths : SafePath(c.base) /\ HasGlob(c.base)
  <2> DEFINE failed3 == \E o \in plan.outputs : ~SafePath(o.path) \/ HasGlob(o.path)
  <2> DEFINE failed4 == \E o \in plan.outputs : SafePath(o.path) /\ ~HasGlob(o.path)
                                           /\ ~Within(o.path, plan.allowedPaths)
  <2> DEFINE failed5 == \E o, p \in plan.outputs : o # p /\ o.name = p.name
  <2> DEFINE failed6 == Cardinality({o \in plan.outputs : o.kind # "evidence"}) > plan.maxFiles
  <2> DEFINE failed7 == plan.version # "1"
  <2> DEFINE failed8 == ~(plan.capabilities \subseteq Capabilities)
  <2> DEFINE checks ==
       {<<"path.unsafe", failed1>>, <<"path.unsupported-pattern", failed2>>,
        <<"path.unsafe", failed3>>, <<"output.outside-allowed-paths", failed4>>,
        <<"output.duplicate-name", failed5>>, <<"resource.max-files-exceeded", failed6>>,
        <<"recipe.unsupported-version", failed7>>, <<"capability.not-allowed", failed8>>}
  <2>1. PlanDiagnostics(plan) = AllFailed(checks)
    BY DEF PlanDiagnostics
  <2> HIDE DEF failed1, failed2, failed3, failed4, failed5, failed6, failed7, failed8
  <2>2. \A c \in checks : c[1] \notin Verdicts
    BY DEF Verdicts
  <2> HIDE DEF checks
  <2>. QED
    BY <2>1, <2>2 DEF AllFailed
<1>2. \A d \in ProfileDiagnostics(profile) : d \notin Verdicts
<2>1. \A d \in ProfileShape(profile) : d \notin Verdicts
  <3> DEFINE failed1 == profile.boundaries = {}
                        \/ \E c \in profile.boundaries : ~SafePath(c.base) \/ HasGlob(c.base)
  <3> DEFINE failed2 == {} \in {profile.packages, profile.versions, profile.verificationProfiles}
  <3> DEFINE failed3 == \E p \in profile.packages :
                        \E path \in {p.path, p.source, p.test, p.index} : ~SafePath(path)
  <3> DEFINE checks ==
       {<<"profile.invalid-path-boundary", failed1>>, <<"profile.invalid", failed2>>,
        <<"profile.invalid-package", failed3>>}
  <3>1. ProfileShape(profile) = AllFailed(checks)
    BY DEF ProfileShape
  <3> HIDE DEF failed1, failed2, failed3
  <3>2. \A c \in checks : c[1] \notin Verdicts
    BY DEF Verdicts
  <3> HIDE DEF checks
  <3>. QED
    BY <3>1, <3>2 DEF AllFailed
<2>2. \A d \in ProfilePackages(profile) : d \notin Verdicts
  <3> DEFINE failed1 == \E p, q \in profile.packages : p # q /\ p.name = q.name
  <3> DEFINE failed2 == \E p \in profile.packages : ~Within(p.path, profile.boundaries)
  <3> DEFINE checks ==
       {<<"profile.duplicate-package", failed1>>, <<"profile.package-outside-boundaries", failed2>>}
  <3>1. ProfilePackages(profile) = AllFailed(checks)
    BY DEF ProfilePackages
  <3> HIDE DEF failed1, failed2
  <3>2. \A c \in checks : c[1] \notin Verdicts
    BY DEF Verdicts
  <3> HIDE DEF checks
  <3>. QED
    BY <3>1, <3>2 DEF AllFailed
  <2>. QED
    BY <2>1, <2>2 DEF ProfileDiagnostics
<1>3. \A d \in AgainstProfile(plan, profile) : d \notin Verdicts
  <2> DEFINE failed1 == plan.repository # profile.repository
  <2> DEFINE failed2 == \E c \in plan.allowedPaths : ~Within(c.base, profile.boundaries)
  <2> DEFINE failed3 == plan.version \notin profile.versions
  <2> DEFINE failed4 == plan.verification \notin profile.verificationProfiles
  <2> DEFINE failed5 == PackageOf(plan, profile) = {}
  <2> DEFINE failed6 == \E p \in PackageOf(plan, profile), o \in plan.outputs : ~IsPrefix(p.path, o.path)
  <2> DEFINE checks ==
       {<<"profile.repository-mismatch", failed1>>,
        <<"profile.path-outside-boundaries", failed2>>,
        <<"profile.recipe-unsupported", failed3>>,
        <<"profile.verification-profile-unsupported", failed4>>,
        <<"profile.package-unknown", failed5>>, <<"profile.output-outside-package", failed6>>}
  <2>1. AgainstProfile(plan, profile) = AllFailed(checks)
    BY DEF AgainstProfile
  <2> HIDE DEF failed1, failed2, failed3, failed4, failed5, failed6
  <2>2. \A c \in checks : c[1] \notin Verdicts
    BY DEF Verdicts
  <2> HIDE DEF checks
  <2>. QED
    BY <2>1, <2>2 DEF AllFailed
<1>4. \A operations : \A d \in ResolutionDiagnostics(plan, profile, operations) : d \notin Verdicts
  <2> TAKE operations
  <2> DEFINE ids == {o.id : o \in operations}
<2>1. \A d \in ResolutionDiagnostics(plan, profile, operations) : d \notin Verdicts
  <3> DEFINE failed1 == \E o \in operations, d \in plan.outputs : d.name = o.id /\ d.path # o.path
  <3> DEFINE failed2 == \E o \in operations : ~Within(o.path, plan.allowedPaths)
  <3> DEFINE failed3 == \E o \in operations : ~Within(o.path, profile.boundaries)
  <3> DEFINE failed4 == \E o, p \in operations : o # p /\ o.path = p.path
  <3> DEFINE failed5 == \E o \in plan.outputs : o.name \notin ids
  <3> DEFINE failed6 == \E o \in operations : ~(o.dependsOn \subseteq ids)
  <3> DEFINE failed7 == \E o \in operations : o.id \in o.dependsOn
  <3> DEFINE checks ==
       {<<"graph.output-mismatch", failed1>>,
        <<"graph.operation-outside-plan-boundaries", failed2>>,
        <<"graph.operation-outside-profile-boundaries", failed3>>,
        <<"graph.path-conflict", failed4>>, <<"graph.output-operation-missing", failed5>>,
        <<"graph.missing-dependency", failed6>>, <<"graph.dependency-cycle", failed7>>}
  <3>1. ResolutionDiagnostics(plan, profile, operations) = AllFailed(checks)
    BY DEF ResolutionDiagnostics
  <3> HIDE DEF failed1, failed2, failed3, failed4, failed5, failed6, failed7
  <3>2. \A c \in checks : c[1] \notin Verdicts
    BY DEF Verdicts
  <3> HIDE DEF checks
  <3>. QED
    BY <3>1, <3>2 DEF AllFailed
  <2>. QED
    BY <2>1
<1>5. resolved.refusal # Nothing => resolved.refusal \notin Verdicts
  <2> DEFINE paths == Paths(r)
  <2> DEFINE untargeted == ~ \A name \in DOMAIN paths : Targets(plan, name, paths[name])
  <2> DEFINE untested == ~(plan.tests \subseteq plan.exports)
  <2> DEFINE closed == files[paths.index] = Absent
  <2> DEFINE declared == \E f \in DOMAIN files \ {paths.implementation, paths.test} :
                            Declares(files[f]) \cap plan.exports # {}
  <2> DEFINE module == Conflicts(files[paths.implementation], Rendered(plan))
  <2> DEFINE test == Conflicts(files[paths.test], RenderedTest(plan))
  <2> DEFINE checks == <<
      <<"recipe.invalid-inputs", InvalidInputs(plan)>>,
      <<"recipe.output-path-mismatch", untargeted>>,
      <<"recipe.test-export-unknown", untested>>,
      <<"recipe.public-export-file-missing", closed>>,
      <<"recipe.export-name-conflict", declared>>,
      <<"recipe.existing-module-conflict", module>>,
      <<"recipe.existing-test-conflict", test>> >>
  <2>1. RecipeRefusal(plan, paths, files) = FirstFailed(checks)
    BY DEF RecipeRefusal
  <2>2. DOMAIN checks = 1..7
    OBVIOUS
  <2>3. \A i \in 1..7 : checks[i][1] \notin Verdicts
    <3> HIDE DEF untargeted, untested, closed, declared, module, test
    <3>. QED
      BY DEF Verdicts
  <2>4. FirstFailed(checks) = Nothing \/ FirstFailed(checks) \notin Verdicts
    <3>1. DOMAIN checks \in SUBSET Nat
      BY <2>2
    <3> HIDE DEF checks
    <3>. QED
      BY <2>2, <2>3, <3>1, FirstFailedCheck
  <2>5. resolved.refusal \in {RecipeRefusal(plan, paths, files), "recipe.max-patch-bytes-exceeded", Nothing}
    BY DEF Resolve, Resolution, Paths
  <2>6. "recipe.max-patch-bytes-exceeded" \notin Verdicts
    BY DEF Verdicts
  <2> HIDE DEF resolved, checks, plan, profile, files
  <2>. QED
    BY <2>1, <2>4, <2>5, <2>6
<1>6. Compilation[r] = Compile(plan, profile, files)
  BY DEF Compilation
<1> HIDE DEF plan, profile, files
<1>7. \/ Compilation[r].diagnostics = {}
      \/ Compilation[r].diagnostics = PlanDiagnostics(plan)
      \/ Compilation[r].diagnostics = ProfileDiagnostics(profile)
      \/ Compilation[r].diagnostics = AgainstProfile(plan, profile)
      \/ resolved.refusal # Nothing /\ Compilation[r].diagnostics = {resolved.refusal}
      \/ Compilation[r].diagnostics = ResolutionDiagnostics(plan, profile, resolved.operations)
  <2> HIDE DEF resolved
  <2>. QED
    BY <1>6 DEF Compile, Refused, Compiled, resolved
<1>. QED
  BY <1>1, <1>2, <1>3, <1>4, <1>5, <1>7

-----------------------------------------------------------------------------
(* The inductive invariant of the tasks.                                   *)

Working == {"before", "graph", "checkout", "preflight", "apply", "stage", "running", "cleanup", "after"}
PlanFor(k) == Requests[k.request].plan

\* A task that has not answered works on an accepted plan; until its stages it
\* has nothing to show.
Admitted(k) ==
    /\ k.step # "idle" => k.request \in DOMAIN Requests
    /\ k.step \in Working => Accepted(k.request)
    /\ k.step \in {"idle", "before", "graph", "checkout", "preflight", "apply"} =>
         k.verified = <<>> /\ k.patch = NoPatch /\ k.status = "running" /\ k.found = Nothing

\* The base revision is there, and until the stages the checkout is its tree.
Located(k, revisions) ==
    /\ k.step \in Working \ {"before"} => PlanFor(k).base \in DOMAIN revisions
    /\ k.step \in {"checkout", "preflight", "apply", "stage", "running"} =>
         PlanFor(k).verification \in DOMAIN Trusted
    /\ k.step \in {"preflight", "apply"} => k.checkout = revisions[PlanFor(k).base]
    /\ k.step = "apply" => Preflight(Compilation[k.request].graph, k.checkout) = Nothing

\* A stage has its child, or descendants that hold its output, only while it runs.
Silent(k) == k.step # "running" => k.stage.child # "running" /\ ~k.stage.held

PatchOf(k) ==
    k.patch # NoPatch =>
        /\ k.step # "idle" /\ Accepted(k.request)
        /\ DOMAIN k.patch = {o.path : o \in Reviewed(k.request)}
        /\ \A o \in Reviewed(k.request) : k.patch[o.path] = o.content

Verifying(k) ==
    LET stages == Trusted[PlanFor(k).verification]
    IN  k.step \in {"stage", "running"} =>
         /\ k.patch # NoPatch /\ k.status = "running" /\ k.found = Nothing
         /\ AllSucceeded(k.verified) /\ Len(k.verified) <= Len(stages)
         /\ k.step = "running" => Len(k.verified) < Len(stages)

\* The evidence a task has collected when it leaves its worktree.
Evidence(k) ==
    LET stages == Trusted[PlanFor(k).verification]
    IN  IF k.status = "succeeded"
        THEN k.patch # NoPatch /\ Len(k.verified) = Len(stages) /\ AllSucceeded(k.verified)
        ELSE IF k.found = "verification.failed"
        THEN k.patch # NoPatch /\ Last(k.verified) = "failed" /\ AllSucceeded(Front(k.verified))
        ELSE IF k.found = "verification.timeout"
        THEN /\ k.patch # NoPatch
             /\ \/ Len(k.verified) < Len(stages) /\ AllSucceeded(k.verified)
                \/ Last(k.verified) = "timed-out" /\ AllSucceeded(Front(k.verified))
        ELSE k.patch = NoPatch /\ k.verified = <<>>

Evidenced(k) == k.step \in {"cleanup", "after", "answered"} => Evidence(k)

\* Why a task with an accepted plan has failed.
Reason(k, revisions) ==
    k.step # "idle" /\ Accepted(k.request) =>
        \/ k.found \in {Nothing, "worker.input-invalid", "worker.repository-identity-mismatch",
                        "executor.max-patch-bytes-exceeded", "executor.unexpected-failure",
                        "verification.failed", "verification.timeout"}
        \/ k.found = "executor.profile-digest-mismatch" /\ ~Requests[k.request].profile.canonical
        \/ k.found = "verification.profile-unavailable" /\ PlanFor(k).verification \notin DOMAIN Trusted
        \/ k.found = "executor.max-files-exceeded" /\ \E o \in PlanFor(k).outputs : o.kind = "evidence"
        \/ /\ k.found \in TargetRefusals
           /\ PlanFor(k).base \in DOMAIN revisions
           /\ \E o \in Reviewed(k.request) :
                 Requests[k.request].files[o.path] # revisions[PlanFor(k).base][o.path]

TaskInvariant(k, revisions) ==
    /\ Admitted(k) /\ Located(k, revisions) /\ Silent(k) /\ PatchOf(k)
    /\ Verifying(k) /\ Evidenced(k) /\ Reason(k, revisions)

TasksInvariant == \A t \in Task : TaskInvariant(task[t], history)

\* Revisions are only added.
Extends(revisions, more) ==
    /\ DOMAIN revisions \subseteq DOMAIN more
    /\ \A i \in DOMAIN revisions : more[i] = revisions[i]

\* What holds of a task goes on to hold when revisions are added.
LEMMA InvariantExtends ==
  ASSUME NEW k, NEW revisions, NEW more, Extends(revisions, more), TaskInvariant(k, revisions)
  PROVE  TaskInvariant(k, more)
<1>1. Located(k, more)
  BY DEF TaskInvariant, Located, Extends, Working
<1>2. Reason(k, more)
  BY DEF TaskInvariant, Reason, Extends
<1>. QED
  BY <1>1, <1>2 DEF TaskInvariant

\* A step of one task keeps the invariant when its new record does.
LEMMA OneTask ==
  ASSUME TypeOK, TasksInvariant, NEW t \in Task, NEW k, Set(t, k), UNCHANGED repository,
         crashes' \in Nat, IsTask(k), TaskInvariant(k, history)
  PROVE  TypeOK' /\ TasksInvariant'
<1>1. history' = history /\ head' = head /\ edits' = edits
  BY DEF repository
<1>2. DOMAIN task' = Task /\ \A u \in Task : task'[u] = IF u = t THEN k ELSE task[u]
  BY DEF Set, TypeOK
<1>3. \A u \in Task : IsTask(task'[u])
  BY <1>2 DEF TypeOK
<1>4. \A u \in Task : TaskInvariant(task'[u], history')
  BY <1>1, <1>2 DEF TasksInvariant
<1>5. TypeOK'
  BY <1>1, <1>2, <1>3 DEF TypeOK
<1>6. TasksInvariant'
  BY <1>4 DEF TasksInvariant
<1>. QED
  BY <1>5, <1>6

LEMMA NoPatchTree == PartialTree(NoPatch) /\ DOMAIN NoPatch = {}
BY DEF PartialTree, NoPatch

\* A task before its first step, and after its worker was killed.
LEMMA IdleTask == IsTask(Idle) /\ TaskInvariant(Idle, history)
<1>1. /\ Idle.step = "idle" /\ Idle.verified = <<>> /\ Idle.patch = NoPatch /\ Idle.status = "running"
      /\ Idle.found = Nothing /\ Idle.stage.child = "none" /\ Idle.stage.held = FALSE
  BY DEF Idle, NoProcess
<1>2. IsTask(Idle)
  <2>1. <<>> \in Seq({"succeeded", "failed", "timed-out"})
    OBVIOUS
  <2>. QED
    BY <2>1, NoPatchTree DEF Idle, IsTask, NoProcess
<1>3. TaskInvariant(Idle, history)
  BY <1>1 DEF TaskInvariant, Admitted, Located, Silent, PatchOf, Verifying, Evidenced, Reason, Working
<1>. QED
  BY <1>2, <1>3

\* The fields of a task that is answered without its patch.
LEMMA UnavailableFields ==
  ASSUME NEW t \in Task, IsTask(task[t]), NEW found
  PROVE  LET k == Unavailable(t, found)
         IN  /\ k = [task[t] EXCEPT !.step = "answered", !.status = "failed", !.found = found,
                                    !.patch = NoPatch, !.verified = <<>>]
             /\ IsTask(k)
<1> DEFINE k == [task[t] EXCEPT !.step = "answered", !.status = "failed", !.found = found,
                                !.patch = NoPatch, !.verified = <<>>]
<1>1. Unavailable(t, found) = k
  BY DEF Unavailable, Answered, IsTask
<1>2. <<>> \in Seq({"succeeded", "failed", "timed-out"})
  OBVIOUS
<1>3. IsTask(k)
  BY <1>2, NoPatchTree DEF IsTask
<1>. QED
  BY <1>1, <1>3

LEMMA ClaimKeeps ==
  ASSUME TypeOK, TasksInvariant, NEW t \in Task, Claim(t)
  PROVE  TypeOK' /\ TasksInvariant'
<1>1. IsTask(task[t]) /\ TaskInvariant(task[t], history) /\ task[t].step = "idle"
      /\ UNCHANGED repository /\ crashes' \in Nat
  BY DEF Claim, TypeOK, TasksInvariant
<1>2. PICK r \in DOMAIN Requests :
        LET compiled == Compilation[r]
        IN  Set(t, IF ~Requests[r].valid
                   THEN [Unavailable(t, "worker.input-invalid") EXCEPT !.request = r]
                   ELSE IF compiled.diagnostics # {}
                   THEN [Unavailable(t, CHOOSE d \in compiled.diagnostics : TRUE)
                           EXCEPT !.request = r]
                   ELSE [task[t] EXCEPT !.step = "before", !.request = r])
  BY DEF Claim
<1>3. /\ task[t].verified = <<>> /\ task[t].patch = NoPatch /\ task[t].status = "running"
      /\ task[t].found = Nothing /\ task[t].stage.child # "running" /\ ~task[t].stage.held
  BY <1>1 DEF TaskInvariant, Admitted, Silent
<1>4. ASSUME NEW found, found \notin Verdicts, found = "worker.input-invalid" \/ ~Accepted(r),
             Set(t, [Unavailable(t, found) EXCEPT !.request = r])
      PROVE  TypeOK' /\ TasksInvariant'
  <2> DEFINE k == [Unavailable(t, found) EXCEPT !.request = r]
  <2>1. Unavailable(t, found) = [task[t] EXCEPT !.step = "answered", !.status = "failed", !.found = found,
                                                !.patch = NoPatch, !.verified = <<>>]
        /\ IsTask(Unavailable(t, found))
    BY <1>1, UnavailableFields
  <2>2. IsTask(k)
    BY <2>1 DEF IsTask
  <2>3. /\ k.step = "answered" /\ k.status = "failed" /\ k.found = found /\ k.patch = NoPatch
        /\ k.verified = <<>> /\ k.request = r
        /\ k.stage.child # "running" /\ ~k.stage.held
    BY <1>1, <1>3, <2>1 DEF IsTask
  <2> HIDE DEF k
  <2>4. Admitted(k) /\ Located(k, history) /\ Silent(k) /\ PatchOf(k) /\ Verifying(k)
    BY <2>3 DEF Admitted, Located, Silent, PatchOf, Verifying, Working
  <2>5. Evidenced(k)
    BY <1>4, <2>3 DEF Evidenced, Evidence, Verdicts
  <2>6. Reason(k, history)
    BY <1>4, <2>3 DEF Reason
  <2>7. TaskInvariant(k, history)
    BY <2>4, <2>5, <2>6 DEF TaskInvariant
  <2>8. Set(t, k)
    BY <1>4 DEF k
  <2>. QED
    BY <1>1, <2>2, <2>7, <2>8, OneTask
<1>5. CASE ~Requests[r].valid
  <2>1. Set(t, [Unavailable(t, "worker.input-invalid") EXCEPT !.request = r])
    BY <1>2, <1>5
  <2>. QED
    BY <1>4, <2>1 DEF Verdicts
<1>6. CASE Requests[r].valid /\ ~Accepted(r)
  <2> DEFINE d == CHOOSE d \in Compilation[r].diagnostics : TRUE
  <2>1. Set(t, [Unavailable(t, d) EXCEPT !.request = r])
    BY <1>2, <1>6 DEF Accepted
  <2>2. d \in Compilation[r].diagnostics
    BY <1>6 DEF Accepted
  <2> HIDE DEF d
  <2>3. d \notin Verdicts
    BY <2>2, DiagnosticCodes
  <2>. QED
    BY <1>4, <1>6, <2>1, <2>3
<1>7. CASE Requests[r].valid /\ Accepted(r)
  <2> DEFINE k == [task[t] EXCEPT !.step = "before", !.request = r]
  <2>1. Set(t, k)
    BY <1>2, <1>7 DEF Accepted
  <2>2. IsTask(k)
    BY <1>1 DEF IsTask
  <2>3. /\ k.step = "before" /\ k.request = r /\ k.verified = <<>> /\ k.patch = NoPatch
        /\ k.status = "running" /\ k.found = Nothing /\ k.stage.child # "running" /\ ~k.stage.held
    BY <1>1, <1>3 DEF IsTask
  <2> HIDE DEF k
  <2>4. Admitted(k) /\ Located(k, history) /\ Silent(k) /\ PatchOf(k) /\ Verifying(k)
    BY <1>7, <2>3 DEF Admitted, Located, Silent, PatchOf, Verifying, Working
  <2>5. Evidenced(k) /\ Reason(k, history)
    BY <2>3 DEF Evidenced, Reason
  <2>. QED
    BY <1>1, <2>1, <2>2, <2>4, <2>5, OneTask DEF TaskInvariant
<1>. QED
  BY <1>5, <1>6, <1>7

\* What the actions need to know of the task they step.
LEMMA TaskFacts ==
  ASSUME TypeOK, TasksInvariant, NEW t \in Task
  PROVE  /\ IsTask(task[t]) /\ TaskInvariant(task[t], history)
         /\ task[t].step \in Working => task[t].request \in DOMAIN Requests /\ Accepted(task[t].request)
         /\ task[t].step \in Working \ {"before"} => PlanFor(task[t]).base \in DOMAIN history
         /\ task[t].step # "running" => task[t].stage.child # "running" /\ ~task[t].stage.held
<1>1. IsTask(task[t]) /\ TaskInvariant(task[t], history)
  BY DEF TypeOK, TasksInvariant
<1>. QED
  BY <1>1 DEF TaskInvariant, Admitted, Located, Silent, Working

LEMMA CheckBeforeKeeps ==
  ASSUME TypeOK, TasksInvariant, NEW t \in Task, CheckBefore(t)
  PROVE  TypeOK' /\ TasksInvariant'
<1> DEFINE r == task[t].request
<1>1. /\ IsTask(task[t]) /\ TaskInvariant(task[t], history) /\ task[t].step = "before"
      /\ UNCHANGED repository /\ crashes' \in Nat
      /\ r \in DOMAIN Requests /\ Accepted(r)
      /\ task[t].stage.child # "running" /\ ~task[t].stage.held
  BY TaskFacts DEF CheckBefore, TypeOK, Working
<1>2. /\ task[t].verified = <<>> /\ task[t].patch = NoPatch /\ task[t].status = "running"
      /\ task[t].found = Nothing
  BY <1>1 DEF TaskInvariant, Admitted
<1>3. CASE Identified(Request(t))
  <2> DEFINE k == [task[t] EXCEPT !.step = "graph", !.left = Plan(t).maxVerification]
  <2>1. Set(t, k)
    BY <1>3 DEF CheckBefore
  <2>2. PlanFor(k).base \in DOMAIN history
    <3>1. head \in DOMAIN history
      BY DEF TypeOK
    <3>2. k.request = r
      BY <1>1 DEF IsTask
    <3>. QED
      BY <1>3, <3>1, <3>2 DEF Identified, Request, PlanFor
  <2>3. Plan(t).maxVerification \in Nat
    BY <1>1, RequestTypes DEF Plan, Request, PlanRecord
  <2>4. IsTask(k)
    BY <1>1, <2>3 DEF IsTask
  <2>5. /\ k.step = "graph" /\ k.request = r /\ k.verified = <<>> /\ k.patch = NoPatch
        /\ k.status = "running" /\ k.found = Nothing /\ k.stage.child # "running" /\ ~k.stage.held
    BY <1>1, <1>2 DEF IsTask
  <2> HIDE DEF k
  <2>6. Admitted(k) /\ Located(k, history) /\ Silent(k) /\ PatchOf(k) /\ Verifying(k)
    BY <1>1, <2>2, <2>5 DEF Admitted, Located, Silent, PatchOf, Verifying, Working
  <2>7. Evidenced(k) /\ Reason(k, history)
    BY <2>5 DEF Evidenced, Reason
  <2>. QED
    BY <1>1, <2>1, <2>4, <2>6, <2>7, OneTask DEF TaskInvariant
<1>4. CASE ~Identified(Request(t))
  <2> DEFINE k == Unavailable(t, "worker.repository-identity-mismatch")
  <2>1. Set(t, k)
    BY <1>4 DEF CheckBefore
  <2>2. /\ k = [task[t] EXCEPT !.step = "answered", !.status = "failed",
                               !.found = "worker.repository-identity-mismatch",
                               !.patch = NoPatch, !.verified = <<>>]
        /\ IsTask(k)
    BY <1>1, UnavailableFields
  <2>3. /\ k.step = "answered" /\ k.status = "failed" /\ k.found = "worker.repository-identity-mismatch"
        /\ k.patch = NoPatch /\ k.verified = <<>> /\ k.request = r
        /\ k.stage.child # "running" /\ ~k.stage.held
    <3> HIDE DEF k
    <3>. QED
      BY <1>1, <2>2 DEF IsTask
  <2> HIDE DEF k
  <2>4. Admitted(k) /\ Located(k, history) /\ Silent(k) /\ PatchOf(k) /\ Verifying(k)
    BY <1>1, <2>3 DEF Admitted, Located, Silent, PatchOf, Verifying, Working
  <2>5. Evidenced(k) /\ Reason(k, history)
    BY <2>3 DEF Evidenced, Evidence, Reason
  <2>. QED
    BY <1>1, <2>1, <2>2, <2>4, <2>5, OneTask DEF TaskInvariant
<1>. QED
  BY <1>3, <1>4

LEMMA CheckAfterKeeps ==
  ASSUME TypeOK, TasksInvariant, NEW t \in Task, CheckAfter(t)
  PROVE  TypeOK' /\ TasksInvariant'
<1> DEFINE r == task[t].request
<1>1. /\ IsTask(task[t]) /\ TaskInvariant(task[t], history) /\ task[t].step = "after"
      /\ UNCHANGED repository /\ crashes' \in Nat
      /\ r \in DOMAIN Requests /\ Accepted(r)
      /\ task[t].stage.child # "running" /\ ~task[t].stage.held
  BY TaskFacts DEF CheckAfter, TypeOK, Working
<1>2. Evidence(task[t]) /\ Reason(task[t], history) /\ PatchOf(task[t])
  BY <1>1 DEF TaskInvariant, Evidenced
<1>3. CASE Identified(Request(t))
  <2> DEFINE k == [task[t] EXCEPT !.step = "answered"]
  <2>1. Answered(t, task[t].status, task[t].found) = k
    BY <1>1 DEF Answered, IsTask
  <2>2. Set(t, k)
    BY <1>3, <2>1 DEF CheckAfter, Final
  <2>3. IsTask(k)
    BY <1>1 DEF IsTask
  <2>4. /\ k.step = "answered" /\ k.status = task[t].status /\ k.found = task[t].found
        /\ k.patch = task[t].patch /\ k.verified = task[t].verified /\ k.request = r
        /\ k.stage = task[t].stage
    BY <1>1 DEF IsTask
  <2> HIDE DEF k
  <2>5. Admitted(k) /\ Located(k, history) /\ Silent(k) /\ Verifying(k)
    BY <1>1, <2>4 DEF Admitted, Located, Silent, Verifying, Working
  <2>6. PatchOf(k)
    BY <1>1, <1>2, <2>4 DEF PatchOf
  <2>7. Evidenced(k)
    BY <1>2, <2>4 DEF Evidenced, Evidence, PlanFor
  <2>8. Reason(k, history)
    BY <1>1, <1>2, <2>4 DEF Reason, PlanFor
  <2>. QED
    BY <1>1, <2>2, <2>3, <2>5, <2>6, <2>7, <2>8, OneTask DEF TaskInvariant
<1>4. CASE ~Identified(Request(t))
  <2> DEFINE k == Unavailable(t, "worker.repository-identity-mismatch")
  <2>1. Set(t, k)
    BY <1>4 DEF CheckAfter, Final
  <2>2. /\ k = [task[t] EXCEPT !.step = "answered", !.status = "failed",
                               !.found = "worker.repository-identity-mismatch",
                               !.patch = NoPatch, !.verified = <<>>]
        /\ IsTask(k)
    BY <1>1, UnavailableFields
  <2>3. /\ k.step = "answered" /\ k.status = "failed" /\ k.found = "worker.repository-identity-mismatch"
        /\ k.patch = NoPatch /\ k.verified = <<>> /\ k.request = r
        /\ k.stage.child # "running" /\ ~k.stage.held
    <3> HIDE DEF k
    <3>. QED
      BY <1>1, <2>2 DEF IsTask
  <2> HIDE DEF k
  <2>4. Admitted(k) /\ Located(k, history) /\ Silent(k) /\ PatchOf(k) /\ Verifying(k)
    BY <1>1, <2>3 DEF Admitted, Located, Silent, PatchOf, Verifying, Working
  <2>5. Evidenced(k) /\ Reason(k, history)
    BY <2>3 DEF Evidenced, Evidence, Reason
  <2>. QED
    BY <1>1, <2>1, <2>2, <2>4, <2>5, OneTask DEF TaskInvariant
<1>. QED
  BY <1>3, <1>4

\* A task that fails in its worktree keeps what it has collected.
LEMMA FailedTask ==
  ASSUME NEW k, NEW found, IsTask(k), k.request \in DOMAIN Requests, Accepted(k.request),
         k.step # "idle", PlanFor(k).base \in DOMAIN history,
         k.stage.child # "running", ~k.stage.held, PatchOf(k),
         Evidence(Failed(k, found)), Reason(Failed(k, found), history)
  PROVE  IsTask(Failed(k, found)) /\ TaskInvariant(Failed(k, found), history)
<1> DEFINE f == Failed(k, found)
<1>1. IsTask(f)
  BY DEF IsTask, Failed
<1>2. /\ f.step = "cleanup" /\ f.request = k.request /\ f.patch = k.patch /\ f.stage = k.stage
  BY DEF IsTask, Failed
<1> HIDE DEF f
<1>3. Admitted(f) /\ Located(f, history) /\ Silent(f) /\ Verifying(f)
  BY <1>2 DEF Admitted, Located, Silent, Verifying, Working, PlanFor
<1>4. PatchOf(f)
  BY <1>2 DEF PatchOf
<1>5. Evidenced(f) /\ Reason(f, history)
  BY DEF Evidenced, f
<1>. QED
  BY <1>1, <1>3, <1>4, <1>5 DEF TaskInvariant, f

\* Before its stages a task fails with nothing to show.
LEMMA FailedEarly ==
  ASSUME NEW k, NEW found, IsTask(k), TaskInvariant(k, history),
         k.step \in {"graph", "checkout", "preflight", "apply"}, found \notin Verdicts,
         \/ found \in {"executor.max-patch-bytes-exceeded", "executor.unexpected-failure"}
         \/ found = "executor.profile-digest-mismatch" /\ ~Requests[k.request].profile.canonical
         \/ found = "verification.profile-unavailable" /\ PlanFor(k).verification \notin DOMAIN Trusted
         \/ found = "executor.max-files-exceeded" /\ \E o \in PlanFor(k).outputs : o.kind = "evidence"
         \/ /\ found \in TargetRefusals
            /\ \E o \in Reviewed(k.request) :
                 Requests[k.request].files[o.path] # history[PlanFor(k).base][o.path]
  PROVE  IsTask(Failed(k, found)) /\ TaskInvariant(Failed(k, found), history)
<1> DEFINE f == Failed(k, found)
<1>1. /\ k.request \in DOMAIN Requests /\ Accepted(k.request) /\ k.step # "idle"
      /\ PlanFor(k).base \in DOMAIN history /\ k.stage.child # "running" /\ ~k.stage.held /\ PatchOf(k)
      /\ k.patch = NoPatch /\ k.verified = <<>>
  BY DEF TaskInvariant, Admitted, Located, Silent, Working
<1>2. /\ f.status = "failed" /\ f.found = found /\ f.patch = NoPatch /\ f.verified = <<>>
      /\ f.request = k.request
  BY <1>1 DEF IsTask, Failed
<1> HIDE DEF f
<1>3. Evidence(f)
  BY <1>2 DEF Evidence, Verdicts
<1>4. Reason(f, history)
  BY <1>1, <1>2 DEF Reason, PlanFor
<1>. QED
  BY <1>1, <1>3, <1>4, FailedTask DEF f

LEMMA CheckGraphKeeps ==
  ASSUME TypeOK, TasksInvariant, NEW t \in Task, CheckGraph(t)
  PROVE  TypeOK' /\ TasksInvariant'
<1> DEFINE r == task[t].request
<1> DEFINE refusal == GraphRefusal(Requests[r].plan, Requests[r].profile, Compilation[r].graph)
<1>1. /\ IsTask(task[t]) /\ TaskInvariant(task[t], history) /\ task[t].step = "graph"
      /\ UNCHANGED repository /\ crashes' \in Nat
      /\ r \in DOMAIN Requests /\ Accepted(r) /\ PlanFor(task[t]).base \in DOMAIN history
  BY TaskFacts DEF CheckGraph, TypeOK, Working
<1>2. Verdict[r] = refusal
  BY <1>1 DEF Verdict
<1>3. \/ refusal = Nothing /\ Requests[r].plan.verification \in DOMAIN Trusted
      \/ refusal = "executor.profile-digest-mismatch" /\ ~Requests[r].profile.canonical
      \/ refusal = "verification.profile-unavailable" /\ Requests[r].plan.verification \notin DOMAIN Trusted
      \/ refusal = "executor.max-files-exceeded" /\ \E o \in Requests[r].plan.outputs : o.kind = "evidence"
  BY <1>1, RefusalReasons
<1>4. PlanFor(task[t]) = Requests[r].plan /\ Plan(t) = Requests[r].plan
  BY DEF PlanFor, Plan, Request
<1> HIDE DEF refusal
<1>5. CASE refusal # Nothing
  <2>1. Set(t, Failed(task[t], refusal))
    BY <1>2, <1>5 DEF CheckGraph
  <2>2. IsTask(Failed(task[t], refusal)) /\ TaskInvariant(Failed(task[t], refusal), history)
    <3>1. refusal \notin Verdicts
      BY <1>3, <1>5 DEF Verdicts
    <3>. QED
      BY <1>1, <1>3, <1>4, <1>5, <3>1, FailedEarly
  <2>. QED
    BY <1>1, <2>1, <2>2, OneTask
<1>6. CASE refusal = Nothing
  <2> DEFINE k == [task[t] EXCEPT !.step = "checkout"]
  <2>1. Set(t, k)
    BY <1>1, <1>2, <1>4, <1>6 DEF CheckGraph
  <2>2. IsTask(k)
    BY <1>1 DEF IsTask
  <2>3. /\ k.step = "checkout" /\ k.request = r /\ k.verified = task[t].verified /\ k.patch = task[t].patch
        /\ k.status = task[t].status /\ k.found = task[t].found /\ k.stage = task[t].stage
    BY <1>1 DEF IsTask
  <2>4. Requests[r].plan.verification \in DOMAIN Trusted
    BY <1>3, <1>6 DEF Nothing
  <2> HIDE DEF k
  <2>5. Admitted(k) /\ Silent(k) /\ Verifying(k)
    BY <1>1, <2>3 DEF TaskInvariant, Admitted, Silent, Verifying, Working
  <2>6. Located(k, history)
    BY <1>1, <2>3, <2>4 DEF Located, PlanFor
  <2>7. PatchOf(k) /\ Evidenced(k) /\ Reason(k, history)
    BY <1>1, <2>3 DEF TaskInvariant, PatchOf, Admitted, Evidenced, Reason
  <2>. QED
    BY <1>1, <2>1, <2>2, <2>5, <2>6, <2>7, OneTask DEF TaskInvariant
<1>. QED
  BY <1>5, <1>6

LEMMA TreeIsPartial ==
  ASSUME NEW tree \in Tree
  PROVE  PartialTree(tree)
BY DEF Tree, PartialTree

LEMMA AddWorktreeKeeps ==
  ASSUME TypeOK, TasksInvariant, NEW t \in Task, AddWorktree(t)
  PROVE  TypeOK' /\ TasksInvariant'
<1> DEFINE r == task[t].request
<1>1. /\ IsTask(task[t]) /\ TaskInvariant(task[t], history) /\ task[t].step = "checkout"
      /\ UNCHANGED repository /\ crashes' \in Nat
      /\ r \in DOMAIN Requests /\ Accepted(r) /\ PlanFor(task[t]).base \in DOMAIN history
  BY TaskFacts DEF AddWorktree, TypeOK, Working
<1>2. PlanFor(task[t]) = Requests[r].plan /\ Plan(t) = Requests[r].plan
  BY DEF PlanFor, Plan, Request
<1>3. CASE Set(t, [task[t] EXCEPT !.step = "preflight", !.worktree = TRUE,
                                  !.checkout = history[Plan(t).base]])
  <2> DEFINE k == [task[t] EXCEPT !.step = "preflight", !.worktree = TRUE,
                                  !.checkout = history[Plan(t).base]]
  <2>1. PartialTree(history[Plan(t).base])
    <3>1. history[Plan(t).base] \in Tree
      BY <1>1, <1>2 DEF TypeOK
    <3>. QED
      BY <3>1, TreeIsPartial
  <2>2. IsTask(k)
    BY <1>1, <2>1 DEF IsTask
  <2>3. /\ k.step = "preflight" /\ k.request = r /\ k.verified = task[t].verified /\ k.patch = task[t].patch
        /\ k.status = task[t].status /\ k.found = task[t].found /\ k.stage = task[t].stage
        /\ k.checkout = history[Plan(t).base]
    BY <1>1 DEF IsTask
  <2> HIDE DEF k
  <2>4. Admitted(k) /\ Silent(k) /\ Verifying(k)
    BY <1>1, <2>3 DEF TaskInvariant, Admitted, Silent, Verifying, Working
  <2>5. Located(k, history)
    BY <1>1, <1>2, <2>3 DEF TaskInvariant, Located, PlanFor
  <2>6. PatchOf(k) /\ Evidenced(k) /\ Reason(k, history)
    BY <1>1, <2>3 DEF TaskInvariant, PatchOf, Admitted, Evidenced, Reason
  <2>. QED
    BY <1>1, <1>3, <2>2, <2>4, <2>5, <2>6, OneTask DEF TaskInvariant, k
<1>4. CASE Set(t, Failed(task[t], "executor.unexpected-failure"))
  <2>1. /\ IsTask(Failed(task[t], "executor.unexpected-failure"))
        /\ TaskInvariant(Failed(task[t], "executor.unexpected-failure"), history)
    BY <1>1, FailedEarly DEF Verdicts
  <2>. QED
    BY <1>1, <1>4, <2>1, OneTask
<1>. QED
  BY <1>3, <1>4 DEF AddWorktree

LEMMA CheckTargetsKeeps ==
  ASSUME TypeOK, TasksInvariant, NEW t \in Task, CheckTargets(t)
  PROVE  TypeOK' /\ TasksInvariant'
<1> DEFINE r == task[t].request
<1> DEFINE refusal == Preflight(Compilation[r].graph, task[t].checkout)
<1>1. /\ IsTask(task[t]) /\ TaskInvariant(task[t], history) /\ task[t].step = "preflight"
      /\ UNCHANGED repository /\ crashes' \in Nat
      /\ r \in DOMAIN Requests /\ Accepted(r) /\ PlanFor(task[t]).base \in DOMAIN history
  BY TaskFacts DEF CheckTargets, TypeOK, Working
<1>2. task[t].checkout = history[PlanFor(task[t]).base]
  BY <1>1 DEF TaskInvariant, Located
<1>3. task[t].checkout \in Tree
  BY <1>1, <1>2 DEF TypeOK
<1>4. \/ refusal = Nothing
      \/ /\ refusal \in TargetRefusals
         /\ \E o \in Reviewed(r) : Requests[r].files[o.path] # task[t].checkout[o.path]
  BY <1>1, <1>3, PreflightRefusals
<1>5. Graph(t) = Compilation[r].graph
  BY DEF Graph
<1> HIDE DEF refusal
<1>6. CASE refusal # Nothing
  <2>1. Set(t, Failed(task[t], refusal))
    BY <1>5, <1>6 DEF CheckTargets, refusal
  <2>2. IsTask(Failed(task[t], refusal)) /\ TaskInvariant(Failed(task[t], refusal), history)
    <3>1. refusal \notin Verdicts
      BY <1>4, <1>6 DEF Verdicts, TargetRefusals
    <3>. QED
      BY <1>1, <1>2, <1>4, <1>6, <3>1, FailedEarly
  <2>. QED
    BY <1>1, <2>1, <2>2, OneTask
<1>7. CASE refusal = Nothing
  <2> DEFINE k == [task[t] EXCEPT !.step = "apply"]
  <2>1. Set(t, k)
    BY <1>5, <1>7 DEF CheckTargets, refusal
  <2>2. IsTask(k)
    BY <1>1 DEF IsTask
  <2>3. /\ k.step = "apply" /\ k.request = r /\ k.verified = task[t].verified /\ k.patch = task[t].patch
        /\ k.status = task[t].status /\ k.found = task[t].found /\ k.stage = task[t].stage
        /\ k.checkout = task[t].checkout
    BY <1>1 DEF IsTask
  <2> HIDE DEF k
  <2>4. Admitted(k) /\ Silent(k) /\ Verifying(k)
    BY <1>1, <2>3 DEF TaskInvariant, Admitted, Silent, Verifying, Working
  <2>5. Located(k, history)
    BY <1>1, <1>2, <1>7, <2>3 DEF TaskInvariant, Located, PlanFor, refusal
  <2>6. PatchOf(k) /\ Evidenced(k) /\ Reason(k, history)
    BY <1>1, <2>3 DEF TaskInvariant, PatchOf, Admitted, Evidenced, Reason
  <2>. QED
    BY <1>1, <2>1, <2>2, <2>4, <2>5, <2>6, OneTask DEF TaskInvariant
<1>. QED
  BY <1>6, <1>7

\* The worktree of a task matters until its operations are applied.
LEMMA ApplyKeeps ==
  ASSUME TypeOK, TasksInvariant, NEW t \in Task, Apply(t)
  PROVE  TypeOK' /\ TasksInvariant'
<1> DEFINE r == task[t].request
<1> DEFINE applied == Applied(Compilation[r].graph, task[t].checkout)
<1> DEFINE patch == Difference(task[t].checkout, applied)
<1> DEFINE written == [task[t] EXCEPT !.checkout = applied]
<1>1. /\ IsTask(task[t]) /\ TaskInvariant(task[t], history) /\ task[t].step = "apply"
      /\ UNCHANGED repository /\ crashes' \in Nat
      /\ r \in DOMAIN Requests /\ Accepted(r) /\ PlanFor(task[t]).base \in DOMAIN history
  BY TaskFacts DEF Apply, TypeOK, Working
<1>2. /\ task[t].checkout = history[PlanFor(task[t]).base]
      /\ Preflight(Compilation[r].graph, task[t].checkout) = Nothing
      /\ PlanFor(task[t]).verification \in DOMAIN Trusted
  BY <1>1 DEF TaskInvariant, Located
<1>3. task[t].checkout \in Tree
  BY <1>1, <1>2 DEF TypeOK
<1>4. applied \in Tree
  BY <1>1, <1>3, AppliedTree
<1>5. /\ DOMAIN patch = {o.path : o \in Reviewed(r)}
      /\ \A o \in Reviewed(r) : patch[o.path] = o.content
      /\ patch # NoPatch
  BY <1>1, <1>2, <1>3, PatchOfReviewed
<1>6. \A o \in Reviewed(r) : o.path \in DOMAIN FirstTree /\ o.content \in Contents
  BY <1>1, ReviewedOperations
<1>7. Graph(t) = Compilation[r].graph /\ Plan(t) = Requests[r].plan /\ PlanFor(task[t]) = Plan(t)
  BY DEF Graph, Plan, Request, PlanFor
<1> HIDE DEF applied, patch
<1>8. PartialTree(applied) /\ PartialTree(patch)
  BY <1>4, <1>5, <1>6, TreeIsPartial DEF PartialTree, Entries
<1>9. IsTask(written)
  BY <1>1, <1>8 DEF IsTask
<1>10. /\ written.step = "apply" /\ written.request = r /\ written.verified = task[t].verified
       /\ written.patch = task[t].patch /\ written.status = task[t].status
       /\ written.found = task[t].found /\ written.stage = task[t].stage
  BY <1>1 DEF IsTask
<1>11. /\ Admitted(task[t]) /\ Silent(task[t])
       /\ task[t].verified = <<>> /\ task[t].patch = NoPatch /\ task[t].status = "running"
       /\ task[t].found = Nothing
  BY <1>1 DEF TaskInvariant, Admitted
<1>12. \/ Set(t, IF PatchBytes(patch) > Plan(t).maxPatchBytes
                THEN Failed(written, "executor.max-patch-bytes-exceeded")
                ELSE [written EXCEPT !.step = "stage", !.patch = patch])
       \/ Set(t, Failed(written, "executor.unexpected-failure"))
  <2>1. Applied(Graph(t), task[t].checkout) = applied
    BY <1>7 DEF applied
  <2>2. Difference(history[Plan(t).base], applied) = patch
    BY <1>2, <1>7 DEF patch
  <2>. QED
    BY <2>1, <2>2 DEF Apply
<1> HIDE DEF written
<1>13. ASSUME NEW found \in {"executor.max-patch-bytes-exceeded", "executor.unexpected-failure"}
       PROVE  IsTask(Failed(written, found)) /\ TaskInvariant(Failed(written, found), history)
  <2> DEFINE f == Failed(written, found)
  <2>1. /\ f.status = "failed" /\ f.found = found /\ f.patch = NoPatch /\ f.verified = <<>>
        /\ f.request = r
    BY <1>9, <1>10, <1>11 DEF IsTask, Failed
  <2>2. written.step # "idle" /\ PlanFor(written).base \in DOMAIN history
        /\ written.stage.child # "running" /\ ~written.stage.held /\ PatchOf(written)
    BY <1>1, <1>10, <1>11 DEF PlanFor, Silent, PatchOf
  <2> HIDE DEF f
  <2>3. Evidence(f)
    BY <2>1 DEF Evidence
  <2>4. Reason(f, history)
    BY <2>1 DEF Reason
  <2>. QED
    BY <1>1, <1>9, <1>10, <2>2, <2>3, <2>4, FailedTask DEF f
<1>14. CASE \E found \in {"executor.max-patch-bytes-exceeded", "executor.unexpected-failure"} :
              Set(t, Failed(written, found))
  BY <1>1, <1>13, <1>14, OneTask
<1>15. CASE Set(t, [written EXCEPT !.step = "stage", !.patch = patch])
  <2> DEFINE k == [written EXCEPT !.step = "stage", !.patch = patch]
  <2>1. IsTask(k)
    BY <1>8, <1>9 DEF IsTask
  <2>2. /\ k.step = "stage" /\ k.request = r /\ k.verified = <<>> /\ k.patch = patch
        /\ k.status = "running" /\ k.found = Nothing /\ k.stage = task[t].stage
    BY <1>9, <1>10, <1>11 DEF IsTask
  <2> HIDE DEF k
  <2>3. Admitted(k) /\ Silent(k)
    BY <1>1, <1>11, <2>2 DEF Admitted, Silent
  <2>4. Located(k, history)
    BY <1>1, <1>2, <2>2 DEF Located, PlanFor
  <2>5. PatchOf(k)
    BY <1>1, <1>5, <2>2 DEF PatchOf
  <2>6. Verifying(k)
    <3>1. Trusted[PlanFor(k).verification] \in Seq(Nat)
      BY <1>2, <2>2, TaskAssumption DEF PlanFor
    <3>2. Len(k.verified) <= Len(Trusted[PlanFor(k).verification]) /\ AllSucceeded(k.verified)
      BY <2>2, <3>1 DEF AllSucceeded
    <3>. QED
      BY <1>5, <2>2, <3>2 DEF Verifying
  <2>7. Evidenced(k) /\ Reason(k, history)
    BY <2>2 DEF Evidenced, Reason
  <2>. QED
    BY <1>1, <1>15, <2>1, <2>3, <2>4, <2>5, <2>6, <2>7, OneTask DEF TaskInvariant, k
<1>. QED
  BY <1>12, <1>14, <1>15

\* The outcomes of the stages with one more.
LEMMA OneMoreOutcome ==
  ASSUME NEW verified \in Seq({"succeeded", "failed", "timed-out"}),
         NEW status \in {"succeeded", "failed", "timed-out"}
  PROVE  LET more == Append(verified, status)
         IN  /\ more \in Seq({"succeeded", "failed", "timed-out"})
             /\ Len(more) = Len(verified) + 1
             /\ Last(more) = status /\ Front(more) = verified
             /\ AllSucceeded(verified) /\ status = "succeeded" => AllSucceeded(more)
<1> DEFINE more == Append(verified, status)
<1>1. more \in Seq({"succeeded", "failed", "timed-out"}) /\ Len(more) = Len(verified) + 1
  OBVIOUS
<1>2. /\ \A i \in 1 .. Len(verified) : more[i] = verified[i]
      /\ more[Len(verified) + 1] = status
  OBVIOUS
<1>3. Last(more) = status
  BY <1>1, <1>2 DEF Last
<1>4. Front(more) = verified
  <2>1. Front(more) = SubSeq(more, 1, Len(verified))
    BY <1>1 DEF Front
  <2>2. Len(verified) \in Nat /\ verified = [i \in 1 .. Len(verified) |-> verified[i]]
    OBVIOUS
  <2> HIDE DEF more
  <2>3. SubSeq(more, 1, Len(verified)) = [i \in 1 .. Len(verified) |-> more[i]]
    BY <1>1, <2>2
  <2>. QED
    BY <1>2, <2>1, <2>2, <2>3
<1>5. ASSUME AllSucceeded(verified), status = "succeeded"
      PROVE  AllSucceeded(more)
  <2>1. DOMAIN more = 1 .. Len(verified) + 1
    BY <1>1
  <2> HIDE DEF more
  <2>2. \A i \in 1 .. Len(verified) + 1 : more[i] = "succeeded"
    <3> TAKE i \in 1 .. Len(verified) + 1
    <3>1. Len(verified) \in Nat
      OBVIOUS
    <3>2. CASE i = Len(verified) + 1
      BY <1>2, <1>5, <3>2
    <3>3. CASE i \in 1 .. Len(verified)
      BY <1>2, <1>5, <3>3 DEF AllSucceeded
    <3>. QED
      BY <3>1, <3>2, <3>3
  <2>. QED
    BY <2>1, <2>2 DEF AllSucceeded
<1>. QED
  BY <1>1, <1>3, <1>4, <1>5

\* The evidence of a stage that has ended, of a task whose stages all succeeded
\* before.
LEMMA RecordedTask ==
  ASSUME TypeOK, TasksInvariant, NEW t \in Task, task[t].step \in {"stage", "running"},
         ~task[t].stage.held, Len(task[t].verified) < Len(Stages(t)),
         NEW status \in {"succeeded", "failed", "timed-out"}
  PROVE  IsTask(Recorded(t, status)) /\ TaskInvariant(Recorded(t, status), history)
<1> DEFINE r == task[t].request
<1> DEFINE more == Append(task[t].verified, status)
<1> DEFINE stage == [NoProcess EXCEPT !.held = task[t].stage.held]
<1> DEFINE record == [task[t] EXCEPT !.verified = more, !.stage = stage]
<1>1. /\ IsTask(task[t]) /\ TaskInvariant(task[t], history)
      /\ r \in DOMAIN Requests /\ Accepted(r) /\ PlanFor(task[t]).base \in DOMAIN history
  BY TaskFacts DEF Working
<1>2. /\ task[t].patch # NoPatch /\ task[t].status = "running" /\ task[t].found = Nothing
      /\ AllSucceeded(task[t].verified) /\ PatchOf(task[t])
      /\ PlanFor(task[t]).verification \in DOMAIN Trusted
      /\ Stages(t) = Trusted[PlanFor(task[t]).verification]
  BY <1>1 DEF TaskInvariant, Verifying, Located, Stages, PlanFor, Plan, Request
<1>3. Trusted[PlanFor(task[t]).verification] \in Seq(Nat)
  BY <1>2, TaskAssumption
<1>4. task[t].verified \in Seq({"succeeded", "failed", "timed-out"})
  BY <1>1 DEF IsTask
<1>5. /\ more \in Seq({"succeeded", "failed", "timed-out"})
      /\ Len(more) = Len(task[t].verified) + 1
      /\ Last(more) = status /\ Front(more) = task[t].verified
      /\ status = "succeeded" => AllSucceeded(more)
  BY <1>2, <1>4, OneMoreOutcome
<1>6. /\ stage \in [child : {"none", "running", "ended"}, held : BOOLEAN, timer : Nat,
                      timedOut : BOOLEAN, exit : {Nothing, "zero", "other"}]
      /\ stage.child = "none" /\ stage.held = task[t].stage.held
  <2>1. task[t].stage.held \in BOOLEAN
    BY <1>1 DEF IsTask
  <2>. QED
    BY <2>1 DEF NoProcess
<1> HIDE DEF more, stage
<1>7. IsTask(record)
  BY <1>1, <1>5, <1>6 DEF IsTask
<1>8. /\ record.step = task[t].step /\ record.request = r /\ record.verified = more
      /\ record.patch = task[t].patch /\ record.status = "running" /\ record.found = Nothing
      /\ record.stage.child = "none" /\ ~record.stage.held
  BY <1>1, <1>2, <1>6 DEF IsTask
<1>9. Recorded(t, status) = CASE status = "succeeded" -> [record EXCEPT !.step = "stage"]
                              [] status = "timed-out" -> Failed(record, "verification.timeout")
                              [] OTHER -> Failed(record, "verification.failed")
  BY DEF Recorded, more, stage
<1> HIDE DEF record
<1>10. CASE status = "succeeded"
  <2> DEFINE k == [record EXCEPT !.step = "stage"]
  <2>1. Recorded(t, status) = k
    BY <1>9, <1>10
  <2>2. IsTask(k)
    BY <1>7 DEF IsTask
  <2>3. /\ k.step = "stage" /\ k.request = r /\ k.verified = more
        /\ k.patch = task[t].patch /\ k.status = "running" /\ k.found = Nothing
        /\ k.stage.child = "none" /\ ~k.stage.held
    BY <1>7, <1>8 DEF IsTask
  <2> HIDE DEF k
  <2>4. Admitted(k) /\ Silent(k) /\ Evidenced(k) /\ Reason(k, history)
    BY <1>1, <2>3 DEF Admitted, Silent, Evidenced, Reason
  <2>5. Located(k, history)
    BY <1>1, <1>2, <2>3 DEF Located, PlanFor
  <2>6. PatchOf(k)
    BY <1>1, <1>2, <2>3 DEF PatchOf
  <2>7. Len(more) <= Len(Stages(t))
    BY <1>2, <1>3, <1>4, <1>5
  <2>8. Verifying(k)
    BY <1>2, <1>5, <1>10, <2>3, <2>7 DEF Verifying, PlanFor
  <2>. QED
    BY <2>1, <2>2, <2>4, <2>5, <2>6, <2>8 DEF TaskInvariant
<1>11. CASE status # "succeeded"
  <2> DEFINE found == IF status = "timed-out" THEN "verification.timeout" ELSE "verification.failed"
  <2>1. Recorded(t, status) = Failed(record, found)
    BY <1>9, <1>11
  <2>2. /\ record.step # "idle" /\ PlanFor(record).base \in DOMAIN history
        /\ record.stage.child # "running" /\ ~record.stage.held
    BY <1>1, <1>8 DEF PlanFor
  <2>3. PatchOf(record)
    BY <1>1, <1>2, <1>8 DEF PatchOf
  <2> DEFINE f == Failed(record, found)
  <2>4. f.status = "failed" /\ f.found = found /\ f.patch = task[t].patch /\ f.verified = more
    BY <1>7, <1>8 DEF IsTask, Failed
  <2> HIDE DEF f
  <2>5. Evidence(f)
    BY <1>2, <1>5, <1>11, <2>4 DEF Evidence
  <2>6. Reason(f, history)
    BY <2>4 DEF Reason
  <2>. QED
    BY <1>1, <1>7, <1>8, <2>1, <2>2, <2>3, <2>5, <2>6, FailedTask DEF f
<1>. QED
  BY <1>10, <1>11

LEMMA StartStageKeeps ==
  ASSUME TypeOK, TasksInvariant, NEW t \in Task, StartStage(t)
  PROVE  TypeOK' /\ TasksInvariant'
<1> DEFINE r == task[t].request
<1> DEFINE n == Len(task[t].verified) + 1
<1>1. /\ IsTask(task[t]) /\ TaskInvariant(task[t], history) /\ task[t].step = "stage"
      /\ UNCHANGED repository /\ crashes' \in Nat
      /\ r \in DOMAIN Requests /\ Accepted(r) /\ PlanFor(task[t]).base \in DOMAIN history
      /\ task[t].stage.child # "running" /\ ~task[t].stage.held
  BY TaskFacts DEF StartStage, TypeOK, Working
<1>2. /\ task[t].patch # NoPatch /\ task[t].status = "running" /\ task[t].found = Nothing
      /\ AllSucceeded(task[t].verified) /\ PatchOf(task[t])
      /\ PlanFor(task[t]).verification \in DOMAIN Trusted
      /\ Stages(t) = Trusted[PlanFor(task[t]).verification]
      /\ Len(task[t].verified) <= Len(Stages(t))
  BY <1>1 DEF TaskInvariant, Verifying, Located, Stages, PlanFor, Plan, Request
<1>3. Stages(t) \in Seq(Nat)
  BY <1>2, TaskAssumption
<1>4. /\ task[t].verified \in Seq({"succeeded", "failed", "timed-out"}) /\ task[t].left \in Nat
      /\ Len(task[t].verified) \in Nat /\ Len(Stages(t)) \in Nat
  BY <1>1, <1>3 DEF IsTask
<1>5. CASE n > Len(Stages(t))
  <2> DEFINE k == [task[t] EXCEPT !.step = "cleanup", !.status = "succeeded"]
  <2>1. Set(t, k)
    BY <1>5 DEF StartStage
  <2>2. IsTask(k)
    BY <1>1 DEF IsTask
  <2>3. /\ k.step = "cleanup" /\ k.request = r /\ k.verified = task[t].verified
        /\ k.patch = task[t].patch /\ k.status = "succeeded" /\ k.found = Nothing
        /\ k.stage = task[t].stage
    BY <1>1, <1>2 DEF IsTask
  <2> HIDE DEF k
  <2>4. Len(task[t].verified) = Len(Stages(t))
    BY <1>2, <1>4, <1>5
  <2>5. Evidenced(k)
    BY <1>2, <2>3, <2>4 DEF Evidenced, Evidence, PlanFor
  <2>6. Admitted(k) /\ Silent(k) /\ Verifying(k) /\ Reason(k, history)
    BY <1>1, <2>3 DEF Admitted, Silent, Verifying, Reason
  <2>7. Located(k, history) /\ PatchOf(k)
    BY <1>1, <1>2, <2>3 DEF Located, PatchOf, PlanFor
  <2>. QED
    BY <1>1, <2>1, <2>2, <2>5, <2>6, <2>7, OneTask DEF TaskInvariant
<1>6. CASE n <= Len(Stages(t)) /\ task[t].left = 0
  <2> DEFINE f == Failed(task[t], "verification.timeout")
  <2>1. Set(t, f)
    <3>1. ~(n > Len(Stages(t)))
      BY <1>4, <1>6
    <3>. QED
      BY <1>6, <3>1 DEF StartStage
  <2>2. /\ f.status = "failed" /\ f.found = "verification.timeout"
        /\ f.patch = task[t].patch /\ f.verified = task[t].verified /\ f.request = r
    BY <1>1 DEF IsTask, Failed
  <2>3. Len(task[t].verified) < Len(Stages(t))
    BY <1>4, <1>6
  <2> HIDE DEF f
  <2>4. Evidence(f)
    BY <1>2, <2>2, <2>3 DEF Evidence, PlanFor
  <2>5. Reason(f, history)
    BY <2>2 DEF Reason
  <2>6. IsTask(f) /\ TaskInvariant(f, history)
    BY <1>1, <1>2, <2>4, <2>5, FailedTask DEF f
  <2>. QED
    BY <1>1, <2>1, <2>6, OneTask
<1>7. CASE n <= Len(Stages(t)) /\ task[t].left # 0
  <2>1. Len(task[t].verified) < Len(Stages(t))
    BY <1>4, <1>7
  <2>2. \/ \E held \in BOOLEAN :
             Set(t, [task[t] EXCEPT !.step = "running",
                       !.stage = [NoProcess EXCEPT !.child = "running", !.held = held,
                                    !.timer = Smaller(Stages(t)[n], task[t].left)]])
        \/ Set(t, Recorded(t, "failed"))
    <3>1. ~(n > Len(Stages(t))) /\ ~(task[t].left = 0)
      BY <1>4, <1>7
    <3>. QED
      BY <3>1 DEF StartStage
  <2>3. CASE Set(t, Recorded(t, "failed"))
    <3>1. IsTask(Recorded(t, "failed")) /\ TaskInvariant(Recorded(t, "failed"), history)
      BY <1>1, <2>1, RecordedTask
    <3>. QED
      BY <1>1, <2>3, <3>1, OneTask
  <2>4. ASSUME NEW held \in BOOLEAN,
               Set(t, [task[t] EXCEPT !.step = "running",
                         !.stage = [NoProcess EXCEPT !.child = "running", !.held = held,
                                      !.timer = Smaller(Stages(t)[n], task[t].left)]])
        PROVE  TypeOK' /\ TasksInvariant'
    <3> DEFINE timer == Smaller(Stages(t)[n], task[t].left)
    <3> DEFINE stage == [NoProcess EXCEPT !.child = "running", !.held = held, !.timer = timer]
    <3> DEFINE k == [task[t] EXCEPT !.step = "running", !.stage = stage]
    <3>1. n \in DOMAIN Stages(t)
      BY <1>3, <1>4, <1>7
    <3>2. Stages(t)[n] \in Nat
      BY <1>3, <3>1
    <3>3. timer \in Nat
      BY <1>4, <3>2 DEF Smaller
    <3> HIDE DEF timer
    <3>4. stage \in [child : {"none", "running", "ended"}, held : BOOLEAN, timer : Nat,
                     timedOut : BOOLEAN, exit : {Nothing, "zero", "other"}]
      BY <3>3 DEF NoProcess
    <3> HIDE DEF stage
    <3>5. IsTask(k)
      BY <1>1, <3>4 DEF IsTask
    <3>6. /\ k.step = "running" /\ k.request = r /\ k.verified = task[t].verified
          /\ k.patch = task[t].patch /\ k.status = "running" /\ k.found = Nothing
      BY <1>1, <1>2 DEF IsTask
    <3>7. Set(t, k)
      BY <2>4 DEF stage, timer
    <3> HIDE DEF k
    <3>8. Admitted(k) /\ Silent(k) /\ Evidenced(k) /\ Reason(k, history)
      BY <1>1, <3>6 DEF Admitted, Silent, Evidenced, Reason
    <3>9. Located(k, history) /\ PatchOf(k)
      BY <1>1, <1>2, <3>6 DEF Located, PatchOf, PlanFor
    <3>10. Verifying(k)
      BY <1>2, <2>1, <3>6 DEF Verifying, PlanFor
    <3>. QED
      BY <1>1, <3>5, <3>7, <3>8, <3>9, <3>10, OneTask DEF TaskInvariant
  <2>. QED
    BY <2>2, <2>3, <2>4
<1>. QED
  BY <1>4, <1>5, <1>6, <1>7

LEMMA StageClosesKeeps ==
  ASSUME TypeOK, TasksInvariant, NEW t \in Task, StageCloses(t)
  PROVE  TypeOK' /\ TasksInvariant'
<1> DEFINE status == StageStatus(task[t].stage)
<1>1. /\ TaskInvariant(task[t], history) /\ task[t].step = "running"
      /\ UNCHANGED repository /\ crashes' \in Nat
      /\ ~task[t].stage.held /\ Set(t, Recorded(t, status))
  BY TaskFacts DEF StageCloses, Closed, TypeOK
<1>2. Len(task[t].verified) < Len(Stages(t))
  BY <1>1 DEF TaskInvariant, Verifying, Stages, PlanFor, Plan, Request
<1>3. status \in {"succeeded", "failed", "timed-out"}
  BY DEF StageStatus
<1> HIDE DEF status
<1>4. IsTask(Recorded(t, status)) /\ TaskInvariant(Recorded(t, status), history)
  BY <1>1, <1>2, <1>3, RecordedTask
<1>. QED
  BY <1>1, <1>4, OneTask

LEMMA CleanupKeeps ==
  ASSUME TypeOK, TasksInvariant, NEW t \in Task, Cleanup(t)
  PROVE  TypeOK' /\ TasksInvariant'
<1>1. /\ IsTask(task[t]) /\ TaskInvariant(task[t], history) /\ task[t].step = "cleanup"
      /\ UNCHANGED repository /\ crashes' \in Nat
      /\ task[t].request \in DOMAIN Requests /\ Accepted(task[t].request)
      /\ PlanFor(task[t]).base \in DOMAIN history
  BY TaskFacts DEF Cleanup, TypeOK, Working
<1>2. PICK removed \in BOOLEAN :
        Set(t, [task[t] EXCEPT !.step = "after", !.worktree = @ /\ ~removed,
                               !.checkout = IF removed THEN NoPatch ELSE @])
  BY DEF Cleanup
<1> DEFINE worktree == task[t].worktree /\ ~removed
<1> DEFINE checkout == IF removed THEN NoPatch ELSE task[t].checkout
<1> DEFINE k == [task[t] EXCEPT !.step = "after", !.worktree = worktree, !.checkout = checkout]
<1>3. worktree \in BOOLEAN /\ PartialTree(checkout)
  BY <1>1, NoPatchTree DEF IsTask
<1>4. Set(t, k)
  BY <1>2
<1> HIDE DEF worktree, checkout
<1>5. IsTask(k)
  BY <1>1, <1>3 DEF IsTask
<1>6. /\ k.step = "after" /\ k.request = task[t].request /\ k.verified = task[t].verified
      /\ k.patch = task[t].patch /\ k.status = task[t].status /\ k.found = task[t].found
      /\ k.stage = task[t].stage
  BY <1>1 DEF IsTask
<1> HIDE DEF k
<1>7. Admitted(k) /\ Silent(k) /\ Verifying(k)
  BY <1>1, <1>6 DEF TaskInvariant, Admitted, Silent, Verifying
<1>8. Located(k, history) /\ PatchOf(k)
  BY <1>1, <1>6 DEF TaskInvariant, Located, PatchOf, PlanFor
<1>9. Evidenced(k)
  BY <1>1, <1>6 DEF TaskInvariant, Evidenced, Evidence, PlanFor
<1>10. Reason(k, history)
  BY <1>1, <1>6 DEF TaskInvariant, Reason, PlanFor
<1>. QED
  BY <1>1, <1>4, <1>5, <1>7, <1>8, <1>9, <1>10, OneTask DEF TaskInvariant

\* A step that changes the stage, the checkout or the time of a task only.
LEMMA SameProgress ==
  ASSUME NEW j, NEW k, TaskInvariant(j, history), Silent(k),
         k.step = j.step, k.request = j.request, k.verified = j.verified, k.patch = j.patch,
         k.status = j.status, k.found = j.found, j.step \notin {"preflight", "apply"}
  PROVE  TaskInvariant(k, history)
<1>1. Admitted(k) /\ Verifying(k)
  BY DEF TaskInvariant, Admitted, Verifying, PlanFor
<1>2. Located(k, history)
  BY DEF TaskInvariant, Located, PlanFor
<1>3. PatchOf(k)
  BY DEF TaskInvariant, PatchOf
<1>4. Evidenced(k)
  BY DEF TaskInvariant, Evidenced, Evidence, PlanFor
<1>5. Reason(k, history)
  BY DEF TaskInvariant, Reason, PlanFor
<1>. QED
  BY <1>1, <1>2, <1>3, <1>4, <1>5 DEF TaskInvariant

\* The processes of a stage, and the time they take.
LEMMA StageKeeps ==
  ASSUME TypeOK, TasksInvariant, NEW t \in Task, task[t].step = "running",
         UNCHANGED <<repository, crashes>>,
         NEW stage \in [child : {"none", "running", "ended"}, held : BOOLEAN, timer : Nat,
                        timedOut : BOOLEAN, exit : {Nothing, "zero", "other"}],
         Set(t, [task[t] EXCEPT !.stage = stage])
  PROVE  TypeOK' /\ TasksInvariant'
<1> DEFINE k == [task[t] EXCEPT !.stage = stage]
<1>1. /\ IsTask(task[t]) /\ TaskInvariant(task[t], history)
      /\ UNCHANGED repository /\ crashes' \in Nat
  BY TaskFacts DEF TypeOK
<1>2. IsTask(k)
  BY <1>1 DEF IsTask
<1>3. /\ k.step = task[t].step /\ k.request = task[t].request /\ k.verified = task[t].verified
      /\ k.patch = task[t].patch /\ k.status = task[t].status /\ k.found = task[t].found
  BY <1>1 DEF IsTask
<1> HIDE DEF k
<1>4. TaskInvariant(k, history)
  BY <1>1, <1>3, SameProgress DEF Silent
<1>. QED
  BY <1>1, <1>2, <1>4, OneTask DEF k

LEMMA ProcessesKeep ==
  ASSUME TypeOK, TasksInvariant, NEW t \in Task,
         TimerFires(t) \/ ChildExits(t) \/ DescendantsEnd(t)
  PROVE  TypeOK' /\ TasksInvariant'
<1> DEFINE stage == task[t].stage
<1>1. IsTask(task[t]) /\ task[t].step = "running" /\ UNCHANGED <<repository, crashes>>
  BY TaskFacts DEF TimerFires, ChildExits, DescendantsEnd
<1>2. stage \in [child : {"none", "running", "ended"}, held : BOOLEAN, timer : Nat,
                 timedOut : BOOLEAN, exit : {Nothing, "zero", "other"}]
  BY <1>1 DEF IsTask
<1>3. CASE TimerFires(t)
  <2> DEFINE next == [stage EXCEPT !.timedOut = TRUE, !.child = "ended"]
  <2>1. Set(t, [task[t] EXCEPT !.stage = next])
    BY <1>1, <1>3 DEF TimerFires, IsTask
  <2>2. next \in [child : {"none", "running", "ended"}, held : BOOLEAN, timer : Nat,
                  timedOut : BOOLEAN, exit : {Nothing, "zero", "other"}]
    BY <1>2
  <2>. QED
    BY <1>1, <2>1, <2>2, StageKeeps
<1>4. CASE ChildExits(t)
  <2>1. PICK exit \in {"zero", "other"} :
          Set(t, [task[t] EXCEPT !.stage.child = "ended", !.stage.exit = exit])
    BY <1>4 DEF ChildExits
  <2> DEFINE next == [stage EXCEPT !.child = "ended", !.exit = exit]
  <2>2. Set(t, [task[t] EXCEPT !.stage = next])
    BY <1>1, <2>1 DEF IsTask
  <2>3. next \in [child : {"none", "running", "ended"}, held : BOOLEAN, timer : Nat,
                  timedOut : BOOLEAN, exit : {Nothing, "zero", "other"}]
    BY <1>2
  <2>. QED
    BY <1>1, <2>2, <2>3, StageKeeps
<1>5. CASE DescendantsEnd(t)
  <2> DEFINE next == [stage EXCEPT !.held = FALSE]
  <2>1. Set(t, [task[t] EXCEPT !.stage = next])
    BY <1>1, <1>5 DEF DescendantsEnd, IsTask
  <2>2. next \in [child : {"none", "running", "ended"}, held : BOOLEAN, timer : Nat,
                  timedOut : BOOLEAN, exit : {Nothing, "zero", "other"}]
    BY <1>2
  <2>. QED
    BY <1>1, <2>1, <2>2, StageKeeps
<1>. QED
  BY <1>3, <1>4, <1>5

LEMMA StageWritesKeeps ==
  ASSUME TypeOK, TasksInvariant, NEW t \in Task, StageWrites(t)
  PROVE  TypeOK' /\ TasksInvariant'
<1>1. /\ IsTask(task[t]) /\ TaskInvariant(task[t], history)
      /\ task[t].step \notin {"preflight", "apply"}
      /\ UNCHANGED repository /\ crashes' \in Nat
  BY TaskFacts DEF StageWrites, TypeOK, TaskInvariant, Admitted
<1>2. PICK path \in Scratch : Set(t, [task[t] EXCEPT !.checkout[path] = Content("text", {}, {})])
  BY DEF StageWrites
<1> DEFINE checkout == [task[t].checkout EXCEPT ![path] = Content("text", {}, {})]
<1> DEFINE k == [task[t] EXCEPT !.checkout = checkout]
<1>3. PartialTree(checkout)
  <2>1. Content("text", {}, {}) \in Contents
    BY DEF Content, Contents
  <2>2. PartialTree(task[t].checkout)
    BY <1>1 DEF IsTask
  <2>. QED
    BY <2>1, <2>2 DEF PartialTree, Entries
<1>4. Set(t, k)
  BY <1>2
<1> HIDE DEF checkout
<1>5. IsTask(k)
  BY <1>1, <1>3 DEF IsTask
<1>6. /\ k.step = task[t].step /\ k.request = task[t].request /\ k.verified = task[t].verified
      /\ k.patch = task[t].patch /\ k.status = task[t].status /\ k.found = task[t].found
      /\ k.stage = task[t].stage
  BY <1>1 DEF IsTask
<1> HIDE DEF k
<1>7. TaskInvariant(k, history)
  <2>1. Silent(k)
    BY <1>1, <1>6 DEF TaskInvariant, Silent
  <2>. QED
    BY <1>1, <1>6, <2>1, SameProgress
<1>. QED
  BY <1>1, <1>4, <1>5, <1>7, OneTask

LEMMA TickKeeps ==
  ASSUME TypeOK, TasksInvariant, NEW t \in Task, Tick(t)
  PROVE  TypeOK' /\ TasksInvariant'
<1>1. /\ IsTask(task[t]) /\ TaskInvariant(task[t], history) /\ task[t].step \in {"stage", "running"}
      /\ UNCHANGED repository /\ crashes' \in Nat
  BY TaskFacts DEF Tick, TypeOK
<1> DEFINE left == task[t].left - 1
<1> DEFINE timer == IF task[t].stage.timer > 0 THEN task[t].stage.timer - 1 ELSE 0
<1> DEFINE stage == [task[t].stage EXCEPT !.timer = timer]
<1> DEFINE k == [task[t] EXCEPT !.left = left, !.stage = stage]
<1>2. /\ task[t].left \in Nat /\ task[t].left > 0 /\ task[t].stage.timer \in Nat
      /\ task[t].stage \in [child : {"none", "running", "ended"}, held : BOOLEAN, timer : Nat,
                            timedOut : BOOLEAN, exit : {Nothing, "zero", "other"}]
  BY <1>1 DEF Tick, IsTask
<1>3. left \in Nat /\ timer \in Nat
  BY <1>2
<1>4. Set(t, k)
  BY <1>1 DEF Tick, IsTask
<1> HIDE DEF left, timer
<1>5. /\ stage \in [child : {"none", "running", "ended"}, held : BOOLEAN, timer : Nat,
                    timedOut : BOOLEAN, exit : {Nothing, "zero", "other"}]
      /\ stage.child = task[t].stage.child /\ stage.held = task[t].stage.held
  BY <1>2, <1>3
<1> HIDE DEF stage
<1>6. IsTask(k)
  BY <1>1, <1>3, <1>5 DEF IsTask
<1>7. /\ k.step = task[t].step /\ k.request = task[t].request /\ k.verified = task[t].verified
      /\ k.patch = task[t].patch /\ k.status = task[t].status /\ k.found = task[t].found
      /\ k.stage = stage
  BY <1>1 DEF IsTask
<1> HIDE DEF k
<1>8. TaskInvariant(k, history)
  <2>1. Silent(k)
    BY <1>1, <1>5, <1>7 DEF TaskInvariant, Silent
  <2>. QED
    BY <1>1, <1>7, <2>1, SameProgress
<1>. QED
  BY <1>1, <1>4, <1>6, <1>8, OneTask

-----------------------------------------------------------------------------
(* The repository, kills, and the whole.                                   *)

\* A new revision maps every path: a patch only names paths of the repository.
LEMMA LandKeeps ==
  ASSUME TypeOK, TasksInvariant, NEW t \in Task, Land(t)
  PROVE  TypeOK' /\ TasksInvariant'
<1> DEFINE tree == Patched(history[head], task[t].patch)
<1>1. /\ history \in Seq(Tree) /\ head \in DOMAIN history /\ IsTask(task[t])
      /\ history' = Append(history, tree) /\ head' = Len(history) + 1
      /\ UNCHANGED <<edits, crashes, task>>
  BY DEF TypeOK, Land
<1>2. tree \in Tree
  <2>1. history[head] \in Tree /\ PartialTree(task[t].patch)
    BY <1>1 DEF IsTask
  <2>. QED
    BY <2>1 DEF Patched, PartialTree, Tree
<1> HIDE DEF tree
<1>3. history' \in Seq(Tree) /\ head' \in DOMAIN history' /\ Extends(history, history')
  BY <1>1, <1>2 DEF Extends
<1>4. TypeOK'
  BY <1>1, <1>3 DEF TypeOK, IsTask
<1>5. \A u \in Task : TaskInvariant(task[u], history')
  BY <1>3, InvariantExtends DEF TasksInvariant
<1>6. TasksInvariant'
  BY <1>1, <1>5 DEF TasksInvariant
<1>. QED
  BY <1>4, <1>6

LEMMA EditKeeps ==
  ASSUME TypeOK, TasksInvariant, Edit \/ UNCHANGED vars
  PROVE  TypeOK' /\ TasksInvariant'
<1>1. edits' \in Nat /\ crashes' = crashes /\ history' = history /\ head' = head /\ task' = task
  BY DEF Edit, vars, TypeOK
<1>2. TypeOK'
  BY <1>1 DEF TypeOK, IsTask
<1>3. TasksInvariant'
  BY <1>1 DEF TasksInvariant
<1>. QED
  BY <1>2, <1>3

LEMMA CrashKeeps ==
  ASSUME TypeOK, TasksInvariant, NEW t \in Task, Crash(t)
  PROVE  TypeOK' /\ TasksInvariant'
<1>1. Set(t, Idle) /\ UNCHANGED repository /\ crashes' \in Nat
  BY DEF Crash, TypeOK
<1>. QED
  BY <1>1, IdleTask, OneTask

LEMMA InitInvariant ==
  ASSUME Init
  PROVE  TypeOK /\ TasksInvariant
<1>1. FirstTree \in Tree
  BY RequestAssumption
<1>2. history \in Seq(Tree) /\ head \in DOMAIN history /\ edits \in Nat /\ crashes \in Nat
  BY <1>1 DEF Init
<1>3. DOMAIN task = Task /\ \A t \in Task : task[t] = Idle
  BY DEF Init
<1>4. TypeOK
  BY <1>2, <1>3, IdleTask DEF TypeOK
<1>5. TasksInvariant
  BY <1>3, IdleTask DEF TasksInvariant
<1>. QED
  BY <1>4, <1>5

\* Every action keeps the invariant.
LEMMA NextInvariant ==
  ASSUME TypeOK, TasksInvariant, [Next]_vars
  PROVE  TypeOK' /\ TasksInvariant'
<1>1. CASE Edit \/ UNCHANGED vars
  BY <1>1, EditKeeps
<1>2. ASSUME NEW t \in Task, Step(t)
      PROVE  TypeOK' /\ TasksInvariant'
  <2>1. CASE Claim(t) \/ CheckBefore(t) \/ CheckAfter(t) \/ CheckGraph(t)
    BY <2>1, ClaimKeeps, CheckBeforeKeeps, CheckAfterKeeps, CheckGraphKeeps
  <2>2. CASE AddWorktree(t) \/ CheckTargets(t) \/ Apply(t) \/ StartStage(t)
    BY <2>2, AddWorktreeKeeps, CheckTargetsKeeps, ApplyKeeps, StartStageKeeps
  <2>3. CASE TimerFires(t) \/ StageCloses(t) \/ Cleanup(t)
    BY <2>3, ProcessesKeep, StageClosesKeeps, CleanupKeeps
  <2>. QED
    BY <1>2, <2>1, <2>2, <2>3 DEF Step
<1>3. ASSUME NEW t \in Task, Environment(t)
      PROVE  TypeOK' /\ TasksInvariant'
  <2>1. CASE ChildExits(t) \/ DescendantsEnd(t)
    BY <2>1, ProcessesKeep
  <2>2. CASE StageWrites(t) \/ Land(t) \/ Crash(t)
    BY <2>2, StageWritesKeeps, LandKeeps, CrashKeeps
  <2>. QED
    BY <1>3, <2>1, <2>2 DEF Environment
<1>4. ASSUME NEW t \in Task, Tick(t)
      PROVE  TypeOK' /\ TasksInvariant'
  BY <1>4, TickKeeps
<1>. QED
  BY <1>1, <1>2, <1>3, <1>4 DEF Next

\* A task that has a graph has an accepted plan.
LEMMA GraphOfAccepted ==
  ASSUME TypeOK, TasksInvariant, NEW t \in Task, HasGraph(t)
  PROVE  task[t].request \in DOMAIN Requests /\ Accepted(task[t].request)
<1>1. task[t].step # "idle" /\ Graph(t).operations # <<>>
  BY DEF HasGraph
<1>2. task[t].request \in DOMAIN Requests
  BY <1>1 DEF TasksInvariant, TaskInvariant, Admitted
<1>3. ASSUME ~Accepted(task[t].request)
      PROVE  FALSE
  <2>1. Graph(t) = NoGraph
    BY <1>2, <1>3, AcceptedRequest DEF Graph
  <2>. QED
    BY <1>1, <2>1 DEF NoGraph
<1>. QED
  BY <1>2, <1>3

LEMMA InvariantPatches ==
  ASSUME TypeOK, TasksInvariant
  PROVE  PatchIsReviewed
<1> SUFFICES ASSUME NEW t \in Task, task[t].patch # NoPatch
             PROVE  /\ DOMAIN task[t].patch = {o.path : o \in Operations(Graph(t))}
                    /\ \A o \in Operations(Graph(t)) : task[t].patch[o.path] = o.content
  BY DEF PatchIsReviewed
<1>1. /\ Accepted(task[t].request) /\ task[t].request \in DOMAIN Requests
      /\ DOMAIN task[t].patch = {o.path : o \in Reviewed(task[t].request)}
      /\ \A o \in Reviewed(task[t].request) : task[t].patch[o.path] = o.content
  BY DEF TasksInvariant, TaskInvariant, PatchOf, Admitted
<1>2. Operations(Graph(t)) = Reviewed(task[t].request)
  BY <1>1, GraphOperations DEF Graph
<1>. QED
  BY <1>1, <1>2

LEMMA InvariantEvidence ==
  ASSUME TypeOK, TasksInvariant
  PROVE  EvidenceIsComplete
<1>1. \A t \in Task : Stages(t) = Trusted[PlanFor(task[t]).verification]
  BY DEF Stages, Plan, Request, PlanFor
<1>2. ASSUME NEW t \in Task, Ended(t)
      PROVE  Evidence(task[t])
  BY <1>2 DEF TasksInvariant, TaskInvariant, Evidenced, Ended
<1>. QED
  BY <1>1, <1>2 DEF EvidenceIsComplete, Evidence

\* The reasons of the invariant, against the graph the task has.
LEMMA InvariantReasons ==
  ASSUME TypeOK, TasksInvariant
  PROVE  RefusedForAReason
<1> SUFFICES
      ASSUME NEW t \in Task, HasGraph(t)
      PROVE  /\ task[t].found = "executor.profile-digest-mismatch" => ~Profile(t).canonical
             /\ task[t].found = "verification.profile-unavailable" =>
                  Plan(t).verification \notin DOMAIN Trusted
             /\ task[t].found = "executor.base-unavailable" => Plan(t).base \notin DOMAIN history
             /\ task[t].found \in TargetRefusals =>
                  \E o \in Operations(Graph(t)) :
                     Request(t).files[o.path] # history[Plan(t).base][o.path]
             /\ task[t].found = "executor.max-files-exceeded" =>
                  \E o \in Plan(t).outputs : o.kind = "evidence"
             /\ task[t].found = "executor.max-patch-bytes-exceeded" =>
                  ContentBytes(Operations(Graph(t))) <= Plan(t).maxPatchBytes
             /\ task[t].found \notin {"executor.plan-identity-mismatch", "executor.path-unsafe",
                                      "executor.path-not-allowed", "executor.path-outside-profile",
                                      "executor.output-mismatch", "executor.duplicate-path"}
  BY DEF RefusedForAReason
<1> DEFINE r == task[t].request
<1>1. r \in DOMAIN Requests /\ Accepted(r)
  BY GraphOfAccepted
<1>2. Operations(Graph(t)) = Reviewed(r)
  BY <1>1, GraphOperations DEF Graph
<1>3. /\ Request(t) = Requests[r] /\ Plan(t) = PlanFor(task[t])
      /\ Profile(t) = Requests[r].profile
  BY DEF Request, Plan, PlanFor, Profile
<1>4. Reason(task[t], history) /\ task[t].step # "idle"
  BY DEF TasksInvariant, TaskInvariant, HasGraph
<1>5. ContentBytes(Operations(Graph(t))) <= Plan(t).maxPatchBytes
  <2>1. ContentBytes(Operations(Graph(t))) \in Nat
    BY <1>1, ContentBytesOfReviewed DEF Graph
  <2>2. Plan(t).maxPatchBytes \in Nat
    BY <1>1, <1>3, RequestTypes DEF PlanRecord, PlanFor
  <2>3. Proposals(Plan(t), Paths(r), Requests[r].files) = Reviewed(r)
    BY <1>1, AllProposed DEF Plan, Request
  <2>4. ~(ContentBytes(Proposals(Plan(t), Paths(r), Requests[r].files)) > Plan(t).maxPatchBytes)
    BY <1>1, AcceptedRequest DEF Plan, Request
  <2>. QED
    BY <1>2, <2>1, <2>2, <2>3, <2>4
<1>. QED
  BY <1>1, <1>2, <1>3, <1>4, <1>5 DEF Reason, Nothing, TargetRefusals

LEMMA InvariantRecipes ==
  ASSUME TypeOK, TasksInvariant
  PROVE  RecipeIsStable
<1> SUFFICES ASSUME NEW t \in Task, HasGraph(t)
             PROVE  Resolve(Plan(t), Normalized(Profile(t)), Applied(Graph(t), Request(t).files))
                      = Resolution({}, Nothing)
  BY DEF RecipeIsStable
<1>1. task[t].request \in DOMAIN Requests /\ Accepted(task[t].request)
  BY GraphOfAccepted
<1>. QED
  BY <1>1, RecipeLeavesAlone DEF Plan, Profile, Request, Graph

-----------------------------------------------------------------------------
(* The theorems.                                                           *)

\* Tasks, processes and trees keep their shape, however the repository, the
\* stages, time and kills interleave, and the inductive invariant holds.
THEOREM TaskInductive == Spec => [](TypeOK /\ TasksInvariant)
<1>1. Init => TypeOK /\ TasksInvariant
  BY InitInvariant
<1>2. TypeOK /\ TasksInvariant /\ [Next]_vars => (TypeOK /\ TasksInvariant)'
  BY NextInvariant
<1>. QED
  BY <1>1, <1>2, PTL DEF Spec

\* applyAndVerify (apply-verify-service.ts): the patch a task returns is made of
\* the operations that were reviewed and of nothing else.
THEOREM PatchesAreReviewed == Spec => []PatchIsReviewed
BY TaskInductive, InvariantPatches, PTL

\* The evidence of an answer (apply-verify-service.ts, execute and runStages)
\* tells which of the trusted stages ran, and with which outcome.
THEOREM EvidenceOfAnswers == Spec => []EvidenceIsComplete
BY TaskInductive, InvariantEvidence, PTL

\* What the planner accepts, the executor's own checks of the graph do not
\* refuse but for the reasons named.
THEOREM RefusalsAreExplained == Spec => []RefusedForAReason
BY TaskInductive, InvariantReasons, PTL

\* The recipe finds its own output and adds nothing to it.
THEOREM RecipesAreStable == Spec => []RecipeIsStable
BY TaskInductive, InvariantRecipes, PTL
=============================================================
