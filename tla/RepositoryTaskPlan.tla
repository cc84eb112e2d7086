------------------------- MODULE RepositoryTaskPlan -------------------------
(***************************************************************************)
(* The planner of repository tasks: an authored plan is checked and        *)
(* normalised, compared with the repository profile, resolved by the       *)
(* recipe typescript-module@1 against a snapshot of the repository, and    *)
(* compiled into a generation graph of file operations.  With it, what the *)
(* executor checks of a graph before it touches a checkout.                *)
(*                                                                         *)
(* A path is a sequence of segments, a tree maps every path to a content,  *)
(* and a content keeps what the recipe looks at: the names a file declares *)
(* and the modules it re-exports.  A digest is the value it is of.         *)
(* The YAML and schema checks of a plan are left out: a plan is a record   *)
(* of the right shape.                                                     *)
(***************************************************************************)
EXTENDS Integers, FiniteSets, Sequences, SequencesExt

CONSTANTS
    Capabilities,   \* the capabilities a plan may request
    Trusted,        \* verification profile -> time limits of its stages
    HeaderBytes     \* bytes a patch adds to the content of a file

Nothing == "none"

\* An ordered list of checks <<code, failed>>: the code of the first that failed.
FirstFailed(checks) ==
    LET failed == {i \in DOMAIN checks : checks[i][2]}
    IN  IF failed = {} THEN Nothing ELSE checks[Min(failed)][1]

\* Checks whose failures are all reported.
AllFailed(checks) == {c[1] : c \in {d \in checks : d[2]}}

-----------------------------------------------------------------------------
(* Paths.                                                                  *)

SafePath(path) == path # <<>> /\ ToSet(path) \cap {"", ".", "..", ".git"} = {}

HasGlob(path) == "*" \in ToSet(path)

\* A constraint is a path, or with deep everything at or below it.
PathMatches(path, constraint) ==
    IF constraint.deep THEN IsPrefix(constraint.base, path) ELSE path = constraint.base

Within(path, constraints) == \E c \in constraints : PathMatches(path, c)

-----------------------------------------------------------------------------
(* Contents of files.                                                      *)

Content(kind, names, modules) == [kind |-> kind, names |-> names, modules |-> modules]
Absent == Content("absent", {}, {})
Rendered(plan) == Content("module", plan.exports, {})
RenderedTest(plan) == Content("test", plan.tests, {plan.module})
WithExport(index, plan) == [index EXCEPT !.modules = @ \cup {plan.module}]

\* The names a text declares; a test only imports them.
Declares(content) == IF content.kind = "test" THEN {} ELSE content.names

Bytes(content) ==
    IF content = Absent THEN 0
    ELSE 1 + Cardinality(content.names) + Cardinality(content.modules)

Contents ==
    {Absent} \cup [kind : {"module", "test", "text"}, names : SUBSET STRING, modules : SUBSET STRING]

\* What else a path of a tree may be: behind a symbolic link, or a directory.
Link == Content("link", {}, {})
Directory == Content("directory", {}, {})
Entries == Contents \cup {Link, Directory}

-----------------------------------------------------------------------------
(* The authored plan.                                                      *)

Constraints == [base : Seq(STRING), deep : BOOLEAN]

PlanRecord ==
    [repository : STRING, base : Nat, allowedPaths : SUBSET Constraints, version : STRING,
     package : STRING, module : STRING, exports : SUBSET STRING, tests : SUBSET STRING,
     outputs : SUBSET [name : STRING, path : Seq(STRING), mediaType : STRING,
                       kind : {"file", "test", "export", "evidence"}],
     verification : STRING, maxFiles : Nat, maxPatchBytes : Nat, maxVerification : Nat,
     capabilities : SUBSET STRING]

PlanDiagnostics(plan) == AllFailed({
    <<"path.unsafe", \E c \in plan.allowedPaths : ~SafePath(c.base)>>,
    <<"path.unsupported-pattern", \E c \in plan.allowedPaths : SafePath(c.base) /\ HasGlob(c.base)>>,
    <<"path.unsafe", \E o \in plan.outputs : ~SafePath(o.path) \/ HasGlob(o.path)>>,
    <<"output.outside-allowed-paths",
        \E o \in plan.outputs : SafePath(o.path) /\ ~HasGlob(o.path) /\ ~Within(o.path, plan.allowedPaths)>>,
    <<"output.duplicate-name", \E o, p \in plan.outputs : o # p /\ o.name = p.name>>,
    <<"resource.max-files-exceeded",
        Cardinality({o \in plan.outputs : o.kind # "evidence"}) > plan.maxFiles>>,
    <<"recipe.unsupported-version", plan.version # "1">>,
    <<"capability.not-allowed", ~(plan.capabilities \subseteq Capabilities)>> })

-----------------------------------------------------------------------------
(* The repository profile.                                                 *)

ProfileShape(profile) == AllFailed({
    <<"profile.invalid-path-boundary",
        profile.boundaries = {} \/ \E c \in profile.boundaries : ~SafePath(c.base) \/ HasGlob(c.base)>>,
    <<"profile.invalid", {} \in {profile.packages, profile.versions, profile.verificationProfiles}>>,
    <<"profile.invalid-package",
        \E p \in profile.packages : \E path \in {p.path, p.source, p.test, p.index} : ~SafePath(path)>> })

ProfilePackages(profile) == AllFailed({
    <<"profile.duplicate-package",
        \E p, q \in profile.packages : p # q /\ p.name = q.name>>,
    <<"profile.package-outside-boundaries",
        \E p \in profile.packages : ~Within(p.path, profile.boundaries)>> })

ProfileDiagnostics(profile) ==
    IF ProfileShape(profile) # {} THEN ProfileShape(profile) ELSE ProfilePackages(profile)

ProfileRecord ==
    [canonical : BOOLEAN, repository : STRING, boundaries : SUBSET Constraints,
     versions : SUBSET STRING, verificationProfiles : SUBSET STRING,
     packages : SUBSET [name : STRING, path : Seq(STRING), source : Seq(STRING),
                        test : Seq(STRING), index : Seq(STRING)]]

\* The profile in the order the compiler puts it in.
Normalized(profile) == [profile EXCEPT !.canonical = TRUE]

PackageOf(plan, profile) == {p \in profile.packages : p.name = plan.package}

AgainstProfile(plan, profile) == AllFailed({
    <<"profile.repository-mismatch", plan.repository # profile.repository>>,
    <<"profile.path-outside-boundaries",
        \E c \in plan.allowedPaths : ~Within(c.base, profile.boundaries)>>,
    <<"profile.recipe-unsupported", plan.version \notin profile.versions>>,
    <<"profile.verification-profile-unsupported",
        plan.verification \notin profile.verificationProfiles>>,
    <<"profile.package-unknown", PackageOf(plan, profile) = {}>>,
    <<"profile.output-outside-package",
        \E p \in PackageOf(plan, profile), o \in plan.outputs : ~IsPrefix(p.path, o.path)>> })

-----------------------------------------------------------------------------
(* The recipe typescript-module@1.                                         *)

\* Where the recipe writes, by the name of the output: "index" stands for
\* public-export and "test" for unit-test.
ExpectedPaths(plan, package) ==
    [implementation |-> package.path \o package.source \o <<plan.module \o ".ts">>,
     test |-> package.path \o package.test \o <<plan.module \o ".test.ts">>,
     index |-> package.path \o package.index]

OutputNamed(plan, name) == {o \in plan.outputs : o.name = name}

Targets(plan, name, path) ==
    \E o \in OutputNamed(plan, name) : o.path = path /\ o.mediaType = "text/typescript"

\* The existing file can be neither created nor kept.
Conflicts(current, proposed) == current # Absent /\ current # proposed

InvalidInputs(plan) == plan.exports = {} \/ plan.tests = {}

RecipeRefusal(plan, paths, files) == FirstFailed(<<
    <<"recipe.invalid-inputs", InvalidInputs(plan)>>,
    <<"recipe.output-path-mismatch",
        ~ \A name \in DOMAIN paths : Targets(plan, name, paths[name])>>,
    <<"recipe.test-export-unknown", ~(plan.tests \subseteq plan.exports)>>,
    <<"recipe.public-export-file-missing", files[paths.index] = Absent>>,
    <<"recipe.export-name-conflict",
        \E f \in DOMAIN files \ {paths.implementation, paths.test} :
            Declares(files[f]) \cap plan.exports # {}>>,
    <<"recipe.existing-module-conflict", Conflicts(files[paths.implementation], Rendered(plan))>>,
    <<"recipe.existing-test-conflict", Conflicts(files[paths.test], RenderedTest(plan))>> >>)

Operation(id, kind, path, content, expected, dependsOn) ==
    [id |-> id, operation |-> kind, path |-> path, content |-> content,
     expected |-> expected, dependsOn |-> dependsOn]

\* The operations that bring the module about.
ModuleOperations(plan, paths, files) ==
    {Operation("implementation", "create", paths.implementation, Rendered(plan), Absent, {}),
     Operation("index", "update", paths.index,
               WithExport(files[paths.index], plan), files[paths.index], {"implementation"}),
     Operation("test", "create", paths.test, RenderedTest(plan), Absent, {"implementation"})}

\* The operations the recipe proposes: nothing for a file that has its content.
\* Mutant: they are proposed whether or not the file has its content.
Proposals_Always(plan, paths, files) == ModuleOperations(plan, paths, files)

Proposals(plan, paths, files) ==
    {o \in ModuleOperations(plan, paths, files) : files[o.path] # o.content}

ContentBytes(operations) ==
    Cardinality(UNION {{o.id} \X (1 .. Bytes(o.content)) : o \in operations})

Resolution(operations, refusal) == [operations |-> operations, refusal |-> refusal]

\* resolveTypescriptModuleRecipe, once the package is known.
Resolve(plan, profile, files) ==
    LET paths == ExpectedPaths(plan, CHOOSE p \in PackageOf(plan, profile) : TRUE)
        refusal == RecipeRefusal(plan, paths, files)
    IN  IF refusal # Nothing THEN Resolution({}, refusal)
        ELSE LET operations == Proposals(plan, paths, files)
             IN  IF ContentBytes(operations) > plan.maxPatchBytes
                 THEN Resolution({}, "recipe.max-patch-bytes-exceeded")
                 ELSE Resolution(operations, Nothing)

-----------------------------------------------------------------------------
(* The compiler.                                                           *)

\* Mutant: of the operations only missing outputs are reported.
ResolutionDiagnostics_Unbounded(plan, profile, operations) ==
    AllFailed({<<"graph.output-operation-missing",
                 \E o \in plan.outputs : \A p \in operations : p.id # o.name>>})

ResolutionDiagnostics(plan, profile, operations) ==
    LET ids == {o.id : o \in operations}
    IN  AllFailed({
        <<"graph.output-mismatch",
            \E o \in operations, d \in plan.outputs : d.name = o.id /\ d.path # o.path>>,
        <<"graph.operation-outside-plan-boundaries",
            \E o \in operations : ~Within(o.path, plan.allowedPaths)>>,
        <<"graph.operation-outside-profile-boundaries",
            \E o \in operations : ~Within(o.path, profile.boundaries)>>,
        <<"graph.path-conflict", \E o, p \in operations : o # p /\ o.path = p.path>>,
        <<"graph.output-operation-missing", \E o \in plan.outputs : o.name \notin ids>>,
        <<"graph.missing-dependency", \E o \in operations : ~(o.dependsOn \subseteq ids)>>,
        <<"graph.dependency-cycle", \E o \in operations : o.id \in o.dependsOn>> })

\* The alphabetical order of the ids.
Rank(o) == CHOOSE i \in 1..3 : <<"implementation", "index", "test">>[i] = o.id

\* Kahn's order: next comes, of the operations whose dependencies are placed, the
\* first by id.
Ordered(operations) ==
    CHOOSE order \in [1 .. Cardinality(operations) -> operations] :
        \A i \in DOMAIN order :
            LET placed == {order[j] : j \in 1 .. i - 1}
                ready == {o \in operations \ placed : o.dependsOn \subseteq {p.id : p \in placed}}
            IN  order[i] \in ready /\ \A o \in ready : Rank(order[i]) <= Rank(o)

Compiled(graph, diagnostics) == [graph |-> graph, diagnostics |-> diagnostics]
NoGraph == [operations |-> <<>>, plan |-> Nothing, profile |-> Nothing]
Refused(diagnostics) == Compiled(NoGraph, diagnostics)

\* compileTypescriptModuleRecipePlan: the first stage that reports anything ends it.
Compile(plan, profile, files) ==
    IF PlanDiagnostics(plan) # {} THEN Refused(PlanDiagnostics(plan))
    ELSE IF ProfileDiagnostics(profile) # {} THEN Refused(ProfileDiagnostics(profile))
    ELSE IF AgainstProfile(plan, profile) # {} THEN Refused(AgainstProfile(plan, profile))
    ELSE LET resolved == Resolve(plan, profile, files)
             reported == ResolutionDiagnostics(plan, profile, resolved.operations)
         IN  IF resolved.refusal # Nothing THEN Refused({resolved.refusal})
             ELSE IF reported # {} THEN Refused(reported)
             ELSE Compiled([operations |-> Ordered(resolved.operations),
                            plan |-> plan, profile |-> Normalized(profile)], {})

-----------------------------------------------------------------------------
(* What the executor checks of a graph, and how it applies one.            *)

Operations(graph) == ToSet(graph.operations)

\* validateIdentity, verificationPolicy and fileOperations, in this order.  The
\* digest is of the profile as it was given, not of its canonical form.
GraphRefusal(plan, profile, graph) == FirstFailed(<<
    <<"executor.profile-digest-mismatch", graph.profile # profile>>,
    <<"executor.plan-identity-mismatch", graph.plan # plan>>,
    <<"verification.profile-unavailable",
        plan.verification \notin profile.verificationProfiles \cap DOMAIN Trusted>>,
    <<"executor.path-unsafe", \E o \in Operations(graph) : ~SafePath(o.path)>>,
    <<"executor.path-not-allowed",
        \E o \in Operations(graph) : ~Within(o.path, plan.allowedPaths)>>,
    <<"executor.path-outside-profile",
        \E o \in Operations(graph) : ~Within(o.path, profile.boundaries)>>,
    <<"executor.output-mismatch",
        \E o \in Operations(graph) : \A d \in OutputNamed(plan, o.id) : d.path # o.path>>,
    <<"executor.duplicate-path",
        \E i, j \in DOMAIN graph.operations :
            i # j /\ graph.operations[i].path = graph.operations[j].path>>,
    <<"executor.max-files-exceeded", Len(graph.operations) > plan.maxFiles>>,
    <<"executor.max-patch-bytes-exceeded", ContentBytes(Operations(graph)) > plan.maxPatchBytes>> >>)

TargetRefusals == {"executor.symlink-path", "executor.target-not-file",
                   "executor.create-conflict", "executor.mutation-conflict"}

\* preflight: a target is a file and not behind a link, one to create is not
\* there, one to update has the reviewed bytes.
TargetRefusal(o, tree) ==
    IF tree[o.path] = Link THEN "executor.symlink-path"
    ELSE IF tree[o.path] = Directory THEN "executor.target-not-file"
    ELSE IF o.operation = "create" /\ tree[o.path] # Absent THEN "executor.create-conflict"
    ELSE IF o.operation = "update" /\ tree[o.path] # o.expected THEN "executor.mutation-conflict"
    ELSE Nothing

\* The first refusal in the order of the graph ends it.
Preflight(graph, tree) ==
    LET refused == {i \in DOMAIN graph.operations : TargetRefusal(graph.operations[i], tree) # Nothing}
    IN  IF refused = {} THEN Nothing
        ELSE TargetRefusal(graph.operations[CHOOSE i \in refused : \A j \in refused : i <= j], tree)

\* applyOperations.
Applied(graph, tree) ==
    [path \in DOMAIN tree |->
        IF \E o \in Operations(graph) : o.path = path
        THEN (CHOOSE o \in Operations(graph) : o.path = path).content ELSE tree[path]]

\* git diff of a checkout against its revision, and the bytes it takes.  Nothing
\* in the repository makes git ignore or filter a path a task writes to, and the
\* white space at the ends of the patch is not told apart.
Difference(from, to) == [path \in {p \in DOMAIN from : from[p] # to[p]} |-> to[path]]

PatchBytes(patch) ==
    Cardinality(UNION {{path} \X (1 .. HeaderBytes + Bytes(patch[path])) : path \in DOMAIN patch})
=============================================================================
