-------------------------- MODULE MCRepositoryTask --------------------------
EXTENDS RepositoryTask

CONSTANTS t1, t2

Deep(base) == [base |-> base, deep |-> TRUE]
Exact(base) == [base |-> base, deep |-> FALSE]

Pkg == <<"packages", "core">>
SourcePath == Pkg \o <<"src", "greeting.ts">>
TestPath == Pkg \o <<"test", "greeting.test.ts">>
IndexPath == Pkg \o <<"src", "index.ts">>
OtherPath == Pkg \o <<"src", "other.ts">>

Package == [name |-> "core", path |-> Pkg, source |-> <<"src">>, test |-> <<"test">>,
            index |-> <<"src", "index.ts">>]

MCProfile == [canonical |-> TRUE, repository |-> "home", boundaries |-> {Deep(<<"packages">>)},
              versions |-> {"1"}, verificationProfiles |-> {"trusted", "unknown"},
              packages |-> {Package}]

Output(name, path, kind) == [name |-> name, path |-> path, kind |-> kind, mediaType |-> "text/typescript"]
MCOutputs == {Output("implementation", SourcePath, "file"), Output("index", IndexPath, "export"),
              Output("test", TestPath, "test")}

MCPlan == [repository |-> "home", base |-> 1, allowedPaths |-> {Deep(Pkg)}, version |-> "1",
           package |-> "core", module |-> "greeting", exports |-> {"HELLO"}, tests |-> {"HELLO"},
           outputs |-> MCOutputs, verification |-> "trusted", maxFiles |-> 3, maxPatchBytes |-> 12,
           maxVerification |-> 2, capabilities |-> {"read"}]

Index == Content("text", {}, {"other"})
Other(names) == Content("text", names, {})
Files == {Pkg \o <<d, f>> : d \in {"src", "test"},
                          f \in {"greeting.ts", "greeting.test.ts", "index.ts", "other.ts", "other.test.ts",
                                "link.ts", "link.test.ts", "directory.ts", "directory.test.ts"}}
MCSmallTree == (IndexPath :> Index) @@ (SourcePath :> Absent) @@ (TestPath :> Absent)
\* In the revision two paths are not files; a snapshot does not tell.
LinkPath == Pkg \o <<"src", "link.ts">>
DirectoryPath == Pkg \o <<"src", "directory.ts">>
MCSnapshot == (IndexPath :> Index) @@ (OtherPath :> Other({"BYE"})) @@ [path \in Files |-> Absent]
MCTree == (LinkPath :> Link) @@ (DirectoryPath :> Directory) @@ MCSnapshot

Ask(plan, profile, files) ==
  [valid |-> TRUE, plan |-> plan, profile |-> profile, files |-> files,
   identity |-> [repository |-> plan.repository, base |-> plan.base, snapshot |-> files]]

Good == Ask(MCPlan, MCProfile, MCSmallTree)
\* What two tasks may be asked side by side.
MCFew ==
  ("good" :> Good) @@
  ("second" :> Ask([MCPlan EXCEPT !.base = 2], MCProfile, MCSmallTree))

\* A stage, such as a formatter, may rewrite the test it runs.
MCScratch == {TestPath}

MCTrusted == [trusted |-> <<1, 2>>]

\* Plans, profiles and snapshots that deviate from the good ones: a request is
\* named by the deviation chosen in every respect, 1 being the good one.
Allowed == <<{Deep(Pkg)}, {Exact(SourcePath), Exact(IndexPath), Exact(TestPath)},
             {Deep(<<"packages", "..">>), Deep(Pkg)}, {Deep(Pkg \o <<"src">>)}>>
Outputs == <<MCOutputs, MCOutputs \ {Output("test", TestPath, "test")},
             MCOutputs \cup {Output("note", OtherPath, "evidence")},
             MCOutputs \cup {Output("index", OtherPath, "export")},
             (MCOutputs \ {Output("test", TestPath, "test")}) \cup {Output("test", TestPath, "evidence")}>>

\* The outputs of a module whose source is not a file in the revision.
OutputsAt(path, test) ==
  {Output("implementation", path, "file"), Output("index", IndexPath, "export"),
   Output("test", Pkg \o <<"test", test>>, "test")}
AllOutputs == Outputs \o <<OutputsAt(LinkPath, "link.test.ts"), OutputsAt(DirectoryPath, "directory.test.ts")>>

PatchLimits == <<12, 8, 6, 5>>
Exports == <<{"HELLO"}, {"HELLO", "BYE"}>>

PlanOf(n) ==
  [MCPlan EXCEPT !.allowedPaths = Allowed[n[1]], !.outputs = AllOutputs[n[2]],
                 !.maxPatchBytes = PatchLimits[n[3]], !.exports = Exports[n[4]],
                 !.maxFiles = 4 - n[5], !.verification = <<"trusted", "unknown">>[n[6]],
                 !.module = <<"greeting", "other", "link", "directory">>[n[7]]]

Boundaries == <<{Deep(<<"packages">>)}, {Exact(Pkg), Deep(Pkg \o <<"src">>)}, {}>>
Packages == <<{Package}, {Package, [Package EXCEPT !.test = <<"src">>]}>>

ProfileOf(n) ==
  [MCProfile EXCEPT !.canonical = (n[1] = 1), !.boundaries = Boundaries[n[2]],
                    !.packages = Packages[n[3]]]

SnapshotOf(n) ==
  [MCSnapshot EXCEPT ![SourcePath] = <<Absent, Rendered(MCPlan), Other({})>>[n[1]],
                     ![TestPath] = <<Absent, RenderedTest(MCPlan), Other({"HELLO"})>>[n[2]],
                     ![IndexPath] = <<Index, WithExport(Index, MCPlan), Absent, [Index EXCEPT !.modules = {}],
                                      [Index EXCEPT !.names = {"HELLO"}]>>[n[3]]]

\* The plan with the index deviates, or the profile with the snapshot, or the
\* plan asks for a module whose source is not a file in the revision.
Deviations ==
  ((1..4) \X (1..5) \X (1..4) \X (1..2) \X (1..2) \X (1..2) \X (1..2)
     \X {1} \X {1} \X {1} \X {1} \X {1} \X {1, 4})
  \cup ({1} \X {1} \X {1} \X {1} \X {1} \X {1} \X {1}
     \X (1..2) \X (1..3) \X (1..2) \X (1..3) \X (1..3) \X (1..5))
  \cup {<<1, module + 3, 1, 1, 1, 1, module, 1, 1, 1, 1, 1, 1>> : module \in {3, 4}}

MCMany ==
  [n \in Deviations |->
     Ask(PlanOf(SubSeq(n, 1, 7)), ProfileOf(SubSeq(n, 8, 10)), SnapshotOf(SubSeq(n, 11, 13)))]
=============================================================================
