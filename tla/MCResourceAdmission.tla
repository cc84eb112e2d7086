------------------------ MODULE MCResourceAdmission -------------------------
(* Two regions, and requests for executions and network calls, for TLC.    *)
EXTENDS ResourceAdmission, TLC

CONSTANTS r1, r2, r3, r4, b1, b2, b3, b4, b5

Regions == {"root", "child"}
Executions == "concurrent_executions"
Calls == "network_calls"
Both == {Executions, Calls}
RowIds == Permutations({b1, b2, b3, b4, b5})
\* Executions in both regions, and calls of both regions that share the root's.
MixedScopes ==
  r1 :> <<"root", Executions>> @@ r2 :> <<"child", Executions>>
    @@ r3 :> <<"root", Calls>> @@ r4 :> <<"child", Calls>>
Tree(root, child, calls) ==
  <<"root", Executions>> :> root @@ <<"child", Executions>> :> child @@ <<"root", Calls>> :> calls

\* The child's limit is below, at and, rejected, above the root's; budgets
\* appear and disappear.
MixedDocuments ==
  {Tree(1, 1, 1), Tree(1, 2, 1), Tree(2, 1, 1), Tree(2, Unlimited, Unlimited)}
=============================================================================
