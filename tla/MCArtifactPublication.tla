------------------------ MODULE MCArtifactPublication -----------------------
(* One attempt that uploads one content to one place, for TLC.            *)
EXTENDS ArtifactPublication, TLC

CONSTANTS a1, d1, q1, q2, u1

Done(s) == [status |-> "completed", staged |-> s]
Failed(s) == [status |-> "failed", staged |-> s]

OnePlace == {Done(<<1>>), Failed(<<1>>), Failed(<<>>)}
SomeRefused == {Failed(<<>>)}
=============================================================================
