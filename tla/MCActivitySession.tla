-------------------------- MODULE MCActivitySession --------------------------
(* Bounds of the run that model-checks ActivitySession.                     *)
EXTENDS ActivitySession, TLC

CONSTANTS p1, p2

Ask(place, run) == [place |-> place, run |-> run]
\* The second launch asserts no run: it joins the first one's binding, or makes
\* one the first does not match.  Its browser was launched for another run and
\* gives up when it has read the context.
TwoRequests == (p1 :> Ask("thread", "r")) @@ (p2 :> Ask("thread", "none"))
TwoRuns == (p1 :> "r") @@ (p2 :> "q")
=============================================================================
