------------------------- MODULE MCExternalActions --------------------------
(* Three actions, two of them behind one approval, for TLC.                *)
EXTENDS ExternalActions, TLC

CONSTANTS c1, c2

Callers == Permutations({c1, c2})
TwoNeedApproval == 1 :> "p" @@ 2 :> "p" @@ 3 :> NoApproval
=============================================================================
