--------------------------- MODULE DeliveryLedger ---------------------------
(***************************************************************************)
(* What the runtime promises about a unit of work, without executions,     *)
(* attempts, leases or results: every accepted delivery stays open until   *)
(* it is consumed, with the deliveries it was joined with, by one          *)
(* published output, or is given up for good.  What an output routes       *)
(* downstream becomes open in the very step that consumes its inputs.      *)
(***************************************************************************)
CONSTANT Delivery

VARIABLES
  fate,     \* what has become of each delivery
  published \* the input sets whose output has been published

ledger == <<fate, published>>

Fates == {"absent", "open", "completed", "dead_lettered", "cancelled"}

Are(S, f) == \A d \in S : fate[d] = f

Become(S, f, other) == [d \in Delivery |-> IF d \in S THEN f ELSE other[d]]

LedgerTypeOK ==
  /\ fate \in [Delivery -> Fates]
  /\ published \subseteq SUBSET Delivery

LedgerInit ==
  /\ fate = [d \in Delivery |-> "absent"]
  /\ published = {}

Accept(new) ==
  /\ Are(new, "absent")
  /\ fate' = Become(new, "open", fate)
  /\ UNCHANGED published

Publish(inputs, new) ==
  /\ inputs # {}
  /\ Are(inputs, "open")
  /\ Are(new, "absent")
  /\ fate' = Become(inputs, "completed", Become(new, "open", fate))
  /\ published' = published \cup {inputs}

GiveUp(S, f) ==
  /\ f \in {"dead_lettered", "cancelled"}
  /\ Are(S, "open")
  /\ fate' = Become(S, f, fate)
  /\ UNCHANGED published

LedgerNext ==
  \E S \in SUBSET Delivery :
    \/ Accept(S)
    \/ \E new \in SUBSET Delivery : Publish(S, new)
    \/ \E f \in Fates : GiveUp(S, f)

LedgerSpec == LedgerInit /\ [][LedgerNext]_ledger

-----------------------------------------------------------------------------
\* An output is published from inputs nobody else consumed, and a delivery is
\* completed exactly if an output consumed it: work is neither processed
\* twice nor dropped as if it had been processed.
ConsumedOnce ==
  /\ \A I, J \in published : I \cap J # {} => I = J
  /\ \A d \in Delivery : fate[d] = "completed" <=> \E I \in published : d \in I

\* What has been decided about a delivery is never reconsidered, and a
\* delivery never disappears.
FateIsFinal ==
  [][\A d \in Delivery :
       /\ fate[d] \in {"completed", "dead_lettered", "cancelled"} => fate'[d] = fate[d]
       /\ fate[d] # "absent" => fate'[d] # "absent"]_ledger
=============================================================================
