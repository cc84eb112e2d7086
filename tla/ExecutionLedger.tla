-------------------------- MODULE ExecutionLedger ---------------------------
(* The durable execution core implements the delivery ledger.              *)
EXTENDS ExecutionLifecycle

\* A delivery that is ready or leased, whatever its execution and attempts
\* are doing, is open.
Fate == [d \in Delivery |->
           IF del[d].status \in {"ready", "leased"} THEN "open" ELSE del[d].status]

\* The input sets of the executions that have written outputs.
Published == {Inputs(a) : a \in out}

Ledger == INSTANCE DeliveryLedger WITH fate <- Fate, published <- Published

\* Leases, heartbeats, retries, crashes and recovery are invisible to the
\* owner of a delivery: at-least-once attempts, exactly one outcome.
ImplementsLedger == Ledger!LedgerSpec
=============================================================================
