------------------------ MODULE MCExecutionLifecycle ------------------------
(* Small topologies and policies for TLC.                                  *)
EXTENDS ExecutionLedger

Components == {"first", "second"}
Ports == {"in", "hint"}
Runs == {"r1"}
Nowhere == [c \in Components |-> {}]
One == [s \in Components \X Ports |-> 1]

\* A pipeline: a command feeds "first", whose output feeds "second".
InRequired == [c \in Components |-> {"in"}]
NoOptional == [c \in Components |-> {}]
PipelineIngress == {{<<"first", "in">>}}
PipelineRoutes == [c \in Components |-> IF c = "first" THEN {<<"second", "in">>} ELSE {}]

\* A component that joins two deliveries beside one that takes them singly.
JoinExpected == [s \in Components \X Ports |-> IF s = <<"first", "in">> THEN 2 ELSE 1]
\* Each component has a required and an optional input.  The one for the optional
\* input may come when the required ones have been leased already.
HintOptional == [c \in Components |-> {"hint"}]
JoinHintIngress == {{<<"first", "in">>}, {<<"first", "hint">>}, {<<"second", "in">>}}
SettledResults == {"completed", "retryable", "failed", "invalid"}
OneBackoff == <<1>>
=============================================================================
