------------------------- MODULE MCTopologyContract -------------------------
EXTENDS TopologyContract

MCPort(n, d, s, r) == [name |-> n, direction |-> d, schema |-> s, required |-> r]

MCPorts ==
  [work |-> {MCPort("in", "input", "s", TRUE), MCPort("out", "output", "s", TRUE)},
   join |-> {MCPort("in", "input", "s", TRUE), MCPort("hint", "input", "t", TRUE),
             MCPort("out", "output", "t", TRUE)}]

At(i, p) == [instance |-> i, port |-> p]

\* Connections a template may declare between the boundary, two workers and a
\* join; some repeat an end, close a cycle or pair different schemas.
Wires ==
  <<[from |-> At("region", "goal"), to |-> At("a", "in")],
   [from |-> At("region", "goal"), to |-> At("j", "in")],
   [from |-> At("a", "out"), to |-> At("j", "in")],
   [from |-> At("b", "out"), to |-> At("j", "in")],
   [from |-> At("a", "out"), to |-> At("b", "in")],
   [from |-> At("a", "out"), to |-> At("j", "hint")],
   [from |-> At("region", "hint"), to |-> At("j", "hint")],
   [from |-> At("j", "out"), to |-> At("region", "result")]>>

\* Every set of wires, and the short ones with a wire declared twice.
Wirings ==
  {SelectSeq(Wires, LAMBDA w : \E k \in K : w = Wires[k]) : K \in SUBSET (DOMAIN Wires)}
  \cup {<<Wires[j], Wires[k], Wires[j]>> : j, k \in DOMAIN Wires}

Rules == [input : {At("j", "in"), At("j", "hint")}, expected : 0..3]

MCDocument ==
  [instances : {[a |-> "work", b |-> "work", j |-> "join"]},
   allowed : {{"work"}, {"work", "join"}},
   references : {{}},
   inputs : {{[port |-> "goal", schema |-> "s"], [port |-> "hint", schema |-> "t"]}},
   outputs : {{[port |-> "result", schema |-> "t", required |-> TRUE]}},
   ingress : {{At("a", "in")}, {At("a", "in"), At("j", "hint")},
              {At("a", "in"), At("j", "in"), At("j", "hint")}, {At("a", "out")}},
   connections : Wirings,
   fanIn : {<<>>} \cup {<<r>> : r \in Rules} \cup {<<r, r>> : r \in Rules}]
=============================================================================
