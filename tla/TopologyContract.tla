-------------------------- MODULE TopologyContract --------------------------
(***************************************************************************)
(* What a template must satisfy before its topology is published, and what  *)
(* the routing and the scheduler make of the published topology.            *)
(*                                                                          *)
(* TemplateInstantiationService resolves a registered template and refuses  *)
(* it for the reasons of Rejections.  Routing then delivers a command to    *)
(* the ingress targets and an event along the stored connections, and the   *)
(* scheduler runs an instance when each required input has exactly the      *)
(* deliveries the fan-in rule of the template expects.  The three read the  *)
(* same document and count differently; JoinsFill relates them.             *)
(*                                                                          *)
(* A name, a schema and a component are values of small sets.  Declaration  *)
(* order is kept where it decides an outcome (repeated connections and      *)
(* rules); which of several reasons is reported first is left out.          *)
(***************************************************************************)
EXTENDS Integers, FiniteSets, Sequences

CONSTANTS
  Component,    \* registered component definitions
  Ports,        \* [Component -> sets of [name, direction, schema, required]]
  Document,     \* the templates considered
  Registered,   \* schemas, policies and capabilities neither missing nor retired
  Boundary      \* the instance name "region" of an endpoint

\* What the schema of a template document and of a component already ensures.
ASSUME TopologyAssumption ==
  /\ \A c \in Component : \A p \in Ports[c] : p.required \in BOOLEAN
  /\ \A d \in Document :
       /\ Boundary \notin DOMAIN d.instances
       /\ IsFiniteSet(DOMAIN d.connections)
       /\ Len(d.fanIn) \in Nat /\ DOMAIN d.fanIn = 1..Len(d.fanIn)
       /\ \A k \in DOMAIN d.fanIn : d.fanIn[k].expected \in Int

VARIABLES
  document,   \* the template asked for
  verdict,    \* "asked", "refused", "published", "commanded"
  ready,      \* deliveries of the command's correlation, by endpoint
  ran         \* executions, by instance

topology == <<document, verdict, ready, ran>>

-----------------------------------------------------------------------------
(* Resolution of a template. *)

Instances(d) == DOMAIN d.instances

\* The ports of the instances, as endpoints of one direction.
Endpoints(d, direction) ==
  UNION {{[instance |-> i, port |-> p.name] :
             p \in {q \in Ports[d.instances[i]] : q.direction = direction}} :
           i \in Instances(d)}

PortAt(d, e, direction) ==
  CHOOSE p \in Ports[d.instances[e.instance]] :
     p.name = e.port /\ p.direction = direction

\* Connections between two instances are stored; those of the region's own
\* boundary are only checked.
IsBoundary(e) == e.instance = Boundary

Stored(d) == {k \in DOMAIN d.connections :
                ~IsBoundary(d.connections[k].from) /\ ~IsBoundary(d.connections[k].to)}

\* Connections into an input, those of the boundary included.
Incoming(d, e) == {k \in DOMAIN d.connections : d.connections[k].to = e}

DeclaredSchema(declared, port) ==
  {x.schema : x \in {y \in declared : y.port = port}}

SourceSchema(d, e) ==
  IF IsBoundary(e) THEN DeclaredSchema(d.inputs, e.port)
  ELSE {PortAt(d, e, "output").schema : x \in {e} \cap Endpoints(d, "output")}

TargetSchema(d, e) ==
  IF IsBoundary(e) THEN DeclaredSchema(d.outputs, e.port)
  ELSE {PortAt(d, e, "input").schema : x \in {e} \cap Endpoints(d, "input")}

UnavailableComponent(d) ==
  \E i \in Instances(d) :
     \/ d.instances[i] \notin Component \cap d.allowed
     \/ \E p \in Ports[d.instances[i]] : p.schema \notin Registered

UnavailableContract(d) == \E x \in d.inputs \cup d.outputs : x.schema \notin Registered

UnavailableReference(d) == ~ d.references \subseteq Registered

InvalidIngress(d) == ~ d.ingress \subseteq Endpoints(d, "input")

InvalidConnection(d) ==
  \E k \in DOMAIN d.connections :
     LET c == d.connections[k] IN
     \/ IsBoundary(c.from) /\ IsBoundary(c.to)
     \/ SourceSchema(d, c.from) = {}
     \/ TargetSchema(d, c.to) = {}
     \/ SourceSchema(d, c.from) # TargetSchema(d, c.to)

DuplicateConnection(d) ==
  \E j, k \in DOMAIN d.connections :
     /\ j < k
     /\ \/ d.connections[j] = d.connections[k]
        \/ IsBoundary(d.connections[k].to) /\ d.connections[j].to = d.connections[k].to

MissingOutput(d) ==
  \E x \in d.outputs :
     x.required /\ Incoming(d, [instance |-> Boundary, port |-> x.port]) = {}

\* Mutant: a rule may expect fewer inputs than are connected.
InvalidFanIn_AtMost(d) ==
  \/ \E k \in DOMAIN d.fanIn :
        \/ \E j \in 1..(k-1) : d.fanIn[j].input = d.fanIn[k].input
        \/ d.fanIn[k].input \notin Endpoints(d, "input")
        \/ d.fanIn[k].expected <= 0
        \/ d.fanIn[k].expected > Cardinality(Incoming(d, d.fanIn[k].input))
  \/ \E e \in Endpoints(d, "input") :
        /\ Cardinality(Incoming(d, e)) > 1
        /\ \A k \in DOMAIN d.fanIn : d.fanIn[k].input # e

InvalidFanIn(d) ==
  \/ \E k \in DOMAIN d.fanIn :
        \/ \E j \in 1..(k-1) : d.fanIn[j].input = d.fanIn[k].input
        \/ d.fanIn[k].input \notin Endpoints(d, "input")
        \/ d.fanIn[k].expected <= 0
        \/ d.fanIn[k].expected # Cardinality(Incoming(d, d.fanIn[k].input))
  \/ \E e \in Endpoints(d, "input") :
        /\ Cardinality(Incoming(d, e)) > 1
        /\ \A k \in DOMAIN d.fanIn : d.fanIn[k].input # e

\* The reasons for which a template is refused.
Rejections(d) ==
  {r.code : r \in {x \in
     {[code |-> "component",            holds |-> UnavailableComponent(d)],
      [code |-> "contract",             holds |-> UnavailableContract(d)],
      [code |-> "reference",            holds |-> UnavailableReference(d)],
      [code |-> "ingress",              holds |-> InvalidIngress(d)],
      [code |-> "connection",           holds |-> InvalidConnection(d)],
      [code |-> "duplicate_connection", holds |-> DuplicateConnection(d)],
      [code |-> "missing_output",       holds |-> MissingOutput(d)],
      [code |-> "fan_in",               holds |-> InvalidFanIn(d)]} : x.holds}}

-----------------------------------------------------------------------------
(* Use of the published topology. *)

\* The deliveries the scheduler waits for on an input.
Expected(d, e) ==
  IF \E k \in DOMAIN d.fanIn : d.fanIn[k].input = e
  THEN d.fanIn[CHOOSE k \in DOMAIN d.fanIn : d.fanIn[k].input = e].expected
  ELSE 1

TopologyInit ==
  /\ document \in Document
  /\ verdict = "asked"
  /\ ready = [e \in Endpoints(document, "input") |-> 0]
  /\ ran = [i \in Instances(document) |-> 0]

Publish ==
  /\ verdict = "asked"
  /\ verdict' = IF Rejections(document) = {} THEN "published" ELSE "refused"
  /\ UNCHANGED <<document, ready, ran>>

\* A command is delivered to every ingress target.
RouteCommand ==
  /\ verdict = "published"
  /\ verdict' = "commanded"
  /\ ready' = [e \in DOMAIN ready \cup document.ingress |->
                 (IF e \in DOMAIN ready THEN ready[e] ELSE 0)
                 + (IF e \in document.ingress THEN 1 ELSE 0)]
  /\ UNCHANGED <<document, ran>>

InputsOf(i, required) ==
  {e \in DOMAIN ready :
     e.instance = i /\ PortAt(document, e, "input").required = required}

Complete(e) == ready[e] = Expected(document, e)

\* Inputs an execution takes: all required ones and the complete optional ones.
Taken(i) ==
  InputsOf(i, TRUE) \cup {e \in InputsOf(i, FALSE) : Complete(e)}

\* The poll leases a group whose inputs are complete; the execution commits and
\* publishes one event on each output, routed along the stored connections.
Execute(i) ==
  /\ verdict = "commanded"
  /\ \A e \in InputsOf(i, TRUE) : Complete(e)
  /\ \A e \in InputsOf(i, FALSE) : ready[e] <= Expected(document, e)
  /\ Taken(i) # {}
  /\ ran' = [ran EXCEPT ![i] = @ + 1]
  /\ ready' = [e \in DOMAIN ready |->
                 (IF e \in Taken(i) THEN 0 ELSE ready[e])
                 + Cardinality({k \in Stored(document) :
                      /\ document.connections[k].from.instance = i
                      /\ document.connections[k].to = e})]
  /\ UNCHANGED <<document, verdict>>

TopologyNext ==
  \/ Publish
  \/ RouteCommand
  \/ \E i \in Instances(document) : Execute(i)

TopologySpec == TopologyInit /\ [][TopologyNext]_topology /\ WF_topology(TopologyNext)

-----------------------------------------------------------------------------
(* Properties. *)

\* Rows keep their types, and a delivery only ever waits at an input port: a poll
\* puts the group of any other port off forever.
TopologyTypeOK ==
  /\ document \in Document
  /\ verdict \in {"asked", "refused", "published", "commanded"}
  /\ ready \in [Endpoints(document, "input") -> Nat]
  /\ ran \in [Instances(document) -> Nat]

\* The command of the template feeds exactly the inputs its boundary feeds, each
\* by one connection: an input of the command is delivered once.
Fed(d) ==
  \A e \in Endpoints(d, "input") :
     Cardinality({k \in Incoming(d, e) : IsBoundary(d.connections[k].from)})
        = IF e \in d.ingress THEN 1 ELSE 0

AllRequired(d) == \A i \in Instances(d) : \A p \in Ports[d.instances[i]] : p.required

\* What feeds an input has happened.
SourcesDone(e) ==
  /\ Incoming(document, e) # {}
  /\ \A k \in Incoming(document, e) :
        LET s == document.connections[k].from IN
        IF IsBoundary(s) THEN verdict = "commanded" ELSE ran[s.instance] > 0

\* The three readers of a template agree on what a join waits for.  In a
\* published topology whose command feeds the inputs of its boundary, an input
\* never holds more deliveries than the scheduler takes (which would put its
\* group off forever), and once everything that feeds it has run it holds
\* exactly those or its instance has run.
JoinsFill ==
  (verdict = "commanded" /\ Fed(document) /\ AllRequired(document)) =>
    \A e \in DOMAIN ready :
       /\ ready[e] <= Expected(document, e)
       /\ SourcesDone(e) => Complete(e) \/ ran[e.instance] > 0

=============================================================================
