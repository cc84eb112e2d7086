---------------------- MODULE MCTemplateInstantiation ----------------------
EXTENDS TemplateInstantiation, TLC

CONSTANTS c1, c2, r1, r2, n1, n2, A, B, C, D, q

MCSeed(i, v, s) == [instance |-> i, value |-> v, schema |-> s]

\* B seeds the values of A in the other order, C one of them under another
\* schema, D is refused.
MCSeeds ==
  (A :> <<MCSeed("x", "v", "s"), MCSeed("y", "w", "s")>>) @@
  (B :> <<MCSeed("x", "w", "s"), MCSeed("y", "v", "s")>>) @@
  (C :> <<MCSeed("x", "v", "t")>>) @@
  (D :> <<>>)

Of(region, name) == [region |-> region, name |-> name]

Direct(region, name, source, id) ==
  [kind |-> "direct", items |-> <<Of(region, name)>>, source |-> source, id |-> id]

Apply(items) == [kind |-> "apply", items |-> items, source |-> "doc", id |-> Nil]

Register(name, content) == [kind |-> "register", name |-> name, content |-> content]

MCRequests ==
  {Direct(r1, n1, "doc", q), Direct(r1, n1, "doc", Nil), Direct(r1, n1, "own", q),
   Direct(r2, n2, "doc", q),
   Apply(<<Of(r1, n1), Of(r2, n2)>>), Apply(<<Of(r2, n2)>>),
   Register(n1, A), Register(n1, C)}

\* The database before: templates, regions and an artifact of an earlier run.
Templates == {(TemplateKey(n2) :> b) @@ t :
                b \in {B, C, D}, t \in {<<>>, (TemplateKey(n1) :> A)}}
Regions == {<<>>,
            (RegionKey(Root) :> "ready") @@ (RegionKey(r1) :> "ready") @@ (RegionKey(r2) :> "ready"),
            (RegionKey(Root) :> "ready") @@ (RegionKey(r1) :> "ready") @@ (RegionKey(r2) :> "stopped")}
Artifacts == {<<>>, (ArtifactKey("v") :> "s")}

MCDatabases == {t @@ r @@ a : t \in Templates, r \in Regions, a \in Artifacts}
=============================================================================
