---------------------------- MODULE Systems_proofs ----------------------------
(***************************************************************************)
(* The application of a system document: its templates are published whole *)
(* and once (TemplateInstantiation), what is published lets every join     *)
(* fill (TopologyContract), and the budgets it replaces are never          *)
(* overdrawn (ResourceAdmission).  The three specifications share no       *)
(* state.                                                                  *)
(***************************************************************************)
EXTENDS TemplateInstantiation, TopologyContract, ResourceAdmission, FiniteSetTheorems, TLAPS

-----------------------------------------------------------------------------
(* TemplateInstantiation.  Publication is whole, final and answered to the  *)
(* request it was made for, for any number of callers, documents and seeds. *)

Steps ==
  {"find", "create", "region", "declare", "lookup", "active", "replay", "activate",
   "record", "seed", "state", "commit", "answered"}

\* Every caller has a place, rows of its own and an answer.
Shape ==
  /\ request \in [Call -> Requests]
  /\ at \in [Call -> [step : Steps, n : Nat, k : Nat \ {0}]]
  /\ draft = [c \in Call |-> draft[c]]
  /\ locked = [c \in Call |-> locked[c]]
  /\ progress = [c \in Call |-> [status |-> progress[c].status,
                                 published |-> progress[c].published]]
  /\ answer = [c \in Call |-> [status |-> answer[c].status,
                               published |-> answer[c].published]]

\* What a transaction has inserted nobody else has: neither the committed rows nor
\* another transaction.
DraftsApart ==
  /\ \A c \in Call : DOMAIN draft[c] \cap DOMAIN rows = {}
  /\ \A c, d \in Call : c # d => DOMAIN draft[c] \cap DOMAIN draft[d] = {}

\* Only registration makes templates.  Rows that are inserted without waiting
\* come with a row, or a lock, for which others wait.
DraftGuarded(c) ==
  \A key \in DOMAIN draft[c] :
    /\ key[1] # "template"
    /\ key[1] = "payload" => ArtifactKey(key[2]) \in DOMAIN draft[c] \cup locked[c]
    /\ key[1] = "state" => RevisionKey(key[2][1].region) \in DOMAIN draft[c]
    /\ key[1] = "link" => RequestKey(key[2][1]) \in DOMAIN draft[c]

Publishing(c) == at[c].step \in {"record", "seed", "state"}

\* The k-th seed and its link to the request.
SeedLinked(c, k) ==
  /\ SeedIn(View(c), Effective(c), k)
  /\ LinkKey(Id(c), Seeds[Effective(c).content][k].instance) \in DOMAIN View(c)

\* While a topology is being published the rest of what the call sees is whole.
PartlyPublished(c) ==
  /\ RevisionKey(Item(c).region) \in DOMAIN View(c)
  /\ View(c)[RevisionKey(Item(c).region)] = Effective(c)
  /\ \A r \in Table(View(c), "revision") : r # Item(c).region => RevisionWhole(View(c), r)
  /\ \A id \in Table(View(c), "request") :
       id # Id(c) \/ at[c].step = "record" => RequestWhole(View(c), id)
  /\ at[c].step # "record" =>
       /\ RequestKey(Id(c)) \in DOMAIN View(c)
       /\ View(c)[RequestKey(Id(c))] =
            [digest |-> RequestDigest(request[c], Item(c)), effective |-> Effective(c)]
       /\ at[c].k \in DOMAIN Seeds[Effective(c).content]
       /\ \A k \in 1..(at[c].k - 1) : SeedLinked(c, k)
  /\ at[c].step = "state" =>
       /\ {ArtifactKey(SeedOf(c).value), PayloadKey(SeedOf(c).value)} \subseteq DOMAIN View(c)
       /\ View(c)[ArtifactKey(SeedOf(c).value)] = SeedOf(c).schema

\* What the call sees, at each of its statements.
Seen(c) ==
  /\ at[c].step \in {"find", "create"} => request[c].kind = "register"
  /\ at[c].step \in {"active", "replay", "activate", "record", "seed", "state"} =>
       TemplateKey(Item(c).name) \in DOMAIN rows
  /\ at[c].step = "replay" =>
       /\ RequestKey(Id(c)) \in DOMAIN View(c)
       /\ View(c)[RequestKey(Id(c))].digest = RequestDigest(request[c], Item(c))
  /\ IF Publishing(c) THEN PartlyPublished(c) ELSE Whole(View(c))

\* What the call would answer it has published, but for the item it is at.
Promised(c) ==
  at[c].step # "answered" =>
    \A effective \in progress[c].published :
      \/ PublishedFor(View(c), request[c], effective)
      \/ /\ at[c].step \in {"active", "replay", "activate", "record"}
         /\ effective = Effective(c)

Answered(c) ==
  \A effective \in answer[c].published : PublishedFor(rows, request[c], effective)

PublicationInvariant ==
  /\ Shape
  /\ Sound(rows) /\ Whole(rows)
  /\ DraftsApart
  /\ \A c \in Call : Sound(draft[c]) /\ DraftGuarded(c)
  /\ \A c \in Call : Seen(c) /\ Promised(c) /\ Answered(c)

-----------------------------------------------------------------------------
(* Keys and rows.                                                          *)

\* A key names one row of one table.
LEMMA KeyFacts ==
  /\ \A x : /\ TemplateKey(x)[1] = "template" /\ TemplateKey(x)[2] = x
            /\ RegionKey(x)[1] = "region" /\ RegionKey(x)[2] = x
            /\ RevisionKey(x)[1] = "revision" /\ RevisionKey(x)[2] = x
            /\ RequestKey(x)[1] = "request" /\ RequestKey(x)[2] = x
            /\ ArtifactKey(x)[1] = "artifact" /\ ArtifactKey(x)[2] = x
            /\ PayloadKey(x)[1] = "payload" /\ PayloadKey(x)[2] = x
  /\ \A x, y : /\ StateKey(x, y)[1] = "state" /\ StateKey(x, y)[2] = <<x, y>>
               /\ StateKey(x, y)[2][1] = x /\ StateKey(x, y)[2][2] = y
               /\ LinkKey(x, y)[1] = "link" /\ LinkKey(x, y)[2] = <<x, y>>
               /\ LinkKey(x, y)[2][1] = x /\ LinkKey(x, y)[2][2] = y
  BY DEF TemplateKey, RegionKey, RevisionKey, RequestKey, ArtifactKey, PayloadKey, StateKey,
         LinkKey

\* Every key is the pair of its table and its name.
LEMMA KeyPairs ==
  /\ \A x : /\ TemplateKey(x) = <<TemplateKey(x)[1], TemplateKey(x)[2]>>
            /\ RegionKey(x) = <<RegionKey(x)[1], RegionKey(x)[2]>>
            /\ RevisionKey(x) = <<RevisionKey(x)[1], RevisionKey(x)[2]>>
            /\ RequestKey(x) = <<RequestKey(x)[1], RequestKey(x)[2]>>
            /\ ArtifactKey(x) = <<ArtifactKey(x)[1], ArtifactKey(x)[2]>>
            /\ PayloadKey(x) = <<PayloadKey(x)[1], PayloadKey(x)[2]>>
  /\ \A x, y : /\ StateKey(x, y) = <<StateKey(x, y)[1], StateKey(x, y)[2]>>
               /\ LinkKey(x, y) = <<LinkKey(x, y)[1], LinkKey(x, y)[2]>>
  BY DEF TemplateKey, RegionKey, RevisionKey, RequestKey, ArtifactKey, PayloadKey, StateKey,
         LinkKey

\* The revisions and the requests of a table are the rows with their keys.
LEMMA TableFacts ==
  ASSUME NEW db
  PROVE  /\ \A r : RevisionKey(r) \in DOMAIN db => r \in Table(db, "revision")
         /\ \A id : RequestKey(id) \in DOMAIN db => id \in Table(db, "request")
         /\ Sound(db) => \A r \in Table(db, "revision") : RevisionKey(r) \in DOMAIN db
         /\ Sound(db) => \A id \in Table(db, "request") : RequestKey(id) \in DOMAIN db
<1>1. /\ \A r : RevisionKey(r) \in DOMAIN db => r \in Table(db, "revision")
      /\ \A id : RequestKey(id) \in DOMAIN db => id \in Table(db, "request")
  BY KeyFacts DEF Table
<1>2. ASSUME Sound(db), NEW r \in Table(db, "revision") PROVE RevisionKey(r) \in DOMAIN db
  <2>1. PICK key \in DOMAIN db : key[1] = "revision" /\ r = key[2]
    BY <1>2 DEF Table
  <2>2. key = <<key[1], key[2]>>
    BY <1>2, <2>1 DEF Sound
  <2> QED
    BY <2>1, <2>2 DEF RevisionKey
<1>3. ASSUME Sound(db), NEW id \in Table(db, "request") PROVE RequestKey(id) \in DOMAIN db
  <2>1. PICK key \in DOMAIN db : key[1] = "request" /\ id = key[2]
    BY <1>3 DEF Table
  <2>2. key = <<key[1], key[2]>>
    BY <1>3, <2>1 DEF Sound
  <2> QED
    BY <2>1, <2>2 DEF RequestKey
<1> QED
  BY <1>1, <1>2, <1>3

\* Later rows contain the earlier ones.
Extends(new, old) == \A key \in DOMAIN old : key \in DOMAIN new /\ new[key] = old[key]

LEMMA InsertedFacts ==
  ASSUME NEW db, NEW key, NEW row
  PROVE  /\ DOMAIN Inserted(db, key, row) = DOMAIN db \cup {key}
         /\ Extends(Inserted(db, key, row), db)
         /\ key \notin DOMAIN db => Inserted(db, key, row)[key] = row
  BY DEF Inserted, Extends

LEMMA MergedFacts ==
  ASSUME NEW new, NEW old
  PROVE  /\ DOMAIN Merged(new, old) = DOMAIN new \cup DOMAIN old
         /\ Extends(Merged(new, old), new)
         /\ \A key \in DOMAIN old \ DOMAIN new : Merged(new, old)[key] = old[key]
         /\ DOMAIN new \cap DOMAIN old = {} => Extends(Merged(new, old), old)
  BY DEF Merged, Extends

\* Sound rows stay sound when sound rows are added.
LEMMA SoundUnion ==
  ASSUME NEW db, NEW A, NEW B, Sound(A), Sound(B),
         \A key \in DOMAIN db : \/ key \in DOMAIN A /\ db[key] = A[key]
                                \/ key \in DOMAIN B /\ db[key] = B[key]
  PROVE  Sound(db)
  BY DEF Sound

\* A seed that is there stays, and so does what is whole.
LEMMA SeedKept ==
  ASSUME NEW V, NEW W, Extends(W, V), NEW effective, NEW k, SeedIn(V, effective, k)
  PROVE  SeedIn(W, effective, k)
  BY DEF SeedIn, Extends

LEMMA RevisionKept ==
  ASSUME NEW V, NEW W, Sound(V), Extends(W, V), NEW r, RevisionKey(r) \in DOMAIN V,
         RevisionWhole(V, r)
  PROVE  RevisionWhole(W, r)
<1> DEFINE effective == V[RevisionKey(r)]
<1>1. W[RevisionKey(r)] = effective
  BY DEF Extends
<1>2. \A k \in DOMAIN Seeds[effective.content] : SeedIn(W, effective, k)
  BY SeedKept DEF RevisionWhole
<1>3. PICK id \in Table(V, "request") : V[RequestKey(id)].effective = effective
  BY DEF RevisionWhole
<1>4. RequestKey(id) \in DOMAIN V
  BY <1>3, TableFacts
<1>5. id \in Table(W, "request") /\ W[RequestKey(id)].effective = effective
  BY <1>3, <1>4, TableFacts DEF Extends
<1> QED
  BY <1>1, <1>2, <1>5 DEF RevisionWhole

LEMMA RequestKept ==
  ASSUME NEW V, NEW W, Extends(W, V), NEW id, RequestKey(id) \in DOMAIN V,
         RequestWhole(V, id)
  PROVE  RequestWhole(W, id)
<1>1. W[RequestKey(id)] = V[RequestKey(id)]
  BY DEF Extends
<1> QED
  BY <1>1 DEF RequestWhole, Extends

\* Rows that are made of whole rows are whole.
LEMMA WholeUnion ==
  ASSUME NEW db, NEW A, NEW B, Sound(db), Sound(A), Sound(B), Whole(A), Whole(B),
         Extends(db, A), Extends(db, B), DOMAIN db \subseteq DOMAIN A \cup DOMAIN B
  PROVE  Whole(db)
<1>1. ASSUME NEW r \in Table(db, "revision") PROVE RevisionWhole(db, r)
  <2>1. RevisionKey(r) \in DOMAIN A \/ RevisionKey(r) \in DOMAIN B
    BY <1>1, TableFacts
  <2>2. CASE RevisionKey(r) \in DOMAIN A
    BY <2>2, TableFacts, RevisionKept DEF Whole
  <2>3. CASE RevisionKey(r) \in DOMAIN B
    BY <2>3, TableFacts, RevisionKept DEF Whole
  <2> QED
    BY <2>1, <2>2, <2>3
<1>2. ASSUME NEW id \in Table(db, "request") PROVE RequestWhole(db, id)
  <2>1. RequestKey(id) \in DOMAIN A \/ RequestKey(id) \in DOMAIN B
    BY <1>2, TableFacts
  <2>2. CASE RequestKey(id) \in DOMAIN A
    BY <2>2, TableFacts, RequestKept DEF Whole
  <2>3. CASE RequestKey(id) \in DOMAIN B
    BY <2>3, TableFacts, RequestKept DEF Whole
  <2> QED
    BY <2>1, <2>2, <2>3
<1> QED
  BY <1>1, <1>2 DEF Whole

\* A new row of another table leaves whole what was whole.
LEMMA WholeInserted ==
  ASSUME NEW V, NEW W, Sound(V), Sound(W), Whole(V), Extends(W, V),
         \A key \in DOMAIN W \ DOMAIN V : key[1] \notin {"revision", "request"}
  PROVE  Whole(W)
<1>1. ASSUME NEW r \in Table(W, "revision") PROVE RevisionWhole(W, r)
  <2>1. RevisionKey(r) \in DOMAIN V
    BY <1>1, TableFacts, KeyFacts
  <2> QED
    BY <2>1, TableFacts, RevisionKept DEF Whole
<1>2. ASSUME NEW id \in Table(W, "request") PROVE RequestWhole(W, id)
  <2>1. RequestKey(id) \in DOMAIN V
    BY <1>2, TableFacts, KeyFacts
  <2> QED
    BY <2>1, TableFacts, RequestKept DEF Whole
<1> QED
  BY <1>1, <1>2 DEF Whole

LEMMA PublishedKept ==
  ASSUME NEW V, NEW W, Extends(W, V), NEW q, NEW effective, PublishedFor(V, q, effective)
  PROVE  PublishedFor(W, q, effective)
  BY DEF PublishedFor, Extends

-----------------------------------------------------------------------------
(* What a call sees while others commit.                                   *)

\* The rows a call sees contain its own and, as they are apart, the committed ones.
LEMMA ViewFacts ==
  ASSUME NEW c \in Call, DOMAIN draft[c] \cap DOMAIN rows = {}
  PROVE  /\ DOMAIN View(c) = DOMAIN draft[c] \cup DOMAIN rows
         /\ Extends(View(c), draft[c])
         /\ Extends(View(c), rows)
  BY MergedFacts DEF View

LEMMA ViewSound ==
  ASSUME NEW c \in Call, DOMAIN draft[c] \cap DOMAIN rows = {}, Sound(rows), Sound(draft[c])
  PROVE  Sound(View(c))
<1>1. \A key \in DOMAIN View(c) : \/ key \in DOMAIN draft[c] /\ View(c)[key] = draft[c][key]
                                  \/ key \in DOMAIN rows /\ View(c)[key] = rows[key]
  BY ViewFacts DEF Extends
<1> QED
  BY <1>1, SoundUnion

\* The effective topology of an item stays while its template is known.
LEMMA EffectiveStays ==
  ASSUME NEW c \in Call, request' = request, Item(c)' = Item(c),
         TemplateKey(Item(c).name) \in DOMAIN View(c), Extends(View(c)', View(c))
  PROVE  Effective(c)' = Effective(c)
<1>1. View(c)'[TemplateKey(Item(c).name)] = View(c)[TemplateKey(Item(c).name)]
  BY DEF Extends
<1> QED
  BY <1>1 DEF Effective, Get

\* A publication under way stays as it is when the call sees more whole rows.
LEMMA PartlyKept ==
  ASSUME NEW c \in Call, request' = request, at'[c] = at[c],
         TemplateKey(Item(c).name) \in DOMAIN View(c), Publishing(c), PartlyPublished(c),
         NEW B, Sound(View(c)), Sound(View(c)'), Sound(B), Whole(B),
         Extends(View(c)', View(c)), Extends(View(c)', B),
         DOMAIN View(c)' \subseteq DOMAIN View(c) \cup DOMAIN B
  PROVE  PartlyPublished(c)'
<1> DEFINE V == View(c)
           W == View(c)'
           e == Effective(c)
<1>i. Item(c)' = Item(c) /\ Id(c)' = Id(c)
  BY DEF Item, Id
<1>e. Effective(c)' = e
  BY <1>i, EffectiveStays
<1>s. SeedOf(c)' = SeedOf(c)
  BY <1>e DEF SeedOf
<1>1. RevisionKey(Item(c).region) \in DOMAIN W /\ W[RevisionKey(Item(c).region)] = e
  BY DEF PartlyPublished, Extends
<1>2. ASSUME NEW r \in Table(W, "revision"), r # Item(c).region PROVE RevisionWhole(W, r)
  <2>1. RevisionKey(r) \in DOMAIN V \/ RevisionKey(r) \in DOMAIN B
    BY <1>2, TableFacts
  <2>2. CASE RevisionKey(r) \in DOMAIN V
    BY <1>2, <2>2, TableFacts, RevisionKept DEF PartlyPublished
  <2>3. CASE RevisionKey(r) \in DOMAIN B
    BY <2>3, TableFacts, RevisionKept DEF Whole
  <2> QED
    BY <2>1, <2>2, <2>3
<1>3. ASSUME NEW id \in Table(W, "request"), id # Id(c) \/ at[c].step = "record"
      PROVE  RequestWhole(W, id)
  <2>1. RequestKey(id) \in DOMAIN V \/ RequestKey(id) \in DOMAIN B
    BY <1>3, TableFacts
  <2>2. CASE RequestKey(id) \in DOMAIN V
    BY <1>3, <2>2, TableFacts, RequestKept DEF PartlyPublished
  <2>3. CASE RequestKey(id) \in DOMAIN B
    BY <2>3, TableFacts, RequestKept DEF Whole
  <2> QED
    BY <2>1, <2>2, <2>3
<1>4. at[c].step # "record" =>
        /\ RequestKey(Id(c)) \in DOMAIN W
        /\ W[RequestKey(Id(c))] =
             [digest |-> RequestDigest(request[c], Item(c)), effective |-> e]
        /\ at[c].k \in DOMAIN Seeds[e.content]
  BY DEF PartlyPublished, Extends
<1>5. ASSUME at[c].step # "record", NEW k \in 1..(at[c].k - 1) PROVE SeedLinked(c, k)'
  <2>1. SeedLinked(c, k)
    BY <1>5 DEF PartlyPublished
  <2>2. SeedIn(W, e, k)
    BY <2>1, SeedKept DEF SeedLinked
  <2>3. LinkKey(Id(c), Seeds[e.content][k].instance) \in DOMAIN W
    BY <2>1 DEF SeedLinked, Extends
  <2> QED
    BY <1>i, <1>e, <2>2, <2>3 DEF SeedLinked
<1>6. at[c].step = "state" =>
        /\ {ArtifactKey(SeedOf(c).value), PayloadKey(SeedOf(c).value)} \subseteq DOMAIN W
        /\ W[ArtifactKey(SeedOf(c).value)] = SeedOf(c).schema
  BY DEF PartlyPublished, Extends
<1> QED
  BY <1>i, <1>e, <1>s, <1>1, <1>2, <1>3, <1>4, <1>5, <1>6 DEF PartlyPublished

\* A call that does not move sees more, and all it relied on is still there.
LEMMA OthersUnaffected ==
  ASSUME NEW c \in Call, request' = request, at'[c] = at[c], draft'[c] = draft[c],
         progress'[c] = progress[c], answer'[c] = answer[c],
         Sound(rows), Sound(draft[c]), DOMAIN draft[c] \cap DOMAIN rows = {},
         Sound(rows'), Whole(rows'), Extends(rows', rows),
         DOMAIN draft[c] \cap DOMAIN rows' = {},
         Seen(c), Promised(c), Answered(c)
  PROVE  Seen(c)' /\ Promised(c)' /\ Answered(c)'
<1> DEFINE V == View(c)
           W == View(c)'
<1>i. Item(c)' = Item(c) /\ Id(c)' = Id(c)
  BY DEF Item, Id
<1>v. /\ DOMAIN V = DOMAIN draft[c] \cup DOMAIN rows
      /\ Extends(V, draft[c]) /\ Extends(V, rows) /\ Sound(V)
  BY ViewFacts, ViewSound
<1>w. /\ DOMAIN W = DOMAIN draft[c] \cup DOMAIN rows'
      /\ Extends(W, draft[c]) /\ Extends(W, rows')
  BY MergedFacts DEF View
<1>x. Sound(W)
  <2>1. \A key \in DOMAIN W : \/ key \in DOMAIN draft[c] /\ W[key] = draft[c][key]
                              \/ key \in DOMAIN rows' /\ W[key] = rows'[key]
    BY <1>w DEF Extends
  <2> QED
    BY <2>1, SoundUnion
<1>y. Extends(W, V)
  BY <1>v, <1>w DEF Extends
<1>z. DOMAIN W \subseteq DOMAIN V \cup DOMAIN rows'
  BY <1>v, <1>w
<1>1. Seen(c)'
  <2>1. at[c].step \in {"active", "replay", "activate", "record", "seed", "state"} =>
          TemplateKey(Item(c).name) \in DOMAIN rows'
    BY DEF Seen, Extends
  <2>2. at[c].step = "replay" =>
          /\ RequestKey(Id(c)) \in DOMAIN W
          /\ W[RequestKey(Id(c))].digest = RequestDigest(request[c], Item(c))
    BY <1>y DEF Seen, Extends
  <2>3. CASE Publishing(c)
    <3>1. TemplateKey(Item(c).name) \in DOMAIN V /\ PartlyPublished(c)
      BY <1>v, <2>3 DEF Seen, Publishing
    <3>2. PartlyPublished(c)'
      BY <1>v, <1>w, <1>x, <1>y, <1>z, <2>3, <3>1, PartlyKept
    <3> QED
      BY <1>i, <2>1, <2>2, <2>3, <3>2 DEF Seen, Publishing
  <2>4. CASE ~Publishing(c)
    <3>1. Whole(W)
      BY <1>v, <1>w, <1>x, <1>y, <1>z, <2>4, WholeUnion DEF Seen
    <3> QED
      BY <1>i, <2>1, <2>2, <2>4, <3>1 DEF Seen, Publishing
  <2> QED
    BY <2>3, <2>4
<1>2. Promised(c)'
  <2>1. SUFFICES ASSUME at[c].step # "answered", NEW effective \in progress[c].published
                 PROVE  \/ PublishedFor(W, request[c], effective)
                        \/ /\ at[c].step \in {"active", "replay", "activate", "record"}
                           /\ effective = Effective(c)'
    BY DEF Promised
  <2>2. CASE PublishedFor(V, request[c], effective)
    BY <1>y, <2>2, PublishedKept
  <2>3. CASE /\ at[c].step \in {"active", "replay", "activate", "record"}
             /\ effective = Effective(c)
    <3>1. TemplateKey(Item(c).name) \in DOMAIN V
      BY <1>v, <2>3 DEF Seen
    <3> QED
      BY <1>i, <1>y, <2>3, <3>1, EffectiveStays
  <2> QED
    BY <2>1, <2>2, <2>3 DEF Promised
<1>3. Answered(c)'
  BY PublishedKept DEF Answered
<1> QED
  BY <1>1, <1>2, <1>3

-----------------------------------------------------------------------------
(* One call moves.                                                         *)

Places == [step : Steps, n : Nat, k : Nat \ {0}]

\* Only what belongs to the call changes, apart from the committed rows.
OnlyMoves(c) ==
  /\ request' = request
  /\ at' = [d \in Call |-> IF d = c THEN at'[c] ELSE at[d]]
  /\ at'[c] \in Places
  /\ draft' = [d \in Call |-> IF d = c THEN draft'[c] ELSE draft[d]]
  /\ locked' = [d \in Call |-> IF d = c THEN locked'[c] ELSE locked[d]]
  /\ progress' = [d \in Call |-> IF d = c THEN progress'[c] ELSE progress[d]]
  /\ progress'[c] = [status |-> progress'[c].status, published |-> progress'[c].published]
  /\ answer' = [d \in Call |-> IF d = c THEN answer'[c] ELSE answer[d]]
  /\ answer'[c] = [status |-> answer'[c].status, published |-> answer'[c].published]

\* What holds of a call in every state.
LEMMA Standing ==
  ASSUME PublicationInvariant, NEW c \in Call
  PROVE  /\ at[c] \in Places /\ request[c] \in Requests
         /\ Sound(rows) /\ Whole(rows) /\ Sound(draft[c])
         /\ DOMAIN draft[c] \cap DOMAIN rows = {}
         /\ DOMAIN View(c) = DOMAIN draft[c] \cup DOMAIN rows
         /\ Extends(View(c), draft[c]) /\ Extends(View(c), rows) /\ Sound(View(c))
         /\ DraftGuarded(c) /\ Seen(c) /\ Promised(c) /\ Answered(c)
<1>1. DOMAIN draft[c] \cap DOMAIN rows = {}
  BY DEF PublicationInvariant, DraftsApart
<1> QED
  BY <1>1, ViewFacts, ViewSound DEF PublicationInvariant, Shape, Places

\* A step of one call that leaves the committed rows, or adds to them.
LEMMA OneMoves ==
  ASSUME PublicationInvariant, NEW c \in Call, OnlyMoves(c),
         Sound(rows'), Whole(rows'), Extends(rows', rows),
         \A d \in Call \ {c} : DOMAIN draft[d] \cap DOMAIN rows' = {},
         DOMAIN draft'[c] \cap DOMAIN rows' = {},
         \A d \in Call \ {c} : DOMAIN draft'[c] \cap DOMAIN draft[d] = {},
         Sound(draft'[c]), DraftGuarded(c)', Seen(c)', Promised(c)', Answered(c)'
  PROVE  PublicationInvariant'
<1>1. Shape'
  BY DEF PublicationInvariant, Shape, OnlyMoves, Places
<1>2. DraftsApart'
  BY DEF PublicationInvariant, DraftsApart, OnlyMoves
<1>3. ASSUME NEW d \in Call, d # c
      PROVE  /\ Sound(draft'[d]) /\ DraftGuarded(d)'
             /\ Seen(d)' /\ Promised(d)' /\ Answered(d)'
  <2>1. /\ request' = request /\ at'[d] = at[d] /\ draft'[d] = draft[d]
        /\ locked'[d] = locked[d] /\ progress'[d] = progress[d] /\ answer'[d] = answer[d]
    BY <1>3 DEF OnlyMoves
  <2>2. DraftGuarded(d)'
    BY <1>3, <2>1, Standing DEF DraftGuarded
  <2>3. Seen(d)' /\ Promised(d)' /\ Answered(d)'
    BY <1>3, <2>1, Standing, OthersUnaffected
  <2> QED
    BY <1>3, <2>1, <2>2, <2>3, Standing
<1>4. \A d \in Call : Sound(draft'[d]) /\ DraftGuarded(d)' /\ Seen(d)' /\ Promised(d)' /\ Answered(d)'
  BY <1>3
<1> QED
  BY <1>1, <1>2, <1>4 DEF PublicationInvariant

\* A transaction that is rolled back leaves the call with the committed rows.
LEMMA RolledBack ==
  ASSUME PublicationInvariant, NEW c \in Call, OnlyMoves(c), rows' = rows,
         draft'[c] = <<>>, at'[c].step \in {"find", "region", "lookup", "answered"},
         at'[c].step = "find" => request[c].kind = "register",
         at'[c].step = "answered" \/ progress'[c].published = {},
         answer'[c].published = {} \/ answer'[c].published = answer[c].published
  PROVE  PublicationInvariant'
<1>1. DOMAIN draft'[c] = {}
  OBVIOUS
<1>2. Sound(draft'[c]) /\ DraftGuarded(c)'
  BY <1>1 DEF Sound, DraftGuarded
<1>3. DOMAIN View(c)' = DOMAIN rows /\ Extends(View(c)', rows)
  <2>1. View(c)' = Merged(draft'[c], rows)
    BY DEF View
  <2>2. DOMAIN Merged(draft'[c], rows) = DOMAIN draft'[c] \cup DOMAIN rows
    BY MergedFacts
  <2>3. DOMAIN draft'[c] \cap DOMAIN rows = {}
    BY <1>1
  <2>4. Extends(Merged(draft'[c], rows), rows)
    BY <2>3, MergedFacts
  <2> QED
    BY <1>1, <2>1, <2>2, <2>4
<1>4. Sound(View(c)')
  <2>1. \A key \in DOMAIN View(c)' : key \in DOMAIN rows /\ View(c)'[key] = rows[key]
    BY <1>3 DEF Extends
  <2> QED
    BY <2>1, Standing, SoundUnion
<1>5. Whole(View(c)')
  BY <1>3, <1>4, Standing, WholeUnion
<1>6. Seen(c)'
  <2>1. request' = request
    BY DEF OnlyMoves
  <2> QED
    BY <1>5, <2>1 DEF Seen, Publishing
<1>7. Promised(c)'
  BY DEF Promised
<1>8. Answered(c)'
  <2>1. request' = request /\ Answered(c)
    BY Standing DEF OnlyMoves
  <2> QED
    BY <2>1 DEF Answered
<1>9. /\ Sound(rows) /\ Whole(rows) /\ Extends(rows, rows)
      /\ \A d \in Call : DOMAIN draft[d] \cap DOMAIN rows = {}
  BY Standing DEF Extends
<1> QED
  BY <1>1, <1>2, <1>6, <1>7, <1>8, <1>9, OneMoves

\* A refused, a repeated and a lost call.
LEMMA AbortStep ==
  ASSUME PublicationInvariant, NEW c \in Call, NEW outcome, Abort(c, outcome), request' = request
  PROVE  PublicationInvariant'
<1>1. OnlyMoves(c)
  BY DEF Abort, Goto, Place, Result, OnlyMoves, PublicationInvariant, Shape, Places, Steps
<1>2. /\ rows' = rows /\ draft'[c] = <<>> /\ at'[c].step = "answered" /\ answer'[c].published = {}
  BY DEF Abort, Goto, Place, Result, PublicationInvariant, Shape
<1> QED
  BY <1>1, <1>2, RolledBack

LEMMA BeginPlace ==
  ASSUME NEW q \in Requests
  PROVE  /\ Begin(q) \in Places /\ Begin(q).step \in {"find", "region", "lookup"}
         /\ Begin(q).step = "find" => q.kind = "register"
<1>1. q.kind \in {"register", "apply", "direct"}
  BY RequestsAssumption
<1> QED
  BY <1>1 DEF Begin, Place, Places, Steps

LEMMA ViolateStep ==
  ASSUME PublicationInvariant, NEW c \in Call, Violate(c), request' = request
  PROVE  PublicationInvariant'
<1>1. CASE tries[c] = 0
  <2>1. /\ Begin(request[c]) \in Places /\ Begin(request[c]).step \in {"find", "region", "lookup"}
        /\ Begin(request[c]).step = "find" => request[c].kind = "register"
    BY BeginPlace, Standing
  <2>2. OnlyMoves(c)
    <3>1. /\ draft' = [draft EXCEPT ![c] = <<>>] /\ locked' = [locked EXCEPT ![c] = {}]
          /\ at' = [at EXCEPT ![c] = Begin(request[c])]
          /\ progress' = [progress EXCEPT ![c] = [status |-> "existing", published |-> {}]]
          /\ answer' = answer
      BY <1>1 DEF Violate, NoProgress, Result
    <3> QED
      BY <2>1, <3>1 DEF OnlyMoves, PublicationInvariant, Shape
  <2>3. /\ rows' = rows /\ draft'[c] = <<>> /\ at'[c] = Begin(request[c])
        /\ progress'[c].published = {} /\ answer' = answer
    BY <1>1 DEF Violate, NoProgress, Result, PublicationInvariant, Shape
  <2> QED
    BY <2>1, <2>2, <2>3, RolledBack
<1>2. CASE tries[c] # 0
  BY <1>2, AbortStep DEF Violate
<1> QED
  BY <1>1, <1>2

LEMMA LoseStep ==
  ASSUME PublicationInvariant, NEW c \in Call, Lose(c)
  PROVE  PublicationInvariant'
<1>1. /\ Begin(request[c]) \in Places /\ Begin(request[c]).step \in {"find", "region", "lookup"}
      /\ Begin(request[c]).step = "find" => request[c].kind = "register"
  BY BeginPlace, Standing
<1>2. OnlyMoves(c)
  BY <1>1 DEF Lose, NoProgress, NoAnswer, Result, OnlyMoves, PublicationInvariant, Shape
<1>3. /\ rows' = rows /\ draft'[c] = <<>> /\ at'[c] = Begin(request[c])
      /\ progress'[c].published = {} /\ answer'[c].published = {}
  BY DEF Lose, NoProgress, NoAnswer, Result, PublicationInvariant, Shape
<1> QED
  BY <1>1, <1>2, <1>3, RolledBack

-----------------------------------------------------------------------------
(* Statements that insert nothing.                                         *)

\* The call only goes to another place.
LEMMA InsertsNothing ==
  ASSUME PublicationInvariant, NEW c \in Call, OnlyMoves(c), rows' = rows,
         draft'[c] = draft[c], locked'[c] = locked[c], answer'[c] = answer[c],
         Seen(c)', Promised(c)'
  PROVE  PublicationInvariant'
<1>1. DraftGuarded(c)'
  BY Standing DEF DraftGuarded
<1>2. Answered(c)'
  <2>1. request' = request /\ Answered(c)
    BY Standing DEF OnlyMoves
  <2> QED
    BY <2>1 DEF Answered
<1>3. /\ \A d \in Call : DOMAIN draft[d] \cap DOMAIN rows = {}
      /\ \A d \in Call \ {c} : DOMAIN draft[c] \cap DOMAIN draft[d] = {}
  BY DEF PublicationInvariant, DraftsApart
<1>4. Sound(rows) /\ Whole(rows) /\ Extends(rows, rows) /\ Sound(draft[c])
  BY Standing DEF Extends
<1> QED
  BY <1>1, <1>2, <1>3, <1>4, OneMoves

LEMMA ContinueMoves ==
  ASSUME PublicationInvariant, NEW c \in Call, NEW place \in Places,
         Continue(c, [at EXCEPT ![c] = place]), request' = request
  PROVE  /\ OnlyMoves(c) /\ rows' = rows /\ at'[c] = place
         /\ draft' = draft /\ locked' = locked /\ progress' = progress /\ answer' = answer
         /\ View(c)' = View(c)
<1>1. OnlyMoves(c)
  BY DEF Continue, OnlyMoves, PublicationInvariant, Shape
<1>2. at'[c] = place
  BY DEF Continue, PublicationInvariant, Shape
<1> QED
  BY <1>1, <1>2 DEF Continue, View

\* Between items everything the call sees is whole.
LEMMA PassingOn ==
  ASSUME PublicationInvariant, NEW c \in Call, NEW place \in Places,
         Continue(c, [at EXCEPT ![c] = place]), request' = request,
         at[c].step \in {"find", "create", "region", "lookup"},
         place.step \in {"find", "create", "region", "declare", "lookup", "commit"},
         place.step \in {"find", "create"} => at[c].step \in {"find", "create"}
  PROVE  PublicationInvariant'
<1>1. /\ OnlyMoves(c) /\ rows' = rows /\ at'[c] = place
      /\ draft' = draft /\ locked' = locked /\ progress' = progress /\ answer' = answer
      /\ View(c)' = View(c)
  BY ContinueMoves
<1>2. Seen(c)'
  <2>1. Whole(View(c)) /\ (place.step \in {"find", "create"} => request[c].kind = "register")
    BY Standing DEF Seen, Publishing
  <2> QED
    BY <1>1, <2>1 DEF Seen, Publishing
<1>3. Promised(c)'
  <2>1. \A effective \in progress[c].published : PublishedFor(View(c), request[c], effective)
    BY Standing DEF Promised
  <2> QED
    BY <1>1, <2>1 DEF Promised
<1> QED
  BY <1>1, <1>2, <1>3, InsertsNothing

\* The places the statements lead to.
LEMMA NextPlaces ==
  ASSUME PublicationInvariant, NEW c \in Call
  PROVE  /\ \A step \in Steps :
              /\ Goto(c, step) = [at EXCEPT ![c] = Place(step, at[c].n, at[c].k)]
              /\ Place(step, at[c].n, at[c].k) \in Places
              /\ Place(step, at[c].n, at[c].k).step = step
         /\ \E place \in Places : /\ NextItem(c) = [at EXCEPT ![c] = place]
                                  /\ place.step \in {"lookup", "commit"}
         /\ \E place \in Places : /\ NextRegion(c) = [at EXCEPT ![c] = place]
                                  /\ place.step \in {"region", "lookup"}
<1> USE DEF Place, Places, Steps
<1>1. at[c] \in Places
  BY Standing
<1>2. \A step \in Steps :
        /\ Goto(c, step) = [at EXCEPT ![c] = Place(step, at[c].n, at[c].k)]
        /\ Place(step, at[c].n, at[c].k) \in Places
        /\ Place(step, at[c].n, at[c].k).step = step
  BY <1>1 DEF Goto
<1>3. \E place \in Places : /\ NextItem(c) = [at EXCEPT ![c] = place]
                            /\ place.step \in {"lookup", "commit"}
  <2>1. Place("lookup", at[c].n + 1, 1) \in Places
    BY <1>1
  <2>2. CASE at[c].n < Len(request[c].items)
    BY <2>1, <2>2 DEF NextItem
  <2>3. CASE ~(at[c].n < Len(request[c].items))
    BY <1>2, <2>3 DEF NextItem
  <2> QED
    BY <2>2, <2>3
<1>4. \E place \in Places : /\ NextRegion(c) = [at EXCEPT ![c] = place]
                            /\ place.step \in {"region", "lookup"}
  <2>1. Place("region", at[c].n + 1, 1) \in Places /\ Place("lookup", 1, 1) \in Places
    BY <1>1
  <2>2. CASE at[c].n < Len(Declared(c))
    BY <2>1, <2>2 DEF NextRegion
  <2>3. CASE ~(at[c].n < Len(Declared(c)))
    BY <2>1, <2>3 DEF NextRegion
  <2> QED
    BY <2>2, <2>3
<1> QED
  BY <1>2, <1>3, <1>4

LEMMA RegisterFindStep ==
  ASSUME PublicationInvariant, NEW c \in Call, RegisterFind(c)
  PROVE  PublicationInvariant'
<1>1. CASE TemplateKey(request[c].name) \in DOMAIN rows
  BY <1>1, AbortStep DEF RegisterFind
<1>2. CASE TemplateKey(request[c].name) \notin DOMAIN rows
  <2>1. "create" \in Steps
    BY DEF Steps
  <2> QED
    BY <1>2, <2>1, NextPlaces, PassingOn DEF RegisterFind
<1> QED
  BY <1>1, <1>2

LEMMA FindRegionStep ==
  ASSUME PublicationInvariant, NEW c \in Call, FindRegion(c)
  PROVE  PublicationInvariant'
<1>1. "declare" \in Steps
  BY DEF Steps
<1>2. CASE Has(c, RegionKey(Declared(c)[at[c].n]))
  BY <1>2, NextPlaces, PassingOn DEF FindRegion
<1>3. CASE ~Has(c, RegionKey(Declared(c)[at[c].n]))
  BY <1>1, <1>3, NextPlaces, PassingOn DEF FindRegion
<1> QED
  BY <1>2, <1>3

\* The definitions and the recorded request are read.
LEMMA LookupStep ==
  ASSUME PublicationInvariant, NEW c \in Call, Lookup(c)
  PROVE  PublicationInvariant'
<1>1. ASSUME Continue(c, NextItem(c)), at[c].step = "lookup", request' = request
      PROVE  PublicationInvariant'
  BY <1>1, NextPlaces, PassingOn
<1>2. ASSUME NEW outcome, Abort(c, outcome), request' = request
      PROVE  PublicationInvariant'
  BY <1>2, AbortStep
<1>3. ASSUME at[c].step = "lookup", request' = request, ~Contradicts(c),
             Has(c, TemplateKey(Item(c).name)),
             progress' = [progress EXCEPT
                            ![c] = Result(@.status, @.published \cup {Effective(c)})],
             at' = Goto(c, IF Has(c, RequestKey(Id(c))) THEN "replay" ELSE "active"),
             UNCHANGED <<rows, draft, locked, tries, answer>>
      PROVE  PublicationInvariant'
  <2> DEFINE step == IF Has(c, RequestKey(Id(c))) THEN "replay" ELSE "active"
             place == Place(step, at[c].n, at[c].k)
  <2>1. step \in Steps
    BY DEF Steps
  <2>2. at' = [at EXCEPT ![c] = place] /\ place \in Places /\ place.step = step
    BY <1>3, <2>1, NextPlaces
  <2>3. at'[c] = place /\ at'[c].n = at[c].n
    BY <2>2 DEF Place, PublicationInvariant, Shape
  <2>4. progress'[c].published = progress[c].published \cup {Effective(c)}
    BY <1>3 DEF Result, PublicationInvariant, Shape
  <2>5. OnlyMoves(c)
    BY <1>3, <2>2 DEF Result, OnlyMoves, PublicationInvariant, Shape
  <2>6. View(c)' = View(c) /\ Item(c)' = Item(c) /\ Id(c)' = Id(c)
    BY <1>3, <2>3 DEF View, Item, Id
  <2>7. Effective(c)' = Effective(c)
    BY <1>3, <2>6, EffectiveStays DEF Has, Extends
  <2>8. TemplateKey(Item(c).name) \in DOMAIN rows
    <3>1. TemplateKey(Item(c).name) \notin DOMAIN draft[c]
      <4>1. DraftGuarded(c) /\ TemplateKey(Item(c).name)[1] = "template"
        BY Standing, KeyFacts
      <4> QED
        BY <4>1 DEF DraftGuarded
    <3> QED
      BY <1>3, <3>1, Standing DEF Has
  <2>9. Seen(c)'
    <3>1. Whole(View(c))
      BY <1>3, Standing DEF Seen, Publishing
    <3>2. step = "replay" => /\ RequestKey(Id(c)) \in DOMAIN View(c)
                             /\ View(c)[RequestKey(Id(c))].digest = RequestDigest(request[c], Item(c))
      BY <1>3 DEF Contradicts, Has, Get
    <3> QED
      BY <1>3, <2>2, <2>3, <2>6, <2>8, <3>1, <3>2 DEF Seen, Publishing
  <2>10. Promised(c)'
    <3>1. \A effective \in progress[c].published : PublishedFor(View(c), request[c], effective)
      BY <1>3, Standing DEF Promised
    <3> QED
      BY <1>3, <2>2, <2>3, <2>4, <2>6, <2>7, <3>1 DEF Promised
  <2> QED
    BY <1>3, <2>5, <2>9, <2>10, InsertsNothing
<1> QED
  BY <1>1, <1>2, <1>3 DEF Lookup

-----------------------------------------------------------------------------
(* Publishing a topology.                                                  *)

\* With its last seed the topology is whole.
LEMMA LastSeedMakesWhole ==
  ASSUME NEW V, Sound(V), NEW region, NEW id, NEW e,
         RevisionKey(region) \in DOMAIN V, V[RevisionKey(region)] = e, e.region = region,
         \A r \in Table(V, "revision") : r # region => RevisionWhole(V, r),
         \A i \in Table(V, "request") : i # id => RequestWhole(V, i),
         RequestKey(id) \in DOMAIN V, V[RequestKey(id)].effective = e,
         \A k \in DOMAIN Seeds[e.content] :
           /\ SeedIn(V, e, k)
           /\ LinkKey(id, Seeds[e.content][k].instance) \in DOMAIN V
  PROVE  Whole(V)
<1>1. RevisionWhole(V, region)
  BY TableFacts DEF RevisionWhole
<1>2. RequestWhole(V, id)
  BY DEF RequestWhole
<1> QED
  BY <1>1, <1>2 DEF Whole

\* What the call has done when the seeds before m are published and linked.
SeedsBefore(c, m, V) ==
  /\ RevisionKey(Item(c).region) \in DOMAIN V
  /\ V[RevisionKey(Item(c).region)] = Effective(c)
  /\ \A r \in Table(V, "revision") : r # Item(c).region => RevisionWhole(V, r)
  /\ \A id \in Table(V, "request") : id # Id(c) => RequestWhole(V, id)
  /\ RequestKey(Id(c)) \in DOMAIN V
  /\ V[RequestKey(Id(c))] =
       [digest |-> RequestDigest(request[c], Item(c)), effective |-> Effective(c)]
  /\ \A k \in 1..(m - 1) :
       /\ SeedIn(V, Effective(c), k)
       /\ LinkKey(Id(c), Seeds[Effective(c).content][k].instance) \in DOMAIN V

\* The sequence of seeds of a known template.
LEMMA SeedsOf ==
  ASSUME PublicationInvariant, NEW c \in Call, TemplateKey(Item(c).name) \in DOMAIN rows
  PROVE  /\ Effective(c).content \in DOMAIN Seeds
         /\ Len(Seeds[Effective(c).content]) \in Nat
         /\ DOMAIN Seeds[Effective(c).content] = 1..Len(Seeds[Effective(c).content])
         /\ Seeds[Effective(c).content] = <<>> <=> Len(Seeds[Effective(c).content]) = 0
         /\ \A j, k \in DOMAIN Seeds[Effective(c).content] :
              Seeds[Effective(c).content][j].instance = Seeds[Effective(c).content][k].instance
                => j = k
<1> DEFINE key == TemplateKey(Item(c).name)
           seeds == Seeds[Effective(c).content]
<1>1. key[1] = "template"
  BY KeyFacts
<1>2. Effective(c).content = rows[key]
  BY Standing DEF Effective, Get, Extends
<1>3. rows[key] \in DOMAIN Seeds
  BY <1>1, Standing DEF Sound
<1>4. seeds \in Seq({seeds[k] : k \in DOMAIN seeds})
  BY <1>2, <1>3, SeedsAssumption
<1>5. \A j, k \in DOMAIN seeds : seeds[j].instance = seeds[k].instance => j = k
  BY <1>2, <1>3, SeedsAssumption
<1> HIDE DEF seeds
<1>6. Len(seeds) \in Nat /\ DOMAIN seeds = 1..Len(seeds) /\ (seeds = <<>> <=> Len(seeds) = 0)
  BY <1>4
<1> QED
  BY <1>2, <1>3, <1>5, <1>6 DEF seeds

\* The answer may speak of the item once it is recorded.
LEMMA RecordedIsPublished ==
  ASSUME NEW c \in Call, NEW m, NEW V, SeedsBefore(c, m, V)
  PROVE  PublishedFor(V, request[c], Effective(c))
<1> DEFINE e == Effective(c)
           item == [region |-> e.region, name |-> e.name]
<1>1. e.region = Item(c).region /\ e.name = Item(c).name
  BY DEF Effective
<1>2. RequestDigest(request[c], item) = RequestDigest(request[c], Item(c))
  BY <1>1 DEF RequestDigest
<1>3. RequestId(request[c], item) = Id(c)
  BY <1>2 DEF Id, RequestId
<1> HIDE DEF e
<1> QED
  BY <1>1, <1>2, <1>3 DEF PublishedFor, SeedsBefore, e

\* From one seed to the next, or to the next item when there is none.
LEMMA SeedsGoOn ==
  ASSUME PublicationInvariant, NEW c \in Call, OnlyMoves(c), rows' = rows,
         progress' = progress, answer' = answer,
         at[c].step \in {"replay", "record", "state"},
         NEW m \in Nat \ {0}, SeedsBefore(c, m, View(c)'),
         Sound(View(c)'), Extends(View(c)', View(c)),
         Sound(draft'[c]), DraftGuarded(c)', DOMAIN draft'[c] \cap DOMAIN rows = {},
         \A d \in Call \ {c} : DOMAIN draft'[c] \cap DOMAIN draft[d] = {},
         at' = IF m <= Len(Seeds[Effective(c).content])
               THEN [at EXCEPT ![c] = Place("seed", at[c].n, m)] ELSE NextItem(c)
  PROVE  PublicationInvariant'
<1> DEFINE e == Effective(c)
           W == View(c)'
<1>t. TemplateKey(Item(c).name) \in DOMAIN rows
  BY Standing DEF Seen
<1>q. request' = request
  BY DEF OnlyMoves
<1>s. Len(Seeds[e.content]) \in Nat /\ DOMAIN Seeds[e.content] = 1..Len(Seeds[e.content])
  BY <1>t, SeedsOf
<1>1. Seen(c)'
  <2>1. CASE m <= Len(Seeds[e.content])
    <3>1. at'[c] = Place("seed", at[c].n, m)
      BY <2>1 DEF PublicationInvariant, Shape
    <3>2. at'[c].step = "seed" /\ at'[c].k = m /\ at'[c].n = at[c].n
      BY <3>1 DEF Place
    <3>3. Item(c)' = Item(c) /\ Id(c)' = Id(c)
      BY <1>q, <3>2 DEF Item, Id
    <3>4. Effective(c)' = e
      BY <1>t, <1>q, <3>3, Standing, EffectiveStays
    <3>5. \A k \in 1..(m - 1) : SeedLinked(c, k)'
      BY <3>3, <3>4 DEF SeedsBefore, SeedLinked
    <3>6. m \in DOMAIN Seeds[e.content]
      BY <1>s, <2>1
    <3>7. PartlyPublished(c)'
      BY <1>q, <3>2, <3>3, <3>4, <3>5, <3>6 DEF SeedsBefore, PartlyPublished
    <3> QED
      BY <1>t, <3>2, <3>3, <3>7 DEF Seen, Publishing
  <2>2. CASE ~(m <= Len(Seeds[e.content]))
    <3>1. at'[c].step \in {"lookup", "commit"}
      BY <2>2, NextPlaces DEF PublicationInvariant, Shape
    <3>2. \A k \in DOMAIN Seeds[e.content] : k \in 1..(m - 1)
      BY <1>s, <2>2
    <3>3. e.region = Item(c).region
      BY DEF Effective
    <3>4. W[RequestKey(Id(c))].effective = e
      BY DEF SeedsBefore
    <3>5. Whole(W)
      BY <3>2, <3>3, <3>4, LastSeedMakesWhole DEF SeedsBefore
    <3> QED
      BY <3>1, <3>5 DEF Seen, Publishing
  <2> QED
    BY <2>1, <2>2
<1>2. Promised(c)'
  <2>1. \A effective \in progress[c].published :
          PublishedFor(View(c), request[c], effective) \/ effective = e
    BY Standing DEF Promised
  <2>2. PublishedFor(W, request[c], e)
    BY RecordedIsPublished
  <2>3. \A effective \in progress[c].published : PublishedFor(W, request[c], effective)
    BY <2>1, <2>2, PublishedKept
  <2> QED
    BY <1>q, <2>3 DEF Promised
<1>3. Answered(c)'
  BY <1>q, Standing DEF Answered
<1>4. /\ \A d \in Call : DOMAIN draft[d] \cap DOMAIN rows = {}
      /\ Sound(rows) /\ Whole(rows) /\ Extends(rows, rows)
  BY Standing DEF Extends
<1> QED
  BY <1>1, <1>2, <1>3, <1>4, OneMoves

-----------------------------------------------------------------------------
(* Statements that insert.                                                 *)

\* A request's row names the topology its digest is about.
RequestRow(row) ==
  row = [digest |-> [region |-> row.effective.region, name |-> row.effective.name,
                     source |-> row.effective.source],
         effective |-> row.effective]

\* A state is a seed of its topology, for its instance.
StateRow(key, row) ==
  \E k \in DOMAIN Seeds[key[2][1].content] :
    row = Seeds[key[2][1].content][k] /\ row.instance = key[2][2]

LEMMA SoundInserted ==
  ASSUME NEW db, Sound(db), NEW key, NEW row, key \notin DOMAIN db,
         key = <<key[1], key[2]>>,
         key[1] = "template" => row \in DOMAIN Seeds,
         key[1] = "request" => RequestRow(row),
         key[1] = "state" => StateRow(key, row)
  PROVE  Sound(Inserted(db, key, row))
<1> DEFINE one == [k \in {key} |-> row]
<1>1. Sound(one)
  <2>1. \A k \in DOMAIN one : k = key /\ one[k] = row
    OBVIOUS
  <2> HIDE DEF one
  <2> QED
    BY <2>1 DEF Sound, RequestRow, StateRow
<1>2. \A k \in DOMAIN Inserted(db, key, row) :
        \/ k \in DOMAIN db /\ Inserted(db, key, row)[k] = db[k]
        \/ k \in DOMAIN one /\ Inserted(db, key, row)[k] = one[k]
  BY DEF Inserted
<1> QED
  BY <1>1, <1>2, SoundUnion

\* The view grows with the draft.
LEMMA GrowingDraft ==
  ASSUME PublicationInvariant, NEW c \in Call, rows' = rows, Extends(draft'[c], draft[c]),
         Sound(draft'[c]), DOMAIN draft'[c] \cap DOMAIN rows = {}
  PROVE  /\ DOMAIN View(c)' = DOMAIN draft'[c] \cup DOMAIN rows
         /\ Extends(View(c)', draft'[c]) /\ Extends(View(c)', rows)
         /\ Extends(View(c)', View(c))
         /\ Sound(View(c)')
<1>0. View(c)' = Merged(draft'[c], rows)
  BY DEF View
<1>1. /\ DOMAIN View(c)' = DOMAIN draft'[c] \cup DOMAIN rows
      /\ Extends(View(c)', draft'[c]) /\ Extends(View(c)', rows)
  <2>1. DOMAIN Merged(draft'[c], rows) = DOMAIN draft'[c] \cup DOMAIN rows
    BY MergedFacts
  <2>2. Extends(Merged(draft'[c], rows), draft'[c])
    BY MergedFacts
  <2>3. Extends(Merged(draft'[c], rows), rows)
    BY MergedFacts
  <2> QED
    BY <1>0, <2>1, <2>2, <2>3
<1>2. /\ DOMAIN View(c) = DOMAIN draft[c] \cup DOMAIN rows
      /\ Extends(View(c), draft[c]) /\ Extends(View(c), rows)
  BY Standing
<1>3. Extends(View(c)', View(c))
  BY <1>1, <1>2 DEF Extends
<1>4. \A key \in DOMAIN View(c)' : \/ key \in DOMAIN draft'[c] /\ View(c)'[key] = draft'[c][key]
                                   \/ key \in DOMAIN rows /\ View(c)'[key] = rows[key]
  BY <1>1 DEF Extends
<1>5. Sound(View(c)')
  BY <1>4, Standing, SoundUnion
<1> QED
  BY <1>1, <1>3, <1>5

\* A row is inserted that nobody else is inserting.
Inserts(c, key, row, place) ==
  /\ Free(c) /\ ~Has(c, key)
  /\ draft' = [draft EXCEPT ![c] = Inserted(draft[c], key, row)]
  /\ at' = [at EXCEPT ![c] = place]
  /\ \E outcome : progress' = [progress EXCEPT ![c] = Result(outcome, progress[c].published)]
  /\ UNCHANGED <<request, rows, locked, answer>>

\* A row for which the call had to wait, if its key is free.
LEMMA FreshRow ==
  ASSUME PublicationInvariant, NEW c \in Call, NEW place \in Places,
         NEW key, NEW row, Inserts(c, key, row, place), Wanted(c) = {key},
         key = <<key[1], key[2]>>, key[1] \in {"region", "revision", "request"},
         key[1] = "request" => RequestRow(row)
  PROVE  /\ OnlyMoves(c) /\ rows' = rows /\ answer' = answer /\ at'[c] = place
         /\ progress'[c].published = progress[c].published
         /\ Sound(draft'[c]) /\ DraftGuarded(c)'
         /\ DOMAIN draft'[c] \cap DOMAIN rows = {}
         /\ \A d \in Call \ {c} : DOMAIN draft'[c] \cap DOMAIN draft[d] = {}
         /\ DOMAIN View(c)' = DOMAIN View(c) \cup {key}
         /\ Extends(View(c)', View(c)) /\ View(c)'[key] = row /\ Sound(View(c)')
<1>1. PICK outcome :
        /\ draft' = [draft EXCEPT ![c] = Inserted(draft[c], key, row)]
        /\ at' = [at EXCEPT ![c] = place]
        /\ progress' = [progress EXCEPT ![c] = Result(outcome, progress[c].published)]
        /\ UNCHANGED <<request, rows, locked, answer>>
  BY DEF Inserts
<1>2. OnlyMoves(c) /\ at'[c] = place
  <2>1. OnlyMoves(c)
    BY <1>1 DEF Result, OnlyMoves, PublicationInvariant, Shape
  <2> QED
    BY <1>1, <2>1 DEF PublicationInvariant, Shape
<1>3. progress'[c].published = progress[c].published
  BY <1>1 DEF Result, PublicationInvariant, Shape
<1>4. draft'[c] = Inserted(draft[c], key, row)
  BY <1>1 DEF PublicationInvariant, Shape
<1>5. key \notin DOMAIN draft[c] /\ key \notin DOMAIN rows
  BY Standing DEF Inserts, Has
<1>6. \A d \in Call \ {c} : key \notin DOMAIN draft[d]
  BY DEF Inserts, Free, WaitsFor
<1>7. /\ DOMAIN draft'[c] = DOMAIN draft[c] \cup {key}
      /\ Extends(draft'[c], draft[c]) /\ draft'[c][key] = row
  <2>1. DOMAIN Inserted(draft[c], key, row) = DOMAIN draft[c] \cup {key}
    BY InsertedFacts
  <2>2. Extends(Inserted(draft[c], key, row), draft[c])
    BY InsertedFacts
  <2>3. Inserted(draft[c], key, row)[key] = row
    BY <1>5, InsertedFacts
  <2> QED
    BY <1>4, <2>1, <2>2, <2>3
<1>8. Sound(draft'[c])
  <2>1. key[1] # "template" /\ key[1] # "state"
    OBVIOUS
  <2>2. Sound(draft[c])
    BY Standing
  <2>3. Sound(Inserted(draft[c], key, row))
    BY <1>5, <2>1, <2>2, SoundInserted
  <2> QED
    BY <1>4, <2>3
<1>9. DraftGuarded(c)'
  <2>1. locked'[c] = locked[c] /\ DraftGuarded(c)
    BY <1>1, Standing
  <2> QED
    BY <1>7, <2>1 DEF DraftGuarded
<1>10. /\ DOMAIN draft'[c] \cap DOMAIN rows = {}
       /\ \A d \in Call \ {c} : DOMAIN draft'[c] \cap DOMAIN draft[d] = {}
  BY <1>5, <1>6, <1>7 DEF PublicationInvariant, DraftsApart
<1>11. /\ DOMAIN View(c)' = DOMAIN draft'[c] \cup DOMAIN rows
       /\ Extends(View(c)', View(c)) /\ Extends(View(c)', draft'[c]) /\ Sound(View(c)')
  BY <1>1, <1>7, <1>8, <1>10, GrowingDraft
<1>12. DOMAIN View(c)' = DOMAIN View(c) \cup {key} /\ View(c)'[key] = row
  BY <1>7, <1>11, Standing DEF Extends
<1> QED
  BY <1>1, <1>2, <1>3, <1>8, <1>9, <1>10, <1>11, <1>12

\* A row that is not free costs the call its transaction.
LEMMA TakenRow ==
  ASSUME PublicationInvariant, NEW c \in Call, NEW place, NEW creates, NEW key, NEW row,
         Insert(c, key, row, place, creates), request' = request, Has(c, key)
  PROVE  PublicationInvariant'
  BY ViolateStep DEF Insert

LEMMA DeclareRegionStep ==
  ASSUME PublicationInvariant, NEW c \in Call, DeclareRegion(c)
  PROVE  PublicationInvariant'
<1> DEFINE key == RegionKey(Declared(c)[at[c].n])
<1>1. CASE Has(c, key)
  BY <1>1, TakenRow DEF DeclareRegion
<1>2. CASE ~Has(c, key)
  <2>1. key = <<key[1], key[2]>> /\ key[1] = "region"
    BY KeyPairs, KeyFacts
  <2>2. Wanted(c) = {key}
    BY DEF DeclareRegion, Wanted
  <2>3. PICK place \in Places : /\ NextRegion(c) = [at EXCEPT ![c] = place]
                                /\ place.step \in {"region", "lookup"}
    BY NextPlaces
  <2>4. Inserts(c, key, "ready", place) /\ request' = request
    BY <1>2, <2>3 DEF DeclareRegion, Insert, Inserts
  <2> HIDE DEF key
  <2>5. /\ OnlyMoves(c) /\ rows' = rows /\ answer' = answer /\ at'[c] = place
        /\ progress'[c].published = progress[c].published
        /\ Sound(draft'[c]) /\ DraftGuarded(c)'
        /\ DOMAIN draft'[c] \cap DOMAIN rows = {}
        /\ \A d \in Call \ {c} : DOMAIN draft'[c] \cap DOMAIN draft[d] = {}
        /\ DOMAIN View(c)' = DOMAIN View(c) \cup {key}
        /\ Extends(View(c)', View(c)) /\ Sound(View(c)')
    BY <2>1, <2>2, <2>4, FreshRow
  <2>6. at[c].step = "declare"
    BY DEF DeclareRegion
  <2>7. Seen(c)'
    <3>1. Whole(View(c))
      BY <2>6, Standing DEF Seen, Publishing
    <3>2. Whole(View(c)')
      BY <2>1, <2>5, <3>1, Standing, WholeInserted
    <3> QED
      BY <2>3, <2>5, <3>2 DEF Seen, Publishing
  <2>8. Promised(c)'
    <3>1. \A effective \in progress[c].published : PublishedFor(View(c), request[c], effective)
      BY <2>6, Standing DEF Promised
    <3>2. \A effective \in progress[c].published : PublishedFor(View(c)', request[c], effective)
      BY <2>5, <3>1, PublishedKept
    <3> QED
      BY <2>4, <2>5, <3>2 DEF Promised
  <2>9. Answered(c)'
    BY <2>4, <2>5, Standing DEF Answered
  <2>10. /\ \A d \in Call : DOMAIN draft[d] \cap DOMAIN rows = {}
         /\ Sound(rows) /\ Whole(rows) /\ Extends(rows, rows)
    BY Standing DEF Extends
  <2> QED
    BY <2>5, <2>7, <2>8, <2>9, <2>10, OneMoves
<1> QED
  BY <1>1, <1>2

\* The first revision of the region, which only this transaction can see.
LEMMA ActivateRevisionStep ==
  ASSUME PublicationInvariant, NEW c \in Call, ActivateRevision(c)
  PROVE  PublicationInvariant'
<1> DEFINE key == RevisionKey(Item(c).region)
           W == View(c)'
<1>1. CASE Has(c, key)
  BY <1>1, TakenRow DEF ActivateRevision
<1>2. CASE ~Has(c, key)
  <2>1. key = <<key[1], key[2]>> /\ key[1] = "revision"
    BY KeyPairs, KeyFacts
  <2>2. Wanted(c) = {key}
    BY DEF ActivateRevision, Wanted
  <2>3. PICK place \in Places : /\ Goto(c, "record") = [at EXCEPT ![c] = place]
                                /\ place.step = "record" /\ place.n = at[c].n
    <3>1. "record" \in Steps
      BY DEF Steps
    <3>2. Place("record", at[c].n, at[c].k).n = at[c].n
      BY DEF Place
    <3> QED
      BY <3>1, <3>2, NextPlaces
  <2>4. Inserts(c, key, Effective(c), place) /\ request' = request
    BY <1>2, <2>3 DEF ActivateRevision, Insert, Inserts
  <2>k. key = RevisionKey(Item(c).region)
    OBVIOUS
  <2> HIDE DEF key
  <2>5. /\ OnlyMoves(c) /\ rows' = rows /\ answer' = answer /\ at'[c] = place
        /\ progress'[c].published = progress[c].published
        /\ Sound(draft'[c]) /\ DraftGuarded(c)'
        /\ DOMAIN draft'[c] \cap DOMAIN rows = {}
        /\ \A d \in Call \ {c} : DOMAIN draft'[c] \cap DOMAIN draft[d] = {}
        /\ DOMAIN W = DOMAIN View(c) \cup {key}
        /\ Extends(W, View(c)) /\ W[key] = Effective(c) /\ Sound(W)
    BY <2>1, <2>2, <2>4, FreshRow
  <2>6. at[c].step = "activate"
    BY DEF ActivateRevision
  <2>t. TemplateKey(Item(c).name) \in DOMAIN rows /\ Whole(View(c))
    BY <2>6, Standing DEF Seen, Publishing
  <2>i. Item(c)' = Item(c) /\ Id(c)' = Id(c)
    BY <2>3, <2>4, <2>5 DEF Item, Id
  <2>e. Effective(c)' = Effective(c)
    BY <2>4, <2>5, <2>i, <2>t, Standing, EffectiveStays
  <2>7. Seen(c)'
    <3>1. ASSUME NEW r \in Table(W, "revision"), r # Item(c).region PROVE RevisionWhole(W, r)
      <4>1. RevisionKey(r) \in DOMAIN View(c)
        BY <2>5, <2>k, <3>1, TableFacts, KeyFacts
      <4> QED
        BY <2>5, <2>t, <4>1, Standing, TableFacts, RevisionKept DEF Whole
    <3>2. ASSUME NEW id \in Table(W, "request") PROVE RequestWhole(W, id)
      <4>1. RequestKey(id) \in DOMAIN View(c)
        BY <2>1, <2>5, <3>2, TableFacts, KeyFacts
      <4> QED
        BY <2>5, <2>t, <4>1, TableFacts, RequestKept DEF Whole
    <3>3. PartlyPublished(c)'
      BY <2>3, <2>5, <2>k, <2>i, <2>e, <3>1, <3>2 DEF PartlyPublished
    <3> QED
      BY <2>3, <2>5, <2>i, <2>t, <3>3 DEF Seen, Publishing
  <2>8. Promised(c)'
    <3>1. \A effective \in progress[c].published :
            PublishedFor(View(c), request[c], effective) \/ effective = Effective(c)
      BY <2>6, Standing DEF Promised
    <3>2. \A effective \in progress[c].published :
            PublishedFor(W, request[c], effective) \/ effective = Effective(c)
      BY <2>5, <3>1, PublishedKept
    <3> QED
      BY <2>3, <2>4, <2>5, <2>e, <3>2 DEF Promised
  <2>9. Answered(c)'
    BY <2>4, <2>5, Standing DEF Answered
  <2>10. /\ \A d \in Call : DOMAIN draft[d] \cap DOMAIN rows = {}
         /\ Sound(rows) /\ Whole(rows) /\ Extends(rows, rows)
    BY Standing DEF Extends
  <2> QED
    BY <2>5, <2>7, <2>8, <2>9, <2>10, OneMoves
<1> QED
  BY <1>1, <1>2

\* What is done stays done when other tables grow, or the request is recorded.
LEMMA OthersKept ==
  ASSUME NEW c \in Call, NEW V, NEW W, Sound(V), Sound(W), Extends(W, V),
         \A key \in DOMAIN W \ DOMAIN V :
           /\ key[1] # "revision"
           /\ key[1] = "request" => key = RequestKey(Id(c)),
         \A r \in Table(V, "revision") : r # Item(c).region => RevisionWhole(V, r),
         \A id \in Table(V, "request") : id # Id(c) => RequestWhole(V, id)
  PROVE  /\ \A r \in Table(W, "revision") : r # Item(c).region => RevisionWhole(W, r)
         /\ \A id \in Table(W, "request") : id # Id(c) => RequestWhole(W, id)
<1>1. ASSUME NEW r \in Table(W, "revision"), r # Item(c).region PROVE RevisionWhole(W, r)
  <2>1. RevisionKey(r) \in DOMAIN V
    BY <1>1, TableFacts, KeyFacts
  <2> QED
    BY <1>1, <2>1, TableFacts, RevisionKept
<1>2. ASSUME NEW id \in Table(W, "request"), id # Id(c) PROVE RequestWhole(W, id)
  <2>1. RequestKey(id) # RequestKey(Id(c))
    BY <1>2, KeyFacts
  <2>2. RequestKey(id) \in DOMAIN V
    BY <1>2, <2>1, TableFacts, KeyFacts
  <2> QED
    BY <1>2, <2>2, TableFacts, RequestKept
<1> QED
  BY <1>1, <1>2

LEMMA BeforeKept ==
  ASSUME NEW c \in Call, NEW m, NEW V, NEW W, Sound(V), Sound(W), Extends(W, V),
         \A key \in DOMAIN W \ DOMAIN V : key[1] \notin {"revision", "request"},
         SeedsBefore(c, m, V)
  PROVE  SeedsBefore(c, m, W)
<1>1. /\ \A r \in Table(W, "revision") : r # Item(c).region => RevisionWhole(W, r)
      /\ \A id \in Table(W, "request") : id # Id(c) => RequestWhole(W, id)
  BY OthersKept DEF SeedsBefore
<1>2. \A k \in 1..(m - 1) :
        /\ SeedIn(W, Effective(c), k)
        /\ LinkKey(Id(c), Seeds[Effective(c).content][k].instance) \in DOMAIN W
  BY SeedKept DEF SeedsBefore, Extends
<1> QED
  BY <1>1, <1>2 DEF SeedsBefore, Extends

\* The recorded request has the topology that is active, when their digests agree.
LEMMA ReplayFindsItsOwn ==
  ASSUME PublicationInvariant, NEW c \in Call, at[c].step = "replay",
         Has(c, RevisionKey(Item(c).region)),
         Get(c, RevisionKey(Item(c).region)) = Effective(c)
  PROVE  SeedsBefore(c, 1, View(c))
<1> DEFINE V == View(c)
           key == RequestKey(Id(c))
<1>1. key \in DOMAIN V /\ V[key].digest = RequestDigest(request[c], Item(c))
  BY Standing DEF Seen
<1>2. Whole(V) /\ Sound(V)
  BY Standing DEF Seen, Publishing
<1>3. key[1] = "request"
  BY KeyFacts
<1>4. V[key] = [digest |-> [region |-> V[key].effective.region, name |-> V[key].effective.name,
                            source |-> V[key].effective.source],
                effective |-> V[key].effective]
  BY <1>1, <1>2, <1>3 DEF Sound
<1>5. V[key].effective.region = Item(c).region
  BY <1>1, <1>4 DEF RequestDigest
<1>6. RequestWhole(V, Id(c))
  BY <1>1, <1>2, TableFacts DEF Whole
<1>7. V[key].effective = Effective(c)
  BY <1>5, <1>6 DEF RequestWhole, Get
<1>8. V[key] = [digest |-> RequestDigest(request[c], Item(c)), effective |-> Effective(c)]
  BY <1>1, <1>4, <1>7
<1> QED
  BY <1>1, <1>2, <1>8 DEF SeedsBefore, Whole, Has, Get

LEMMA SeedPlaces ==
  ASSUME PublicationInvariant, NEW c \in Call
  PROVE  /\ Place("seed", at[c].n, 1) \in Places
         /\ Place("seed", at[c].n, at[c].k + 1) \in Places
<1>1. at[c].n \in Nat /\ at[c].k \in Nat \ {0}
  BY Standing DEF Places
<1> QED
  BY <1>1 DEF Place, Places, Steps

LEMMA FindActiveStep ==
  ASSUME PublicationInvariant, NEW c \in Call, FindActive(c)
  PROVE  PublicationInvariant'
<1> DEFINE key == RevisionKey(Item(c).region)
<1>0. at[c].step \in {"active", "replay"} /\ request' = request
  BY DEF FindActive
<1>t. TemplateKey(Item(c).name) \in DOMAIN rows /\ Whole(View(c))
  BY <1>0, Standing DEF Seen, Publishing
<1>1. CASE Has(c, key) /\ Get(c, key) # Effective(c)
  BY <1>1, AbortStep DEF FindActive
<1>2. CASE Has(c, key) /\ Get(c, key) = Effective(c) /\ at[c].step = "replay"
  <2>1. Continue(c, FirstSeed(c))
    BY <1>2 DEF FindActive
  <2>2. SeedsBefore(c, 1, View(c))
    BY <1>2, ReplayFindsItsOwn
  <2>3. View(c)' = View(c) /\ draft' = draft /\ locked' = locked /\ rows' = rows
        /\ progress' = progress /\ answer' = answer /\ at' = FirstSeed(c)
    BY <2>1 DEF Continue, View
  <2>4. at' = IF 1 <= Len(Seeds[Effective(c).content])
              THEN [at EXCEPT ![c] = Place("seed", at[c].n, 1)] ELSE NextItem(c)
    BY <1>t, <2>3, SeedsOf DEF FirstSeed
  <2>5. \E place \in Places : at' = [at EXCEPT ![c] = place]
    <3>1. Place("seed", at[c].n, 1) \in Places
      BY SeedPlaces
    <3> QED
      BY <2>4, <3>1, NextPlaces
  <2>6. OnlyMoves(c)
    BY <1>0, <2>3, <2>5 DEF OnlyMoves, PublicationInvariant, Shape
  <2>7. DraftGuarded(c)'
    BY <2>3, Standing DEF DraftGuarded
  <2>8. /\ DOMAIN draft'[c] \cap DOMAIN rows = {}
        /\ \A d \in Call \ {c} : DOMAIN draft'[c] \cap DOMAIN draft[d] = {}
    BY <2>3 DEF PublicationInvariant, DraftsApart
  <2>9. Sound(View(c)') /\ Extends(View(c)', View(c)) /\ Sound(draft'[c])
    BY <2>3, Standing DEF Extends
  <2>10. SeedsBefore(c, 1, View(c)')
    BY <2>2, <2>3
  <2> QED
    <3>1. /\ at[c].step \in {"replay", "record", "state"} /\ 1 \in Nat \ {0}
          /\ rows' = rows /\ progress' = progress /\ answer' = answer
      BY <1>2, <2>3
    <3> QED
      BY <2>4, <2>6, <2>7, <2>8, <2>9, <2>10, <3>1, SeedsGoOn
<1>3. ASSUME NEW step \in {"record", "activate"}, Continue(c, Goto(c, step)),
             step = "record" => Has(c, key) /\ Get(c, key) = Effective(c)
      PROVE  PublicationInvariant'
  <2> DEFINE place == Place(step, at[c].n, at[c].k)
  <2>1. /\ Goto(c, step) = [at EXCEPT ![c] = place]
        /\ place \in Places /\ place.step = step /\ place.n = at[c].n
    <3>1. step \in Steps
      BY DEF Steps
    <3>2. place.n = at[c].n
      BY DEF Place
    <3> QED
      BY <3>1, <3>2, NextPlaces
  <2> HIDE DEF place
  <2>2. /\ OnlyMoves(c) /\ rows' = rows /\ at'[c] = place
        /\ draft' = draft /\ locked' = locked /\ progress' = progress /\ answer' = answer
        /\ View(c)' = View(c)
    BY <1>0, <1>3, <2>1, ContinueMoves
  <2>3. Item(c)' = Item(c) /\ Id(c)' = Id(c) /\ Effective(c)' = Effective(c)
    <3>1. Item(c)' = Item(c) /\ Id(c)' = Id(c)
      BY <1>0, <2>1, <2>2 DEF Item, Id
    <3>2. Extends(View(c)', View(c)) /\ TemplateKey(Item(c).name) \in DOMAIN View(c)
      BY <1>t, <2>2, Standing DEF Extends
    <3> QED
      BY <1>0, <3>1, <3>2, EffectiveStays
  <2>4. Seen(c)'
    <3>1. step = "record" => PartlyPublished(c)'
      BY <1>t, <1>3, <2>1, <2>2, <2>3 DEF PartlyPublished, Whole, Has, Get
    <3> QED
      BY <1>t, <2>1, <2>2, <2>3, <3>1 DEF Seen, Publishing
  <2>5. Promised(c)'
    <3>1. \A effective \in progress[c].published :
            PublishedFor(View(c), request[c], effective) \/ effective = Effective(c)
      BY <1>0, Standing DEF Promised
    <3> QED
      BY <1>0, <2>1, <2>2, <2>3, <3>1 DEF Promised
  <2> QED
    BY <2>2, <2>4, <2>5, InsertsNothing
<1>4. CASE ~Has(c, key)
  <2>1. CASE Get(c, RegionKey(Item(c).region)) # "ready"
    BY <1>4, <2>1, AbortStep DEF FindActive
  <2>2. CASE Get(c, RegionKey(Item(c).region)) = "ready"
    BY <1>3, <1>4, <2>2 DEF FindActive
  <2> QED
    BY <2>1, <2>2
<1>5. CASE Has(c, key) /\ Get(c, key) = Effective(c) /\ at[c].step = "active"
  <2>1. Continue(c, Goto(c, "record"))
    BY <1>5 DEF FindActive
  <2> QED
    BY <1>3, <1>5, <2>1
<1> QED
  BY <1>0, <1>1, <1>2, <1>4, <1>5

LEMMA RecordRequestStep ==
  ASSUME PublicationInvariant, NEW c \in Call, RecordRequest(c)
  PROVE  PublicationInvariant'
<1> DEFINE key == RequestKey(Id(c))
           row == [digest |-> RequestDigest(request[c], Item(c)), effective |-> Effective(c)]
           W == View(c)'
<1>1. CASE Has(c, key)
  BY <1>1, TakenRow DEF RecordRequest
<1>2. CASE ~Has(c, key)
  <2>0. at[c].step = "record" /\ request' = request
    BY DEF RecordRequest
  <2>t. TemplateKey(Item(c).name) \in DOMAIN rows /\ PartlyPublished(c)
    BY <2>0, Standing DEF Seen, Publishing
  <2>1. key = <<key[1], key[2]>> /\ key[1] = "request"
    BY KeyPairs, KeyFacts
  <2>2. Wanted(c) = {key}
    BY <2>0 DEF Wanted
  <2>r. RequestRow(row)
    BY DEF RequestDigest, Effective, RequestRow
  <2>3. FirstSeed(c) = IF 1 <= Len(Seeds[Effective(c).content])
                       THEN [at EXCEPT ![c] = Place("seed", at[c].n, 1)] ELSE NextItem(c)
    BY <2>t, SeedsOf DEF FirstSeed
  <2>4. PICK place \in Places : FirstSeed(c) = [at EXCEPT ![c] = place]
    <3>1. Place("seed", at[c].n, 1) \in Places
      BY SeedPlaces
    <3> QED
      BY <2>3, <3>1, NextPlaces
  <2>5. /\ Inserts(c, key, row, place)
        /\ at' = FirstSeed(c)
        /\ progress' = [progress EXCEPT ![c] = Result(progress[c].status, progress[c].published)]
    <3>1. Insert(c, key, row, FirstSeed(c), FALSE)
      BY DEF RecordRequest
    <3> QED
      BY <1>2, <2>0, <2>4, <3>1 DEF Insert, Inserts
  <2>k. key = RequestKey(Id(c))
    OBVIOUS
  <2>w. row = [digest |-> RequestDigest(request[c], Item(c)), effective |-> Effective(c)]
    OBVIOUS
  <2> HIDE DEF key, row
  <2>6. /\ OnlyMoves(c) /\ rows' = rows /\ answer' = answer /\ at'[c] = place
        /\ Sound(draft'[c]) /\ DraftGuarded(c)'
        /\ DOMAIN draft'[c] \cap DOMAIN rows = {}
        /\ \A d \in Call \ {c} : DOMAIN draft'[c] \cap DOMAIN draft[d] = {}
        /\ DOMAIN W = DOMAIN View(c) \cup {key}
        /\ Extends(W, View(c)) /\ W[key] = row /\ Sound(W)
    BY <2>1, <2>2, <2>r, <2>5, FreshRow
  <2>7. progress' = progress /\ at' = FirstSeed(c)
    BY <2>5 DEF Result, PublicationInvariant, Shape
  <2>8. SeedsBefore(c, 1, W)
    <3>1. /\ \A r \in Table(W, "revision") : r # Item(c).region => RevisionWhole(W, r)
          /\ \A id \in Table(W, "request") : id # Id(c) => RequestWhole(W, id)
      BY <2>0, <2>1, <2>6, <2>k, <2>t, Standing, OthersKept DEF PartlyPublished
    <3>2. /\ RevisionKey(Item(c).region) \in DOMAIN W
          /\ W[RevisionKey(Item(c).region)] = Effective(c)
      BY <2>6, <2>t DEF PartlyPublished, Extends
    <3> QED
      BY <2>6, <2>k, <2>w, <3>1, <3>2 DEF SeedsBefore
  <2> QED
    BY <2>0, <2>3, <2>6, <2>7, <2>8, SeedsGoOn
<1> QED
  BY <1>1, <1>2

\* A row with its artifact or its link, as far as they are missing.
LEMMA EnsuredTwo ==
  ASSUME PublicationInvariant, NEW c \in Call, NEW one, NEW two, NEW first, NEW second,
         one # two, one = <<one[1], one[2]>>, two = <<two[1], two[2]>>,
         one[1] \in {"artifact", "state"}, two[1] \in {"payload", "link"},
         one[1] = "state" => StateRow(one, first),
         draft'[c] = Ensured(c, Ensured(c, draft[c], one, first), two, second)
  PROVE  /\ Sound(draft'[c]) /\ Extends(draft'[c], draft[c])
         /\ DOMAIN draft'[c] = DOMAIN draft[c] \cup {key \in {one, two} : ~Has(c, key)}
         /\ ~Has(c, one) => draft'[c][one] = first
<1> DEFINE D == Ensured(c, draft[c], one, first)
           E == Ensured(c, D, two, second)
<1>1. \A key : ~Has(c, key) => key \notin DOMAIN draft[c]
  BY Standing DEF Has
<1>2. /\ Sound(D) /\ Extends(D, draft[c])
      /\ DOMAIN D = DOMAIN draft[c] \cup {key \in {one} : ~Has(c, key)}
      /\ ~Has(c, one) => D[one] = first
  <2>1. Sound(draft[c])
    BY Standing
  <2>2. CASE Has(c, one)
    <3>1. D = draft[c]
      BY <2>2 DEF Ensured
    <3> QED
      BY <2>1, <2>2, <3>1 DEF Extends
  <2>3. CASE ~Has(c, one)
    <3>1. D = Inserted(draft[c], one, first)
      BY <2>3 DEF Ensured
    <3>2. Sound(Inserted(draft[c], one, first))
      BY <1>1, <2>1, <2>3, SoundInserted
    <3>3. /\ DOMAIN Inserted(draft[c], one, first) = DOMAIN draft[c] \cup {one}
          /\ Extends(Inserted(draft[c], one, first), draft[c])
          /\ Inserted(draft[c], one, first)[one] = first
      BY <1>1, <2>3, InsertedFacts
    <3> QED
      BY <2>3, <3>1, <3>2, <3>3
  <2> QED
    BY <2>2, <2>3
<1> HIDE DEF D
<1>3. /\ Sound(E) /\ Extends(E, D)
      /\ DOMAIN E = DOMAIN D \cup {key \in {two} : ~Has(c, key)}
  <2>1. CASE Has(c, two)
    <3>1. E = D
      BY <2>1 DEF Ensured
    <3> QED
      BY <1>2, <2>1, <3>1 DEF Extends
  <2>2. CASE ~Has(c, two)
    <3>0. two \notin DOMAIN D
      BY <1>1, <1>2, <2>2
    <3>1. E = Inserted(D, two, second)
      BY <2>2 DEF Ensured
    <3>2. Sound(Inserted(D, two, second))
      BY <1>2, <3>0, SoundInserted
    <3>3. /\ DOMAIN Inserted(D, two, second) = DOMAIN D \cup {two}
          /\ Extends(Inserted(D, two, second), D)
      BY InsertedFacts
    <3> QED
      BY <2>2, <3>1, <3>2, <3>3
  <2> QED
    BY <2>1, <2>2
<1>4. draft'[c] = E
  BY DEF D
<1> HIDE DEF E
<1>5. Extends(E, draft[c]) /\ (~Has(c, one) => E[one] = first)
  BY <1>2, <1>3 DEF Extends
<1>6. DOMAIN E = DOMAIN draft[c] \cup {key \in {one, two} : ~Has(c, key)}
  BY <1>2, <1>3
<1> QED
  BY <1>3, <1>4, <1>5, <1>6

\* The artifact of a seed, for which others wait, and its payload.
LEMMA PublishArtifactStep ==
  ASSUME PublicationInvariant, NEW c \in Call, PublishArtifact(c)
  PROVE  PublicationInvariant'
<1> DEFINE key == ArtifactKey(SeedOf(c).value)
           payload == PayloadKey(SeedOf(c).value)
           V == View(c)
           W == View(c)'
           place == Place("state", at[c].n, at[c].k)
<1>0. at[c].step = "seed" /\ Free(c) /\ request' = request
  BY DEF PublishArtifact
<1>t. TemplateKey(Item(c).name) \in DOMAIN rows /\ PartlyPublished(c)
  BY <1>0, Standing DEF Seen, Publishing
<1>k. /\ key = <<key[1], key[2]>> /\ key[1] = "artifact" /\ key[2] = SeedOf(c).value
      /\ payload = <<payload[1], payload[2]>> /\ payload[1] = "payload"
      /\ payload[2] = SeedOf(c).value /\ key = ArtifactKey(payload[2])
  BY KeyPairs, KeyFacts
<1>w. Wanted(c) = {key}
  BY <1>0 DEF Wanted
<1>1. CASE Incompatible(c)
  BY <1>1, AbortStep DEF PublishArtifact
<1>2. CASE ~Incompatible(c)
  <2>1. /\ draft' = [draft EXCEPT
                       ![c] = Ensured(c, Ensured(c, draft[c], key, SeedOf(c).schema), payload,
                                      SeedOf(c).value)]
        /\ locked' = [locked EXCEPT ![c] = locked[c] \cup ({key} \cap DOMAIN rows)]
        /\ at' = Goto(c, "state")
        /\ UNCHANGED <<rows, tries, progress, answer>>
    BY <1>2 DEF PublishArtifact
  <2>p. at' = [at EXCEPT ![c] = place] /\ place \in Places
    <3>1. "state" \in Steps
      BY DEF Steps
    <3> QED
      BY <2>1, <3>1, NextPlaces
  <2>2. OnlyMoves(c)
    BY <1>0, <2>1, <2>p DEF OnlyMoves, PublicationInvariant, Shape
  <2>3. /\ draft'[c] = Ensured(c, Ensured(c, draft[c], key, SeedOf(c).schema), payload,
                               SeedOf(c).value)
        /\ locked'[c] = locked[c] \cup ({key} \cap DOMAIN rows)
        /\ at'[c] = place
    BY <2>1, <2>p DEF PublicationInvariant, Shape
  <2>4. at'[c].step = "state" /\ at'[c].n = at[c].n /\ at'[c].k = at[c].k
    BY <2>3 DEF Place
  <2>h. Has(c, key) => V[key] = SeedOf(c).schema
    BY <1>2 DEF Incompatible, Get
  <2>v. key # payload
    BY <1>k
  <2>s. SeedOf(c).value = key[2]
    BY <1>k
  <2> HIDE DEF key, payload, place
  <2>5. /\ Sound(draft'[c]) /\ Extends(draft'[c], draft[c])
        /\ DOMAIN draft'[c] = DOMAIN draft[c] \cup {k \in {key, payload} : ~Has(c, k)}
        /\ ~Has(c, key) => draft'[c][key] = SeedOf(c).schema
    <3>1. /\ key # payload /\ key = <<key[1], key[2]>> /\ payload = <<payload[1], payload[2]>>
          /\ key[1] \in {"artifact", "state"} /\ payload[1] \in {"payload", "link"}
      BY <1>k, <2>v
    <3>2. key[1] # "state"
      BY <1>k
    <3>3. draft'[c] = Ensured(c, Ensured(c, draft[c], key, SeedOf(c).schema), payload,
                              SeedOf(c).value)
      BY <2>3
    <3> QED
      BY <3>1, <3>2, <3>3, EnsuredTwo
  <2>6. DraftGuarded(c)'
    <3>1. key \in DOMAIN draft'[c] \cup locked'[c]
      BY <2>3, <2>5, Standing DEF Has
    <3>2. \A k \in DOMAIN draft'[c] \ DOMAIN draft[c] : k = key \/ k = payload
      BY <2>5
    <3>3. locked[c] \subseteq locked'[c] /\ DraftGuarded(c)
      BY <2>3, Standing
    <3>4. ASSUME NEW k \in DOMAIN draft'[c]
          PROVE  /\ k[1] # "template"
                 /\ k[1] = "payload" => ArtifactKey(k[2]) \in DOMAIN draft'[c] \cup locked'[c]
                 /\ k[1] = "state" => RevisionKey(k[2][1].region) \in DOMAIN draft'[c]
                 /\ k[1] = "link" => RequestKey(k[2][1]) \in DOMAIN draft'[c]
      <4>1. CASE k \in DOMAIN draft[c]
        BY <2>5, <3>3, <4>1 DEF DraftGuarded
      <4>2. CASE k = key
        BY <1>k, <4>2
      <4>3. CASE k = payload
        BY <1>k, <3>1, <4>3
      <4> QED
        BY <3>2, <4>1, <4>2, <4>3
    <3> QED
      BY <3>4 DEF DraftGuarded
  <2>7. DOMAIN draft'[c] \cap DOMAIN rows = {}
    BY <2>5, Standing DEF Has
  <2>8. ASSUME NEW d \in Call \ {c} PROVE DOMAIN draft'[c] \cap DOMAIN draft[d] = {}
    <3>1. key \notin DOMAIN draft[d] /\ key \notin locked[d]
      BY <1>0, <1>w DEF Free, WaitsFor
    <3>2. payload \notin DOMAIN draft[d]
      BY <1>k, <3>1, Standing DEF DraftGuarded
    <3> QED
      BY <2>5, <3>1, <3>2 DEF PublicationInvariant, DraftsApart
  <2>9. /\ DOMAIN W = DOMAIN draft'[c] \cup DOMAIN rows
        /\ Extends(W, draft'[c]) /\ Extends(W, rows) /\ Extends(W, V) /\ Sound(W)
    BY <2>1, <2>5, <2>7, GrowingDraft
  <2>i. Item(c)' = Item(c) /\ Id(c)' = Id(c)
    BY <1>0, <2>4 DEF Item, Id
  <2>e. Effective(c)' = Effective(c)
    BY <1>0, <1>t, <2>9, <2>i, Standing, EffectiveStays
  <2>o. SeedOf(c)' = SeedOf(c)
    BY <2>4, <2>e DEF SeedOf
  <2>10. SeedsBefore(c, at[c].k, V) /\ at[c].k \in DOMAIN Seeds[Effective(c).content]
    BY <1>0, <1>t DEF PartlyPublished, SeedsBefore, SeedLinked
  <2>11. SeedsBefore(c, at[c].k, W)
    <3>1. \A k \in DOMAIN W \ DOMAIN V : k[1] \notin {"revision", "request"}
      BY <1>k, <2>5, <2>9, Standing
    <3> QED
      BY <2>9, <2>10, <3>1, Standing, BeforeKept
  <2>12. key \in DOMAIN W /\ payload \in DOMAIN W /\ W[key] = SeedOf(c).schema
    <3>1. CASE Has(c, key)
      BY <2>5, <2>9, <2>h, <3>1 DEF Has, Extends
    <3>2. CASE ~Has(c, key)
      BY <2>5, <2>9, <3>2 DEF Has, Extends
    <3> QED
      BY <3>1, <3>2
  <2>13. Seen(c)'
    <3>1. \A k \in 1..(at[c].k - 1) : SeedLinked(c, k)'
      BY <2>11, <2>i, <2>e DEF SeedsBefore, SeedLinked
    <3>2. {ArtifactKey(SeedOf(c).value), PayloadKey(SeedOf(c).value)} \subseteq DOMAIN W
          /\ W[ArtifactKey(SeedOf(c).value)] = SeedOf(c).schema
      BY <2>12 DEF key, payload
    <3>3. PartlyPublished(c)'
      BY <1>0, <2>4, <2>10, <2>11, <2>i, <2>e, <2>o, <3>1, <3>2 DEF SeedsBefore, PartlyPublished
    <3> QED
      BY <1>t, <2>1, <2>4, <2>i, <3>3 DEF Seen, Publishing
  <2>14. Promised(c)'
    <3>1. \A effective \in progress[c].published : PublishedFor(V, request[c], effective)
      BY <1>0, Standing DEF Promised
    <3>2. \A effective \in progress[c].published : PublishedFor(W, request[c], effective)
      BY <2>9, <3>1, PublishedKept
    <3> QED
      BY <1>0, <2>1, <3>2 DEF Promised
  <2>15. Answered(c)'
    BY <1>0, <2>1, Standing DEF Answered
  <2>16. /\ \A d \in Call : DOMAIN draft[d] \cap DOMAIN rows = {}
         /\ Sound(rows) /\ Whole(rows) /\ Extends(rows, rows)
    BY Standing DEF Extends
  <2> QED
    BY <2>1, <2>2, <2>5, <2>6, <2>7, <2>8, <2>13, <2>14, <2>15, <2>16, OneMoves
<1> QED
  BY <1>1, <1>2

\* The state of a seed and its link; nobody waits for them, because whoever could
\* insert them waits for the revision or for the request.
LEMMA PublishStateStep ==
  ASSUME PublicationInvariant, NEW c \in Call, PublishState(c)
  PROVE  PublicationInvariant'
<1> DEFINE e == Effective(c)
           n == at[c].k
           revision == RevisionKey(Item(c).region)
           recorded == RequestKey(Id(c))
           key == StateKey(Effective(c), SeedOf(c).instance)
           link == LinkKey(Id(c), SeedOf(c).instance)
           V == View(c)
           W == View(c)'
<1>0. at[c].step = "state" /\ request' = request
  BY DEF PublishState
<1>t. TemplateKey(Item(c).name) \in DOMAIN rows /\ PartlyPublished(c)
  BY <1>0, Standing DEF Seen, Publishing
<1>n. /\ n \in DOMAIN Seeds[e.content] /\ n \in Nat \ {0} /\ SeedOf(c) = Seeds[e.content][n]
      /\ e.region = Item(c).region
  BY <1>0, <1>t, Standing DEF PartlyPublished, SeedOf, Places, Effective
<1>k. /\ key = <<key[1], key[2]>> /\ key[1] = "state"
      /\ key[2][1] = e /\ key[2][2] = SeedOf(c).instance
      /\ link = <<link[1], link[2]>> /\ link[1] = "link" /\ link[2][1] = Id(c)
  BY KeyPairs, KeyFacts
<1>r. revision[1] = "revision" /\ recorded[1] = "request"
  BY KeyFacts
<1>v. key # link
  BY <1>k
<1>b. SeedsBefore(c, n, V)
  BY <1>0, <1>t DEF PartlyPublished, SeedsBefore, SeedLinked
<1>1. /\ draft' = [draft EXCEPT ![c] = Ensured(c, Ensured(c, draft[c], key, SeedOf(c)), link, key)]
      /\ at' = NextSeed(c)
      /\ UNCHANGED <<rows, locked, tries, progress, answer>>
  BY DEF PublishState
<1>2. at' = IF n + 1 <= Len(Seeds[e.content])
            THEN [at EXCEPT ![c] = Place("seed", at[c].n, n + 1)] ELSE NextItem(c)
  <2>1. Len(Seeds[e.content]) \in Nat
    BY <1>t, SeedsOf
  <2>2. n < Len(Seeds[e.content]) <=> n + 1 <= Len(Seeds[e.content])
    BY <1>n, <2>1
  <2>3. NextSeed(c) = IF n < Len(Seeds[e.content])
                      THEN [at EXCEPT ![c] = Place("seed", at[c].n, n + 1)] ELSE NextItem(c)
    BY DEF NextSeed
  <2> QED
    BY <1>1, <2>2, <2>3
<1>3. OnlyMoves(c)
  <2>1. \E place \in Places : at' = [at EXCEPT ![c] = place]
    BY <1>2, SeedPlaces, NextPlaces
  <2> QED
    BY <1>0, <1>1, <2>1 DEF OnlyMoves, PublicationInvariant, Shape
<1>4. draft'[c] = Ensured(c, Ensured(c, draft[c], key, SeedOf(c)), link, key)
  BY <1>1 DEF PublicationInvariant, Shape
<1>d. key = StateKey(Effective(c), SeedOf(c).instance) /\ link = LinkKey(Id(c), SeedOf(c).instance)
      /\ revision = RevisionKey(e.region) /\ recorded = RequestKey(Id(c))
  BY <1>n
<1>h. \A k \in {key, link} : Has(c, k) <=> k \in DOMAIN V
  BY DEF Has
<1> HIDE DEF key, link, revision, recorded
\* What is not there yet belongs to a revision, or a request, of this transaction.
<1>5. key \notin DOMAIN V => revision \in DOMAIN draft[c]
  <2>1. SUFFICES ASSUME revision \notin DOMAIN draft[c] PROVE key \in DOMAIN V
    OBVIOUS
  <2>2. revision \in DOMAIN rows /\ rows[revision] = e
    <3>1. revision \in DOMAIN V /\ V[revision] = e
      BY <1>b, <1>d, <1>n DEF SeedsBefore
    <3>2. revision \in DOMAIN rows
      BY <2>1, <3>1, Standing
    <3> QED
      BY <3>1, <3>2, Standing DEF Extends
  <2>3. RevisionWhole(rows, e.region)
    BY <1>d, <2>2, Standing, TableFacts DEF Whole
  <2>4. SeedIn(rows, e, n)
    BY <1>d, <1>n, <2>2, <2>3 DEF RevisionWhole
  <2>5. key \in DOMAIN rows
    BY <1>d, <1>n, <2>4 DEF SeedIn
  <2> QED
    BY <2>5, Standing
<1>6. link \notin DOMAIN V => recorded \in DOMAIN draft[c]
  <2>1. SUFFICES ASSUME recorded \notin DOMAIN draft[c] PROVE link \in DOMAIN V
    OBVIOUS
  <2>2. recorded \in DOMAIN rows /\ rows[recorded].effective = e
    <3>1. recorded \in DOMAIN V /\ V[recorded].effective = e
      BY <1>b, <1>d DEF SeedsBefore
    <3>2. recorded \in DOMAIN rows
      BY <2>1, <3>1, Standing
    <3> QED
      BY <3>1, <3>2, Standing DEF Extends
  <2>3. RequestWhole(rows, Id(c))
    BY <1>d, <2>2, Standing, TableFacts DEF Whole
  <2>4. link \in DOMAIN rows
    BY <1>d, <1>n, <2>2, <2>3 DEF RequestWhole
  <2> QED
    BY <2>4, Standing
<1>s. key \in DOMAIN V => V[key] = SeedOf(c)
  <2>1. ASSUME key \in DOMAIN V PROVE V[key] = SeedOf(c)
    <3>1. PICK j \in DOMAIN Seeds[e.content] :
            V[key] = Seeds[e.content][j] /\ V[key].instance = SeedOf(c).instance
      <4>1. Sound(V)
        BY Standing
      <4>2. \E j \in DOMAIN Seeds[key[2][1].content] :
              V[key] = Seeds[key[2][1].content][j] /\ V[key].instance = key[2][2]
        BY <1>k, <2>1, <4>1 DEF Sound
      <4> QED
        BY <1>k, <4>2
    <3>2. j = n
      BY <1>n, <1>t, <3>1, SeedsOf
    <3> QED
      BY <1>n, <3>1, <3>2
  <2> QED
    BY <2>1
<1>7. /\ Sound(draft'[c]) /\ Extends(draft'[c], draft[c])
      /\ DOMAIN draft'[c] = DOMAIN draft[c] \cup {k \in {key, link} : ~Has(c, k)}
      /\ ~Has(c, key) => draft'[c][key] = SeedOf(c)
  <2>1. /\ key # link /\ key = <<key[1], key[2]>> /\ link = <<link[1], link[2]>>
        /\ key[1] \in {"artifact", "state"} /\ link[1] \in {"payload", "link"}
    BY <1>k, <1>v
  <2>2. StateRow(key, SeedOf(c))
    BY <1>k, <1>n DEF StateRow
  <2> QED
    BY <1>4, <2>1, <2>2, EnsuredTwo
<1>8. DraftGuarded(c)'
  <2>1. \A k \in DOMAIN draft'[c] \ DOMAIN draft[c] : (k = key \/ k = link) /\ k \notin DOMAIN V
    BY <1>7, <1>h
  <2>2. locked'[c] = locked[c] /\ DraftGuarded(c) /\ DOMAIN draft[c] \subseteq DOMAIN draft'[c]
    BY <1>1, <1>7, Standing
  <2>3. ASSUME NEW k \in DOMAIN draft'[c]
        PROVE  /\ k[1] # "template"
               /\ k[1] = "payload" => ArtifactKey(k[2]) \in DOMAIN draft'[c] \cup locked'[c]
               /\ k[1] = "state" => RevisionKey(k[2][1].region) \in DOMAIN draft'[c]
               /\ k[1] = "link" => RequestKey(k[2][1]) \in DOMAIN draft'[c]
    <3>1. CASE k \in DOMAIN draft[c]
      BY <2>2, <3>1 DEF DraftGuarded
    <3>2. CASE k = key /\ k \notin DOMAIN V
      BY <1>5, <1>d, <1>k, <2>2, <3>2
    <3>3. CASE k = link /\ k \notin DOMAIN V
      BY <1>6, <1>d, <1>k, <2>2, <3>3
    <3> QED
      BY <2>1, <3>1, <3>2, <3>3
  <2> QED
    BY <2>3 DEF DraftGuarded
<1>9. DOMAIN draft'[c] \cap DOMAIN rows = {}
  BY <1>7, <1>h, Standing
<1>10. ASSUME NEW d \in Call \ {c} PROVE DOMAIN draft'[c] \cap DOMAIN draft[d] = {}
  <2>1. DOMAIN draft[c] \cap DOMAIN draft[d] = {}
    BY DEF PublicationInvariant, DraftsApart
  <2>2. key \notin DOMAIN V => key \notin DOMAIN draft[d]
    BY <1>5, <1>d, <1>k, <2>1, Standing DEF DraftGuarded
  <2>3. link \notin DOMAIN V => link \notin DOMAIN draft[d]
    BY <1>6, <1>d, <1>k, <2>1, Standing DEF DraftGuarded
  <2> QED
    BY <1>7, <1>h, <2>1, <2>2, <2>3
<1>11. /\ DOMAIN W = DOMAIN draft'[c] \cup DOMAIN rows
       /\ Extends(W, draft'[c]) /\ Extends(W, rows) /\ Extends(W, V) /\ Sound(W)
  BY <1>1, <1>7, <1>9, GrowingDraft
<1>12. SeedsBefore(c, n + 1, W)
  <2>1. \A k \in DOMAIN W \ DOMAIN V : k[1] \notin {"revision", "request"}
    BY <1>k, <1>7, <1>11, Standing
  <2>2. SeedsBefore(c, n, W)
    BY <1>11, <1>b, <2>1, Standing, BeforeKept
  <2>3. key \in DOMAIN W /\ W[key] = SeedOf(c) /\ link \in DOMAIN W
    <3>1. CASE Has(c, key)
      BY <1>7, <1>11, <1>h, <1>s, <3>1 DEF Extends
    <3>2. CASE ~Has(c, key)
      BY <1>7, <1>11, <1>h, <3>2 DEF Extends
    <3> QED
      BY <1>7, <1>11, <1>h, <3>1, <3>2 DEF Extends
  <2>4. /\ {ArtifactKey(SeedOf(c).value), PayloadKey(SeedOf(c).value)} \subseteq DOMAIN W
        /\ W[ArtifactKey(SeedOf(c).value)] = SeedOf(c).schema
    BY <1>0, <1>t, <1>11 DEF PartlyPublished, Extends
  <2>5. SeedIn(W, e, n)
    BY <1>d, <1>n, <2>3, <2>4 DEF SeedIn
  <2>6. LinkKey(Id(c), Seeds[e.content][n].instance) \in DOMAIN W
    BY <1>d, <1>n, <2>3
  <2>7. \A k \in 1..((n + 1) - 1) : k = n \/ k \in 1..(n - 1)
    BY <1>n
  <2> HIDE DEF e, n, W
  <2>8. \A k \in 1..((n + 1) - 1) :
          SeedIn(W, e, k) /\ LinkKey(Id(c), Seeds[e.content][k].instance) \in DOMAIN W
    BY <2>2, <2>5, <2>6, <2>7 DEF SeedsBefore, e
  <2> QED
    BY <2>2, <2>8 DEF SeedsBefore, e
<1>13. /\ at[c].step \in {"replay", "record", "state"} /\ n + 1 \in Nat \ {0}
       /\ rows' = rows /\ progress' = progress /\ answer' = answer
  BY <1>0, <1>1, <1>n
<1> QED
  BY <1>2, <1>3, <1>7, <1>8, <1>9, <1>10, <1>11, <1>12, <1>13, SeedsGoOn

-----------------------------------------------------------------------------
(* Statements that commit.                                                 *)

LEMMA RegisterCreateStep ==
  ASSUME PublicationInvariant, NEW c \in Call, RegisterCreate(c)
  PROVE  PublicationInvariant'
<1> DEFINE key == TemplateKey(request[c].name)
<1>0. at[c].step = "create" /\ request' = request
  BY DEF RegisterCreate
<1>1. CASE key \in DOMAIN rows
  <2>1. "find" \in Steps
    BY DEF Steps
  <2>2. Continue(c, Goto(c, "find"))
    BY <1>1 DEF RegisterCreate
  <2> QED
    BY <1>0, <2>1, <2>2, NextPlaces, PassingOn
<1>2. CASE key \notin DOMAIN rows
  <2>1. /\ rows' = Inserted(rows, key, request[c].content)
        /\ at' = Goto(c, "answered")
        /\ answer' = [answer EXCEPT ![c] = Result("created", {})]
        /\ UNCHANGED <<draft, locked, tries, progress>>
    BY <1>2 DEF RegisterCreate
  <2>2. "answered" \in Steps
    BY DEF Steps
  <2>3. /\ OnlyMoves(c) /\ at'[c].step = "answered" /\ answer'[c].published = {}
        /\ draft'[c] = draft[c] /\ locked'[c] = locked[c]
    <3>1. \E place \in Places : at' = [at EXCEPT ![c] = place] /\ place.step = "answered"
      BY <2>1, <2>2, NextPlaces
    <3> QED
      BY <1>0, <2>1, <3>1 DEF Result, OnlyMoves, PublicationInvariant, Shape
  <2>k. key = <<key[1], key[2]>> /\ key[1] = "template"
    BY KeyPairs, KeyFacts
  <2>c. request[c].content \in DOMAIN Seeds
    <3>1. request[c].kind = "register" /\ request[c] \in Requests
      BY <1>0, Standing DEF Seen
    <3> QED
      BY <3>1, RequestsAssumption
  <2> HIDE DEF key
  <2>4. DOMAIN rows' = DOMAIN rows \cup {key} /\ Extends(rows', rows)
    BY <2>1, InsertedFacts
  <2>5. Sound(rows')
    <3>1. key[1] # "request" /\ key[1] # "state"
      BY <2>k
    <3>2. Sound(Inserted(rows, key, request[c].content))
      BY <1>2, <2>k, <2>c, <3>1, Standing, SoundInserted
    <3> QED
      BY <2>1, <3>2
  <2>6. Whole(rows')
    <3>1. \A k \in DOMAIN rows' \ DOMAIN rows : k[1] \notin {"revision", "request"}
      BY <2>k, <2>4
    <3> QED
      BY <2>4, <2>5, <3>1, Standing, WholeInserted
  <2>7. \A d \in Call : DOMAIN draft[d] \cap DOMAIN rows' = {}
    <3>1. \A d \in Call : key \notin DOMAIN draft[d]
      BY <2>k, Standing DEF DraftGuarded
    <3> QED
      BY <2>4, <3>1, Standing
  <2>8. DraftGuarded(c)' /\ Sound(draft'[c])
    BY <2>3, Standing DEF DraftGuarded
  <2>9. Seen(c)'
    <3> DEFINE W == View(c)'
    <3>1. W = Merged(draft[c], rows')
      BY <2>3 DEF View
    <3>2. DOMAIN W = DOMAIN draft[c] \cup DOMAIN rows' /\ Extends(W, draft[c]) /\ Extends(W, rows')
      <4>1. DOMAIN draft[c] \cap DOMAIN rows' = {}
        BY <2>7
      <4>2. /\ DOMAIN Merged(draft[c], rows') = DOMAIN draft[c] \cup DOMAIN rows'
            /\ Extends(Merged(draft[c], rows'), draft[c])
        BY MergedFacts
      <4>3. Extends(Merged(draft[c], rows'), rows')
        BY <4>1, MergedFacts
      <4> QED
        BY <3>1, <4>2, <4>3
    <3>3. \A k \in DOMAIN W : \/ k \in DOMAIN draft[c] /\ W[k] = draft[c][k]
                              \/ k \in DOMAIN rows' /\ W[k] = rows'[k]
      BY <3>2 DEF Extends
    <3>4. Sound(W)
      BY <2>5, <3>3, Standing, SoundUnion
    <3>5. Extends(W, View(c)) /\ DOMAIN W \subseteq DOMAIN View(c) \cup DOMAIN rows'
      <4>1. /\ DOMAIN View(c) = DOMAIN draft[c] \cup DOMAIN rows
            /\ Extends(View(c), draft[c]) /\ Extends(View(c), rows)
        BY Standing
      <4>2. ASSUME NEW k \in DOMAIN View(c) PROVE k \in DOMAIN W /\ W[k] = View(c)[k]
        <5>1. CASE k \in DOMAIN draft[c]
          BY <3>2, <4>1, <5>1 DEF Extends
        <5>2. CASE k \in DOMAIN rows
          BY <2>4, <3>2, <4>1, <5>2 DEF Extends
        <5> QED
          BY <4>1, <4>2, <5>1, <5>2
      <4>3. DOMAIN W \subseteq DOMAIN View(c) \cup DOMAIN rows'
        BY <3>2, <4>1
      <4> HIDE DEF W
      <4> QED
        BY <4>2, <4>3 DEF Extends
    <3>6. Whole(View(c))
      BY <1>0, Standing DEF Seen, Publishing
    <3>7. Whole(W)
      BY <2>5, <2>6, <3>2, <3>4, <3>5, <3>6, Standing, WholeUnion
    <3> QED
      BY <2>3, <3>7 DEF Seen, Publishing
  <2>10. Promised(c)' /\ Answered(c)'
    BY <2>3 DEF Promised, Answered
  <2>11. /\ \A d \in Call \ {c} : DOMAIN draft[d] \cap DOMAIN rows' = {}
         /\ DOMAIN draft'[c] \cap DOMAIN rows' = {}
         /\ \A d \in Call \ {c} : DOMAIN draft'[c] \cap DOMAIN draft[d] = {}
    BY <2>3, <2>7 DEF PublicationInvariant, DraftsApart
  <2> QED
    BY <2>3, <2>4, <2>5, <2>6, <2>8, <2>9, <2>10, <2>11, OneMoves
<1> QED
  BY <1>1, <1>2

\* What the transaction saw becomes what everybody sees.
LEMMA CommitStep ==
  ASSUME PublicationInvariant, NEW c \in Call, Commit(c)
  PROVE  PublicationInvariant'
<1>0. at[c].step = "commit" /\ request' = request
  BY DEF Commit
<1>1. /\ rows' = View(c) /\ draft' = [draft EXCEPT ![c] = <<>>]
      /\ locked' = [locked EXCEPT ![c] = {}] /\ at' = Goto(c, "answered")
      /\ answer' = [answer EXCEPT ![c] = progress[c]] /\ progress' = progress
  BY DEF Commit
<1>2. OnlyMoves(c) /\ at'[c].step = "answered" /\ draft'[c] = <<>> /\ answer'[c] = progress[c]
  <2>1. "answered" \in Steps
    BY DEF Steps
  <2>2. \E place \in Places : at' = [at EXCEPT ![c] = place] /\ place.step = "answered"
    BY <1>1, <2>1, NextPlaces
  <2> QED
    BY <1>0, <1>1, <2>2 DEF OnlyMoves, PublicationInvariant, Shape
<1>3. DOMAIN draft'[c] = {}
  BY <1>2
<1>4. Whole(View(c)) /\ Sound(View(c))
  BY <1>0, Standing DEF Seen, Publishing
<1>5. Sound(rows') /\ Whole(rows') /\ Extends(rows', rows)
  BY <1>1, <1>4, Standing
<1>6. \A d \in Call \ {c} : DOMAIN draft[d] \cap DOMAIN rows' = {}
  BY <1>1, Standing DEF PublicationInvariant, DraftsApart
<1>7. Sound(draft'[c]) /\ DraftGuarded(c)'
  BY <1>3 DEF Sound, DraftGuarded
<1>8. Seen(c)'
  <2> DEFINE W == View(c)'
  <2>1. W = Merged(draft'[c], rows')
    BY DEF View
  <2>2. DOMAIN W = DOMAIN rows' /\ Extends(W, rows')
    <3>1. DOMAIN Merged(draft'[c], rows') = DOMAIN draft'[c] \cup DOMAIN rows'
      BY MergedFacts
    <3>2. DOMAIN draft'[c] \cap DOMAIN rows' = {}
      BY <1>3
    <3>3. Extends(Merged(draft'[c], rows'), rows')
      BY <3>2, MergedFacts
    <3> QED
      BY <1>3, <2>1, <3>1, <3>3
  <2>3. \A k \in DOMAIN W : k \in DOMAIN rows' /\ W[k] = rows'[k]
    BY <2>2 DEF Extends
  <2>4. Sound(W)
    BY <1>5, <2>3, SoundUnion
  <2>5. Whole(W)
    BY <1>5, <2>2, <2>4, WholeUnion
  <2> QED
    BY <1>2, <2>5 DEF Seen, Publishing
<1>9. Promised(c)'
  BY <1>2 DEF Promised
<1>10. Answered(c)'
  <2>1. \A effective \in progress[c].published : PublishedFor(View(c), request[c], effective)
    BY <1>0, Standing DEF Promised
  <2> QED
    BY <1>0, <1>1, <1>2, <2>1 DEF Answered
<1>11. /\ DOMAIN draft'[c] \cap DOMAIN rows' = {}
       /\ \A d \in Call \ {c} : DOMAIN draft'[c] \cap DOMAIN draft[d] = {}
  BY <1>3
<1> QED
  BY <1>2, <1>5, <1>6, <1>7, <1>8, <1>9, <1>10, <1>11, OneMoves

-----------------------------------------------------------------------------
(* The theorems.                                                           *)

LEMMA InitialPublication == Init => PublicationInvariant
<1> SUFFICES ASSUME Init PROVE PublicationInvariant
  OBVIOUS
<1>1. Sound(rows) /\ Whole(rows)
  BY DatabasesAssumption DEF Init
<1>2. \A c \in Call : /\ request[c] \in Requests
                      /\ at[c] = Begin(request[c]) /\ at[c] \in Places
                      /\ at[c].step \in {"find", "region", "lookup"}
                      /\ at[c].step = "find" => request[c].kind = "register"
  BY BeginPlace DEF Init
<1>3. \A c \in Call : draft[c] = <<>> /\ progress[c].published = {} /\ answer[c].published = {}
  BY DEF Init, NoProgress, NoAnswer, Result
<1>4. Shape
  BY <1>2 DEF Init, Shape, Places, NoProgress, NoAnswer, Result
<1>5. \A c \in Call : DOMAIN draft[c] = {}
  BY <1>3
<1>6. DraftsApart
  BY <1>5 DEF DraftsApart
<1>7. ASSUME NEW c \in Call
      PROVE  Sound(draft[c]) /\ DraftGuarded(c) /\ Seen(c) /\ Promised(c) /\ Answered(c)
  <2>1. Sound(draft[c]) /\ DraftGuarded(c)
    BY <1>5 DEF Sound, DraftGuarded
  <2>2. DOMAIN View(c) = DOMAIN rows /\ Extends(View(c), rows)
    BY <1>5, ViewFacts
  <2>3. Sound(View(c))
    BY <1>1, <1>5, <2>1, ViewSound
  <2>4. Whole(View(c))
    BY <1>1, <2>2, <2>3, WholeUnion
  <2>5. Seen(c)
    BY <1>2, <2>4 DEF Seen, Publishing
  <2>6. Promised(c) /\ Answered(c)
    BY <1>3 DEF Promised, Answered
  <2> QED
    BY <2>1, <2>5, <2>6
<1> QED
  BY <1>1, <1>4, <1>6, <1>7 DEF PublicationInvariant

LEMMA EveryStatement ==
  ASSUME PublicationInvariant, [Next]_vars
  PROVE  PublicationInvariant'
<1>1. ASSUME NEW c \in Call, Step(c) PROVE PublicationInvariant'
  BY <1>1, RegisterFindStep, RegisterCreateStep, FindRegionStep, DeclareRegionStep, LookupStep,
     FindActiveStep, ActivateRevisionStep, RecordRequestStep, PublishArtifactStep,
     PublishStateStep, CommitStep DEF Step
<1>2. ASSUME NEW c \in Call, Deadlock(c) PROVE PublicationInvariant'
  BY <1>2, AbortStep DEF Deadlock
<1>3. ASSUME NEW c \in Call, Lose(c) PROVE PublicationInvariant'
  BY <1>3, LoseStep
<1>4. CASE UNCHANGED vars
  <2>1. /\ request' = request /\ rows' = rows /\ draft' = draft /\ locked' = locked /\ at' = at
        /\ progress' = progress /\ answer' = answer
    BY <1>4 DEF vars
  <2>2. Shape' /\ DraftsApart'
    BY <2>1 DEF PublicationInvariant, Shape, DraftsApart
  <2>3. \A c \in Call : DraftGuarded(c)'
    BY <2>1, Standing DEF DraftGuarded
  <2>4. Sound(rows') /\ Whole(rows') /\ Extends(rows', rows)
    BY <2>1 DEF PublicationInvariant, Extends
  <2>5. ASSUME NEW c \in Call PROVE Seen(c)' /\ Promised(c)' /\ Answered(c)'
    BY <2>1, <2>4, Standing, OthersUnaffected
  <2>6. \A c \in Call : Sound(draft'[c])
    BY <2>1 DEF PublicationInvariant
  <2> QED
    BY <2>2, <2>3, <2>4, <2>5, <2>6 DEF PublicationInvariant
<1> QED
  BY <1>1, <1>2, <1>3, <1>4 DEF Next

\* What a statement sees, what a transaction has inserted and what a call has
\* promised fit together, whoever else publishes at the same time.
THEOREM PublicationAlways == Spec => []PublicationInvariant
  BY InitialPublication, EveryStatement, PTL DEF Spec

\* In every state the committed topologies, requests, seeds and links are whole.
THEOREM PublishedIsWhole == Spec => []PublishedWhole
<1>1. PublicationInvariant => PublishedWhole
  BY DEF PublicationInvariant, PublishedWhole
<1> QED
  BY <1>1, PublicationAlways, PTL

\* Every successful answer is about the topology that is active in its region and
\* recorded for its own request, with the digest of that request.
THEOREM AnswersAreOwn == Spec => []AnsweredForItself
<1>1. PublicationInvariant => AnsweredForItself
  BY DEF PublicationInvariant, Answered, AnsweredForItself
<1> QED
  BY <1>1, PublicationAlways, PTL

LEMMA RowsOnlyGrow ==
  ASSUME PublicationInvariant, Next
  PROVE  \A key \in DOMAIN rows : key \in DOMAIN rows' /\ rows'[key] = rows[key]
<1>1. ASSUME rows' = rows
      PROVE  \A key \in DOMAIN rows : key \in DOMAIN rows' /\ rows'[key] = rows[key]
  BY <1>1
<1>2. ASSUME NEW c \in Call, Commit(c)
      PROVE  \A key \in DOMAIN rows : key \in DOMAIN rows' /\ rows'[key] = rows[key]
  <2>1. rows' = View(c)
    BY <1>2 DEF Commit
  <2> QED
    BY <2>1, Standing DEF Extends
<1>3. ASSUME NEW c \in Call, RegisterCreate(c), rows' # rows
      PROVE  \A key \in DOMAIN rows : key \in DOMAIN rows' /\ rows'[key] = rows[key]
  <2>1. rows' = Inserted(rows, TemplateKey(request[c].name), request[c].content)
    BY <1>3 DEF RegisterCreate, Continue
  <2> QED
    BY <2>1 DEF Inserted
<1>4. ASSUME NEW c \in Call, NEW outcome, Abort(c, outcome) PROVE rows' = rows
  BY <1>4 DEF Abort
<1>5. ASSUME NEW c \in Call, NEW place, Continue(c, place) PROVE rows' = rows
  BY <1>5 DEF Continue
<1>6. ASSUME NEW c \in Call, NEW key, NEW row, NEW place, NEW creates,
             Insert(c, key, row, place, creates)
      PROVE  rows' = rows
  <2>1. CASE Violate(c)
    BY <1>4, <2>1 DEF Violate
  <2>2. CASE ~Violate(c)
    BY <1>6, <2>2 DEF Insert
  <2> QED
    BY <2>1, <2>2
<1>7. ASSUME NEW c \in Call, RegisterFind(c) \/ FindRegion(c) \/ FindActive(c) PROVE rows' = rows
  BY <1>4, <1>5, <1>7 DEF RegisterFind, FindRegion, FindActive
<1>8. ASSUME NEW c \in Call, Lookup(c) PROVE rows' = rows
  BY <1>4, <1>5, <1>8 DEF Lookup
<1>9. ASSUME NEW c \in Call, DeclareRegion(c) PROVE rows' = rows
  BY <1>6, <1>9 DEF DeclareRegion
<1>10. ASSUME NEW c \in Call, ActivateRevision(c) PROVE rows' = rows
  BY <1>6, <1>10 DEF ActivateRevision
<1>11. ASSUME NEW c \in Call, RecordRequest(c) PROVE rows' = rows
  BY <1>6, <1>11 DEF RecordRequest
<1>12. ASSUME NEW c \in Call, PublishArtifact(c) PROVE rows' = rows
  BY <1>4, <1>12 DEF PublishArtifact
<1>13. ASSUME NEW c \in Call, PublishState(c) \/ Deadlock(c) \/ Lose(c) PROVE rows' = rows
  BY <1>4, <1>13 DEF PublishState, Deadlock, Lose
<1> QED
  BY <1>1, <1>2, <1>3, <1>7, <1>8, <1>9, <1>10, <1>11, <1>12, <1>13 DEF Next, Step

\* A registered template, a region, its topology, a recorded request, a seed, a
\* state and a link keep their content for ever.
THEOREM PublishedIsFinal == Spec => PublishedStays
<1>1. PublicationInvariant /\ [Next]_vars =>
        [\A key \in DOMAIN rows : key \in DOMAIN rows' /\ rows'[key] = rows[key]]_vars
  BY RowsOnlyGrow
<1> QED
  BY <1>1, PublicationAlways, PTL DEF Spec, PublishedStays

-----------------------------------------------------------------------------
(* TopologyContract.  An accepted template lets every join fill.            *)

\* A template is accepted when no reason to refuse it holds.
LEMMA AcceptedTemplate ==
  ASSUME NEW d, Rejections(d) = {}
  PROVE  /\ ~UnavailableComponent(d)
         /\ ~InvalidIngress(d)
         /\ ~InvalidConnection(d)
         /\ ~InvalidFanIn(d)
<1> DEFINE reasons ==
     {[code |-> "component",            holds |-> UnavailableComponent(d)],
      [code |-> "contract",             holds |-> UnavailableContract(d)],
      [code |-> "reference",            holds |-> UnavailableReference(d)],
      [code |-> "ingress",              holds |-> InvalidIngress(d)],
      [code |-> "connection",           holds |-> InvalidConnection(d)],
      [code |-> "duplicate_connection", holds |-> DuplicateConnection(d)],
      [code |-> "missing_output",       holds |-> MissingOutput(d)],
      [code |-> "fan_in",               holds |-> InvalidFanIn(d)]}
<1>1. \A x \in reasons : ~x.holds
  BY DEF Rejections
<1>2. /\ [code |-> "component", holds |-> UnavailableComponent(d)] \in reasons
      /\ [code |-> "ingress", holds |-> InvalidIngress(d)] \in reasons
      /\ [code |-> "connection", holds |-> InvalidConnection(d)] \in reasons
      /\ [code |-> "fan_in", holds |-> InvalidFanIn(d)] \in reasons
  OBVIOUS
<1> HIDE DEF reasons
<1>3. /\ ~[code |-> "component", holds |-> UnavailableComponent(d)].holds
      /\ ~[code |-> "ingress", holds |-> InvalidIngress(d)].holds
      /\ ~[code |-> "connection", holds |-> InvalidConnection(d)].holds
      /\ ~[code |-> "fan_in", holds |-> InvalidFanIn(d)].holds
  BY <1>1, <1>2
<1>. QED
  BY <1>3

\* The inputs of an instance, and where the connections into them come from.
LEMMA EndpointShape ==
  ASSUME NEW d \in Document, NEW e \in Endpoints(d, "input")
  PROVE  e.instance \in Instances(d) /\ ~IsBoundary(e)
BY TopologyAssumption DEF Endpoints, Instances, IsBoundary

LEMMA AllPortsRequired ==
  ASSUME NEW d \in Document, AllRequired(d), NEW e \in Endpoints(d, "input"),
         ~UnavailableComponent(d)
  PROVE  PortAt(d, e, "input").required = TRUE
<1>1. PICK i \in Instances(d) : \E p \in Ports[d.instances[i]] :
        p.direction = "input" /\ e = [instance |-> i, port |-> p.name]
  BY DEF Endpoints
<1>2. /\ PortAt(d, e, "input") \in Ports[d.instances[i]]
  BY <1>1 DEF PortAt
<1>3. d.instances[i] \in Component
  BY DEF UnavailableComponent
<1>4. PortAt(d, e, "input").required \in BOOLEAN
  BY <1>2, <1>3, TopologyAssumption
<1>5. PortAt(d, e, "input").required
  BY <1>2 DEF AllRequired
<1>. QED
  BY <1>4, <1>5

LEMMA SourceOfConnection ==
  ASSUME NEW d \in Document, ~InvalidConnection(d), NEW k \in DOMAIN d.connections,
         ~IsBoundary(d.connections[k].from)
  PROVE  d.connections[k].from.instance \in Instances(d)
<1> DEFINE s == d.connections[k].from
<1>1. SourceSchema(d, s) # {}
  BY DEF InvalidConnection
<1>2. s \in Endpoints(d, "output")
  BY <1>1 DEF SourceSchema
<1>. QED
  BY <1>2 DEF Endpoints, Instances

LEMMA IncomingFinite ==
  ASSUME NEW d \in Document, NEW e
  PROVE  IsFiniteSet(Incoming(d, e)) /\ Cardinality(Incoming(d, e)) \in Nat
<1>1. Incoming(d, e) \subseteq DOMAIN d.connections
  BY DEF Incoming
<1>. QED
  BY <1>1, TopologyAssumption, FS_Subset, FS_CardinalityType

\* What the scheduler waits for is what is connected: all of it with a rule, at
\* most one delivery without.
LEMMA ExpectedDeliveries ==
  ASSUME NEW d \in Document, ~InvalidFanIn(d), NEW e \in Endpoints(d, "input")
  PROVE  /\ Expected(d, e) \in Nat \ {0}
         /\ Cardinality(Incoming(d, e)) <= Expected(d, e)
         /\ Cardinality(Incoming(d, e)) # 0 => Cardinality(Incoming(d, e)) = Expected(d, e)
<1> DEFINE n == Cardinality(Incoming(d, e))
<1>0. n \in Nat
  BY IncomingFinite
<1>1. CASE \E k \in DOMAIN d.fanIn : d.fanIn[k].input = e
  <2> DEFINE k == CHOOSE k \in DOMAIN d.fanIn : d.fanIn[k].input = e
  <2>1. k \in DOMAIN d.fanIn /\ d.fanIn[k].input = e
    BY <1>1
  <2>2. d.fanIn[k].expected \in Int /\ ~(d.fanIn[k].expected <= 0) /\ ~(d.fanIn[k].expected # n)
    BY <2>1, TopologyAssumption DEF InvalidFanIn
  <2>3. Expected(d, e) = d.fanIn[k].expected
    BY <1>1 DEF Expected
  <2>. QED
    BY <1>0, <2>2, <2>3
<1>2. CASE ~\E k \in DOMAIN d.fanIn : d.fanIn[k].input = e
  <2>1. ~(n > 1)
    BY <1>2 DEF InvalidFanIn
  <2>2. Expected(d, e) = 1
    BY <1>2 DEF Expected
  <2>. QED
    BY <1>0, <2>1, <2>2
<1>. QED
  BY <1>1, <1>2

-----------------------------------------------------------------------------
(* What holds while a command runs through a topology.                      *)

\* The connections into an input whose source has delivered.
Done(k) ==
  LET s == document.connections[k].from
  IN  IF IsBoundary(s) THEN verdict = "commanded" ELSE ran[s.instance] > 0
DoneInto(e) == {k \in Incoming(document, e) : Done(k)}

TopologyAccepted == verdict \in {"published", "commanded"} => Rejections(document) = {}

Quiet ==
  verdict # "commanded" =>
    /\ \A i \in Instances(document) : ran[i] = 0
    /\ \A e \in Endpoints(document, "input") : ready[e] = 0

\* Every instance runs at most once, when all that feeds its inputs has; until
\* then each input holds what has been delivered.
Waiting ==
  (verdict = "commanded" /\ Fed(document) /\ AllRequired(document)) =>
    \A e \in Endpoints(document, "input") :
       IF ran[e.instance] > 0 THEN ready[e] = 0 /\ DoneInto(e) = Incoming(document, e)
       ELSE ready[e] = Cardinality(DoneInto(e))

TopologyInvariant == TopologyTypeOK /\ TopologyAccepted /\ Quiet /\ Waiting

\* A topology is published only without a reason to refuse it, and rows keep
\* their types.
THEOREM TopologyTypes == TopologySpec => [](TopologyTypeOK /\ TopologyAccepted)
<1>1. TopologyInit => TopologyTypeOK /\ TopologyAccepted
  BY DEF TopologyInit, TopologyTypeOK, TopologyAccepted
<1>2. TopologyTypeOK /\ TopologyAccepted /\ [TopologyNext]_topology => (TopologyTypeOK /\ TopologyAccepted)'
  <2> SUFFICES ASSUME TopologyTypeOK, TopologyAccepted, [TopologyNext]_topology
               PROVE  (TopologyTypeOK /\ TopologyAccepted)'
    OBVIOUS
  <2>1. CASE Publish
    BY <2>1 DEF Publish, TopologyTypeOK, TopologyAccepted
  <2>2. CASE RouteCommand
    <3>1. Rejections(document) = {} /\ document \in Document
      BY <2>2 DEF RouteCommand, TopologyAccepted, TopologyTypeOK
    <3>2. document.ingress \subseteq Endpoints(document, "input")
      BY <3>1, AcceptedTemplate DEF InvalidIngress
    <3>3. DOMAIN ready = Endpoints(document, "input")
      BY DEF TopologyTypeOK
    <3>4. DOMAIN ready \cup document.ingress = Endpoints(document, "input")
      BY <3>2, <3>3
    <3>5. ready' \in [Endpoints(document, "input") -> Nat]
      BY <2>2, <3>4 DEF RouteCommand, TopologyTypeOK
    <3>. QED
      BY <2>2, <3>5 DEF RouteCommand, TopologyTypeOK, TopologyAccepted
  <2>3. ASSUME NEW i \in Instances(document), Execute(i)
        PROVE  (TopologyTypeOK /\ TopologyAccepted)'
    <3>0. document \in Document
      BY DEF TopologyTypeOK
    <3>1. \A e \in DOMAIN ready : Cardinality({k \in Stored(document) :
                      /\ document.connections[k].from.instance = i
                      /\ document.connections[k].to = e}) \in Nat
      <4> TAKE e \in DOMAIN ready
      <4>1. {k \in Stored(document) : /\ document.connections[k].from.instance = i
                                      /\ document.connections[k].to = e} \subseteq DOMAIN document.connections
        BY DEF Stored
      <4>. QED
        BY <3>0, <4>1, TopologyAssumption, FS_Subset, FS_CardinalityType
    <3>2. ready' \in [Endpoints(document, "input") -> Nat]
      BY <2>3, <3>1 DEF Execute, TopologyTypeOK
    <3>3. ran' \in [Instances(document) -> Nat]
      BY <2>3 DEF Execute, TopologyTypeOK
    <3>. QED
      BY <2>3, <3>2, <3>3 DEF Execute, TopologyTypeOK, TopologyAccepted
  <2>4. CASE UNCHANGED topology
    BY <2>4 DEF topology, TopologyTypeOK, TopologyAccepted
  <2>. QED
    BY <2>1, <2>2, <2>3, <2>4 DEF TopologyNext
<1>. QED
  BY <1>1, <1>2, PTL DEF TopologySpec

-----------------------------------------------------------------------------
(* The steps of a run.                                                      *)

LEMMA DoneFinite ==
  ASSUME NEW e, document \in Document
  PROVE  IsFiniteSet(DoneInto(e)) /\ Cardinality(DoneInto(e)) \in Nat
         /\ Cardinality(DoneInto(e)) <= Cardinality(Incoming(document, e))
         /\ (Cardinality(DoneInto(e)) = Cardinality(Incoming(document, e))
               => DoneInto(e) = Incoming(document, e))
<1>1. DoneInto(e) \subseteq Incoming(document, e)
  BY DEF DoneInto
<1>. QED
  BY <1>1, IncomingFinite, FS_Subset, FS_CardinalityType

\* A command delivers to each input what the boundary feeds it.
LEMMA CommandFeeds ==
  ASSUME TopologyTypeOK, TopologyAccepted, Quiet, RouteCommand
  PROVE  Waiting'
<1>1. document \in Document /\ document' = document /\ ran' = ran /\ verdict' = "commanded"
  BY DEF TopologyTypeOK, RouteCommand
<1>2. Rejections(document) = {}
  BY DEF RouteCommand, TopologyAccepted
<1>3. ~InvalidConnection(document) /\ ~InvalidIngress(document)
  BY <1>2, AcceptedTemplate
<1>4. \A i \in Instances(document) : ran[i] = 0
  BY DEF RouteCommand, Quiet
<1> SUFFICES ASSUME Fed(document), NEW e \in Endpoints(document, "input")
             PROVE  (IF ran[e.instance] > 0 THEN ready[e] = 0 /\ DoneInto(e) = Incoming(document, e)
                     ELSE ready[e] = Cardinality(DoneInto(e)))'
  BY <1>1 DEF Waiting
<1>5. e.instance \in Instances(document)
  BY <1>1, EndpointShape
<1>6. ready'[e] = IF e \in document.ingress THEN 1 ELSE 0
  BY DEF RouteCommand, TopologyTypeOK, Quiet
<1>7. DoneInto(e)' = {k \in Incoming(document, e) : IsBoundary(document.connections[k].from)}
  <2>1. \A k \in Incoming(document, e) :
           ~IsBoundary(document.connections[k].from) =>
              ran[document.connections[k].from.instance] = 0
    BY <1>1, <1>3, <1>4, SourceOfConnection DEF Incoming
  <2>2. \A k \in Incoming(document, e) : Done(k)' <=> IsBoundary(document.connections[k].from)
    BY <1>1, <2>1 DEF Done
  <2>3. Incoming(document, e)' = Incoming(document, e)
    BY <1>1
  <2>. QED
    BY <2>2, <2>3 DEF DoneInto
<1>8. Cardinality(DoneInto(e)') = IF e \in document.ingress THEN 1 ELSE 0
  BY <1>7 DEF Fed
<1>. QED
  BY <1>1, <1>4, <1>5, <1>6, <1>8

\* An instance runs when all that feeds it has delivered, and adds one delivery
\* to each input for every connection from it.
LEMMA ExecutionFeeds ==
  ASSUME TopologyTypeOK, TopologyAccepted, Waiting, NEW i \in Instances(document), Execute(i)
  PROVE  Waiting'
<1>1. document \in Document /\ document' = document /\ verdict = "commanded" /\ verdict' = verdict
  BY DEF TopologyTypeOK, Execute
<1>2. Rejections(document) = {}
  BY <1>1 DEF TopologyAccepted
<1>3. ~InvalidConnection(document) /\ ~InvalidFanIn(document) /\ ~UnavailableComponent(document)
  BY <1>2, AcceptedTemplate
<1> SUFFICES ASSUME Fed(document), AllRequired(document)
             PROVE  \A e \in Endpoints(document, "input") :
                      (IF ran[e.instance] > 0 THEN ready[e] = 0 /\ DoneInto(e) = Incoming(document, e)
                       ELSE ready[e] = Cardinality(DoneInto(e)))'
  BY <1>1 DEF Waiting
<1>4. DOMAIN ready = Endpoints(document, "input")
  BY DEF TopologyTypeOK
<1>5. Taken(i) = {e \in DOMAIN ready : e.instance = i}
  <2>1. \A e \in DOMAIN ready : PortAt(document, e, "input").required = TRUE
    BY <1>1, <1>3, <1>4, AllPortsRequired
  <2>. QED
    BY <2>1 DEF Taken, InputsOf
<1>6. \A e \in DOMAIN ready : e.instance = i => Complete(e)
  <2>1. \A e \in DOMAIN ready : e.instance = i => e \in InputsOf(i, TRUE)
    BY <1>1, <1>3, <1>4, AllPortsRequired DEF InputsOf
  <2>. QED
    BY <2>1 DEF Execute
<1>7. ran[i] = 0
  <2>1. PICK e \in DOMAIN ready : e.instance = i
    BY <1>5 DEF Execute
  <2>2. ready[e] # 0
    BY <1>1, <1>3, <1>4, <1>6, <2>1, ExpectedDeliveries DEF Complete
  <2>3. ran[i] \in Nat
    BY DEF TopologyTypeOK
  <2>. QED
    BY <1>1, <1>4, <2>1, <2>2, <2>3 DEF Waiting
<1>8. ran' = [ran EXCEPT ![i] = 1]
  BY <1>7 DEF Execute, TopologyTypeOK
<1>9. \A e \in DOMAIN ready : e.instance = i => DoneInto(e) = Incoming(document, e)
  <2> SUFFICES ASSUME NEW e \in DOMAIN ready, e.instance = i
               PROVE  DoneInto(e) = Incoming(document, e)
    OBVIOUS
  <2>1. Cardinality(DoneInto(e)) = Expected(document, e)
    BY <1>1, <1>4, <1>6, <1>7 DEF Waiting, Complete
  <2>2. Cardinality(DoneInto(e)) = Cardinality(Incoming(document, e))
    BY <1>1, <1>3, <1>4, <2>1, ExpectedDeliveries, DoneFinite, IncomingFinite
  <2>. QED
    BY <1>1, <2>2, DoneFinite
<1> SUFFICES ASSUME NEW e \in Endpoints(document, "input")
             PROVE  (IF ran[e.instance] > 0 THEN ready[e] = 0 /\ DoneInto(e) = Incoming(document, e)
                     ELSE ready[e] = Cardinality(DoneInto(e)))'
  OBVIOUS
<1> DEFINE new == {k \in Stored(document) : /\ document.connections[k].from.instance = i
                                            /\ document.connections[k].to = e}
<1>10. e.instance \in Instances(document) /\ ~IsBoundary(e)
  BY <1>1, EndpointShape
<1>11. new = {k \in Incoming(document, e) : /\ ~IsBoundary(document.connections[k].from)
                                            /\ document.connections[k].from.instance = i}
  BY <1>10 DEF Stored, Incoming
<1>12. \A k \in new : ~Done(k)
  BY <1>7, <1>11 DEF Done
<1>13. DoneInto(e)' = DoneInto(e) \cup new
  <2>1. \A k \in Incoming(document, e) : Done(k)' <=> Done(k) \/ k \in new
    <3> TAKE k \in Incoming(document, e)
    <3>1. CASE IsBoundary(document.connections[k].from)
      BY <1>1, <1>11, <3>1 DEF Done
    <3>2. CASE ~IsBoundary(document.connections[k].from)
      <4>1. document.connections[k].from.instance \in Instances(document)
        BY <1>1, <1>3, <3>2, SourceOfConnection DEF Incoming
      <4>2. ran \in [Instances(document) -> Nat]
        BY DEF TopologyTypeOK
      <4>. QED
        BY <1>1, <1>8, <1>11, <3>2, <4>1, <4>2 DEF Done
    <3>. QED
      BY <3>1, <3>2
  <2>2. Incoming(document, e)' = Incoming(document, e)
    BY <1>1
  <2>3. new \subseteq Incoming(document, e)
    BY <1>11
  <2>. QED
    BY <2>1, <2>2, <2>3 DEF DoneInto
<1>14. ready'[e] = (IF e.instance = i THEN 0 ELSE ready[e]) + Cardinality(new)
  BY <1>4, <1>5 DEF Execute
<1>15. CASE e.instance = i
  <2>1. new = {}
    BY <1>4, <1>9, <1>11, <1>12, <1>15 DEF DoneInto
  <2>2. ready'[e] = 0
    <3>1. Cardinality(new) = 0
      BY <2>1, FS_EmptySet
    <3>. QED
      BY <1>14, <1>15, <3>1
  <2>3. DoneInto(e)' = Incoming(document, e)'
    BY <1>1, <1>4, <1>9, <1>13, <1>15, <2>1
  <2>4. ran'[e.instance] > 0
    BY <1>8, <1>15 DEF TopologyTypeOK
  <2>. QED
    BY <2>2, <2>3, <2>4
<1>16. CASE e.instance # i
  <2>1. ran'[e.instance] = ran[e.instance] /\ ran[e.instance] \in Nat
    BY <1>8, <1>10, <1>16 DEF TopologyTypeOK
  <2>2. CASE ran[e.instance] > 0
    <3>1. ready[e] = 0 /\ DoneInto(e) = Incoming(document, e)
      BY <1>1, <2>2 DEF Waiting
    <3>2. new = {}
      BY <1>11, <1>12, <3>1 DEF DoneInto
    <3>3. ready'[e] = 0
      <4>1. Cardinality(new) = 0
        BY <3>2, FS_EmptySet
      <4>. QED
        BY <1>14, <1>16, <3>1, <4>1
    <3>4. DoneInto(e)' = Incoming(document, e)'
      BY <1>1, <1>13, <3>1, <3>2
    <3>. QED
      BY <2>1, <2>2, <3>3, <3>4
  <2>3. CASE ~(ran[e.instance] > 0)
    <3>1. ready[e] = Cardinality(DoneInto(e))
      BY <1>1, <2>3 DEF Waiting
    <3>2. IsFiniteSet(DoneInto(e)) /\ IsFiniteSet(new)
      BY <1>1, <1>11, IncomingFinite, FS_Subset, DoneFinite
    <3>3. DoneInto(e) \cap new = {}
      BY <1>12 DEF DoneInto
    <3>4. Cardinality(DoneInto(e) \cup new) = Cardinality(DoneInto(e)) + Cardinality(new)
      <4>1. Cardinality(DoneInto(e) \cap new) = 0
        BY <3>3, FS_EmptySet
      <4>2. Cardinality(DoneInto(e)) \in Nat /\ Cardinality(new) \in Nat
        BY <3>2, FS_CardinalityType
      <4>3. Cardinality(DoneInto(e) \cup new)
              = Cardinality(DoneInto(e)) + Cardinality(new) - Cardinality(DoneInto(e) \cap new)
        BY <3>2, FS_Union
      <4>. QED
        BY <4>1, <4>2, <4>3
    <3>5. ready'[e] = Cardinality(DoneInto(e)')
      BY <1>13, <1>14, <1>16, <3>1, <3>4
    <3>. QED
      BY <2>1, <2>3, <3>5
  <2>. QED
    BY <2>2, <2>3
<1>. QED
  BY <1>15, <1>16

\* In every reachable state an input holds what its sources have delivered, and
\* nothing is left of it when its instance has run.
THEOREM TopologyInductive == TopologySpec => []TopologyInvariant
<1>1. TopologyInit => Quiet /\ Waiting
  BY DEF TopologyInit, Quiet, Waiting
<1>2. TopologyTypeOK /\ TopologyAccepted /\ Quiet /\ Waiting /\ [TopologyNext]_topology => Quiet' /\ Waiting'
  <2> SUFFICES ASSUME TopologyTypeOK, TopologyAccepted, Quiet, Waiting, [TopologyNext]_topology
               PROVE  Quiet' /\ Waiting'
    OBVIOUS
  <2>1. CASE Publish
    <3>1. verdict # "commanded" /\ verdict' # "commanded"
      BY <2>1 DEF Publish
    <3>. QED
      BY <2>1, <3>1 DEF Publish, Quiet, Waiting
  <2>2. CASE RouteCommand
    <3>1. verdict' = "commanded"
      BY <2>2 DEF RouteCommand
    <3>. QED
      BY <2>2, <3>1, CommandFeeds DEF Quiet
  <2>3. ASSUME NEW i \in Instances(document), Execute(i)
        PROVE  Quiet' /\ Waiting'
    <3>1. verdict' = "commanded"
      BY <2>3 DEF Execute
    <3>. QED
      BY <2>3, <3>1, ExecutionFeeds DEF Quiet
  <2>4. CASE UNCHANGED topology
    BY <2>4 DEF topology, Quiet, Waiting, DoneInto, Done
  <2>. QED
    BY <2>1, <2>2, <2>3, <2>4 DEF TopologyNext
<1>. QED
  BY <1>1, <1>2, TopologyTypes, PTL DEF TopologySpec, TopologyInvariant

LEMMA WaitingJoinsFill == TopologyInvariant => JoinsFill
<1> SUFFICES ASSUME TopologyInvariant, verdict = "commanded", Fed(document), AllRequired(document),
                    NEW e \in DOMAIN ready
             PROVE  /\ ready[e] <= Expected(document, e)
                    /\ SourcesDone(e) => Complete(e) \/ ran[e.instance] > 0
  BY DEF JoinsFill
<1>1. e \in Endpoints(document, "input") /\ document \in Document
  BY DEF TopologyInvariant, TopologyTypeOK
<1>2. ~InvalidFanIn(document)
  BY AcceptedTemplate DEF TopologyInvariant, TopologyAccepted
<1> DEFINE n == Cardinality(Incoming(document, e))
<1>3. /\ Expected(document, e) \in Nat /\ n \in Nat /\ n <= Expected(document, e)
      /\ n # 0 => n = Expected(document, e)
  BY <1>1, <1>2, ExpectedDeliveries, IncomingFinite
<1>4. Cardinality(DoneInto(e)) \in Nat /\ Cardinality(DoneInto(e)) <= n
  BY <1>1, DoneFinite
<1>5. ready[e] = 0 \/ ready[e] = Cardinality(DoneInto(e))
  BY <1>1 DEF TopologyInvariant, Waiting
<1>6. ASSUME SourcesDone(e), ~(ran[e.instance] > 0)
      PROVE  Complete(e)
  <2>1. DoneInto(e) = Incoming(document, e) /\ Incoming(document, e) # {}
    BY <1>6 DEF SourcesDone, DoneInto, Done
  <2>2. n # 0
    BY <1>1, <2>1, IncomingFinite, FS_EmptySet
  <2>3. ready[e] = Cardinality(DoneInto(e))
    BY <1>1, <1>6 DEF TopologyInvariant, Waiting
  <2>. QED
    BY <1>3, <2>1, <2>2, <2>3 DEF Complete
<1>. QED
  BY <1>3, <1>4, <1>5, <1>6

\* The three readers of a template agree on what a join waits for.
THEOREM TopologyJoinsFill == TopologySpec => []JoinsFill
BY TopologyInductive, WaitingJoinsFill, PTL

-----------------------------------------------------------------------------
(* ResourceAdmission.  No budget row is overdrawn, and the tree of budgets  *)
(* is well formed.                                                          *)

(* What applying a document does to the rows.                              *)

LEMMA InverseOfInjection ==
  ASSUME NEW S, NEW row \in Injection(S, Budget), NEW s \in S
  PROVE  row[s] \in Range(row) /\ AntiFunction(row)[row[s]] = s
BY DEF Injection, IsInjective, Range, AntiFunction, Inverse

\* A row that exists keeps its scope, limit and parent, and stays active unless
\* the document has another row or none for its scope.
RowPersists(doc, row, b) ==
  /\ b \in DOMAIN budget'
  /\ budget'[b].scope = budget[b].scope
  /\ budget'[b].limit = budget[b].limit
  /\ budget'[b].parent = budget[b].parent
  /\ budget'[b].active = (budget[b].active /\ (budget[b].scope \in DOMAIN doc => b \in Range(row)))

\* A new row is what the document says of its scope.
RowIsNew(doc, row, b) ==
  \E s \in Limited(doc) :
    /\ b = row[s]
    /\ budget'[b] = [scope |-> s, limit |-> doc[s], active |-> TRUE, parent |-> ParentRow(doc, row, s)]

LEMMA ApplyMoves ==
  ASSUME AdmissionTypeOK, NEW doc, NEW row \in Injection(Limited(doc), Budget), budget' = WithRows(doc, row)
  PROVE  /\ DOMAIN budget' = DOMAIN budget \cup Range(row)
         /\ \A b \in DOMAIN budget : RowPersists(doc, row, b)
         /\ \A b \in DOMAIN budget' \ DOMAIN budget : RowIsNew(doc, row, b)
<1>1. DOMAIN budget' = DOMAIN budget \cup Range(row)
  BY DEF WithRows
<1>2. ASSUME NEW b \in DOMAIN budget PROVE RowPersists(doc, row, b)
  <2>1. budget'[b] = [budget[b] EXCEPT !.active =
                       budget[b].active /\ (budget[b].scope \in DOMAIN doc => b \in Range(row))]
    BY DEF WithRows
  <2>2. budget[b] \in [scope : Scope, limit : Nat, active : BOOLEAN, parent : Budget \cup {NoBudget}]
    BY DEF AdmissionTypeOK, BudgetRow
  <2> QED
    BY <1>1, <2>1, <2>2 DEF RowPersists
<1>3. ASSUME NEW b \in DOMAIN budget' \ DOMAIN budget PROVE RowIsNew(doc, row, b)
  <2>1. b \in Range(row)
    BY <1>1
  <2>2. DOMAIN row = Limited(doc)
    BY DEF Injection
  <2>3. PICK s \in Limited(doc) : b = row[s]
    BY <2>1, <2>2 DEF Range
  <2>4. AntiFunction(row)[b] = s
    BY <2>3, InverseOfInjection
  <2>5. budget'[b] = [scope |-> s, limit |-> doc[s], active |-> TRUE, parent |-> ParentRow(doc, row, s)]
    BY <2>1, <2>4 DEF WithRows
  <2> QED
    BY <2>3, <2>5 DEF RowIsNew
<1> QED
  BY <1>1, <1>2, <1>3
\* A row of the document's is active for its scope with the declared limit.
LEMMA ChosenRows ==
  ASSUME AdmissionTypeOK, NEW doc, NEW row \in Injection(Limited(doc), Budget), Chosen(doc, row),
         budget' = WithRows(doc, row), NEW s \in Limited(doc)
  PROVE  /\ row[s] \in DOMAIN budget'
         /\ budget'[row[s]].scope = s
         /\ budget'[row[s]].limit = doc[s]
         /\ budget'[row[s]].active
<1>1. /\ row[s] \in Range(row)
      /\ row[s] \in Budget
  BY InverseOfInjection DEF Injection, IsInjective
<1>2. row[s] \in DOMAIN budget'
  BY <1>1, ApplyMoves
<1>3. CASE row[s] \in DOMAIN budget
  <2>1. row[s] \in Kept(doc, row, s)
    BY <1>3 DEF Chosen
  <2>2. budget[row[s]].scope = s /\ budget[row[s]].limit = doc[s] /\ budget[row[s]].active
    BY <2>1 DEF Kept, ActiveAt
  <2>3. RowPersists(doc, row, row[s])
    BY <1>3, ApplyMoves
  <2> QED
    BY <1>1, <1>2, <2>2, <2>3 DEF RowPersists
<1>4. CASE row[s] \notin DOMAIN budget
  <2>1. RowIsNew(doc, row, row[s])
    BY <1>2, <1>4, ApplyMoves
  <2>2. PICK t \in Limited(doc) :
          /\ row[s] = row[t]
          /\ budget'[row[s]] = [scope |-> t, limit |-> doc[t], active |-> TRUE, parent |-> ParentRow(doc, row, t)]
    BY <2>1 DEF RowIsNew
  <2>3. s = t
    BY <2>2, InverseOfInjection
  <2> QED
    BY <1>2, <2>2, <2>3
<1> QED
  BY <1>3, <1>4

LEMMA LimitsAreDeclared ==
  ASSUME NEW doc \in Documents, NEW s \in Limited(doc)
  PROVE  /\ s \in Scope /\ s \in DOMAIN doc
         /\ doc[s] \in Nat
         /\ RootScope(s) \in Scope
         /\ RootScope(RootScope(s)) = RootScope(s)
<1>1. s \in DOMAIN doc /\ doc[s] # Unlimited
  BY DEF Limited
<1>2. DOMAIN doc \subseteq Scope /\ doc \in [DOMAIN doc -> Nat \cup {Unlimited}]
  BY AdmissionAssumption
<1>3. s \in Region \X Resource /\ doc[s] \in Nat
  BY <1>1, <1>2 DEF Scope
<1>4. RootScope(s) \in Scope /\ RootScope(RootScope(s)) = RootScope(s)
  BY <1>3, AdmissionAssumption DEF RootScope, Scope
<1> QED
  BY <1>1, <1>2, <1>3, <1>4

-----------------------------------------------------------------------------
(* Types.                                                                  *)

LEMMA TypeOfRows ==
  ASSUME AdmissionTypeOK, NEW doc \in Documents, Apply(doc)
  PROVE  DOMAIN budget' \subseteq Budget /\ budget' \in [DOMAIN budget' -> BudgetRow]
<1>1. PICK row \in Injection(Limited(doc), Budget) : Chosen(doc, row) /\ budget' = WithRows(doc, row)
  BY DEF Apply
<1>2. Range(row) \subseteq Budget
  BY DEF Injection, IsInjective, Range
<1>3. DOMAIN budget' = DOMAIN budget \cup Range(row)
  BY <1>1, ApplyMoves
<1>4. ASSUME NEW b \in DOMAIN budget PROVE budget'[b] \in BudgetRow
  <2>1. budget'[b] = [budget[b] EXCEPT !.active =
                       budget[b].active /\ (budget[b].scope \in DOMAIN doc => b \in Range(row))]
    BY <1>1 DEF WithRows
  <2>2. budget[b] \in BudgetRow
    BY DEF AdmissionTypeOK
  <2>3. (budget[b].active /\ (budget[b].scope \in DOMAIN doc => b \in Range(row))) \in BOOLEAN
    OBVIOUS
  <2> QED
    BY <2>1, <2>2, <2>3 DEF BudgetRow
<1>5. ASSUME NEW b \in DOMAIN budget' \ DOMAIN budget PROVE budget'[b] \in BudgetRow
  <2>1. RowIsNew(doc, row, b)
    BY <1>1, ApplyMoves
  <2>2. PICK s \in Limited(doc) :
          budget'[b] = [scope |-> s, limit |-> doc[s], active |-> TRUE, parent |-> ParentRow(doc, row, s)]
    BY <2>1 DEF RowIsNew
  <2>3. s \in Scope /\ doc[s] \in Nat
    BY LimitsAreDeclared
  <2>4. ParentRow(doc, row, s) \in Budget \cup {NoBudget}
    BY DEF ParentRow, Injection, IsInjective
  <2> QED
    BY <2>2, <2>3, <2>4 DEF BudgetRow
<1>6. budget' = [b \in DOMAIN budget' |-> budget'[b]]
  BY <1>1, <1>3 DEF WithRows
<1> QED
  BY <1>2, <1>3, <1>4, <1>5, <1>6 DEF AdmissionTypeOK

LEMMA AdmissionTypeStep == AdmissionTypeOK /\ [AdmissionNext]_admission => AdmissionTypeOK'
<1> SUFFICES ASSUME AdmissionTypeOK, [AdmissionNext]_admission PROVE AdmissionTypeOK'
  OBVIOUS
<1> USE DEF AdmissionTypeOK, Statuses
<1>1. ASSUME NEW r \in Request, Ask(r) PROVE AdmissionTypeOK'
  BY <1>1 DEF Ask, ActiveAt
<1>2. ASSUME NEW r \in Request, Reserve(r) PROVE AdmissionTypeOK'
  BY <1>2 DEF Reserve, Decided, Locked
<1>3. ASSUME NEW r \in Request, AdmitUnbudgeted(r) PROVE AdmissionTypeOK'
  BY <1>3 DEF AdmitUnbudgeted, Decided
<1>4. ASSUME NEW r \in Request, Refuse(r) PROVE AdmissionTypeOK'
  BY <1>4 DEF Refuse, Decided
<1>5. ASSUME NEW r \in Request, Release(r) PROVE AdmissionTypeOK'
  BY <1>5 DEF Release
<1>6. ASSUME NEW r \in Request, Reconcile(r) PROVE AdmissionTypeOK'
  BY <1>6 DEF Reconcile
<1>7. ASSUME NEW doc \in Documents, Apply(doc) PROVE AdmissionTypeOK'
  <2>1. DOMAIN budget' \subseteq Budget /\ budget' \in [DOMAIN budget' -> BudgetRow]
    BY <1>7, TypeOfRows
  <2>2. applies' \in 0..MaxApplies
    BY <1>7, AdmissionAssumption DEF Apply
  <2> QED
    BY <1>7, <2>1, <2>2 DEF Apply
<1>8. CASE UNCHANGED admission
  BY <1>8 DEF admission
<1> QED
  BY <1>1, <1>2, <1>3, <1>4, <1>5, <1>6, <1>7, <1>8 DEF AdmissionNext
-----------------------------------------------------------------------------
(* What the reservations rest on.                                          *)

LEMMA RowsStay ==
  ASSUME AdmissionTypeOK, [AdmissionNext]_admission, NEW b \in DOMAIN budget
  PROVE  b \in DOMAIN budget' /\ budget'[b].scope = budget[b].scope /\ budget'[b].limit = budget[b].limit
<1>1. CASE \E doc \in Documents : Apply(doc)
  <2> PICK doc \in Documents : Apply(doc)
    BY <1>1
  <2>1. PICK row \in Injection(Limited(doc), Budget) : budget' = WithRows(doc, row)
    BY DEF Apply
  <2>2. RowPersists(doc, row, b)
    BY <2>1, ApplyMoves
  <2> QED
    BY <2>2 DEF RowPersists
<1>2. CASE budget' = budget
  BY <1>2
<1> QED
  BY <1>1, <1>2 DEF AdmissionNext, admission, Ask, Reserve, AdmitUnbudgeted, Refuse, Release, Reconcile

LEMMA ChargesStep ==
  AdmissionTypeOK /\ ChargesFollowThePath /\ [AdmissionNext]_admission => ChargesFollowThePath'
<1> SUFFICES ASSUME AdmissionTypeOK, ChargesFollowThePath, [AdmissionNext]_admission,
                    NEW r \in Request, NEW b \in charged'[r] \cup seen'[r]
             PROVE  b \in DOMAIN budget' /\ budget'[b].scope \in Path(ScopeOf[r])
  BY DEF ChargesFollowThePath, Path, RootScope
<1>1. b \in charged[r] \cup seen[r] \/ b \in ActiveAt(Path(ScopeOf[r]))
  <2>1. ASSUME NEW q \in Request, Ask(q)
        PROVE  b \in charged[r] \cup seen[r] \/ b \in ActiveAt(Path(ScopeOf[r]))
    <3>1. charged' = charged /\ seen' = [seen EXCEPT ![q] = ActiveAt(Path(ScopeOf[q]))]
      BY <2>1 DEF Ask
    <3>2. seen \in [Request -> SUBSET Budget]
      BY DEF AdmissionTypeOK
    <3>3. CASE q = r
      BY <3>1, <3>2, <3>3
    <3>4. CASE q # r
      BY <3>1, <3>2, <3>4
    <3> QED
      BY <3>3, <3>4
  <2>2. ASSUME NEW q \in Request, Reserve(q)
        PROVE  b \in charged[r] \cup seen[r]
    BY <2>2 DEF Reserve, Decided, Locked, AdmissionTypeOK
  <2>3. ASSUME NEW q \in Request, AdmitUnbudgeted(q) \/ Refuse(q)
        PROVE  b \in charged[r] \cup seen[r]
    BY <2>3 DEF AdmitUnbudgeted, Refuse, Decided, AdmissionTypeOK
  <2>4. CASE UNCHANGED <<charged, seen>>
    BY <2>4
  <2> QED
    BY <2>1, <2>2, <2>3, <2>4 DEF AdmissionNext, admission, Release, Reconcile, Apply
<1>2. b \in DOMAIN budget /\ budget[b].scope \in Path(ScopeOf[r])
  BY <1>1 DEF ChargesFollowThePath, ActiveAt
<1> QED
  BY <1>2, RowsStay

LEMMA UsageStep == AdmissionTypeOK /\ UsageIsRecorded /\ [AdmissionNext]_admission => UsageIsRecorded'
<1> SUFFICES ASSUME AdmissionTypeOK, UsageIsRecorded, [AdmissionNext]_admission PROVE UsageIsRecorded'
  OBVIOUS
<1> USE DEF AdmissionTypeOK, UsageIsRecorded
<1>1. ASSUME NEW r \in Request, Ask(r) \/ Refuse(r) PROVE UsageIsRecorded'
  BY <1>1 DEF Ask, Refuse
<1>2. ASSUME NEW r \in Request, Reserve(r) \/ AdmitUnbudgeted(r) PROVE UsageIsRecorded'
  BY <1>2 DEF Reserve, AdmitUnbudgeted
<1>3. ASSUME NEW r \in Request, Release(r) PROVE UsageIsRecorded'
  BY <1>3 DEF Release
<1>4. ASSUME NEW r \in Request, Reconcile(r) PROVE UsageIsRecorded'
  BY <1>4 DEF Reconcile
<1>5. CASE (\E doc \in Documents : Apply(doc)) \/ UNCHANGED admission
  BY <1>5 DEF Apply, admission
<1> QED
  BY <1>1, <1>2, <1>3, <1>4, <1>5 DEF AdmissionNext

-----------------------------------------------------------------------------
(* Units.                                                                  *)

LEMMA ChargesAreFew ==
  ASSUME NEW b
  PROVE  IsFiniteSet(Charges(b)) /\ Cardinality(Charges(b)) \in Nat
<1>1. Charges(b) \subseteq Request
  BY DEF Charges
<1> QED
  BY <1>1, FS_Subset, FS_CardinalityType, AdmissionAssumption

\* What is charged to a row is seen by the decision, as usage or as reserved.
LEMMA ChargesAreCounted ==
  ASSUME AdmissionTypeOK, ChargesFollowThePath, UsageIsRecorded, NEW b \in DOMAIN budget, NEW r \in Request,
         NEW S \in SUBSET (Charges(b) \cup {r}), ~Denies(b)
  PROVE  Cardinality(S) <= budget[b].limit
<1> DEFINE C == Consumed(b)  R == ReservedFrom(b)
<1>1. S \subseteq (C \cup R) \cup {r}
  BY DEF Charges, Consumed, ReservedFrom, ChargesFollowThePath, UsageIsRecorded
<1>2. IsFiniteSet(C) /\ IsFiniteSet(R)
  <2>1. C \subseteq Request /\ R \subseteq Request
    BY DEF Consumed, ReservedFrom, AdmissionTypeOK
  <2> QED
    BY <2>1, FS_Subset, AdmissionAssumption
<1>3. /\ IsFiniteSet(C \cup R)
      /\ Cardinality(C \cup R) <= Cardinality(C) + Cardinality(R)
  <2>1. /\ IsFiniteSet(C \cup R)
        /\ Cardinality(C \cup R) = Cardinality(C) + Cardinality(R) - Cardinality(C \cap R)
    BY <1>2, FS_Union
  <2>2. Cardinality(C) \in Nat /\ Cardinality(R) \in Nat /\ Cardinality(C \cap R) \in Nat
    BY <1>2, FS_Intersection, FS_CardinalityType
  <2> HIDE DEF C, R
  <2> QED
    BY <2>1, <2>2
<1>4. /\ IsFiniteSet((C \cup R) \cup {r})
      /\ Cardinality((C \cup R) \cup {r}) <= Cardinality(C) + Cardinality(R) + 1
  <2>1. /\ IsFiniteSet((C \cup R) \cup {r})
        /\ \/ Cardinality((C \cup R) \cup {r}) = Cardinality(C \cup R)
           \/ Cardinality((C \cup R) \cup {r}) = Cardinality(C \cup R) + 1
    BY <1>3, FS_AddElement
  <2>2. Cardinality(C) \in Nat /\ Cardinality(R) \in Nat /\ Cardinality(C \cup R) \in Nat
    BY <1>2, <1>3, FS_CardinalityType
  <2> HIDE DEF C, R
  <2> QED
    BY <1>3, <2>1, <2>2
<1>5. Cardinality(C) + Cardinality(R) + 1 <= budget[b].limit
  <2>1. ~(Cardinality(C) + Cardinality(R) + 1 > budget[b].limit)
    BY DEF Denies
  <2>2. Cardinality(C) \in Nat /\ Cardinality(R) \in Nat /\ budget[b].limit \in Nat
    BY <1>2, FS_CardinalityType DEF AdmissionTypeOK, BudgetRow
  <2> HIDE DEF C, R
  <2> QED
    BY <2>1, <2>2
<1>6. Cardinality(S) <= Cardinality((C \cup R) \cup {r}) /\ Cardinality(S) \in Nat
  BY <1>1, <1>4, FS_Subset, FS_CardinalityType
<1>7. Cardinality(C) \in Nat /\ Cardinality(R) \in Nat /\ budget[b].limit \in Nat
      /\ Cardinality((C \cup R) \cup {r}) \in Nat
  BY <1>2, <1>4, FS_CardinalityType DEF AdmissionTypeOK, BudgetRow
<1> HIDE DEF C, R
<1> QED
  BY <1>4, <1>5, <1>6, <1>7

LEMMA UnitsStep ==
  ASSUME AdmissionTypeOK, AdmissionTypeOK', ChargesFollowThePath, UsageIsRecorded, UnitsConserved,
         [AdmissionNext]_admission
  PROVE  UnitsConserved'
<1> SUFFICES ASSUME NEW b \in DOMAIN budget'
             PROVE  Cardinality(Charges(b)') <= budget'[b].limit
  BY DEF UnitsConserved
<1>1. budget'[b].limit \in Nat
  BY DEF AdmissionTypeOK, BudgetRow
<1>2. ASSUME b \in DOMAIN budget, Charges(b)' \subseteq Charges(b)
      PROVE  Cardinality(Charges(b)') <= budget'[b].limit
  <2>1. Cardinality(Charges(b)') <= Cardinality(Charges(b)) /\ Cardinality(Charges(b)') \in Nat
    BY <1>2, ChargesAreFew, FS_Subset, FS_CardinalityType
  <2>2. Cardinality(Charges(b)) <= budget[b].limit /\ budget'[b].limit = budget[b].limit
    BY <1>2, RowsStay DEF UnitsConserved
  <2> QED
    BY <1>1, <2>1, <2>2, ChargesAreFew
<1>3. ASSUME NEW r \in Request, Ask(r) \/ Refuse(r)
      PROVE  Cardinality(Charges(b)') <= budget'[b].limit
  BY <1>2, <1>3 DEF Ask, Refuse, Charges
<1>4. ASSUME NEW r \in Request, Reserve(r)
      PROVE  Cardinality(Charges(b)') <= budget'[b].limit
  <2>1. b \in DOMAIN budget /\ budget'[b].limit = budget[b].limit
    BY <1>4 DEF Reserve
  <2>2. Charges(b)' \subseteq Charges(b) \cup {r}
    BY <1>4 DEF Reserve, Charges, AdmissionTypeOK
  <2>3. CASE b \in Locked(r)
    <3>1. ~Denies(b)
      BY <1>4, <2>3 DEF Reserve
    <3> QED
      BY <2>1, <2>2, <3>1, ChargesAreCounted
  <2>4. CASE b \notin Locked(r)
    <3>1. Charges(b)' \subseteq Charges(b)
      BY <1>4, <2>4 DEF Reserve, Charges, AdmissionTypeOK
    <3> QED
      BY <1>2, <2>1, <3>1
  <2> QED
    BY <2>3, <2>4
<1>5. ASSUME NEW r \in Request, AdmitUnbudgeted(r) \/ Release(r) \/ Reconcile(r)
      PROVE  Cardinality(Charges(b)') <= budget'[b].limit
  <2>1. b \in DOMAIN budget
    BY <1>5 DEF AdmitUnbudgeted, Release, Reconcile
  <2>2. Charges(b)' \subseteq Charges(b)
    BY <1>5 DEF AdmitUnbudgeted, Release, Reconcile, Charges, AdmissionTypeOK
  <2> QED
    BY <1>2, <2>1, <2>2
<1>6. ASSUME NEW doc \in Documents, Apply(doc)
      PROVE  Cardinality(Charges(b)') <= budget'[b].limit
  <2>1. Charges(b)' = Charges(b)
    BY <1>6 DEF Apply, Charges
  <2>2. CASE b \in DOMAIN budget
    BY <1>2, <2>1, <2>2
  <2>3. CASE b \notin DOMAIN budget
    <3>1. Charges(b) = {}
      BY <2>3 DEF Charges, ChargesFollowThePath
    <3> QED
      BY <1>1, <2>1, <3>1, FS_EmptySet
  <2> QED
    BY <2>2, <2>3
<1>7. CASE UNCHANGED admission
  BY <1>2, <1>7 DEF admission, Charges
<1> QED
  BY <1>3, <1>4, <1>5, <1>6, <1>7 DEF AdmissionNext
-----------------------------------------------------------------------------
(* The tree.                                                               *)

\* One active row per scope: the document's own where it limits the scope, the
\* old one where the document says nothing of it.
LEMMA OneActiveRow ==
  ASSUME AdmissionTypeOK, BudgetTree, NEW doc, NEW row \in Injection(Limited(doc), Budget), Chosen(doc, row),
         budget' = WithRows(doc, row), NEW b \in DOMAIN budget', NEW c \in DOMAIN budget',
         budget'[b].active, budget'[c].active, budget'[b].scope = budget'[c].scope
  PROVE  b = c
<1>1. ASSUME NEW d \in DOMAIN budget', budget'[d].active
      PROVE  \/ \E s \in Limited(doc) : s = budget'[d].scope /\ d = row[s]
             \/ /\ d \in DOMAIN budget /\ budget[d].active
                /\ budget'[d].scope = budget[d].scope
                /\ budget[d].scope \notin DOMAIN doc
  <2>1. CASE d \in DOMAIN budget
    <3>1. RowPersists(doc, row, d)
      BY <2>1, ApplyMoves
    <3>2. /\ budget[d].active
          /\ budget'[d].scope = budget[d].scope
          /\ budget[d].scope \in DOMAIN doc => d \in Range(row)
      BY <1>1, <3>1 DEF RowPersists
    <3>3. CASE d \in Range(row)
      <4>1. PICK s \in Limited(doc) : d = row[s]
        BY <3>3 DEF Injection, IsInjective, Range
      <4>2. budget'[d].scope = s
        BY <4>1, ChosenRows
      <4> QED
        BY <4>1, <4>2
    <3> QED
      BY <2>1, <3>2, <3>3
  <2>2. CASE d \notin DOMAIN budget
    <3>1. RowIsNew(doc, row, d)
      BY <2>2, ApplyMoves, <1>1
    <3> QED
      BY <3>1, ChosenRows DEF RowIsNew
  <2> QED
    BY <2>1, <2>2
<1>2. Limited(doc) \subseteq DOMAIN doc
  BY DEF Limited
<1>3. CASE budget'[b].scope \in DOMAIN doc
  BY <1>1, <1>3
<1>4. CASE budget'[b].scope \notin DOMAIN doc
  BY <1>1, <1>2, <1>4 DEF BudgetTree
<1> QED
  BY <1>3, <1>4

\* A row keeps its parent; a new row gets the one that the document has for the
\* scope above, which is another scope's and at least as large.
LEMMA ParentOfRow ==
  ASSUME AdmissionTypeOK, BudgetTree, NEW doc \in Documents, NEW row \in Injection(Limited(doc), Budget),
         \A s \in Limited(doc) : RootScope(s) \in Limited(doc) => doc[s] <= doc[RootScope(s)],
         Chosen(doc, row), budget' = WithRows(doc, row),
         NEW b \in DOMAIN budget', budget'[b].parent # NoBudget
  PROVE  LET p == budget'[b].parent
         IN  /\ p \in DOMAIN budget'
             /\ budget'[b].scope # RootScope(budget'[b].scope)
             /\ budget'[p].scope = RootScope(budget'[b].scope)
             /\ budget'[b].limit <= budget'[p].limit
<1>1. CASE b \in DOMAIN budget
  <2>1. RowPersists(doc, row, b)
    BY <1>1, ApplyMoves
  <2>2. budget[b].parent \in DOMAIN budget
    BY <1>1, <2>1 DEF RowPersists, BudgetTree
  <2>3. RowPersists(doc, row, budget[b].parent)
    BY <2>2, ApplyMoves
  <2>4. /\ budget[b].scope # RootScope(budget[b].scope)
        /\ budget[budget[b].parent].scope = RootScope(budget[b].scope)
        /\ budget[b].limit <= budget[budget[b].parent].limit
    BY <1>1, <2>1 DEF RowPersists, BudgetTree, Below
  <2> QED
    BY <2>1, <2>3, <2>4 DEF RowPersists
<1>2. CASE b \notin DOMAIN budget
  <2> RowIsNew(doc, row, b)
    BY <1>2, ApplyMoves
  <2>1. PICK s \in Limited(doc) :
          /\ b = row[s]
          /\ budget'[b] = [scope |-> s, limit |-> doc[s], active |-> TRUE, parent |-> ParentRow(doc, row, s)]
    BY DEF RowIsNew
  <2>2. budget'[b].parent = ParentRow(doc, row, s) /\ budget'[b].scope = s /\ budget'[b].limit = doc[s]
    BY <2>1
  <2>3. /\ s # RootScope(s) /\ RootScope(s) \in Limited(doc)
        /\ budget'[b].parent = row[RootScope(s)]
    BY <2>2 DEF ParentRow
  <2>4. /\ row[RootScope(s)] \in DOMAIN budget'
        /\ budget'[row[RootScope(s)]].scope = RootScope(s)
        /\ budget'[row[RootScope(s)]].limit = doc[RootScope(s)]
    BY <2>3, ChosenRows
  <2> QED
    BY <2>2, <2>3, <2>4
<1> QED
  BY <1>1, <1>2

LEMMA TreeStep == AdmissionTypeOK /\ BudgetTree /\ [AdmissionNext]_admission => BudgetTree'
<1> SUFFICES ASSUME AdmissionTypeOK, BudgetTree, [AdmissionNext]_admission PROVE BudgetTree'
  OBVIOUS
<1>1. CASE \E doc \in Documents : Apply(doc)
  <2> PICK doc \in Documents : Apply(doc)
    BY <1>1
  <2>1. \A s \in Limited(doc) : RootScope(s) \in Limited(doc) => doc[s] <= doc[RootScope(s)]
    BY DEF Apply
  <2>2. PICK row \in Injection(Limited(doc), Budget) : Chosen(doc, row) /\ budget' = WithRows(doc, row)
    BY DEF Apply
  <2>3. \A b, c \in DOMAIN budget' :
          budget'[b].active /\ budget'[c].active /\ budget'[b].scope = budget'[c].scope => b = c
    BY <2>2, OneActiveRow
  <2>4. \A b \in DOMAIN budget' : budget'[b].parent # NoBudget =>
          /\ budget'[b].parent \in DOMAIN budget'
          /\ Below(b, budget[b].parent)'
          /\ budget'[b].limit <= budget'[budget'[b].parent].limit
    BY <2>1, <2>2, ParentOfRow DEF Below, RootScope
  <2> QED
    BY <2>3, <2>4 DEF BudgetTree
<1>2. CASE budget' = budget
  BY <1>2 DEF BudgetTree, Below, RootScope
<1> QED
  BY <1>1, <1>2 DEF AdmissionNext, admission, Ask, Reserve, AdmitUnbudgeted, Refuse, Release, Reconcile

-----------------------------------------------------------------------------
(* Theorems.                                                               *)

\* In every reachable state the rows are a well-formed tree, what is charged to
\* a row was found for its scope, and no row is overdrawn.
THEOREM AdmissionAlways == AdmissionSpec => []AdmissionInvariant
<1>1. AdmissionInit => AdmissionInvariant
  <2> SUFFICES ASSUME AdmissionInit PROVE AdmissionInvariant
    OBVIOUS
  <2>1. AdmissionTypeOK
    BY AdmissionAssumption DEF AdmissionInit, AdmissionTypeOK, Statuses
  <2>2. DOMAIN budget = {}
    BY DEF AdmissionInit
  <2> QED
    BY <2>1, <2>2 DEF AdmissionInit, AdmissionInvariant, ChargesFollowThePath, UsageIsRecorded,
                      UnitsConserved, BudgetTree
<1>2. AdmissionInvariant /\ [AdmissionNext]_admission => AdmissionInvariant'
  BY AdmissionTypeStep, ChargesStep, UsageStep, UnitsStep, TreeStep DEF AdmissionInvariant
<1> QED
  BY <1>1, <1>2, PTL DEF AdmissionSpec

\* Budget rows, reservations and usage are of their types.
THEOREM AdmissionTypes == AdmissionSpec => []AdmissionTypeOK
<1>1. AdmissionInvariant => AdmissionTypeOK
  BY DEF AdmissionInvariant
<1> QED
  BY <1>1, AdmissionAlways, PTL

\* What is reserved from a budget row or used up of it never exceeds its limit.
THEOREM UnitsAreConserved == AdmissionSpec => []UnitsConserved
<1>1. AdmissionInvariant => UnitsConserved
  BY DEF AdmissionInvariant
<1> QED
  BY <1>1, AdmissionAlways, PTL

\* One active budget per region and resource, linked to one as large above it.
THEOREM TreeIsWellFormed == AdmissionSpec => []BudgetTree
<1>1. AdmissionInvariant => BudgetTree
  BY DEF AdmissionInvariant
<1> QED
  BY <1>1, AdmissionAlways, PTL

\* A reservation charges the rows that are active when it has their locks, and
\* none that was replaced while it waited.
THEOREM ReplacedAreNotCharged == AdmissionSpec => ReplacedBudgetsAreNotCharged
<1>1. AdmissionTypeOK /\ [AdmissionNext]_admission =>
        [\A r \in Request : \A b \in charged'[r] \ charged[r] : budget[b].active]_admission
  <2> SUFFICES ASSUME AdmissionTypeOK, [AdmissionNext]_admission, NEW r \in Request,
                      NEW b \in charged'[r] \ charged[r]
               PROVE  budget[b].active
    OBVIOUS
  <2>1. PICK q \in Request : Reserve(q)
    BY DEF AdmissionNext, admission, Ask, AdmitUnbudgeted, Refuse, Release, Reconcile, Apply
  <2>2. b \in Locked(r)
    BY <2>1 DEF Reserve, AdmissionTypeOK
  <2> QED
    BY <2>2 DEF Locked
<1> QED
  BY <1>1, AdmissionTypes, PTL DEF AdmissionSpec, ReplacedBudgetsAreNotCharged
===============================================================================
