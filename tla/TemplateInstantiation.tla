----------------------- MODULE TemplateInstantiation -----------------------
(***************************************************************************)
(* Publication of topologies: concurrent calls register templates, apply a  *)
(* system document and instantiate single templates in one database.        *)
(*                                                                          *)
(* A call is a READ COMMITTED transaction, one action per statement: it sees *)
(* the committed rows and its own, an insert of a key another transaction    *)
(* has inserted waits for that transaction, and an insert of a committed key  *)
(* is a unique violation, after which the whole call is run once more.        *)
(* Registration is a find and an insert without a transaction.                *)
(*                                                                          *)
(* A digest is the tuple it is computed from.  Templates are never changed    *)
(* or retired by the code, so a name stands for its content once registered.  *)
(* Whether a content can be published (TopologyContract) is a constant.       *)
(***************************************************************************)
EXTENDS Integers, Sequences, FiniteSets

CONSTANTS
  Call,        \* concurrent callers
  Requests,    \* what a caller may ask for
  Databases,   \* the rows that may be there before
  Seeds,       \* [content -> sequence of [instance, value, schema]]
  Invalid,     \* contents whose topology or initial state is refused
  Root,        \* the root region of a system document
  MaxLost,     \* bound: calls whose transaction or answer is lost
  Nil

VARIABLES
  request,   \* [Call -> Requests]
  rows,      \* committed rows, by key
  draft,     \* [Call -> rows inserted by its open transaction]
  locked,    \* [Call -> artifact rows it has locked FOR UPDATE]
  at,        \* [Call -> the statement it runs next]
  tries,     \* [Call -> transactions lost to a unique violation]
  progress,  \* [Call -> what it would answer]
  answer,    \* [Call -> its answer]
  lost

vars == <<request, rows, draft, locked, at, tries, progress, answer, lost>>

-----------------------------------------------------------------------------
(* Rows. *)

TemplateKey(name) == <<"template", name>>
RegionKey(region) == <<"region", region>>
RevisionKey(region) == <<"revision", region>>   \* revision number 1
RequestKey(id) == <<"request", id>>
ArtifactKey(value) == <<"artifact", value>>
PayloadKey(value) == <<"payload", value>>
StateKey(effective, instance) == <<"state", <<effective, instance>>>>
LinkKey(id, instance) == <<"link", <<id, instance>>>>

Table(db, table) == {key[2] : key \in {k \in DOMAIN db : k[1] = table}}

\* Rows with one more, and the rows of two sources, the first before the second.
Inserted(db, key, row) ==
  [k \in DOMAIN db \cup {key} |-> IF k \in DOMAIN db THEN db[k] ELSE row]
Merged(new, old) ==
  [k \in DOMAIN new \cup DOMAIN old |-> IF k \in DOMAIN new THEN new[k] ELSE old[k]]

\* What a statement of the call sees.
View(c) == Merged(draft[c], rows)

Has(c, key) == key \in DOMAIN View(c)
Get(c, key) == View(c)[key]

\* A row is inserted unless its key is there.
Ensured(c, db, key, row) == IF Has(c, key) THEN db ELSE Inserted(db, key, row)

Item(c) == request[c].items[at[c].n]
Place(step, n, k) == [step |-> step, n |-> n, k |-> k]
Goto(c, step) == [at EXCEPT ![c] = Place(step, @.n, @.k)]

\* Identity of the request for one item: the digest of its normalized content.
RequestDigest(q, item) == [region |-> item.region, name |-> item.name, source |-> q.source]

\* The id the caller supplies, or one derived from the digest.
RequestId(q, item) == IF q.id = Nil THEN RequestDigest(q, item) ELSE q.id

Id(c) == RequestId(request[c], Item(c))

\* The effective topology's digest, from the resolved definitions.
Effective(c) ==
  [region |-> Item(c).region, source |-> request[c].source, name |-> Item(c).name,
   content |-> Get(c, TemplateKey(Item(c).name))]

SeedOf(c) == Seeds[Effective(c).content][at[c].k]

\* Regions a document declares, the root first.
Declared(c) == <<Root>> \o [n \in DOMAIN request[c].items |-> request[c].items[n].region]

-----------------------------------------------------------------------------
(* Transactions. *)

Begin(q) ==
  Place(CASE q.kind = "register" -> "find"
          [] q.kind = "apply" -> "region"
          [] q.kind = "direct" -> "lookup", 1, 1)

Result(status, published) == [status |-> status, published |-> published]
NoProgress == Result("existing", {})
NoAnswer == Result("none", {})

\* The insert the call runs next, if it is one that may have to wait.
Wanted(c) ==
  CASE at[c].step = "declare"  -> {RegionKey(Declared(c)[at[c].n])}
    [] at[c].step = "activate" -> {RevisionKey(Item(c).region)}
    [] at[c].step = "record"   -> {RequestKey(Id(c))}
    [] at[c].step = "seed"     -> {ArtifactKey(SeedOf(c).value)}
    [] OTHER -> {}

WaitsFor(c, d) == c # d /\ Wanted(c) \cap (DOMAIN draft[d] \cup locked[d]) # {}

Free(c) == \A d \in Call : ~WaitsFor(c, d)

\* Mutant: a refused call keeps its transaction open.
Abort_LeftOpen(c, status) ==
  /\ at' = Goto(c, "answered")
  /\ answer' = [answer EXCEPT ![c] = Result(status, {})]
  /\ UNCHANGED <<rows, draft, locked, tries, progress>>

\* The transaction is rolled back and the call answers.
Abort(c, status) ==
  /\ draft' = [draft EXCEPT ![c] = <<>>]
  /\ locked' = [locked EXCEPT ![c] = {}]
  /\ at' = Goto(c, "answered")
  /\ answer' = [answer EXCEPT ![c] = Result(status, {})]
  /\ UNCHANGED <<rows, tries, progress>>

\* A unique violation: rolled back and run once more from its first statement.
Violate(c) ==
  IF tries[c] = 0
  THEN /\ tries' = [tries EXCEPT ![c] = 1]
       /\ draft' = [draft EXCEPT ![c] = <<>>]
       /\ locked' = [locked EXCEPT ![c] = {}]
       /\ at' = [at EXCEPT ![c] = Begin(request[c])]
       /\ progress' = [progress EXCEPT ![c] = NoProgress]
       /\ UNCHANGED <<rows, answer>>
  ELSE Abort(c, "violation")

\* A row is inserted or the insert violates the uniqueness of its key.
Insert(c, key, row, place, creates) ==
  /\ Free(c)
  /\ IF Has(c, key)
     THEN Violate(c)
     ELSE /\ draft' = [draft EXCEPT ![c] = Inserted(@, key, row)]
          /\ at' = place
          /\ progress' = [progress EXCEPT
               ![c] = Result(IF creates THEN "created" ELSE @.status, @.published)]
          /\ UNCHANGED <<rows, locked, tries, answer>>

\* Nothing but the place changes.
Continue(c, place) ==
  /\ at' = place
  /\ UNCHANGED <<rows, draft, locked, tries, progress, answer>>

\* The next item of the document, or the end of the transaction.
NextItem(c) ==
  IF at[c].n < Len(request[c].items)
  THEN [at EXCEPT ![c] = Place("lookup", @.n + 1, 1)]
  ELSE Goto(c, "commit")

-----------------------------------------------------------------------------
(* Registration of a definition. *)

\* A registered name answers by its content.
RegisterFind(c) ==
  LET key == TemplateKey(request[c].name) IN
  /\ at[c].step = "find"
  /\ IF key \in DOMAIN rows
     THEN Abort(c, IF rows[key] = request[c].content THEN "existing" ELSE "conflict")
     ELSE Continue(c, Goto(c, "create"))
  /\ UNCHANGED <<request, lost>>

\* The insert commits by itself; if the name has been taken, it is found again.
RegisterCreate(c) ==
  LET key == TemplateKey(request[c].name) IN
  /\ at[c].step = "create"
  /\ IF key \in DOMAIN rows
     THEN Continue(c, Goto(c, "find"))
     ELSE /\ rows' = Inserted(rows, key, request[c].content)
          /\ at' = Goto(c, "answered")
          /\ answer' = [answer EXCEPT ![c] = Result("created", {})]
          /\ UNCHANGED <<draft, locked, tries, progress>>
  /\ UNCHANGED <<request, lost>>

-----------------------------------------------------------------------------
(* Application of a system document: its regions. *)

NextRegion(c) ==
  IF at[c].n < Len(Declared(c))
  THEN [at EXCEPT ![c] = Place("region", @.n + 1, 1)]
  ELSE [at EXCEPT ![c] = Place("lookup", 1, 1)]

FindRegion(c) ==
  /\ at[c].step = "region"
  /\ Continue(c, IF Has(c, RegionKey(Declared(c)[at[c].n]))
                 THEN NextRegion(c) ELSE Goto(c, "declare"))
  /\ UNCHANGED <<request, lost>>

DeclareRegion(c) ==
  /\ at[c].step = "declare"
  /\ Insert(c, RegionKey(Declared(c)[at[c].n]), "ready", NextRegion(c), TRUE)
  /\ UNCHANGED <<request, lost>>

-----------------------------------------------------------------------------
(* Instantiation of one template. *)

\* The request id was recorded with other content.
Contradicts(c) ==
  /\ Has(c, RequestKey(Id(c)))
  /\ Get(c, RequestKey(Id(c))).digest # RequestDigest(request[c], Item(c))

\* The recorded request, the definitions and the target region are read.  An
\* application passes over a template that is not registered.
Lookup(c) ==
  LET registered == Has(c, TemplateKey(Item(c).name)) IN
  /\ at[c].step = "lookup"
  /\ \/ /\ request[c].kind = "apply" /\ ~registered
        /\ Continue(c, NextItem(c))
     \/ /\ request[c].kind = "direct" \/ registered
        /\ \/ /\ Contradicts(c)
              /\ Abort(c, "conflict")
           \/ /\ ~Contradicts(c)
              /\ ~registered \/ ~Has(c, RegionKey(Item(c).region))
              /\ Abort(c, "not_found")
           \/ /\ ~Contradicts(c)
              /\ registered /\ Has(c, RegionKey(Item(c).region))
              /\ IF Effective(c).content \in Invalid
                 THEN Abort(c, "refused")
                 ELSE /\ progress' = [progress EXCEPT
                           ![c] = Result(@.status, @.published \cup {Effective(c)})]
                      /\ at' = Goto(c, IF Has(c, RequestKey(Id(c))) THEN "replay" ELSE "active")
                      /\ UNCHANGED <<rows, draft, locked, tries, answer>>
  /\ UNCHANGED <<request, lost>>

\* The place after the request is recorded: its seeds, then the next item.
FirstSeed(c) ==
  IF Seeds[Effective(c).content] = <<>> THEN NextItem(c)
  ELSE [at EXCEPT ![c] = Place("seed", @.n, 1)]

NextSeed(c) ==
  IF at[c].k < Len(Seeds[Effective(c).content])
  THEN [at EXCEPT ![c] = Place("seed", @.n, @.k + 1)]
  ELSE NextItem(c)

\* Mutant: any active topology is taken for the one asked for.
FindActive_Any(c) ==
  /\ at[c].step \in {"active", "replay"}
  /\ IF Has(c, RevisionKey(Item(c).region))
     THEN Continue(c, IF at[c].step = "replay" THEN FirstSeed(c) ELSE Goto(c, "record"))
     ELSE IF Get(c, RegionKey(Item(c).region)) # "ready"
          THEN Abort(c, "ineligible")
          ELSE Continue(c, Goto(c, "activate"))
  /\ UNCHANGED <<request, lost>>

\* The active revision of the region is read.  A recorded request must find the
\* topology it was recorded with; another finds its own or is refused.
FindActive(c) ==
  LET key == RevisionKey(Item(c).region) IN
  /\ at[c].step \in {"active", "replay"}
  /\ IF Has(c, key)
     THEN IF Get(c, key) # Effective(c)
          THEN Abort(c, "conflict")
          ELSE Continue(c, IF at[c].step = "replay" THEN FirstSeed(c) ELSE Goto(c, "record"))
     ELSE IF Get(c, RegionKey(Item(c).region)) # "ready"
          THEN Abort(c, "ineligible")
          ELSE Continue(c, Goto(c, "activate"))
  /\ UNCHANGED <<request, lost>>

\* Mutant: the revision gets the next number instead of the first.
ActivateRevision_Next(c) ==
  /\ at[c].step = "activate"
  /\ Free(c)
  /\ draft' = [draft EXCEPT ![c] =
       Inserted([k \in DOMAIN @ \ {RevisionKey(Item(c).region)} |-> @[k]],
                RevisionKey(Item(c).region), Effective(c))]
  /\ at' = Goto(c, "record")
  /\ progress' = [progress EXCEPT ![c] = Result("created", @.published)]
  /\ UNCHANGED <<rows, locked, tries, answer, request, lost>>

\* The first revision, its instances and connections are inserted and activated.
ActivateRevision(c) ==
  /\ at[c].step = "activate"
  /\ Insert(c, RevisionKey(Item(c).region), Effective(c), Goto(c, "record"), TRUE)
  /\ UNCHANGED <<request, lost>>

RecordRequest(c) ==
  /\ at[c].step = "record"
  /\ Insert(c, RequestKey(Id(c)),
            [digest |-> RequestDigest(request[c], Item(c)), effective |-> Effective(c)],
            FirstSeed(c), FALSE)
  /\ UNCHANGED <<request, lost>>

\* The digest is taken by an artifact of another schema.
Incompatible(c) ==
  LET key == ArtifactKey(SeedOf(c).value) IN
  Has(c, key) /\ Get(c, key) # SeedOf(c).schema

\* The seed's artifact is inserted, or the one of its digest is locked and
\* compared; the inline payload is inserted if it is not there.
PublishArtifact(c) ==
  LET key == ArtifactKey(SeedOf(c).value)
      payload == PayloadKey(SeedOf(c).value) IN
  /\ at[c].step = "seed"
  /\ Free(c)
  /\ IF Incompatible(c)
     THEN Abort(c, "conflict")
     ELSE /\ draft' = [draft EXCEPT ![c] =
               Ensured(c, Ensured(c, @, key, SeedOf(c).schema), payload, SeedOf(c).value)]
          /\ locked' = [locked EXCEPT ![c] = @ \cup ({key} \cap DOMAIN rows)]
          /\ at' = Goto(c, "state")
          /\ UNCHANGED <<rows, tries, progress, answer>>
  /\ UNCHANGED <<request, lost>>

\* Mutant: the state of a topology that is already there is not linked.
PublishState_CreatedOnly(c) ==
  LET key == StateKey(Effective(c), SeedOf(c).instance) IN
  /\ at[c].step = "state"
  /\ draft' = [draft EXCEPT ![c] =
       IF Has(c, key) THEN @
       ELSE Inserted(Inserted(@, key, SeedOf(c)), LinkKey(Id(c), SeedOf(c).instance), key)]
  /\ at' = NextSeed(c)
  /\ UNCHANGED <<rows, locked, tries, progress, answer, request, lost>>

\* Version 1 of the component's state, if it is not there, and its link to the
\* instantiation.
PublishState(c) ==
  LET key == StateKey(Effective(c), SeedOf(c).instance)
      link == LinkKey(Id(c), SeedOf(c).instance) IN
  /\ at[c].step = "state"
  /\ draft' = [draft EXCEPT ![c] =
       Ensured(c, Ensured(c, @, key, SeedOf(c)), link, key)]
  /\ at' = NextSeed(c)
  /\ UNCHANGED <<rows, locked, tries, progress, answer, request, lost>>

Commit(c) ==
  /\ at[c].step = "commit"
  /\ rows' = View(c)
  /\ draft' = [draft EXCEPT ![c] = <<>>]
  /\ locked' = [locked EXCEPT ![c] = {}]
  /\ at' = Goto(c, "answered")
  /\ answer' = [answer EXCEPT ![c] = progress[c]]
  /\ UNCHANGED <<request, tries, progress, lost>>

-----------------------------------------------------------------------------
(* The database and the network. *)

\* PostgreSQL ends a circle of waiting transactions by failing one of them; the
\* error is not a unique violation and the call does not run again.
Deadlock(c) ==
  /\ \E S \in SUBSET Call :
        /\ c \in S
        /\ \A d \in S : (\E e \in S : WaitsFor(d, e)) /\ (\E e \in S : WaitsFor(e, d))
  /\ Abort(c, "deadlock")
  /\ UNCHANGED <<request, lost>>

\* The process ends before the commit, or the answer is lost: the caller asks again.
Lose(c) ==
  /\ lost < MaxLost
  /\ lost' = lost + 1
  /\ at[c] # Begin(request[c])
  /\ draft' = [draft EXCEPT ![c] = <<>>]
  /\ locked' = [locked EXCEPT ![c] = {}]
  /\ at' = [at EXCEPT ![c] = Begin(request[c])]
  /\ tries' = [tries EXCEPT ![c] = 0]
  /\ progress' = [progress EXCEPT ![c] = NoProgress]
  /\ answer' = [answer EXCEPT ![c] = NoAnswer]
  /\ UNCHANGED <<request, rows>>

Init ==
  /\ request \in [Call -> Requests]
  /\ rows \in Databases
  /\ draft = [c \in Call |-> <<>>]
  /\ locked = [c \in Call |-> {}]
  /\ at = [c \in Call |-> Begin(request[c])]
  /\ tries = [c \in Call |-> 0]
  /\ progress = [c \in Call |-> NoProgress]
  /\ answer = [c \in Call |-> NoAnswer]
  /\ lost = 0

Step(c) ==
  \/ RegisterFind(c) \/ RegisterCreate(c)
  \/ FindRegion(c) \/ DeclareRegion(c)
  \/ Lookup(c) \/ FindActive(c) \/ ActivateRevision(c) \/ RecordRequest(c)
  \/ PublishArtifact(c) \/ PublishState(c) \/ Commit(c)

Next == \E c \in Call : Step(c) \/ Deadlock(c) \/ Lose(c)

\* Every transaction runs on, and the database finds its deadlocks.
Spec ==
  /\ Init /\ [][Next]_vars
  /\ \A c \in Call : WF_vars(Step(c)) /\ WF_vars(Deadlock(c))

-----------------------------------------------------------------------------
(* Properties. *)

\* A seed of a topology is there, under the schema of its port.
SeedIn(db, effective, k) ==
  LET seed == Seeds[effective.content][k]
      state == StateKey(effective, seed.instance) IN
  /\ {ArtifactKey(seed.value), PayloadKey(seed.value), state} \subseteq DOMAIN db
  /\ db[ArtifactKey(seed.value)] = seed.schema
  /\ db[state] = seed

RevisionWhole(db, r) ==
  LET effective == db[RevisionKey(r)] IN
  /\ \A k \in DOMAIN Seeds[effective.content] : SeedIn(db, effective, k)
  /\ \E id \in Table(db, "request") : db[RequestKey(id)].effective = effective

RequestWhole(db, id) ==
  LET effective == db[RequestKey(id)].effective IN
  /\ RevisionKey(effective.region) \in DOMAIN db
  /\ db[RevisionKey(effective.region)] = effective
  /\ \A k \in DOMAIN Seeds[effective.content] :
        LinkKey(id, Seeds[effective.content][k].instance) \in DOMAIN db

Whole(db) ==
  /\ \A r \in Table(db, "revision") : RevisionWhole(db, r)
  /\ \A id \in Table(db, "request") : RequestWhole(db, id)

\* Every key belongs to a table, and a row holds what its table holds.
Sound(db) ==
  \A key \in DOMAIN db :
    /\ key = <<key[1], key[2]>>
    /\ key[1] = "template" => db[key] \in DOMAIN Seeds
    /\ key[1] = "request" =>
         LET effective == db[key].effective IN
         db[key] = [digest |-> [region |-> effective.region, name |-> effective.name,
                                source |-> effective.source],
                    effective |-> effective]
    /\ key[1] = "state" =>
         \E k \in DOMAIN Seeds[key[2][1].content] :
            db[key] = Seeds[key[2][1].content][k] /\ db[key].instance = key[2][2]

\* An instance of a topology has one initial state, and what is there before is
\* what earlier calls left.
ASSUME SeedsAssumption ==
  \A content \in DOMAIN Seeds :
    LET seeds == Seeds[content] IN
    /\ seeds \in Seq({seeds[k] : k \in DOMAIN seeds})
    /\ \A j, k \in DOMAIN seeds : seeds[j].instance = seeds[k].instance => j = k

ASSUME RequestsAssumption ==
  \A q \in Requests :
    /\ q.kind \in {"register", "apply", "direct"}
    /\ q.kind = "register" => q.content \in DOMAIN Seeds

ASSUME DatabasesAssumption == \A db \in Databases : Sound(db) /\ Whole(db)

\* Topology activation, request record, seed artifacts, state versions and links
\* appear together: an active revision has a request that published it and all
\* its seeds, under the schemas of their ports, and every recorded request is
\* linked to the seeds of the active revision of its region.
PublishedWhole == Whole(rows)

\* The topology is active and is recorded for the request.
PublishedFor(db, q, effective) ==
  LET item == [region |-> effective.region, name |-> effective.name]
      key == RequestKey(RequestId(q, item)) IN
  /\ key \in DOMAIN db
  /\ db[key] = [digest |-> RequestDigest(q, item), effective |-> effective]
  /\ RevisionKey(effective.region) \in DOMAIN db
  /\ db[RevisionKey(effective.region)] = effective

\* A successful answer is about the caller's own request: what is recorded under
\* its request id has its digest, and its topology is the region's active one,
\* however often the request was sent and whoever else used the id.
AnsweredForItself ==
  \A c \in Call : answer[c].status \in {"created", "existing"} =>
    \A effective \in answer[c].published : PublishedFor(rows, request[c], effective)

\* What is published is never replaced: a registered template, a declared
\* region, a region's topology and a recorded request keep their content.
PublishedStays ==
  [][\A key \in DOMAIN rows : key \in DOMAIN rows' /\ rows'[key] = rows[key]]_vars

\* Whatever the calls wait for, each is answered in the end.
EveryCallIsAnswered == <>[](\A c \in Call : answer[c].status # "none")

=============================================================================
