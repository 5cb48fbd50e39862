----------------------- MODULE RegistryClient_proofs -----------------------
(***************************************************************************)
(* The caches of a client hold what the registry has, what they hold is     *)
(* answered without a request, what a call returns is what it asked for,    *)
(* and a message is decoded by the schema it names: for any number of       *)
(* goroutines and calls, any registry, and however requests interleave,     *)
(* fail or overlap registrations and deletions.                             *)
(***************************************************************************)
EXTENDS RegistryClient, FiniteSetTheorems, SequenceTheorems, Induction, TLAPS

(***************************************************************************)
(* The induction is about requests under way: an answer that has arrived is *)
(* true of the registry and stays so, since ids and versions are never used *)
(* again; a GUID lookup that follows its references has collected only names *)
(* that they bind.  es and vs stand for entries and versions.               *)
(***************************************************************************)
Key(g) == [guid |-> g, upper |-> FALSE, wellFormed |-> TRUE]

IsVersion(es, vs, subject, v, schema) ==
  /\ subject \in Subjects /\ v \in DOMAIN vs[subject] /\ vs[subject][v] \in DOMAIN es
  /\ schema = es[vs[subject][v]]

\* p binds a name as a reference of the GUID's schema says.
Binds(g, p, es, vs) ==
  /\ p[2].doc.name = p[1]
  /\ \E i \in DOMAIN Guids[g].refs :
       /\ Guids[g].refs[i].name = p[1]
       /\ IsVersion(es, vs, Guids[g].refs[i].subject, Guids[g].refs[i].version, p[2])

NamesTrue(g, names, es, vs) ==
  /\ \A p \in names : p = <<p[1], p[2]>> /\ Binds(g, p, es, vs)
  /\ \A p, q \in names : p[1] = q[1] => p = q

MeansIn(g, s, es, vs) ==
  /\ g \in DOMAIN Guids /\ Guids[g].avro
  /\ s.doc = Guids[g].doc
  /\ Keys(s.binds) = s.doc.uses /\ Cardinality(s.binds) = Cardinality(s.doc.uses)
  /\ \A p \in s.binds : Binds(g, p, es, vs)

RegistryTrue(es, vs) ==
  /\ \E S : es \in Seq(S)
  /\ vs \in [Subjects -> Seq(Int)]
  /\ \A s \in Subjects : \A v \in DOMAIN vs[s] : vs[s][v] \in DOMAIN es

CacheTrue(pairs, es) ==
  \A p \in pairs : p = <<p[1], p[2]>> /\ p[1] \in DOMAIN es /\ p[2] = es[p[1]]

GuidCacheTrue(pairs, es, vs) ==
  /\ \A p \in pairs : /\ p = <<p[1], p[2]>> /\ p[1] = Key(p[1].guid)
                      /\ MeansIn(p[1].guid, p[2], es, vs)
  /\ \A p, q \in pairs : p[1] = q[1] => p = q

Fields == {"pc", "call", "result", "req", "resp", "id", "key", "text", "next", "names",
           "warm", "sent"}

IsTask(t) == DOMAIN t = Fields

\* A GUID lookup that has its document and collects what the references bind.
Collecting(t, es, vs) ==
  /\ t.key = Key(t.key.guid)
  /\ t.key.guid \in DOMAIN Guids /\ Guids[t.key.guid].avro
  /\ t.text = Guids[t.key.guid]
  /\ NamesTrue(t.key.guid, t.names, es, vs)

\* It asks for the reference next by the request r.
Following(t, r, es, vs) ==
  /\ Collecting(t, es, vs)
  /\ t.next \in DOMAIN t.text.refs
  /\ ValidReference(t, t.text.refs[t.next])
  /\ r.subject = t.text.refs[t.next].subject
  /\ r.version = t.text.refs[t.next].version

AnswerTrue(r, a, es, vs) ==
  /\ r.get = "id" => r.id \in DOMAIN es /\ a.schema = es[r.id]
  /\ r.get = "guid" => r.guid \in DOMAIN Guids /\ a.text = Guids[r.guid]
  /\ r.get = "version" /\ r.version # 0 /\ r.subject \in Subjects =>
       IsVersion(es, vs, r.subject, r.version, a.schema)

ByGUID == {"GetSchemaByGUID", "DecodeHeaders"}

TaskTrue(t, es, vs) ==
  /\ IsTask(t)
  /\ t.pc \in {"idle", "sent", "answered"}
  /\ t.warm = TRUE => /\ t.pc = "idle" /\ t.sent = 0
                      /\ ~t.result.ok => t.call.call = "DecodeHeaders"
  /\ t.pc # "idle" /\ t.req.get = "guid" => t.key = Key(t.req.guid) /\ t.names = {}
  /\ t.pc # "idle" /\ t.req.get = "version" /\ t.call.call \in ByGUID =>
       Following(t, t.req, es, vs)
  /\ t.pc = "answered" /\ t.resp.ok => AnswerTrue(t.req, t.resp, es, vs)

ClientInv ==
  /\ RegistryTrue(entries, versions)
  /\ CacheTrue(cache, entries)
  /\ GuidCacheTrue(guidCache, entries, versions)
  /\ task = [c \in Callers |-> task[c]]
  /\ \A c \in Callers : TaskTrue(task[c], entries, versions)

-----------------------------------------------------------------------------
(* The registry only grows, and what was true of it stays true.             *)

Grows(es, vs, more, newer) ==
  /\ \A i \in DOMAIN es : i \in DOMAIN more /\ more[i] = es[i]
  /\ \A s \in Subjects : \A v \in DOMAIN vs[s] : v \in DOMAIN newer[s] /\ newer[s][v] = vs[s][v]

LEMMA BindsStays ==
  ASSUME NEW es, NEW vs, NEW more, NEW newer, Grows(es, vs, more, newer),
         NEW g, NEW p, Binds(g, p, es, vs)
  PROVE  Binds(g, p, more, newer)
BY DEF Grows, Binds, IsVersion

LEMMA TaskStaysTrue ==
  ASSUME NEW es, NEW vs, NEW more, NEW newer, Grows(es, vs, more, newer),
         NEW t, TaskTrue(t, es, vs)
  PROVE  TaskTrue(t, more, newer)
<1>1. ASSUME Collecting(t, es, vs) PROVE Collecting(t, more, newer)
  BY <1>1, BindsStays DEF Collecting, NamesTrue
<1>2. ASSUME Following(t, t.req, es, vs) PROVE Following(t, t.req, more, newer)
  BY <1>1, <1>2 DEF Following
<1>3. ASSUME AnswerTrue(t.req, t.resp, es, vs) PROVE AnswerTrue(t.req, t.resp, more, newer)
  BY <1>3 DEF Grows, AnswerTrue, IsVersion
<1> QED  BY <1>2, <1>3 DEF TaskTrue

LEMMA CachesStayTrue ==
  ASSUME NEW es, NEW vs, NEW more, NEW newer, Grows(es, vs, more, newer),
         NEW pairs, NEW guids, CacheTrue(pairs, es), GuidCacheTrue(guids, es, vs)
  PROVE  CacheTrue(pairs, more) /\ GuidCacheTrue(guids, more, newer)
<1>1. CacheTrue(pairs, more)
  BY DEF Grows, CacheTrue
<1>2. \A p \in guids : MeansIn(p[1].guid, p[2], more, newer)
  BY BindsStays DEF GuidCacheTrue, MeansIn
<1> QED  BY <1>1, <1>2 DEF GuidCacheTrue

-----------------------------------------------------------------------------
(* Tasks.                                                                   *)

\* A call that returns leaves a task that is true, unless it was warm and made
\* a request or failed.
LEMMA ReturnTrue ==
  ASSUME NEW t, NEW r, t.warm = TRUE => t.sent = 0 /\ (~r.ok => t.call.call = "DecodeHeaders")
  PROVE  TaskTrue(Return(t, r), entries, versions)
<1>1. /\ DOMAIN Idle = Fields /\ Idle.pc = "idle"
      /\ Idle.result = None
  BY DEF Idle, Fields
<1>2. /\ DOMAIN Return(t, r) = Fields /\ Return(t, r).pc = "idle"
      /\ Return(t, r).call = t.call /\ Return(t, r).result = r
      /\ Return(t, r).warm = t.warm /\ Return(t, r).sent = t.sent
  BY <1>1 DEF Return, Fields
<1> QED  BY <1>2 DEF TaskTrue, IsTask

\* So does one that makes a request for which the task is ready.
LEMMA RequestTrue ==
  ASSUME NEW t, NEW r, IsTask(t), t.warm # TRUE,
         r.get = "guid" => t.key = Key(r.guid) /\ t.names = {},
         r.get = "version" /\ t.call.call \in ByGUID => Following(t, r, entries, versions)
  PROVE  TaskTrue(Request(t, r), entries, versions)
<1> DEFINE u == Request(t, r)
<1>1. /\ IsTask(u) /\ u.pc = "sent" /\ u.req = r /\ u.warm = t.warm /\ u.call = t.call
      /\ u.key = t.key /\ u.names = t.names /\ u.text = t.text /\ u.next = t.next
  BY DEF Request, IsTask, Fields
<1>2. ASSUME Following(t, r, entries, versions) PROVE Following(u, r, entries, versions)
  BY <1>1, <1>2 DEF Following, Collecting, ValidReference
<1> QED  BY <1>1, <1>2 DEF TaskTrue

\* One goroutine's step that leaves the registry alone.
LEMMA OneTaskMoves ==
  ASSUME ClientInv, NEW c \in Callers, NEW t, TaskTrue(t, entries, versions), Set(c, t),
         UNCHANGED <<entries, versions>>,
         CacheTrue(cache', entries), GuidCacheTrue(guidCache', entries, versions)
  PROVE  ClientInv'
BY DEF ClientInv, Set

-----------------------------------------------------------------------------
(* The steps of a GUID lookup.                                              *)

\* Pairs that bind each key once are as many as their keys.
LEMMA AsManyPairsAsKeys ==
  ASSUME NEW pairs, IsFiniteSet(Keys(pairs)),
         \A p, q \in pairs : p[1] = q[1] => p = q
  PROVE  Cardinality(pairs) = Cardinality(Keys(pairs))
<1> DEFINE keys == Keys(pairs)
           pair == [k \in keys |-> CHOOSE p \in pairs : p[1] = k]
<1>1. \A k \in keys : pair[k] \in pairs /\ pair[k][1] = k
  BY DEF Keys
<1>2. \A p \in pairs : p[1] \in keys /\ pair[p[1]] = p
  BY <1>1 DEF Keys
<1>3. pair \in [keys -> pairs]
  BY <1>1
<1> HIDE DEF pair, keys
<1>4. pair \in Bijection(keys, pairs)
  BY <1>1, <1>2, <1>3 DEF Bijection, Injection, Surjection, IsInjective
<1> QED  BY <1>4, FS_Bijection DEF ExistsBijection, keys

\* What a lookup with true names parses is what the GUID means.
LEMMA ParsedIsMeant ==
  ASSUME NEW g \in DOMAIN Guids, Guids[g].avro, NEW names,
         NamesTrue(g, names, entries, versions),
         Parse(Guids[g].doc, names).ok
  PROVE  MeansIn(g, Parse(Guids[g].doc, names).schema, entries, versions)
<1> DEFINE uses == Guids[g].doc.uses
           binds == {p \in names : p[1] \in uses}
<1>1. uses \subseteq Keys(names)
  BY DEF Parse, Failed
<1>2. Parse(Guids[g].doc, names).schema = [doc |-> Guids[g].doc, binds |-> binds]
  BY <1>1 DEF Parse, Schema
<1>3. Keys(binds) = uses
  BY <1>1 DEF Keys
<1>4. Cardinality(binds) = Cardinality(uses)
  BY <1>3, AsManyPairsAsKeys, GuidsAssumption DEF NamesTrue, GuidsAssumption
<1>5. \A p \in binds : Binds(g, p, entries, versions)
  BY DEF NamesTrue
<1> HIDE DEF binds
<1> QED  BY <1>2, <1>3, <1>4, <1>5 DEF MeansIn

LEMMA StoredInCache ==
  ASSUME CacheTrue(cache, entries), NEW id \in DOMAIN entries
  PROVE  CacheTrue(Store(cache, id, entries[id]), entries)
BY DEF Store, CacheTrue

LEMMA StoredInGuidCache ==
  ASSUME GuidCacheTrue(guidCache, entries, versions), NEW g, NEW s,
         MeansIn(g, s, entries, versions)
  PROVE  GuidCacheTrue(Store(guidCache, Key(g), s), entries, versions)
<1>1. Key(g).guid = g
  BY DEF Key
<1>2. <<Key(g), s>>[1] = Key(g) /\ <<Key(g), s>>[2] = s
  OBVIOUS
<1> QED  BY <1>1, <1>2 DEF Store, GuidCacheTrue

LEMMA StoredInNames ==
  ASSUME NEW g, NEW names, NamesTrue(g, names, entries, versions), NEW name, NEW s,
         Binds(g, <<name, s>>, entries, versions)
  PROVE  NamesTrue(g, Store(names, name, s), entries, versions)
BY DEF Store, NamesTrue

\* The loop's next step keeps the invariant: what it stores at its end is what
\* the GUID means.
LEMMA ReferencesKeep ==
  ASSUME ClientInv, NEW c \in Callers, NEW t, IsTask(t), t.warm # TRUE,
         Collecting(t, entries, versions), References(c, t),
         UNCHANGED <<registry, cache>>
  PROVE  ClientInv'
<1>1. UNCHANGED <<entries, versions, cache>>
  BY DEF registry
<1>2. CacheTrue(cache', entries) /\ GuidCacheTrue(guidCache, entries, versions)
  BY <1>1 DEF ClientInv
<1>3. CASE t.next \in DOMAIN t.text.refs
  <2> DEFINE ref == t.text.refs[t.next]
             r == [get |-> "version", subject |-> ref.subject, version |-> ref.version]
  <2>1. UNCHANGED guidCache
    BY <1>3 DEF References
  <2>2. CASE ValidReference(t, ref)
    <3>1. Set(c, Request(t, r))
      BY <1>3, <2>2 DEF References
    <3>2. Following(t, r, entries, versions)
      BY <1>3, <2>2 DEF Following
    <3>3. TaskTrue(Request(t, r), entries, versions)
      BY <3>2, RequestTrue
    <3> QED  BY <1>1, <1>2, <2>1, <3>1, <3>3, OneTaskMoves
  <2>3. CASE ~ValidReference(t, ref)
    <3>1. Set(c, Return(t, Failed))
      BY <1>3, <2>3 DEF References
    <3> QED  BY <1>1, <1>2, <2>1, <3>1, ReturnTrue, OneTaskMoves
  <2> QED  BY <2>2, <2>3
<1>4. CASE t.next \notin DOMAIN t.text.refs
  <2> DEFINE s == Parse(t.text.doc, t.names)
             g == t.key.guid
  <2>1. TaskTrue(Return(t, IF s.ok THEN Delivered(t, s.schema) ELSE Failed), entries, versions)
    BY ReturnTrue
  <2>2. Set(c, Return(t, IF s.ok THEN Delivered(t, s.schema) ELSE Failed))
    BY <1>4 DEF References
  <2>3. guidCache' = IF s.ok THEN Store(guidCache, t.key, s.schema) ELSE guidCache
    BY <1>4 DEF References
  <2>4. ASSUME s.ok PROVE MeansIn(g, s.schema, entries, versions)
    BY <2>4, ParsedIsMeant DEF Collecting
  <2>5. GuidCacheTrue(guidCache', entries, versions)
    BY <1>2, <2>3, <2>4, StoredInGuidCache DEF Collecting
  <2> QED  BY <1>1, <1>2, <2>1, <2>2, <2>5, OneTaskMoves
<1> QED  BY <1>3, <1>4

\* The first step of GetSchema: a warm task finds its schema and makes no request.
LEMMA GetSchemaTrue ==
  ASSUME NEW t, IsTask(t), NEW id,
         t.warm = TRUE => t.sent = 0 /\ id \in Keys(cache)
  PROVE  TaskTrue(GetSchema(t, id), entries, versions)
<1> DEFINE r == [get |-> "id", id |-> id]
<1>1. CASE id \in Keys(cache)
  <2>1. ~Delivered(t, Lookup(cache, id)).ok => t.call.call = "DecodeHeaders"
    BY DEF Delivered
  <2> QED  BY <1>1, <2>1, ReturnTrue DEF GetSchema
<1>2. CASE id \notin Keys(cache)
  <2>1. r.get # "guid" /\ r.get # "version"
    OBVIOUS
  <2>2. TaskTrue(Request(t, r), entries, versions)
    BY <1>2, <2>1, RequestTrue
  <2> QED  BY <1>2, <2>2 DEF GetSchema
<1> QED  BY <1>1, <1>2

\* Every spelling of a GUID has the same key.
LEMMA LowerCase ==
  ASSUME NEW g, NEW upper
  PROVE  ToLower([guid |-> g, upper |-> upper, wellFormed |-> TRUE]) = Key(g)
<1> DEFINE names == {"guid", "upper", "wellFormed"}
           spelt == [guid |-> g, upper |-> upper, wellFormed |-> TRUE]
           low == ToLower(spelt)
<1>1. DOMAIN spelt = names /\ DOMAIN Key(g) = names /\ DOMAIN low = names
  BY DEF Key, ToLower
<1>2. low.guid = Key(g).guid /\ low.upper = Key(g).upper /\ low.wellFormed = Key(g).wellFormed
  BY DEF Key, ToLower
<1>3. low = [n \in names |-> low[n]]
  BY <1>1 DEF ToLower
<1>4. Key(g) = [n \in names |-> Key(g)[n]]
  BY DEF Key
<1> QED  BY <1>2, <1>3, <1>4

\* The first step of GetSchemaByGUID; a GUID in the cache is found however it
\* is spelt.
LEMMA GetSchemaByGUIDTrue ==
  ASSUME NEW t, IsTask(t), t.names = {}, NEW spelling,
         ToLower(spelling) = Key(spelling.guid),
         t.warm = TRUE => t.sent = 0 /\ Key(spelling.guid) \in Keys(guidCache)
  PROVE  TaskTrue(GetSchemaByGUID(t, spelling), entries, versions)
<1> DEFINE key == Key(spelling.guid)
           u == [t EXCEPT !.key = key]
           r == [get |-> "guid", guid |-> spelling.guid]
<1>1. key.guid = spelling.guid
  BY DEF Key
<1>2. CASE key \in Keys(guidCache)
  <2>1. ~Delivered(t, Lookup(guidCache, key)).ok => t.call.call = "DecodeHeaders"
    BY DEF Delivered
  <2> QED  BY <1>2, <2>1, ReturnTrue DEF GetSchemaByGUID
<1>3. CASE key \notin Keys(guidCache)
  <2>1. IsTask(u) /\ u.key = key /\ u.names = t.names /\ u.warm = t.warm
    BY DEF IsTask, Fields
  <2>2. r.get # "version" /\ r.guid = spelling.guid
    OBVIOUS
  <2> HIDE DEF u, r
  <2>3. TaskTrue(Request(u, r), entries, versions)
    BY <1>3, <2>1, <2>2, RequestTrue
  <2> QED  BY <1>1, <1>3, <2>3 DEF GetSchemaByGUID, u, r
<1> QED  BY <1>2, <1>3

-----------------------------------------------------------------------------
(* The invariant holds initially, and every action keeps it.                *)

LEMMA IdleTrue ==
  ASSUME NEW es, NEW vs
  PROVE  TaskTrue(Idle, es, vs)
<1>1. DOMAIN Idle = Fields /\ Idle.pc = "idle" /\ Idle.warm = FALSE
  BY DEF Idle, Fields
<1> QED  BY <1>1 DEF TaskTrue, IsTask

LEMMA InitClient ==
  ASSUME Init
  PROVE  ClientInv
<1>1. RegistryTrue(Entries0, Versions0)
  <2>1. \A s \in Subjects : Versions0[s] \in Seq(DOMAIN Entries0)
    BY EntriesAssumption DEF EntriesAssumption
  <2>2. DOMAIN Entries0 \subseteq Int
    BY EntriesAssumption DEF EntriesAssumption
  <2>3. \A s \in Subjects : Versions0[s] \in Seq(Int)
    BY <2>1, <2>2
  <2>4. Versions0 = [s \in Subjects |-> Versions0[s]]
    BY EntriesAssumption DEF EntriesAssumption
  <2>5. Versions0 \in [Subjects -> Seq(Int)]
    BY <2>3, <2>4
  <2>6. \A s \in Subjects : \A v \in DOMAIN Versions0[s] : Versions0[s][v] \in DOMAIN Entries0
    BY <2>1
  <2> QED  BY <2>5, <2>6, EntriesAssumption DEF EntriesAssumption, RegistryTrue
<1>2. CacheTrue(cache, entries) /\ GuidCacheTrue(guidCache, entries, versions)
  BY DEF Init, CacheTrue, GuidCacheTrue
<1>3. \A c \in Callers : task[c] = Idle
  BY DEF Init
<1>4. task = [c \in Callers |-> task[c]]
  BY DEF Init
<1> QED  BY <1>1, <1>2, <1>3, <1>4, IdleTrue DEF Init, ClientInv

\* A step that leaves the registry and the caches alone and moves one task.
LEMMA OnlyTaskMoves ==
  ASSUME ClientInv, NEW c \in Callers, NEW t, TaskTrue(t, entries, versions), Set(c, t),
         UNCHANGED <<entries, versions, cache, guidCache>>
  PROVE  ClientInv'
BY OneTaskMoves DEF ClientInv

LEMMA BeginLookupKeeps ==
  ASSUME ClientInv, NEW c \in Callers, BeginLookup(c)
  PROVE  ClientInv'
<1> DEFINE Lookups == {k \in Calls : k.call \in {"GetSchema", "GetSchemaByGUID", "DecodeHeaders"}}
<1>1. PICK k \in Lookups :
        /\ Beginning(c)
        /\ LET w == Wanted(k)
               t == [Idle EXCEPT !.call = k, !.warm = Known(w)]
           IN Set(c, CASE w.by = "none" -> Return(t, Failed)
                       [] w.by = "id"   -> GetSchema(t, w.id)
                       [] w.by = "guid" -> GetSchemaByGUID(t, w.spelling))
  BY DEF BeginLookup
<1> DEFINE w == Wanted(k)
           t == [Idle EXCEPT !.call = k, !.warm = Known(w)]
<1>2. UNCHANGED <<entries, versions, cache, guidCache>>
  BY <1>1 DEF Beginning, registry
<1>3. IsTask(t) /\ t.names = {} /\ t.sent = 0 /\ t.warm = Known(w)
  BY DEF Idle, IsTask, Fields
<1>4. w.by \in {"none", "id", "guid"}
  BY DEF Wanted, Designation
<1> HIDE DEF w, t
<1>5. CASE w.by = "none"
  <2>1. t.warm # TRUE
    BY <1>3, <1>5 DEF Known
  <2>2. Set(c, Return(t, Failed))
    BY <1>1, <1>5 DEF w, t
  <2> QED  BY <1>2, <2>1, <2>2, ReturnTrue, OnlyTaskMoves
<1>6. CASE w.by = "id"
  <2>1. t.warm = TRUE => w.id \in Keys(cache)
    BY <1>3, <1>6 DEF Known
  <2>2. Set(c, GetSchema(t, w.id))
    BY <1>1, <1>6 DEF w, t
  <2> QED  BY <1>2, <1>3, <2>1, <2>2, GetSchemaTrue, OnlyTaskMoves
<1>7. CASE w.by = "guid"
  <2>1. ToLower(w.spelling) = Key(w.spelling.guid)
    <3>1. w.spelling = [guid |-> w.spelling.guid, upper |-> w.spelling.upper,
                        wellFormed |-> TRUE]
      BY <1>7, SpellingsAssumption DEF SpellingsAssumption, w
    <3> QED  BY <3>1, LowerCase
  <2>2. t.warm = TRUE => Key(w.spelling.guid) \in Keys(guidCache)
    <3>1. \A p \in guidCache : p[1] = Key(p[1].guid)
      BY DEF ClientInv, GuidCacheTrue
    <3>2. Known(w) => \E p \in guidCache : p[1].guid = w.spelling.guid
      BY <1>7 DEF Known
    <3>3. ASSUME NEW p \in guidCache, p[1].guid = w.spelling.guid
          PROVE  Key(w.spelling.guid) \in Keys(guidCache)
      BY <3>1, <3>3 DEF Keys
    <3> QED  BY <1>3, <3>2, <3>3
  <2>3. Set(c, GetSchemaByGUID(t, w.spelling))
    BY <1>1, <1>7 DEF w, t
  <2> QED  BY <1>2, <1>3, <2>1, <2>2, <2>3, GetSchemaByGUIDTrue, OnlyTaskMoves
<1> QED  BY <1>4, <1>5, <1>6, <1>7

\* A fresh task that makes a request other than a GUID lookup's.
LEMMA FreshRequestTrue ==
  ASSUME NEW k, NEW r, r.get # "guid", r.get # "version" \/ k.call \notin ByGUID
  PROVE  TaskTrue(Request([Idle EXCEPT !.call = k], r), entries, versions)
<1> DEFINE t == [Idle EXCEPT !.call = k]
<1>1. IsTask(t) /\ t.warm = FALSE /\ t.call = k
  BY DEF Idle, IsTask, Fields
<1> HIDE DEF t
<1>2. TaskTrue(Request(t, r), entries, versions)
  BY <1>1, RequestTrue
<1> QED  BY <1>2 DEF t

LEMMA BeginVersionKeeps ==
  ASSUME ClientInv, NEW c \in Callers, BeginVersion(c)
  PROVE  ClientInv'
<1>1. PICK k \in {k \in Calls : k.call \in {"GetSchemaByVersion", "GetSchemaInfo"}} :
        /\ Beginning(c)
        /\ Set(c, Request([Idle EXCEPT !.call = k],
                          [get |-> "version", subject |-> k.subject, version |-> k.version]))
  BY DEF BeginVersion
<1> DEFINE r == [get |-> "version", subject |-> k.subject, version |-> k.version]
<1>2. r.get # "guid" /\ k.call \notin ByGUID
  BY DEF ByGUID
<1>3. TaskTrue(Request([Idle EXCEPT !.call = k], r), entries, versions)
  BY <1>2, FreshRequestTrue
<1>4. UNCHANGED <<entries, versions, cache, guidCache>>
  BY <1>1 DEF Beginning, registry
<1> QED  BY <1>1, <1>3, <1>4, OnlyTaskMoves

LEMMA BeginRegistrationKeeps ==
  ASSUME ClientInv, NEW c \in Callers, BeginRegistration(c)
  PROVE  ClientInv'
<1>1. PICK k \in {k \in Calls : k.call \in {"CreateSchema", "IsRegistered", "DeleteSubject"}} :
        /\ Beginning(c)
        /\ Set(c, Request([Idle EXCEPT !.call = k],
             IF k.call = "DeleteSubject" THEN [get |-> "delete", subject |-> k.subject]
             ELSE [get |-> IF k.call = "CreateSchema" THEN "create" ELSE "registered",
                   subject |-> k.subject, doc |-> k.doc, refs |-> k.refs]))
  BY DEF BeginRegistration
<1> DEFINE r == IF k.call = "DeleteSubject" THEN [get |-> "delete", subject |-> k.subject]
                ELSE [get |-> IF k.call = "CreateSchema" THEN "create" ELSE "registered",
                      subject |-> k.subject, doc |-> k.doc, refs |-> k.refs]
<1>2. r.get # "guid" /\ r.get # "version"
  OBVIOUS
<1>3. TaskTrue(Request([Idle EXCEPT !.call = k], r), entries, versions)
  BY <1>2, FreshRequestTrue
<1>4. UNCHANGED <<entries, versions, cache, guidCache>>
  BY <1>1 DEF Beginning, registry
<1> QED  BY <1>1, <1>3, <1>4, OnlyTaskMoves

\* A call under way was not warm.
LEMMA UnderWay ==
  ASSUME ClientInv, NEW c \in Callers, task[c].pc \in {"sent", "answered"}
  PROVE  /\ IsTask(task[c]) /\ task[c].warm # TRUE
         /\ task[c].pc = "answered" /\ task[c].resp.ok =>
              AnswerTrue(task[c].req, task[c].resp, entries, versions)
BY DEF ClientInv, TaskTrue

LEMMA HandleSchemaKeeps ==
  ASSUME ClientInv, NEW c \in Callers, HandleSchema(c)
  PROVE  ClientInv'
<1> DEFINE t == task[c]
<1>1. t.pc = "answered" /\ t.req.get = "id" /\ UNCHANGED <<entries, versions, guidCache>>
  BY DEF HandleSchema, Handling, registry
<1>2. CASE ~t.resp.ok
  <2>1. Set(c, Return(t, Failed)) /\ UNCHANGED cache
    BY <1>2 DEF HandleSchema
  <2> QED  BY <1>1, <2>1, UnderWay, ReturnTrue, OnlyTaskMoves
<1>3. CASE t.resp.ok
  <2>1. /\ cache' = Store(cache, t.req.id, t.resp.schema)
        /\ Set(c, Return(t, Delivered(t, t.resp.schema)))
    BY <1>3 DEF HandleSchema
  <2>2. t.req.id \in DOMAIN entries /\ t.resp.schema = entries[t.req.id]
    BY <1>1, <1>3, UnderWay DEF AnswerTrue
  <2>3. CacheTrue(cache', entries)
    BY <2>1, <2>2, StoredInCache DEF ClientInv
  <2>4. GuidCacheTrue(guidCache', entries, versions)
    BY <1>1 DEF ClientInv
  <2>5. TaskTrue(Return(t, Delivered(t, t.resp.schema)), entries, versions)
    BY <1>1, UnderWay, ReturnTrue
  <2> QED  BY <1>1, <2>1, <2>3, <2>4, <2>5, OneTaskMoves
<1> QED  BY <1>2, <1>3

LEMMA HandleGUIDKeeps ==
  ASSUME ClientInv, NEW c \in Callers, HandleGUID(c)
  PROVE  ClientInv'
<1> DEFINE t == task[c]
           u == [t EXCEPT !.text = t.resp.text, !.next = 1]
           bad == ~t.resp.ok \/ ~t.resp.text.avro \/ Len(t.resp.text.refs) > MaxReferences
<1>1. t.pc = "answered" /\ t.req.get = "guid" /\ UNCHANGED <<registry, cache>>
  BY DEF HandleGUID, Handling
<1>2. IsTask(t) /\ t.warm # TRUE
  BY <1>1, UnderWay
<1>3. CASE bad
  <2>1. Set(c, Return(t, Failed)) /\ UNCHANGED guidCache
    BY <1>3 DEF HandleGUID
  <2> QED  BY <1>1, <1>2, <2>1, ReturnTrue, OnlyTaskMoves DEF registry
<1>4. CASE ~bad
  <2>1. References(c, u)
    BY <1>4 DEF HandleGUID
  <2>2. t.req.guid \in DOMAIN Guids /\ t.resp.text = Guids[t.req.guid]
    BY <1>1, <1>4, UnderWay DEF AnswerTrue
  <2>3. t.key = Key(t.req.guid) /\ t.names = {}
    BY <1>1 DEF ClientInv, TaskTrue
  <2>4. /\ IsTask(u) /\ u.warm = t.warm /\ u.key = t.key /\ u.names = t.names
        /\ u.text = t.resp.text
    BY <1>2 DEF IsTask, Fields
  <2>5. u.key.guid = t.req.guid
    BY <2>3, <2>4 DEF Key
  <2> HIDE DEF u
  <2>6. Collecting(u, entries, versions)
    BY <1>4, <2>2, <2>3, <2>4, <2>5 DEF Collecting, NamesTrue
  <2> QED  BY <1>1, <1>2, <2>1, <2>4, <2>6, ReferencesKeep
<1> QED  BY <1>3, <1>4

\* The task that has collected the answer to its reference.
Reference(t) == t.text.refs[t.next]
Collected(t) == [t EXCEPT !.names = Store(@, Reference(t).name, t.resp.schema), !.next = @ + 1]

\* A reference that was answered with a schema of its name binds the name.
LEMMA ReferenceCollected ==
  ASSUME ClientInv, NEW c \in Callers,
         task[c].pc = "answered", task[c].req.get = "version",
         task[c].call.call \in ByGUID, task[c].resp.ok,
         task[c].resp.schema.doc.name = Reference(task[c]).name
  PROVE  LET t == task[c]
             u == Collected(t)
         IN /\ IsTask(u) /\ u.warm = t.warm /\ u.call = t.call /\ u.key = t.key
            /\ Collecting(u, entries, versions)
<1> DEFINE t == task[c]
           u == Collected(t)
           ref == Reference(t)
           g == t.key.guid
           names == Store(t.names, ref.name, t.resp.schema)
<1>1. Following(t, t.req, entries, versions)
  BY DEF ClientInv, TaskTrue
<1>2. ref.wellFormed /\ t.req.subject = ref.subject /\ t.req.version = ref.version
  BY <1>1 DEF Following, ValidReference, Reference
<1>3. g \in DOMAIN Guids /\ t.text = Guids[g] /\ t.next \in DOMAIN Guids[g].refs
  BY <1>1 DEF Following, Collecting
<1>4. ref.subject \in Subjects /\ ref.version # 0
  BY <1>2, <1>3, GuidsAssumption DEF GuidsAssumption, Reference
<1>5. IsVersion(entries, versions, ref.subject, ref.version, t.resp.schema)
  BY <1>2, <1>4, UnderWay DEF AnswerTrue
<1>6. Binds(g, <<ref.name, t.resp.schema>>, entries, versions)
  BY <1>3, <1>5 DEF Binds, Reference
<1>7. NamesTrue(g, names, entries, versions)
  BY <1>1, <1>6, StoredInNames DEF Following, Collecting
<1>8. /\ IsTask(u) /\ u.warm = t.warm /\ u.key = t.key /\ u.names = names /\ u.text = t.text
      /\ u.call = t.call
  BY UnderWay DEF IsTask, Fields, Collected
<1> HIDE DEF names, u
<1>9. Collecting(u, entries, versions)
  BY <1>1, <1>7, <1>8 DEF Following, Collecting
<1> QED  BY <1>8, <1>9 DEF u

LEMMA HandleReferenceKeeps ==
  ASSUME ClientInv, NEW c \in Callers, HandleReference(c)
  PROVE  ClientInv'
<1> DEFINE t == task[c]
           ref == Reference(t)
           u == Collected(t)
           bad == ~t.resp.ok \/ t.resp.schema.doc.name # ref.name
<1>1. /\ t.pc = "answered" /\ t.req.get = "version" /\ t.call.call \in ByGUID
      /\ UNCHANGED <<registry, cache>>
  BY DEF HandleReference, Handling, ByGUID
<1>2. IsTask(t) /\ t.warm # TRUE
  BY <1>1, UnderWay
<1>3. CASE bad
  <2>1. Set(c, Return(t, Failed)) /\ UNCHANGED guidCache
    BY <1>3 DEF HandleReference, Reference
  <2> QED  BY <1>1, <1>2, <2>1, ReturnTrue, OnlyTaskMoves DEF registry
<1>4. CASE ~bad
  <2>1. References(c, u)
    BY <1>4 DEF HandleReference, Reference, Collected
  <2>2. IsTask(u) /\ u.warm = t.warm /\ Collecting(u, entries, versions)
    BY <1>1, <1>4, ReferenceCollected
  <2> HIDE DEF u
  <2> QED  BY <1>1, <1>2, <2>1, <2>2, ReferencesKeep
<1> QED  BY <1>3, <1>4

LEMMA HandleVersionKeeps ==
  ASSUME ClientInv, NEW c \in Callers, HandleVersion(c)
  PROVE  ClientInv'
<1> DEFINE t == task[c]
<1>1. PICK r : Set(c, Return(t, r))
  BY DEF HandleVersion
<1>2. t.pc = "answered" /\ UNCHANGED <<entries, versions, cache, guidCache>>
  BY DEF HandleVersion, Handling, registry
<1> QED  BY <1>1, <1>2, UnderWay, ReturnTrue, OnlyTaskMoves

LEMMA HandleRegistrationKeeps ==
  ASSUME ClientInv, NEW c \in Callers, HandleRegistration(c)
  PROVE  ClientInv'
<1> DEFINE t == task[c]
           got == [t EXCEPT !.id = t.resp.id]
<1>1. t.pc = "answered" /\ UNCHANGED <<entries, versions, cache, guidCache>>
  BY DEF HandleRegistration, Handling, registry
<1>2. IsTask(t) /\ t.warm # TRUE
  BY <1>1, UnderWay
<1>3. IsTask(got) /\ got.warm = t.warm
  BY <1>2 DEF IsTask, Fields
<1> HIDE DEF got
<1>4. \/ \E r : Set(c, Return(t, r)) \/ Set(c, Return(got, r))
      \/ Set(c, GetSchema(got, t.resp.id))
  BY DEF HandleRegistration, got
<1>5. TaskTrue(GetSchema(got, t.resp.id), entries, versions)
  BY <1>2, <1>3, GetSchemaTrue
<1> QED  BY <1>1, <1>2, <1>3, <1>4, <1>5, ReturnTrue, OnlyTaskMoves

LEMMA HandleDeleteKeeps ==
  ASSUME ClientInv, NEW c \in Callers, HandleDelete(c)
  PROVE  ClientInv'
<1>1. Set(c, Return(task[c], [ok |-> task[c].resp.ok]))
  BY DEF HandleDelete
<1>2. task[c].pc = "answered" /\ UNCHANGED <<entries, versions, cache, guidCache>>
  BY DEF HandleDelete, Handling, registry
<1> QED  BY <1>1, <1>2, UnderWay, ReturnTrue, OnlyTaskMoves

\* An answer that is true of the registry, or a failure, keeps the task true.
LEMMA AnsweredTrue ==
  ASSUME NEW t, NEW es, NEW vs, TaskTrue(t, es, vs), t.pc = "sent",
         NEW a, a.ok => AnswerTrue(t.req, a, es, vs)
  PROVE  TaskTrue([t EXCEPT !.pc = "answered", !.resp = a], es, vs)
<1> DEFINE u == [t EXCEPT !.pc = "answered", !.resp = a]
<1>1. IsTask(t) /\ t.warm # TRUE
  BY DEF TaskTrue
<1>2. /\ IsTask(u) /\ u.pc = "answered" /\ u.resp = a /\ u.warm = t.warm /\ u.req = t.req
      /\ u.call = t.call /\ u.key = t.key /\ u.names = t.names /\ u.text = t.text
      /\ u.next = t.next
  BY <1>1 DEF IsTask, Fields
<1> HIDE DEF u
<1>3. ASSUME Following(t, t.req, es, vs) PROVE Following(u, t.req, es, vs)
  BY <1>2, <1>3 DEF Following, Collecting, ValidReference
<1>4. TaskTrue(u, es, vs)
  BY <1>1, <1>2, <1>3 DEF TaskTrue
<1> QED  BY <1>4 DEF u

\* What the registry answers is true of it.
LEMMA AnswerIsTrue ==
  ASSUME RegistryTrue(entries, versions), NEW r, Answer(r).ok,
         r.get \in {"id", "guid", "version", "registered"}
  PROVE  AnswerTrue(r, Answer(r), entries, versions)
<1>1. CASE r.get = "id"
  <2>1. Answer(r) = IF r.id \in DOMAIN entries THEN Schema(entries[r.id]) ELSE Failed
    BY <1>1 DEF Answer
  <2> QED  BY <1>1, <2>1 DEF AnswerTrue, Schema, Failed
<1>2. CASE r.get = "guid"
  <2>1. Answer(r) = IF r.guid \in DOMAIN Guids THEN [ok |-> TRUE, text |-> Guids[r.guid]]
                    ELSE Failed
    BY <1>2 DEF Answer
  <2> QED  BY <1>2, <2>1 DEF AnswerTrue, Failed
<1>3. CASE r.get = "version"
  <2> SUFFICES ASSUME r.version # 0, r.subject \in Subjects
               PROVE  IsVersion(entries, versions, r.subject, r.version, Answer(r).schema)
    BY <1>3 DEF AnswerTrue
  <2>1. Answer(r) = IF HasVersion(r.subject, r.version)
                      THEN [ok |-> TRUE, schema |-> SchemaOf(r.subject, r.version),
                            id |-> versions[r.subject][r.version]]
                      ELSE Failed
    BY <1>3 DEF Answer
  <2>2. HasVersion(r.subject, r.version)
    BY <2>1 DEF Failed
  <2>3. Answer(r).schema = entries[versions[r.subject][r.version]]
    BY <2>1, <2>2 DEF SchemaOf
  <2> QED  BY <2>2, <2>3 DEF HasVersion, IsVersion, RegistryTrue
<1>4. CASE r.get = "registered"
  BY <1>4 DEF AnswerTrue
<1> QED  BY <1>1, <1>2, <1>3, <1>4

LEMMA ServeKeeps ==
  ASSUME ClientInv, NEW c \in Callers, Serve(c)
  PROVE  ClientInv'
<1> DEFINE r == task[c].req
           a == Answer(r)
           answers == IF a.ok /\ "id" \in DOMAIN a THEN {a, [a EXCEPT !.id = None]} ELSE {a}
<1>1. /\ task[c].pc = "sent" /\ r.get \in {"id", "guid", "version", "registered"}
      /\ UNCHANGED <<entries, versions, cache, guidCache>>
  BY DEF Serve, registry
<1>2. PICK b \in answers : Answered(c, b)
  BY DEF Serve
<1>3. b.ok = a.ok /\ (a.ok => b.schema = a.schema /\ b.text = a.text)
  <2>1. CASE b = a
    BY <2>1
  <2>2. CASE b # a
    <3>1. b = [a EXCEPT !.id = None] /\ "id" \in DOMAIN a
      BY <1>2, <2>2
    <3> QED  BY <3>1
  <2> QED  BY <2>1, <2>2
<1>4. a.ok => AnswerTrue(r, a, entries, versions)
  BY <1>1, AnswerIsTrue DEF ClientInv
<1>5. b.ok => AnswerTrue(r, b, entries, versions)
  BY <1>3, <1>4 DEF AnswerTrue
<1>6. TaskTrue([task[c] EXCEPT !.pc = "answered", !.resp = b], entries, versions)
  BY <1>1, <1>5, AnsweredTrue DEF ClientInv
<1> QED  BY <1>1, <1>2, <1>6, OnlyTaskMoves DEF Answered

LEMMA FailKeeps ==
  ASSUME ClientInv, NEW c \in Callers, Fail(c)
  PROVE  ClientInv'
<1>1. ~Failed.ok
  BY DEF Failed
<1>2. TaskTrue([task[c] EXCEPT !.pc = "answered", !.resp = Failed], entries, versions)
  BY <1>1, AnsweredTrue DEF Fail, ClientInv
<1> QED  BY <1>2, OnlyTaskMoves DEF Fail, Answered, registry

LEMMA ServeDeleteKeeps ==
  ASSUME ClientInv, NEW c \in Callers, ServeDelete(c)
  PROVE  ClientInv'
<1>1. task[c].pc = "sent" /\ task[c].req.get = "delete"
      /\ UNCHANGED <<entries, versions, cache, guidCache>>
  BY DEF ServeDelete
<1>2. PICK a : Answered(c, a)
  BY DEF ServeDelete
<1>3. AnswerTrue(task[c].req, a, entries, versions)
  BY <1>1 DEF AnswerTrue
<1>4. TaskTrue([task[c] EXCEPT !.pc = "answered", !.resp = a], entries, versions)
  BY <1>1, <1>3, AnsweredTrue DEF ClientInv
<1> QED  BY <1>1, <1>2, <1>4, OnlyTaskMoves DEF Answered

\* A registration adds a schema, a version or neither.
LEMMA CreationGrows ==
  ASSUME RegistryTrue(entries, versions), NEW s, NEW subject, NEW id,
         entries' = entries \/ entries' = Append(entries, s),
         versions' = versions \/ versions' = [versions EXCEPT ![subject] = Append(@, id)],
         id \in DOMAIN entries'
  PROVE  Grows(entries, versions, entries', versions') /\ RegistryTrue(entries', versions')
<1>1. PICK S : entries \in Seq(S)
  BY DEF RegistryTrue
<1>2. /\ entries' \in Seq(S \cup {s})
      /\ \A i \in DOMAIN entries : i \in DOMAIN entries' /\ entries'[i] = entries[i]
  <2>1. entries \in Seq(S \cup {s})
    BY <1>1
  <2> QED  BY <1>1, <2>1
<1>3. id \in Int
  BY <1>2
<1>4. \A x \in Subjects : versions[x] \in Seq(Int) /\ DOMAIN versions[x] = 1 .. Len(versions[x])
  BY DEF RegistryTrue
<1>5. \A x \in Subjects :
        versions'[x] = versions[x] \/ (x = subject /\ versions'[x] = Append(versions[x], id))
  BY DEF RegistryTrue
<1>6. versions' \in [Subjects -> Seq(Int)]
  <2>1. versions = [x \in Subjects |-> versions[x]]
    BY DEF RegistryTrue
  <2>2. versions' = [x \in Subjects |-> versions'[x]]
    BY <2>1
  <2>3. \A q \in Seq(Int) : Append(q, id) \in Seq(Int)
    BY <1>3
  <2>4. ASSUME NEW x \in Subjects PROVE versions'[x] \in Seq(Int)
    <3>1. CASE versions'[x] = versions[x]
      BY <1>4, <3>1
    <3>2. CASE versions'[x] = Append(versions[x], id)
      BY <1>4, <2>3, <3>2
    <3> QED  BY <1>5, <3>1, <3>2
  <2> QED  BY <2>2, <2>4
<1>7. ASSUME NEW x \in Subjects, NEW v \in DOMAIN versions[x]
      PROVE  v \in DOMAIN versions'[x] /\ versions'[x][v] = versions[x][v]
  <2>1. CASE versions'[x] = versions[x]
    BY <2>1
  <2>2. CASE versions'[x] = Append(versions[x], id)
    <3>1. versions[x] \in Seq(Int) /\ v \in 1 .. Len(versions[x])
      BY <1>4
    <3>2. v \in 1 .. Len(versions[x]) + 1 /\ v # Len(versions[x]) + 1
      BY <3>1
    <3>3. Append(versions[x], id)[v] = versions[x][v]
      BY <1>3, <3>1, <3>2
    <3>4. DOMAIN Append(versions[x], id) = 1 .. Len(versions[x]) + 1
      BY <1>3, <3>1
    <3> QED  BY <2>2, <3>2, <3>3, <3>4
  <2> QED  BY <1>5, <2>1, <2>2
<1>8. ASSUME NEW x \in Subjects, NEW v \in DOMAIN versions'[x]
      PROVE  versions'[x][v] \in DOMAIN entries'
  <2>1. CASE v \in DOMAIN versions[x]
    BY <1>2, <1>7, <2>1 DEF RegistryTrue
  <2>2. CASE v \notin DOMAIN versions[x]
    <3>1. versions'[x] = Append(versions[x], id) /\ v \in 1 .. Len(versions[x]) + 1
      BY <1>3, <1>4, <1>5, <2>2
    <3>2. versions'[x][v] = id
      BY <1>3, <1>4, <2>2, <3>1
    <3> QED  BY <3>2
  <2> QED  BY <2>1, <2>2
<1> QED  BY <1>2, <1>6, <1>7, <1>8 DEF Grows, RegistryTrue

\* A registration that is not refused has its schema in the registry under the
\* id it answers with.
LEMMA CreationStores ==
  ASSUME ClientInv, NEW c \in Callers, ServeCreate(c),
         RefsExist(task[c].req.refs),
         Parse(task[c].req.doc, Bound(task[c].req.refs)).ok
  PROVE  LET r == task[c].req
             s == Parse(r.doc, Bound(r.refs)).schema
             id == IdIn(entries', s)
         IN /\ Grows(entries, versions, entries', versions')
            /\ RegistryTrue(entries', versions')
            /\ id \in DOMAIN entries' /\ entries'[id] = s
            /\ \E a \in {Failed, [ok |-> TRUE, id |-> id]} : Answered(c, a)
<1> DEFINE r == task[c].req
           s == Parse(r.doc, Bound(r.refs)).schema
           id == IdIn(entries', s)
<1>1. /\ entries' = IF \E i \in DOMAIN entries : entries[i] = s THEN entries
                    ELSE Append(entries, s)
      /\ versions' = IF \E v \in DOMAIN versions[r.subject] :
                          HasVersion(r.subject, v) /\ SchemaOf(r.subject, v) = s
                       THEN versions
                       ELSE [versions EXCEPT ![r.subject] = Append(@, id)]
      /\ \E a \in {Failed, [ok |-> TRUE, id |-> id]} : Answered(c, a)
  BY DEF ServeCreate
<1> HIDE DEF s
<1>2. \E i \in DOMAIN entries' : entries'[i] = s
  <2>1. PICK S : entries \in Seq(S)
    BY DEF ClientInv, RegistryTrue
  <2>2. CASE entries' = entries
    BY <1>1, <2>2
  <2>3. CASE entries' = Append(entries, s)
    <3>1. entries \in Seq(S \cup {s})
      BY <2>1
    <3>2. Len(entries) + 1 \in DOMAIN entries' /\ entries'[Len(entries) + 1] = s
      BY <2>3, <3>1
    <3> QED  BY <3>2
  <2> QED  BY <1>1, <2>2, <2>3
<1>3. id \in DOMAIN entries' /\ entries'[id] = s
  BY <1>2 DEF IdIn
<1>4. Grows(entries, versions, entries', versions') /\ RegistryTrue(entries', versions')
  <2> HIDE DEF id
  <2>1. entries' = entries \/ entries' = Append(entries, s)
    BY <1>1
  <2>2. versions' = versions \/ versions' = [versions EXCEPT ![r.subject] = Append(@, id)]
    BY <1>1
  <2> QED  BY <1>3, <2>1, <2>2, CreationGrows DEF ClientInv
<1> QED  BY <1>1, <1>3, <1>4 DEF s

LEMMA ServeCreateKeeps ==
  ASSUME ClientInv, NEW c \in Callers, ServeCreate(c)
  PROVE  ClientInv'
<1> DEFINE r == task[c].req
           refused == ~RefsExist(r.refs) \/ ~Parse(r.doc, Bound(r.refs)).ok
<1>1. task[c].pc = "sent" /\ r.get = "create" /\ UNCHANGED <<cache, guidCache>>
  BY DEF ServeCreate
<1>2. \A es, vs, a : AnswerTrue(r, a, es, vs)
  BY <1>1 DEF AnswerTrue
<1>3. \A a : TaskTrue([task[c] EXCEPT !.pc = "answered", !.resp = a], entries, versions)
  BY <1>1, <1>2, AnsweredTrue DEF ClientInv
<1>4. CASE refused
  <2>1. Answered(c, Failed) /\ UNCHANGED <<entries, versions>>
    BY <1>4 DEF ServeCreate
  <2> QED  BY <1>1, <1>3, <2>1, OnlyTaskMoves DEF Answered
<1>5. CASE ~refused
  <2>1. Grows(entries, versions, entries', versions') /\ RegistryTrue(entries', versions')
    BY <1>5, CreationStores
  <2>2. PICK a : task' = [task EXCEPT ![c] = [task[c] EXCEPT !.pc = "answered", !.resp = a]]
    BY <1>5, CreationStores DEF Answered, Set
  <2>3. CacheTrue(cache', entries') /\ GuidCacheTrue(guidCache', entries', versions')
    BY <1>1, <2>1, CachesStayTrue DEF ClientInv
  <2>4. \A d \in Callers : TaskTrue(task'[d], entries, versions)
    BY <1>3, <2>2 DEF ClientInv
  <2>5. \A d \in Callers : TaskTrue(task'[d], entries', versions')
    BY <2>1, <2>4, TaskStaysTrue
  <2>6. task' = [d \in Callers |-> task'[d]]
    BY <2>2 DEF ClientInv
  <2> QED  BY <2>1, <2>3, <2>5, <2>6 DEF ClientInv
<1> QED  BY <1>4, <1>5

LEMMA NextKeeps ==
  ASSUME ClientInv, [Next]_vars
  PROVE  ClientInv'
<1>1. CASE UNCHANGED vars
  BY <1>1 DEF ClientInv, vars, registry
<1>2. ASSUME NEW c \in Callers, BeginLookup(c) PROVE ClientInv'
  BY <1>2, BeginLookupKeeps
<1>3. ASSUME NEW c \in Callers, BeginVersion(c) PROVE ClientInv'
  BY <1>3, BeginVersionKeeps
<1>4. ASSUME NEW c \in Callers, BeginRegistration(c) PROVE ClientInv'
  BY <1>4, BeginRegistrationKeeps
<1>5. ASSUME NEW c \in Callers, Registry(c) PROVE ClientInv'
  BY <1>5, ServeKeeps, FailKeeps, ServeCreateKeeps, ServeDeleteKeeps DEF Registry
<1>6. ASSUME NEW c \in Callers, Client(c) PROVE ClientInv'
  BY <1>6, HandleSchemaKeeps, HandleGUIDKeeps, HandleReferenceKeeps, HandleVersionKeeps,
     HandleRegistrationKeeps, HandleDeleteKeeps DEF Client
<1> QED  BY <1>1, <1>2, <1>3, <1>4, <1>5, <1>6 DEF Next

LEMMA InvMakesCachesTrue ==
  ASSUME ClientInv
  PROVE  CachesAreTrue
<1>1. ASSUME NEW p \in guidCache PROVE Means(p[1].guid, p[2])
  <2>1. MeansIn(p[1].guid, p[2], entries, versions)
    BY DEF ClientInv, GuidCacheTrue
  <2> QED  BY <2>1 DEF Means, MeansIn, Binds, IsVersion, SchemaOf
<1>2. ASSUME NEW p \in guidCache, NEW q \in guidCache, p[1].guid = q[1].guid
      PROVE  p = q
  <2>1. p[1] = q[1]
    BY <1>2 DEF ClientInv, GuidCacheTrue
  <2> QED  BY <2>1 DEF ClientInv, GuidCacheTrue
<1>3. CachedMeansRegistered
  BY <1>1, <1>2 DEF ClientInv, CacheTrue, CachedMeansRegistered
<1>4. CachedMakesNoRequest
  BY DEF ClientInv, TaskTrue, CachedMakesNoRequest, Returned
<1> QED  BY <1>3, <1>4 DEF CachesAreTrue

\* Whatever the goroutines do, a cached schema is the one the registry has under
\* its id, or the one its GUID means with exactly its own references bound; no
\* failed or partial lookup is ever stored, and what is cached is answered
\* without a request (GetSchema, GetSchemaByGUID and the decoder's calls).
THEOREM CachesAreAlwaysTrue == Spec => []CachesAreTrue
<1>1. Init => ClientInv
  BY InitClient
<1>2. ClientInv /\ [Next]_vars => ClientInv'
  BY NextKeeps
<1>3. ClientInv => CachesAreTrue
  BY InvMakesCachesTrue
<1> QED  BY <1>1, <1>2, <1>3, PTL DEF Spec

-----------------------------------------------------------------------------
(* Answers: what a call returns is what the registry has for what was asked. *)
(* The induction follows the request of each call: it asks for what the call *)
(* wants, and its answer, once arrived, tells what the registry has.         *)

LookupCalls       == {"GetSchema", "GetSchemaByGUID", "DecodeHeaders"}
VersionCalls      == {"GetSchemaByVersion", "GetSchemaInfo"}
RegistrationCalls == {"CreateSchema", "IsRegistered"}

RefsIn(refs, es, vs) ==
  \A i \in DOMAIN refs :
    /\ refs[i].subject \in Subjects
    /\ refs[i].version \in DOMAIN vs[refs[i].subject]
    /\ vs[refs[i].subject][refs[i].version] \in DOMAIN es

BoundIn(refs, es, vs) ==
  {<<refs[i].name, es[vs[refs[i].subject][refs[i].version]]>> : i \in DOMAIN refs}

AsBound(k, es, vs) ==
  [doc |-> k.doc, binds |-> {p \in BoundIn(k.refs, es, vs) : p[1] \in k.doc.uses}]

\* The schema that the call k registers has the id.
RegisteredAs(k, id, es, vs) ==
  id \in DOMAIN es /\ RefsIn(k.refs, es, vs) /\ es[id] = AsBound(k, es, vs)

\* a has the schema of a version that k asks for, and its id if it has one.
VersionTrue(k, a, es, vs) ==
  \E v \in DOMAIN vs[k.subject] :
    /\ k.version \in {0, v} /\ IsVersion(es, vs, k.subject, v, a.schema)
    /\ a.id \in {None, vs[k.subject][v]}

\* The schema a lookup wants.
IsWanted(w, s, es, vs) ==
  \/ w.by = "id" /\ w.id \in DOMAIN es /\ s = es[w.id]
  \/ w.by = "guid" /\ MeansIn(w.spelling.guid, s, es, vs)

WantsId(t, id, es, vs) ==
  \/ t.call.call \in LookupCalls /\ Wanted(t.call).by = "id" /\ Wanted(t.call).id = id
  \/ t.call.call \in RegistrationCalls /\ t.id = id /\ RegisteredAs(t.call, id, es, vs)

WantsGUID(k, g) ==
  k.call \in ByGUID /\ Wanted(k).by = "guid" /\ Wanted(k).spelling.guid = g

\* The task's request is for what its call wants.
Asks(t, r, es, vs) ==
  /\ t.call \in Calls
  /\ r.get \in {"id", "guid", "version", "create", "registered", "delete"}
  /\ r.get = "id" => WantsId(t, r.id, es, vs)
  /\ r.get = "guid" => WantsGUID(t.call, r.guid)
  /\ r.get = "version" =>
       \/ WantsGUID(t.call, t.key.guid)
       \/ /\ t.call.call \in VersionCalls
          /\ r.subject = t.call.subject /\ r.version = t.call.version
  /\ r.get \in {"create", "registered"} =>
       /\ t.call.call \in RegistrationCalls
       /\ r.subject = t.call.subject /\ r.doc = t.call.doc /\ r.refs = t.call.refs
  /\ r.get = "delete" => t.call.call = "DeleteSubject"

\* The answer a to its request r is what the call k may return.
Tells(k, r, a, es, vs) ==
  /\ r.get = "version" /\ k.call \in VersionCalls => VersionTrue(k, a, es, vs)
  /\ r.get \in {"create", "registered"} => a.id = None \/ RegisteredAs(k, a.id, es, vs)

ResultTrue(k, r, es, vs) ==
  /\ k.call \in LookupCalls => IsWanted(Wanted(k), r.schema, es, vs)
  /\ k.call = "DecodeHeaders" => r.data = Wanted(k).datum
  /\ k.call \in VersionCalls =>
       VersionTrue(k, r, es, vs) /\ (k.call = "GetSchemaInfo" => r.id # None)
  /\ k.call \in RegistrationCalls => RegisteredAs(k, r.id, es, vs) /\ r.schema = es[r.id]

CallTrue(t, es, vs) ==
  /\ t.pc = "idle" /\ t.call # None =>
       t.call \in Calls /\ (t.result.ok => ResultTrue(t.call, t.result, es, vs))
  /\ t.pc # "idle" => Asks(t, t.req, es, vs)
  /\ t.pc = "answered" /\ t.resp.ok => Tells(t.call, t.req, t.resp, es, vs)

AnswersInv == \A c \in Callers : CallTrue(task[c], entries, versions)

LEMMA BoundStays ==
  ASSUME NEW es, NEW vs, NEW more, NEW newer, Grows(es, vs, more, newer),
         NEW k, RefsIn(k.refs, es, vs)
  PROVE  RefsIn(k.refs, more, newer) /\ AsBound(k, more, newer) = AsBound(k, es, vs)
<1> DEFINE refs == k.refs
           schema(as, ws, i) == as[ws[refs[i].subject][refs[i].version]]
<1>1. ASSUME NEW i \in DOMAIN refs
      PROVE  /\ refs[i].version \in DOMAIN newer[refs[i].subject]
             /\ newer[refs[i].subject][refs[i].version] \in DOMAIN more
             /\ schema(more, newer, i) = schema(es, vs, i)
  <2>1. /\ refs[i].subject \in Subjects /\ refs[i].version \in DOMAIN vs[refs[i].subject]
        /\ vs[refs[i].subject][refs[i].version] \in DOMAIN es
    BY DEF RefsIn
  <2> QED  BY <2>1 DEF Grows
<1>2. RefsIn(refs, more, newer)
  BY <1>1 DEF RefsIn
<1>3. BoundIn(refs, more, newer) = BoundIn(refs, es, vs)
  BY <1>1 DEF BoundIn
<1> QED  BY <1>2, <1>3 DEF AsBound

LEMMA RegisteredStays ==
  ASSUME NEW es, NEW vs, NEW more, NEW newer, Grows(es, vs, more, newer),
         NEW k, NEW id, RegisteredAs(k, id, es, vs)
  PROVE  RegisteredAs(k, id, more, newer)
<1>1. id \in DOMAIN more /\ more[id] = es[id]
  BY DEF RegisteredAs, Grows
<1> QED  BY <1>1, BoundStays DEF RegisteredAs

LEMMA CallStaysTrue ==
  ASSUME NEW es, NEW vs, NEW more, NEW newer, Grows(es, vs, more, newer),
         NEW t, CallTrue(t, es, vs)
  PROVE  CallTrue(t, more, newer)
<1> DEFINE k == t.call
<1>1. ASSUME NEW a, k.call \in VersionCalls, k \in Calls, VersionTrue(k, a, es, vs)
      PROVE  VersionTrue(k, a, more, newer)
  <2>1. k.subject \in Subjects
    BY <1>1, CallsAssumption DEF CallsAssumption, VersionCalls
  <2>2. PICK v \in DOMAIN vs[k.subject] :
          /\ k.version \in {0, v} /\ IsVersion(es, vs, k.subject, v, a.schema)
          /\ a.id \in {None, vs[k.subject][v]}
    BY <1>1 DEF VersionTrue
  <2>3. /\ v \in DOMAIN newer[k.subject] /\ newer[k.subject][v] = vs[k.subject][v]
        /\ IsVersion(more, newer, k.subject, v, a.schema)
    BY <2>1, <2>2 DEF Grows, IsVersion
  <2> QED  BY <2>2, <2>3 DEF VersionTrue
<1>2. ASSUME NEW w, NEW s, IsWanted(w, s, es, vs) PROVE IsWanted(w, s, more, newer)
  <2>1. MeansIn(w.spelling.guid, s, es, vs) => MeansIn(w.spelling.guid, s, more, newer)
    BY BindsStays DEF MeansIn
  <2>2. w.id \in DOMAIN es => w.id \in DOMAIN more /\ more[w.id] = es[w.id]
    BY DEF Grows
  <2> QED  BY <1>2, <2>1, <2>2 DEF IsWanted
<1>3. ASSUME t.pc # "idle" PROVE Asks(t, t.req, more, newer)
  BY <1>3, RegisteredStays DEF CallTrue, Asks, WantsId
<1>4. ASSUME t.pc = "answered", t.resp.ok PROVE Tells(k, t.req, t.resp, more, newer)
  BY <1>1, <1>4, RegisteredStays DEF CallTrue, Asks, Tells
<1>5. ASSUME NEW r, k \in Calls, ResultTrue(k, r, es, vs) PROVE ResultTrue(k, r, more, newer)
  <2>1. k.call \in RegistrationCalls =>
          RegisteredAs(k, r.id, more, newer) /\ r.schema = more[r.id]
    <3>1. RegisteredAs(k, r.id, es, vs) => r.id \in DOMAIN es
      BY DEF RegisteredAs
    <3>2. r.id \in DOMAIN es => more[r.id] = es[r.id]
      BY DEF Grows
    <3> QED  BY <1>5, <3>1, <3>2, RegisteredStays DEF ResultTrue
  <2> QED  BY <1>1, <1>2, <1>5, <2>1 DEF ResultTrue
<1> QED  BY <1>3, <1>4, <1>5 DEF CallTrue

\* A call that returns leaves a true task if its result is true.
LEMMA ReturnAnswers ==
  ASSUME NEW t, t.call \in Calls, NEW r,
         r.ok => ResultTrue(t.call, r, entries, versions)
  PROVE  CallTrue(Return(t, r), entries, versions)
<1>1. DOMAIN Idle = Fields /\ Idle.pc = "idle"
  BY DEF Idle, Fields
<1>2. Return(t, r).pc = "idle" /\ Return(t, r).call = t.call /\ Return(t, r).result = r
  BY <1>1 DEF Return, Fields
<1> QED  BY <1>2 DEF CallTrue

\* So does one that asks for what its call wants.
LEMMA RequestAnswers ==
  ASSUME NEW t, IsTask(t), NEW r, Asks(t, r, entries, versions)
  PROVE  CallTrue(Request(t, r), entries, versions)
<1> DEFINE u == Request(t, r)
<1>1. u.pc = "sent" /\ u.req = r /\ u.call = t.call /\ u.key = t.key /\ u.id = t.id
  BY DEF Request, IsTask, Fields
<1> HIDE DEF u
<1>2. CallTrue(u, entries, versions)
  BY <1>1 DEF CallTrue, Asks, WantsId
<1> QED  BY <1>2 DEF u

LEMMA OneCallMoves ==
  ASSUME ClientInv, AnswersInv, NEW c \in Callers, NEW t, CallTrue(t, entries, versions),
         Set(c, t), UNCHANGED <<entries, versions>>
  PROVE  AnswersInv'
BY DEF ClientInv, AnswersInv, Set

LEMMA FailureAnswers ==
  ASSUME ClientInv, AnswersInv, NEW c \in Callers, NEW t, t.call \in Calls,
         Set(c, Return(t, Failed)), UNCHANGED <<entries, versions>>
  PROVE  AnswersInv'
<1>1. CallTrue(Return(t, Failed), entries, versions)
  BY ReturnAnswers DEF Failed
<1> QED  BY <1>1, OneCallMoves

\* What a lookup or the second step of a registration delivers is a true result.
LEMMA DeliveredTrue ==
  ASSUME NEW t, t.call \in Calls, NEW s,
         \/ t.call.call \in LookupCalls /\ IsWanted(Wanted(t.call), s, entries, versions)
         \/ /\ t.call.call \in RegistrationCalls /\ s = entries[t.id]
            /\ RegisteredAs(t.call, t.id, entries, versions),
         Delivered(t, s).ok
  PROVE  ResultTrue(t.call, Delivered(t, s), entries, versions)
<1> DEFINE k == t.call
           r == Delivered(t, s)
<1>1. CASE k.call = "DecodeHeaders"
  <2>1. Wanted(k) = Designation(k.message)
    BY <1>1 DEF Wanted
  <2>2. r.schema = s /\ r.data = Wanted(k).datum
    BY <1>1, <2>1 DEF Delivered, DecodeDatum, Failed
  <2>3. IsWanted(Wanted(k), s, entries, versions)
    BY <1>1 DEF RegistrationCalls
  <2> HIDE DEF r
  <2>4. ResultTrue(k, r, entries, versions)
    BY <1>1, <2>2, <2>3 DEF ResultTrue, VersionCalls, RegistrationCalls
  <2> QED  BY <2>4 DEF r
<1>2. CASE k.call # "DecodeHeaders"
  <2>1. r.schema = s /\ r.id = t.id
    BY <1>2 DEF Delivered
  <2> HIDE DEF r
  <2>2. ResultTrue(k, r, entries, versions)
    BY <1>2, <2>1 DEF ResultTrue, VersionCalls, RegistrationCalls, LookupCalls
  <2> QED  BY <2>2 DEF r
<1> QED  BY <1>1, <1>2

\* The first step of GetSchema finds the schema in the cache or asks for it.
LEMMA GetSchemaAnswers ==
  ASSUME ClientInv, NEW t, IsTask(t), t.call \in Calls, NEW id,
         WantsId(t, id, entries, versions)
  PROVE  CallTrue(GetSchema(t, id), entries, versions)
<1>1. CASE id \in Keys(cache)
  <2> DEFINE s == Lookup(cache, id)
  <2>1. id \in DOMAIN entries /\ s = entries[id]
    BY <1>1 DEF Keys, Lookup, ClientInv, CacheTrue
  <2>2. \/ t.call.call \in LookupCalls /\ IsWanted(Wanted(t.call), s, entries, versions)
        \/ /\ t.call.call \in RegistrationCalls /\ s = entries[t.id]
           /\ RegisteredAs(t.call, t.id, entries, versions)
    BY <2>1 DEF WantsId, IsWanted
  <2> HIDE DEF s
  <2>3. CallTrue(Return(t, Delivered(t, s)), entries, versions)
    BY <2>2, DeliveredTrue, ReturnAnswers
  <2> QED  BY <1>1, <2>3 DEF GetSchema, s
<1>2. CASE id \notin Keys(cache)
  <2> DEFINE r == [get |-> "id", id |-> id]
  <2>1. r.get = "id" /\ r.id = id
    OBVIOUS
  <2> HIDE DEF r
  <2>2. CallTrue(Request(t, r), entries, versions)
    BY <2>1, RequestAnswers DEF Asks
  <2> QED  BY <1>2, <2>2 DEF GetSchema, r
<1> QED  BY <1>1, <1>2

LEMMA GetSchemaByGUIDAnswers ==
  ASSUME ClientInv, NEW t, IsTask(t), t.call \in Calls, NEW spelling,
         WantsGUID(t.call, spelling.guid), ToLower(spelling) = Key(spelling.guid)
  PROVE  CallTrue(GetSchemaByGUID(t, spelling), entries, versions)
<1> DEFINE key == Key(spelling.guid)
<1>1. key.guid = spelling.guid
  BY DEF Key
<1>2. CASE key \in Keys(guidCache)
  <2> DEFINE s == Lookup(guidCache, key)
  <2>1. MeansIn(spelling.guid, s, entries, versions)
    <3>1. PICK p \in guidCache : p[1] = key /\ s = p[2]
      BY <1>2 DEF Keys, Lookup
    <3> QED  BY <1>1, <3>1 DEF ClientInv, GuidCacheTrue
  <2>2. t.call.call \in LookupCalls /\ IsWanted(Wanted(t.call), s, entries, versions)
    BY <2>1 DEF WantsGUID, IsWanted, ByGUID, LookupCalls
  <2> HIDE DEF s
  <2>3. CallTrue(Return(t, Delivered(t, s)), entries, versions)
    BY <2>2, DeliveredTrue, ReturnAnswers
  <2> QED  BY <1>2, <2>3 DEF GetSchemaByGUID, s
<1>3. CASE key \notin Keys(guidCache)
  <2> DEFINE r == [get |-> "guid", guid |-> key.guid]
             u == [t EXCEPT !.key = key]
  <2>1. r.get = "guid" /\ r.guid = spelling.guid /\ IsTask(u) /\ u.call = t.call
    BY <1>1 DEF IsTask, Fields
  <2> HIDE DEF r, u
  <2>2. CallTrue(Request(u, r), entries, versions)
    BY <2>1, RequestAnswers DEF Asks
  <2> QED  BY <1>3, <2>2 DEF GetSchemaByGUID, r, u
<1> QED  BY <1>2, <1>3

LEMMA BeginLookupAnswers ==
  ASSUME ClientInv, AnswersInv, NEW c \in Callers, BeginLookup(c)
  PROVE  AnswersInv'
<1> DEFINE Lookups == {k \in Calls : k.call \in {"GetSchema", "GetSchemaByGUID", "DecodeHeaders"}}
<1>1. PICK k \in Lookups :
        /\ Beginning(c)
        /\ LET w == Wanted(k)
               t == [Idle EXCEPT !.call = k, !.warm = Known(w)]
           IN Set(c, CASE w.by = "none" -> Return(t, Failed)
                       [] w.by = "id"   -> GetSchema(t, w.id)
                       [] w.by = "guid" -> GetSchemaByGUID(t, w.spelling))
  BY DEF BeginLookup
<1> DEFINE w == Wanted(k)
           t == [Idle EXCEPT !.call = k, !.warm = Known(w)]
<1>2. UNCHANGED <<entries, versions>>
  BY <1>1 DEF Beginning, registry
<1>3. IsTask(t) /\ t.call = k
  BY DEF Idle, IsTask, Fields
<1>4. w.by \in {"none", "id", "guid"}
  BY DEF Wanted, Designation
<1>5. k.call \in LookupCalls
  BY DEF LookupCalls
<1>6. w.by = "guid" => k.call \in ByGUID
  BY DEF Wanted, ByGUID
<1> HIDE DEF t
<1>7. CASE w.by = "none"
  <2>1. Set(c, Return(t, Failed))
    BY <1>1, <1>7 DEF t
  <2> QED  BY <1>2, <1>3, <2>1, FailureAnswers
<1>8. CASE w.by = "id"
  <2>1. Set(c, GetSchema(t, w.id))
    BY <1>1, <1>8 DEF t
  <2>2. WantsId(t, w.id, entries, versions)
    BY <1>3, <1>5, <1>8 DEF WantsId
  <2> QED  BY <1>2, <1>3, <2>1, <2>2, GetSchemaAnswers, OneCallMoves
<1>9. CASE w.by = "guid"
  <2>1. ToLower(w.spelling) = Key(w.spelling.guid)
    <3>1. w.spelling = [guid |-> w.spelling.guid, upper |-> w.spelling.upper,
                        wellFormed |-> TRUE]
      BY <1>9, SpellingsAssumption DEF SpellingsAssumption
    <3> QED  BY <3>1, LowerCase
  <2>2. Set(c, GetSchemaByGUID(t, w.spelling))
    BY <1>1, <1>9 DEF t
  <2>3. WantsGUID(t.call, w.spelling.guid)
    BY <1>3, <1>6, <1>9 DEF WantsGUID
  <2> QED  BY <1>2, <1>3, <2>1, <2>2, <2>3, GetSchemaByGUIDAnswers, OneCallMoves
<1> QED  BY <1>4, <1>7, <1>8, <1>9

LEMMA FreshRequestAnswers ==
  ASSUME ClientInv, AnswersInv, NEW c \in Callers, NEW k \in Calls, NEW r,
         \A t : t.call = k => Asks(t, r, entries, versions),
         Set(c, Request([Idle EXCEPT !.call = k], r)), UNCHANGED <<entries, versions>>
  PROVE  AnswersInv'
<1> DEFINE t == [Idle EXCEPT !.call = k]
<1>1. IsTask(t) /\ t.call = k
  BY DEF Idle, IsTask, Fields
<1>2. Set(c, Request(t, r))
  OBVIOUS
<1> HIDE DEF t
<1>3. CallTrue(Request(t, r), entries, versions)
  BY <1>1, RequestAnswers
<1> QED  BY <1>2, <1>3, OneCallMoves

LEMMA BeginVersionAnswers ==
  ASSUME ClientInv, AnswersInv, NEW c \in Callers, BeginVersion(c)
  PROVE  AnswersInv'
<1>1. PICK k \in {k \in Calls : k.call \in {"GetSchemaByVersion", "GetSchemaInfo"}} :
        /\ Beginning(c)
        /\ Set(c, Request([Idle EXCEPT !.call = k],
                          [get |-> "version", subject |-> k.subject, version |-> k.version]))
  BY DEF BeginVersion
<1> DEFINE r == [get |-> "version", subject |-> k.subject, version |-> k.version]
<1>2. r.get = "version" /\ r.subject = k.subject /\ r.version = k.version
  OBVIOUS
<1>3. UNCHANGED <<entries, versions>> /\ Set(c, Request([Idle EXCEPT !.call = k], r))
  BY <1>1 DEF Beginning, registry
<1> HIDE DEF r
<1>4. ASSUME NEW t, t.call = k PROVE Asks(t, r, entries, versions)
  BY <1>2, <1>4 DEF Asks, VersionCalls
<1> QED  BY <1>3, <1>4, FreshRequestAnswers

LEMMA BeginRegistrationAnswers ==
  ASSUME ClientInv, AnswersInv, NEW c \in Callers, BeginRegistration(c)
  PROVE  AnswersInv'
<1>1. PICK k \in {k \in Calls : k.call \in {"CreateSchema", "IsRegistered", "DeleteSubject"}} :
        /\ Beginning(c)
        /\ Set(c, Request([Idle EXCEPT !.call = k],
             IF k.call = "DeleteSubject" THEN [get |-> "delete", subject |-> k.subject]
             ELSE [get |-> IF k.call = "CreateSchema" THEN "create" ELSE "registered",
                   subject |-> k.subject, doc |-> k.doc, refs |-> k.refs]))
  BY DEF BeginRegistration
<1> DEFINE r == IF k.call = "DeleteSubject" THEN [get |-> "delete", subject |-> k.subject]
                ELSE [get |-> IF k.call = "CreateSchema" THEN "create" ELSE "registered",
                      subject |-> k.subject, doc |-> k.doc, refs |-> k.refs]
<1>2. \/ r.get = "delete" /\ k.call = "DeleteSubject"
      \/ /\ r.get \in {"create", "registered"} /\ k.call \in RegistrationCalls
         /\ r.subject = k.subject /\ r.doc = k.doc /\ r.refs = k.refs
  BY DEF RegistrationCalls
<1>3. UNCHANGED <<entries, versions>> /\ Set(c, Request([Idle EXCEPT !.call = k], r))
  BY <1>1 DEF Beginning, registry
<1> HIDE DEF r
<1>4. ASSUME NEW t, t.call = k PROVE Asks(t, r, entries, versions)
  BY <1>2, <1>4 DEF Asks
<1> QED  BY <1>3, <1>4, FreshRequestAnswers

\* What a task waits for when its answer has arrived.
LEMMA Answering ==
  ASSUME AnswersInv, NEW c \in Callers, task[c].pc = "answered"
  PROVE  /\ Asks(task[c], task[c].req, entries, versions)
         /\ task[c].call \in Calls
         /\ task[c].resp.ok =>
              Tells(task[c].call, task[c].req, task[c].resp, entries, versions)
BY DEF AnswersInv, CallTrue, Asks

LEMMA HandleSchemaAnswers ==
  ASSUME ClientInv, AnswersInv, NEW c \in Callers, HandleSchema(c)
  PROVE  AnswersInv'
<1> DEFINE t == task[c]
           s == t.resp.schema
<1>1. t.pc = "answered" /\ t.req.get = "id" /\ UNCHANGED <<entries, versions>>
  BY DEF HandleSchema, Handling, registry
<1>2. t.call \in Calls /\ WantsId(t, t.req.id, entries, versions)
  BY <1>1, Answering DEF Asks
<1>3. CASE ~t.resp.ok
  <2>1. Set(c, Return(t, Failed))
    BY <1>3 DEF HandleSchema
  <2> QED  BY <1>1, <1>2, <2>1, FailureAnswers
<1>4. CASE t.resp.ok
  <2>1. Set(c, Return(t, Delivered(t, s)))
    BY <1>4 DEF HandleSchema
  <2>2. t.req.id \in DOMAIN entries /\ s = entries[t.req.id]
    BY <1>1, <1>4, UnderWay DEF AnswerTrue
  <2>3. \/ t.call.call \in LookupCalls /\ IsWanted(Wanted(t.call), s, entries, versions)
        \/ /\ t.call.call \in RegistrationCalls /\ s = entries[t.id]
           /\ RegisteredAs(t.call, t.id, entries, versions)
    BY <1>2, <2>2 DEF WantsId, IsWanted
  <2>4. CallTrue(Return(t, Delivered(t, s)), entries, versions)
    BY <1>2, <2>3, DeliveredTrue, ReturnAnswers
  <2> QED  BY <1>1, <2>1, <2>4, OneCallMoves
<1> QED  BY <1>3, <1>4

\* The loop of GetSchemaByGUID: its last step delivers what the GUID means.
LEMMA ReferencesAnswer ==
  ASSUME ClientInv, AnswersInv, NEW c \in Callers, NEW t, IsTask(t), t.call \in Calls,
         WantsGUID(t.call, t.key.guid), Collecting(t, entries, versions),
         References(c, t), UNCHANGED <<entries, versions>>
  PROVE  AnswersInv'
<1>1. CASE t.next \in DOMAIN t.text.refs
  <2> DEFINE ref == t.text.refs[t.next]
             r == [get |-> "version", subject |-> ref.subject, version |-> ref.version]
  <2>1. CASE ValidReference(t, ref)
    <3>1. Set(c, Request(t, r)) /\ r.get = "version"
      BY <1>1, <2>1 DEF References
    <3> HIDE DEF r
    <3>2. CallTrue(Request(t, r), entries, versions)
      BY <3>1, RequestAnswers DEF Asks
    <3> QED  BY <3>1, <3>2, OneCallMoves
  <2>2. CASE ~ValidReference(t, ref)
    <3>1. Set(c, Return(t, Failed))
      BY <1>1, <2>2 DEF References
    <3> QED  BY <3>1, FailureAnswers
  <2> QED  BY <2>1, <2>2
<1>2. CASE t.next \notin DOMAIN t.text.refs
  <2> DEFINE s == Parse(t.text.doc, t.names)
  <2>1. Set(c, Return(t, IF s.ok THEN Delivered(t, s.schema) ELSE Failed))
    BY <1>2 DEF References
  <2>2. CASE ~s.ok
    BY <2>1, <2>2, FailureAnswers
  <2>3. CASE s.ok
    <3>1. MeansIn(t.key.guid, s.schema, entries, versions)
      BY <2>3, ParsedIsMeant DEF Collecting
    <3>2. t.call.call \in LookupCalls
      BY DEF WantsGUID, ByGUID, LookupCalls
    <3>3. IsWanted(Wanted(t.call), s.schema, entries, versions)
      BY <3>1 DEF WantsGUID, IsWanted
    <3> HIDE DEF s
    <3>4. CallTrue(Return(t, Delivered(t, s.schema)), entries, versions)
      BY <3>2, <3>3, DeliveredTrue, ReturnAnswers
    <3> QED  BY <2>1, <2>3, <3>4, OneCallMoves
  <2> QED  BY <2>2, <2>3
<1> QED  BY <1>1, <1>2

LEMMA HandleGUIDAnswers ==
  ASSUME ClientInv, AnswersInv, NEW c \in Callers, HandleGUID(c)
  PROVE  AnswersInv'
<1> DEFINE t == task[c]
           u == [t EXCEPT !.text = t.resp.text, !.next = 1]
           bad == ~t.resp.ok \/ ~t.resp.text.avro \/ Len(t.resp.text.refs) > MaxReferences
<1>1. t.pc = "answered" /\ t.req.get = "guid" /\ UNCHANGED <<entries, versions>>
  BY DEF HandleGUID, Handling, registry
<1>2. t.call \in Calls /\ WantsGUID(t.call, t.req.guid)
  BY <1>1, Answering DEF Asks
<1>3. CASE bad
  <2>1. Set(c, Return(t, Failed))
    BY <1>3 DEF HandleGUID
  <2> QED  BY <1>1, <1>2, <2>1, FailureAnswers
<1>4. CASE ~bad
  <2>1. References(c, u)
    BY <1>4 DEF HandleGUID
  <2>2. t.req.guid \in DOMAIN Guids /\ t.resp.text = Guids[t.req.guid]
    BY <1>1, <1>4, UnderWay DEF AnswerTrue
  <2>3. t.key = Key(t.req.guid) /\ t.names = {} /\ IsTask(t)
    BY <1>1, UnderWay DEF ClientInv, TaskTrue
  <2>4. /\ IsTask(u) /\ u.call = t.call /\ u.key = t.key /\ u.names = t.names
        /\ u.text = t.resp.text
    BY <2>3 DEF IsTask, Fields
  <2>5. u.key.guid = t.req.guid
    BY <2>3, <2>4 DEF Key
  <2> HIDE DEF u
  <2>6. Collecting(u, entries, versions)
    BY <1>4, <2>2, <2>3, <2>4, <2>5 DEF Collecting, NamesTrue
  <2> QED  BY <1>1, <1>2, <2>1, <2>4, <2>5, <2>6, ReferencesAnswer
<1> QED  BY <1>3, <1>4

LEMMA HandleReferenceAnswers ==
  ASSUME ClientInv, AnswersInv, NEW c \in Callers, HandleReference(c)
  PROVE  AnswersInv'
<1> DEFINE t == task[c]
           ref == Reference(t)
           u == Collected(t)
           bad == ~t.resp.ok \/ t.resp.schema.doc.name # ref.name
<1>1. /\ t.pc = "answered" /\ t.req.get = "version" /\ t.call.call \in ByGUID
      /\ UNCHANGED <<entries, versions>>
  BY DEF HandleReference, Handling, ByGUID, registry
<1>2. t.call \in Calls /\ WantsGUID(t.call, t.key.guid)
  BY <1>1, Answering DEF Asks, VersionCalls, ByGUID
<1>3. CASE bad
  <2>1. Set(c, Return(t, Failed))
    BY <1>3 DEF HandleReference, Reference
  <2> QED  BY <1>1, <1>2, <2>1, FailureAnswers
<1>4. CASE ~bad
  <2>1. References(c, u)
    BY <1>4 DEF HandleReference, Reference, Collected
  <2>2. /\ IsTask(u) /\ u.call = t.call /\ u.key = t.key
        /\ Collecting(u, entries, versions)
    BY <1>1, <1>4, ReferenceCollected
  <2> HIDE DEF u
  <2> QED  BY <1>1, <1>2, <2>1, <2>2, ReferencesAnswer
<1> QED  BY <1>3, <1>4

LEMMA HandleVersionAnswers ==
  ASSUME ClientInv, AnswersInv, NEW c \in Callers, HandleVersion(c)
  PROVE  AnswersInv'
<1> DEFINE t == task[c]
           a == t.resp
           bad == ~a.ok \/ (t.call.call = "GetSchemaInfo" /\ a.id = None)
           r == [ok |-> TRUE, schema |-> a.schema, id |-> a.id]
<1>1. /\ t.pc = "answered" /\ t.req.get = "version" /\ t.call.call \in VersionCalls
      /\ UNCHANGED <<entries, versions>>
  BY DEF HandleVersion, Handling, VersionCalls, registry
<1>2. t.call \in Calls
  BY <1>1, Answering
<1>3. CASE bad
  <2>1. Set(c, Return(t, Failed))
    BY <1>3 DEF HandleVersion
  <2> QED  BY <1>1, <1>2, <2>1, FailureAnswers
<1>4. CASE ~bad
  <2>1. Set(c, Return(t, r))
    BY <1>4 DEF HandleVersion
  <2>2. VersionTrue(t.call, a, entries, versions)
    BY <1>1, <1>4, Answering DEF Tells
  <2>3. r.schema = a.schema /\ r.id = a.id
    OBVIOUS
  <2> HIDE DEF r
  <2>4. VersionTrue(t.call, r, entries, versions)
    BY <2>2, <2>3 DEF VersionTrue
  <2>5. ResultTrue(t.call, r, entries, versions)
    BY <1>1, <1>4, <2>3, <2>4 DEF ResultTrue, LookupCalls, VersionCalls, RegistrationCalls
  <2>6. CallTrue(Return(t, r), entries, versions)
    BY <1>2, <2>5, ReturnAnswers
  <2> QED  BY <1>1, <2>1, <2>6, OneCallMoves
<1> QED  BY <1>3, <1>4

\* A schema registered without references is its document alone.
LEMMA RegisteredAlone ==
  ASSUME NEW k \in Calls, k.call \in RegistrationCalls, Len(k.refs) = 0,
         NEW id, RegisteredAs(k, id, entries, versions)
  PROVE  entries[id] = [doc |-> k.doc, binds |-> {}]
<1>1. k.refs \in Seq({k.refs[i] : i \in DOMAIN k.refs})
  BY CallsAssumption DEF CallsAssumption, RegistrationCalls
<1>2. DOMAIN k.refs = {}
  BY <1>1
<1>3. BoundIn(k.refs, entries, versions) = {}
  BY <1>2 DEF BoundIn
<1>4. {p \in BoundIn(k.refs, entries, versions) : p[1] \in k.doc.uses} = {}
  BY <1>3
<1> QED  BY <1>4 DEF RegisteredAs, AsBound

LEMMA HandleRegistrationAnswers ==
  ASSUME ClientInv, AnswersInv, NEW c \in Callers, HandleRegistration(c)
  PROVE  AnswersInv'
<1> DEFINE t == task[c]
           id == t.resp.id
           got == [t EXCEPT !.id = id]
           r == [ok |-> TRUE, id |-> id, schema |-> [doc |-> t.call.doc, binds |-> {}]]
<1>1. /\ t.pc = "answered" /\ t.req.get \in {"create", "registered"}
      /\ UNCHANGED <<entries, versions>>
  BY DEF HandleRegistration, Handling, registry
<1>2. t.call \in Calls /\ t.call.call \in RegistrationCalls
  BY <1>1, Answering DEF Asks
<1>3. CASE ~t.resp.ok \/ id = None
  <2>1. Set(c, Return(t, Failed))
    BY <1>3 DEF HandleRegistration
  <2> QED  BY <1>1, <1>2, <2>1, FailureAnswers
<1>4. CASE t.resp.ok /\ id # None
  <2>1. RegisteredAs(t.call, id, entries, versions)
    BY <1>1, <1>4, Answering DEF Tells
  <2>2. IsTask(got) /\ got.call = t.call /\ got.id = id
    BY <1>1, UnderWay DEF IsTask, Fields
  <2>3. CASE Len(t.call.refs) = 0
    <3>1. Set(c, Return(got, r))
      BY <1>4, <2>3 DEF HandleRegistration
    <3>2. r.id = id /\ r.schema = entries[id]
      BY <1>2, <2>1, <2>3, RegisteredAlone
    <3> HIDE DEF r, got
    <3>3. ResultTrue(got.call, r, entries, versions)
      BY <1>2, <2>1, <2>2, <3>2 DEF ResultTrue, LookupCalls, VersionCalls, RegistrationCalls
    <3>4. CallTrue(Return(got, r), entries, versions)
      BY <1>2, <2>2, <3>3, ReturnAnswers
    <3> QED  BY <1>1, <3>1, <3>4, OneCallMoves
  <2>4. CASE Len(t.call.refs) # 0
    <3>1. Set(c, GetSchema(got, id))
      BY <1>4, <2>4 DEF HandleRegistration
    <3> HIDE DEF got
    <3>2. WantsId(got, id, entries, versions)
      BY <1>2, <2>1, <2>2 DEF WantsId
    <3> QED  BY <1>1, <1>2, <2>2, <3>1, <3>2, GetSchemaAnswers, OneCallMoves
  <2> QED  BY <2>3, <2>4
<1> QED  BY <1>3, <1>4

LEMMA HandleDeleteAnswers ==
  ASSUME ClientInv, AnswersInv, NEW c \in Callers, HandleDelete(c)
  PROVE  AnswersInv'
<1> DEFINE t == task[c]
           r == [ok |-> t.resp.ok]
<1>1. /\ t.pc = "answered" /\ t.req.get = "delete" /\ Set(c, Return(t, r))
      /\ UNCHANGED <<entries, versions>>
  BY DEF HandleDelete, Handling, registry
<1>2. t.call \in Calls /\ t.call.call = "DeleteSubject"
  BY <1>1, Answering DEF Asks
<1>3. ResultTrue(t.call, r, entries, versions)
  BY <1>2 DEF ResultTrue, LookupCalls, VersionCalls, RegistrationCalls
<1>4. CallTrue(Return(t, r), entries, versions)
  BY <1>2, <1>3, ReturnAnswers
<1> QED  BY <1>1, <1>4, OneCallMoves

\* An answer that tells what the registry has, or a failure, keeps the task true.
LEMMA AnsweredTells ==
  ASSUME NEW t, IsTask(t), t.pc = "sent", NEW es, NEW vs, CallTrue(t, es, vs),
         NEW a, a.ok => Tells(t.call, t.req, a, es, vs)
  PROVE  CallTrue([t EXCEPT !.pc = "answered", !.resp = a], es, vs)
<1> DEFINE u == [t EXCEPT !.pc = "answered", !.resp = a]
<1>1. /\ u.pc = "answered" /\ u.resp = a /\ u.req = t.req /\ u.call = t.call
      /\ u.key = t.key /\ u.id = t.id
  BY DEF IsTask, Fields
<1> HIDE DEF u
<1>2. CallTrue(u, es, vs)
  BY <1>1 DEF CallTrue, Asks, WantsId
<1> QED  BY <1>2 DEF u

LEMMA AnsweredMoves ==
  ASSUME ClientInv, AnswersInv, NEW c \in Callers, task[c].pc = "sent",
         NEW a, a.ok => Tells(task[c].call, task[c].req, a, entries, versions),
         Answered(c, a), UNCHANGED <<entries, versions>>
  PROVE  AnswersInv'
<1>1. IsTask(task[c]) /\ CallTrue(task[c], entries, versions)
  BY DEF ClientInv, TaskTrue, AnswersInv
<1>2. CallTrue([task[c] EXCEPT !.pc = "answered", !.resp = a], entries, versions)
  BY <1>1, AnsweredTells
<1> QED  BY <1>2, OneCallMoves DEF Answered

\* The references of a registration that exist stand for schemas of the registry.
LEMMA ReferencesOfCall ==
  ASSUME ClientInv, NEW k \in Calls, k.call \in RegistrationCalls, RefsExist(k.refs),
         Parse(k.doc, Bound(k.refs)).ok
  PROVE  /\ RefsIn(k.refs, entries, versions)
         /\ Parse(k.doc, Bound(k.refs)).schema = AsBound(k, entries, versions)
<1>1. RefsIn(k.refs, entries, versions)
  <2>1. \A i \in DOMAIN k.refs : k.refs[i].subject \in Subjects
    BY CallsAssumption DEF CallsAssumption, RegistrationCalls
  <2> QED  BY <2>1 DEF RefsExist, HasVersion, RefsIn, ClientInv, RegistryTrue
<1>2. Bound(k.refs) = BoundIn(k.refs, entries, versions)
  BY DEF Bound, BoundIn, SchemaOf
<1> QED  BY <1>1, <1>2 DEF Parse, Schema, Failed, AsBound

\* What the registry answers tells what it has.
LEMMA AnswerTells ==
  ASSUME ClientInv, NEW t, Asks(t, t.req, entries, versions), Answer(t.req).ok,
         t.req.get \in {"id", "guid", "version", "registered"}
  PROVE  Tells(t.call, t.req, Answer(t.req), entries, versions)
<1> DEFINE r == t.req
           k == t.call
           a == Answer(r)
<1>1. k \in Calls
  BY DEF Asks
<1>2. CASE r.get = "version" /\ k.call \in VersionCalls
  <2> DEFINE v == IF r.version = 0 THEN Len(versions[r.subject]) ELSE r.version
  <2>1. r.subject = k.subject /\ r.version = k.version
    BY <1>2 DEF Asks, WantsGUID, ByGUID, VersionCalls
  <2>2. a = IF HasVersion(r.subject, v)
              THEN [ok |-> TRUE, schema |-> SchemaOf(r.subject, v), id |-> versions[r.subject][v]]
              ELSE Failed
    BY <1>2 DEF Answer
  <2>3. HasVersion(r.subject, v)
    BY <2>2 DEF Failed
  <2>4. a.schema = SchemaOf(r.subject, v) /\ a.id = versions[r.subject][v]
    BY <2>2, <2>3
  <2>5. k.subject \in Subjects
    BY <1>1, <1>2, CallsAssumption DEF CallsAssumption, VersionCalls
  <2>6. v \in DOMAIN versions[k.subject] /\ k.version \in {0, v}
    BY <2>1, <2>3 DEF HasVersion
  <2> HIDE DEF a, v
  <2>7. IsVersion(entries, versions, k.subject, v, a.schema)
    BY <2>1, <2>4, <2>5, <2>6 DEF IsVersion, ClientInv, RegistryTrue, SchemaOf
  <2>8. VersionTrue(k, a, entries, versions)
    BY <2>1, <2>4, <2>6, <2>7 DEF VersionTrue
  <2> QED  BY <1>2, <2>8 DEF Tells, a
<1>3. CASE r.get = "registered"
  <2> DEFINE parsed == Parse(r.doc, Bound(r.refs))
             s == parsed.schema
             has == \E v \in DOMAIN versions[r.subject] :
                      HasVersion(r.subject, v) /\ SchemaOf(r.subject, v) = s
  <2>1. /\ k.call \in RegistrationCalls /\ r.subject = k.subject
        /\ r.doc = k.doc /\ r.refs = k.refs
    BY <1>3 DEF Asks
  <2>2. a = IF RefsExist(r.refs) /\ parsed.ok
              THEN IF has THEN [ok |-> TRUE, id |-> IdIn(entries, s)] ELSE Failed
              ELSE Failed
    BY <1>3 DEF Answer
  <2>3. RefsExist(r.refs) /\ parsed.ok /\ has
    BY <2>2 DEF Failed
  <2>4. a.id = IdIn(entries, s)
    BY <2>2, <2>3
  <2>5. k.subject \in Subjects
    BY <1>1, <2>1, CallsAssumption DEF CallsAssumption, RegistrationCalls
  <2>6. \E i \in DOMAIN entries : entries[i] = s
    BY <2>1, <2>3, <2>5 DEF HasVersion, SchemaOf, ClientInv, RegistryTrue
  <2>7. IdIn(entries, s) \in DOMAIN entries /\ entries[IdIn(entries, s)] = s
    BY <2>6 DEF IdIn
  <2>8. RefsIn(k.refs, entries, versions) /\ s = AsBound(k, entries, versions)
    BY <1>1, <2>1, <2>3, ReferencesOfCall
  <2>9. RegisteredAs(k, a.id, entries, versions)
    BY <2>4, <2>7, <2>8 DEF RegisteredAs
  <2> QED  BY <1>3, <2>9 DEF Tells
<1> QED  BY <1>2, <1>3 DEF Tells

LEMMA ServeAnswers ==
  ASSUME ClientInv, AnswersInv, NEW c \in Callers, Serve(c)
  PROVE  AnswersInv'
<1> DEFINE t == task[c]
           r == t.req
           a == Answer(r)
           answers == IF a.ok /\ "id" \in DOMAIN a THEN {a, [a EXCEPT !.id = None]} ELSE {a}
<1>1. /\ t.pc = "sent" /\ r.get \in {"id", "guid", "version", "registered"}
      /\ UNCHANGED <<entries, versions>>
  BY DEF Serve, registry
<1>2. PICK b \in answers : Answered(c, b)
  BY DEF Serve
<1>3. Asks(t, r, entries, versions)
  BY <1>1 DEF AnswersInv, CallTrue
<1>4. a.ok => Tells(t.call, r, a, entries, versions)
  BY <1>1, <1>3, AnswerTells
<1>5. b.ok = a.ok /\ b.schema = a.schema /\ (b.id = a.id \/ b.id = None)
  <2>1. CASE b = a
    BY <2>1
  <2>2. CASE b # a
    <3>1. b = [a EXCEPT !.id = None] /\ "id" \in DOMAIN a
      BY <1>2, <2>2
    <3> QED  BY <3>1
  <2> QED  BY <2>1, <2>2
<1> HIDE DEF a
<1>6. b.ok => Tells(t.call, r, b, entries, versions)
  BY <1>4, <1>5 DEF Tells, VersionTrue
<1> QED  BY <1>1, <1>2, <1>6, AnsweredMoves

LEMMA FailAnswers ==
  ASSUME ClientInv, AnswersInv, NEW c \in Callers, Fail(c)
  PROVE  AnswersInv'
<1>1. ~Failed.ok
  BY DEF Failed
<1> QED  BY <1>1, AnsweredMoves DEF Fail, registry

LEMMA ServeDeleteAnswers ==
  ASSUME ClientInv, AnswersInv, NEW c \in Callers, ServeDelete(c)
  PROVE  AnswersInv'
<1>1. task[c].pc = "sent" /\ task[c].req.get = "delete" /\ UNCHANGED <<entries, versions>>
  BY DEF ServeDelete
<1>2. PICK a : Answered(c, a)
  BY DEF ServeDelete
<1>3. Tells(task[c].call, task[c].req, a, entries, versions)
  BY <1>1 DEF Tells
<1> QED  BY <1>1, <1>2, <1>3, AnsweredMoves

\* A schema that was registered is in the registry under the id answered, as
\* the call's own references bind it.
LEMMA ServeCreateAnswers ==
  ASSUME ClientInv, AnswersInv, NEW c \in Callers, ServeCreate(c)
  PROVE  AnswersInv'
<1> DEFINE t == task[c]
           r == t.req
           k == t.call
           s == Parse(r.doc, Bound(r.refs)).schema
           id == IdIn(entries', s)
           refused == ~RefsExist(r.refs) \/ ~Parse(r.doc, Bound(r.refs)).ok
<1>1. t.pc = "sent" /\ r.get = "create" /\ IsTask(t) /\ CallTrue(t, entries, versions)
  BY DEF ServeCreate, ClientInv, TaskTrue, AnswersInv
<1>2. /\ k \in Calls /\ k.call \in RegistrationCalls
      /\ r.doc = k.doc /\ r.refs = k.refs
  BY <1>1 DEF CallTrue, Asks
<1>3. CASE refused
  <2>1. Answered(c, Failed) /\ UNCHANGED <<entries, versions>>
    BY <1>3 DEF ServeCreate
  <2> QED  BY <1>1, <2>1, AnsweredMoves DEF Failed
<1>4. CASE ~refused
  <2>1. Grows(entries, versions, entries', versions')
    BY <1>4, CreationStores
  <2>2. id \in DOMAIN entries' /\ entries'[id] = s
    BY <1>4, CreationStores
  <2>3. PICK a \in {Failed, [ok |-> TRUE, id |-> id]} : Answered(c, a)
    BY <1>4, CreationStores
  <2>4. RefsIn(k.refs, entries, versions) /\ s = AsBound(k, entries, versions)
    BY <1>2, <1>4, ReferencesOfCall
  <2>5. RefsIn(k.refs, entries', versions') /\ s = AsBound(k, entries', versions')
    BY <2>1, <2>4, BoundStays
  <2>6. RegisteredAs(k, id, entries', versions')
    BY <2>2, <2>5 DEF RegisteredAs
  <2>7. a.ok => Tells(k, r, a, entries', versions')
    BY <1>1, <2>3, <2>6 DEF Tells, Failed
  <2>8. CallTrue(t, entries', versions')
    BY <1>1, <2>1, CallStaysTrue
  <2>9. CallTrue([t EXCEPT !.pc = "answered", !.resp = a], entries', versions')
    <3> HIDE DEF id, s
    <3> QED  BY <1>1, <2>7, <2>8, AnsweredTells
  <2>10. ASSUME NEW d \in Callers PROVE CallTrue(task'[d], entries', versions')
    <3>1. CASE d = c
      BY <2>3, <2>9, <3>1 DEF Answered, Set, ClientInv
    <3>2. CASE d # c
      <4>1. task'[d] = task[d]
        BY <2>3, <3>2 DEF Answered, Set, ClientInv
      <4> QED  BY <2>1, <4>1, CallStaysTrue DEF AnswersInv
    <3> QED  BY <3>1, <3>2
  <2> QED  BY <2>10 DEF AnswersInv
<1> QED  BY <1>3, <1>4

LEMMA NextAnswers ==
  ASSUME ClientInv, AnswersInv, [Next]_vars
  PROVE  AnswersInv'
<1>1. CASE UNCHANGED vars
  BY <1>1 DEF AnswersInv, vars, registry
<1>2. ASSUME NEW c \in Callers, BeginLookup(c) \/ BeginVersion(c) \/ BeginRegistration(c)
      PROVE  AnswersInv'
  BY <1>2, BeginLookupAnswers, BeginVersionAnswers, BeginRegistrationAnswers
<1>3. ASSUME NEW c \in Callers, Registry(c) PROVE AnswersInv'
  BY <1>3, ServeAnswers, FailAnswers, ServeCreateAnswers, ServeDeleteAnswers DEF Registry
<1>4. ASSUME NEW c \in Callers, Client(c) PROVE AnswersInv'
  BY <1>4, HandleSchemaAnswers, HandleGUIDAnswers, HandleReferenceAnswers,
     HandleVersionAnswers, HandleRegistrationAnswers, HandleDeleteAnswers DEF Client
<1> QED  BY <1>1, <1>2, <1>3, <1>4 DEF Next

LEMMA InitAnswers ==
  ASSUME Init
  PROVE  AnswersInv
<1>1. Idle.pc = "idle" /\ Idle.call = None
  BY DEF Idle
<1> QED  BY <1>1 DEF Init, AnswersInv, CallTrue

LEMMA MeantIsMeans ==
  ASSUME NEW g, NEW s, MeansIn(g, s, entries, versions)
  PROVE  Means(g, s)
BY DEF Means, MeansIn, Binds, IsVersion, SchemaOf

LEMMA AnswersImplied ==
  ASSUME ClientInv, AnswersInv
  PROVE  AnswersAreRegistered
<1> SUFFICES ASSUME NEW c \in Callers,
                    Returned(c), task[c].result.ok
             PROVE  LET k == task[c].call
                        r == task[c].result
                    IN
      /\ k.call = "GetSchema" => r.schema = entries[k.id]
      /\ k.call = "GetSchemaByGUID" => Means(k.spelling.guid, r.schema)
      /\ k.call \in VersionCalls =>
           \E v \in DOMAIN versions[k.subject] :
             k.version \in {0, v} /\ r.schema = SchemaOf(k.subject, v)
               /\ (k.call = "GetSchemaInfo" => r.id = versions[k.subject][v])
      /\ k.call \in RegistrationCalls =>
           /\ r.schema = entries[r.id]
           /\ r.schema = [doc |-> k.doc, binds |-> {p \in Bound(k.refs) : p[1] \in k.doc.uses}]
  BY DEF AnswersAreRegistered, Succeeded, VersionCalls, RegistrationCalls
<1> DEFINE k == task[c].call
           r == task[c].result
<1>1. ResultTrue(k, r, entries, versions)
  BY DEF AnswersInv, CallTrue, Returned
<1>2. ASSUME k.call = "GetSchema" PROVE r.schema = entries[k.id]
  <2>1. Wanted(k) = [by |-> "id", id |-> k.id]
    BY <1>2 DEF Wanted
  <2> QED  BY <1>1, <1>2, <2>1 DEF ResultTrue, LookupCalls, IsWanted
<1>3. ASSUME k.call = "GetSchemaByGUID" PROVE Means(k.spelling.guid, r.schema)
  <2>1. Wanted(k) = IF k.spelling.wellFormed THEN [by |-> "guid", spelling |-> k.spelling]
                    ELSE [by |-> "none"]
    BY <1>3 DEF Wanted
  <2>2. IsWanted(Wanted(k), r.schema, entries, versions)
    BY <1>1, <1>3 DEF ResultTrue, LookupCalls
  <2>3. k.spelling.wellFormed
    BY <2>1, <2>2 DEF IsWanted
  <2>4. MeansIn(k.spelling.guid, r.schema, entries, versions)
    BY <2>1, <2>2, <2>3 DEF IsWanted
  <2> QED  BY <2>4, MeantIsMeans
<1>4. ASSUME k.call \in VersionCalls
      PROVE  \E v \in DOMAIN versions[k.subject] :
               k.version \in {0, v} /\ r.schema = SchemaOf(k.subject, v)
                 /\ (k.call = "GetSchemaInfo" => r.id = versions[k.subject][v])
  BY <1>1, <1>4 DEF ResultTrue, VersionTrue, IsVersion, SchemaOf
<1>5. ASSUME k.call \in RegistrationCalls
      PROVE  /\ r.schema = entries[r.id]
             /\ r.schema = [doc |-> k.doc,
                            binds |-> {p \in Bound(k.refs) : p[1] \in k.doc.uses}]
  <2>1. Bound(k.refs) = BoundIn(k.refs, entries, versions)
    BY DEF Bound, BoundIn, SchemaOf
  <2> QED  BY <1>1, <1>5, <2>1 DEF ResultTrue, RegisteredAs, AsBound
<1> QED  BY <1>2, <1>3, <1>4, <1>5

\* A call that succeeds returns the schema the registry has for what was asked,
\* whatever overlapped it: the entry of its id, the meaning of its GUID, a
\* version of its subject, or the document registered with its own references
\* bound and the id that schema has (GetSchema to IsRegisteredWithRefs).
THEOREM AnswersAlwaysRegistered == Spec => []AnswersAreRegistered
<1>1. Init => ClientInv /\ AnswersInv
  BY InitClient, InitAnswers
<1>2. ClientInv /\ AnswersInv /\ [Next]_vars => ClientInv' /\ AnswersInv'
  BY NextKeeps, NextAnswers
<1>3. ClientInv /\ AnswersInv => AnswersAreRegistered
  BY AnswersImplied
<1> QED  BY <1>1, <1>2, <1>3, PTL DEF Spec

-----------------------------------------------------------------------------
(* Messages: the schema is the one the last header or the prefix names.      *)

LEMMA LastDigit ==
  ASSUME NEW q \in Int, NEW d \in 0 .. 255
  PROVE  (256 * q + d) % 256 = d
OBVIOUS

\* The bytes after the first are the big-endian digits of the id they make.
LEMMA PrefixDigits ==
  ASSUME NEW data \in Seq(0 .. 255), Len(data) >= 5
  PROVE  BigEndian(ExtractSchemaID(data)) = <<data[2], data[3], data[4], data[5]>>
<1>1. \A i \in 1 .. Len(data) : data[i] \in 0 .. 255
  BY ElementOfSeq, Zenon
<1>2. 2 \in 1 .. Len(data) /\ 3 \in 1 .. Len(data) /\ 4 \in 1 .. Len(data) /\ 5 \in 1 .. Len(data)
  OBVIOUS
<1> DEFINE a == data[2]  b == data[3]  c == data[4]  d == data[5]
           n == 256 * (256 * (256 * a + b) + c) + d
<1>3. a \in 0 .. 255 /\ b \in 0 .. 255 /\ c \in 0 .. 255 /\ d \in 0 .. 255
  BY <1>1, <1>2, Zenon
<1>4. ExtractSchemaID(data) = n
  BY DEF ExtractSchemaID
<1> HIDE DEF a, b, c, d
<1>5. n \div 16777216 = a
  BY <1>3
<1>6. (n \div 65536) % 256 = b
  <2>1. n \div 65536 = 256 * a + b
    BY <1>3
  <2> QED  BY <1>3, <2>1, LastDigit, SMTT(30)
<1>7. (n \div 256) % 256 = c
  <2>1. PICK q \in Int : q = 256 * a + b
    BY <1>3
  <2>2. n \div 256 = 256 * q + c
    BY <1>3, <2>1
  <2>3. (256 * q + c) % 256 = c
    BY <1>3, LastDigit
  <2> QED  BY <2>2, <2>3
<1>8. n % 256 = d
  <2>1. 256 * (256 * a + b) + c \in Int
    BY <1>3
  <2> QED  BY <1>3, <2>1, LastDigit
<1> HIDE DEF n
<1>9. BigEndian(n) = <<a, b, c, d>>
  BY <1>5, <1>6, <1>7, <1>8 DEF BigEndian
<1> QED  BY <1>4, <1>9 DEF a, b, c, d

\* A sequence is what it starts with and the rest of it.
LEMMA Split ==
  ASSUME NEW S, NEW s \in Seq(S), NEW a \in Seq(S), Len(a) <= Len(s),
         \A i \in 1 .. Len(a) : a[i] = s[i]
  PROVE  s = a \o SubSeq(s, Len(a) + 1, Len(s))
<1> DEFINE rest == SubSeq(s, Len(a) + 1, Len(s))
<1>1. /\ rest \in Seq(S) /\ Len(rest) = Len(s) - Len(a)
      /\ \A i \in 1 .. Len(s) - Len(a) : rest[i] = s[Len(a) + i]
  OBVIOUS
<1> HIDE DEF rest
<1>2. /\ a \o rest \in Seq(S) /\ Len(a \o rest) = Len(s)
      /\ \A i \in 1 .. Len(s) : (a \o rest)[i] = IF i <= Len(a) THEN a[i] ELSE rest[i - Len(a)]
  BY <1>1
<1>3. ASSUME NEW i \in 1 .. Len(s) PROVE (a \o rest)[i] = s[i]
  <2>1. CASE i <= Len(a)
    BY <1>2, <2>1
  <2>2. CASE ~(i <= Len(a))
    <3>1. i - Len(a) \in 1 .. Len(s) - Len(a) /\ Len(a) + (i - Len(a)) = i
      BY <2>2
    <3>2. (a \o rest)[i] = rest[i - Len(a)]
      BY <1>2, <2>2
    <3> QED  BY <1>1, <3>1, <3>2
  <2> QED  BY <2>1, <2>2
<1> QED  BY <1>2, <1>3, SeqEqual DEF rest

LEMMA OneAndFour ==
  ASSUME NEW a, NEW b, NEW c, NEW d, NEW e
  PROVE  <<a>> \o <<b, c, d, e>> = <<a, b, c, d, e>>
<1> DEFINE S == {a, b, c, d, e}
           one == <<a>>
           four == <<b, c, d, e>>
           all == <<a, b, c, d, e>>
<1>1. /\ one \in Seq(S) /\ Len(one) = 1 /\ one[1] = a
      /\ four \in Seq(S) /\ Len(four) = 4
      /\ four[1] = b /\ four[2] = c /\ four[3] = d /\ four[4] = e
  OBVIOUS
<1>2. /\ all \in Seq(S) /\ Len(all) = 5
      /\ all[1] = a /\ all[2] = b /\ all[3] = c /\ all[4] = d /\ all[5] = e
  OBVIOUS
<1> HIDE DEF one, four, all, S
<1>3. /\ one \o four \in Seq(S) /\ Len(one \o four) = 5
      /\ \A i \in 1 .. 5 : (one \o four)[i] = IF i <= 1 THEN one[i] ELSE four[i - 1]
  <2>1. one \in Seq(S) /\ four \in Seq(S)
    BY <1>1
  <2>2. /\ one \o four \in Seq(S)
        /\ Len(one \o four) = Len(one) + Len(four)
        /\ \A i \in 1 .. Len(one) + Len(four) :
             (one \o four)[i] = IF i <= Len(one) THEN one[i] ELSE four[i - Len(one)]
    BY <2>1, ConcatProperties, Zenon
  <2>3. Len(one) = 1 /\ Len(four) = 4 /\ 1 + 4 = 5
    BY <1>1
  <2> QED  BY <2>2, <2>3
<1>4. /\ (one \o four)[1] = a /\ (one \o four)[2] = b /\ (one \o four)[3] = c
      /\ (one \o four)[4] = d /\ (one \o four)[5] = e
  BY <1>1, <1>3
<1>5. \A i \in 1 .. 5 : (one \o four)[i] = all[i]
  <2>1. \A i \in 1 .. 5 : i = 1 \/ i = 2 \/ i = 3 \/ i = 4 \/ i = 5
    OBVIOUS
  <2> QED  BY <1>2, <1>4, <2>1
<1> QED  BY <1>2, <1>3, <1>5, SeqEqual DEF one, four, all

\* A message is its first byte, the next four and what follows them.
LEMMA PrefixAndRest ==
  ASSUME NEW S, NEW s \in Seq(S), Len(s) >= 5
  PROVE  s = <<s[1]>> \o <<s[2], s[3], s[4], s[5]>> \o SubSeq(s, 6, Len(s))
<1> DEFINE a == <<s[1], s[2], s[3], s[4], s[5]>>
<1>1. a \in Seq(S) /\ Len(a) = 5 /\ \A i \in 1 .. 5 : a[i] = s[i]
  OBVIOUS
<1>2. <<s[1]>> \o <<s[2], s[3], s[4], s[5]>> = a
  BY OneAndFour
<1>3. s = a \o SubSeq(s, 6, Len(s))
  <2> HIDE DEF a
  <2>1. Len(a) + 1 = 6
    BY <1>1
  <2> QED  BY <1>1, <2>1, Split
<1> QED  BY <1>2, <1>3
LEMMA MessagesImplied ==
  ASSUME ClientInv, AnswersInv
  PROVE  MessagesNameTheirSchema
<1> SUFFICES ASSUME NEW c \in Callers, Succeeded(c, {"DecodeHeaders"})
             PROVE  LET m == task[c].call.message
                        r == task[c].result
                    IN \/ \E i \in DOMAIN m.headers :
                            /\ m.headers[i].key = m.key /\ m.headers[i].wellFormed
                            /\ \A j \in DOMAIN m.headers : j > i => m.headers[j].key # m.key
                            /\ Means(m.headers[i].guid.guid, r.schema) /\ r.data = m.data
                       \/ /\ \A i \in DOMAIN m.headers : m.headers[i].key # m.key
                          /\ \E id \in DOMAIN entries :
                               /\ m.data = <<0>> \o BigEndian(id) \o r.data
                               /\ r.schema = entries[id]
  BY DEF MessagesNameTheirSchema
<1> DEFINE k == task[c].call
           m == k.message
           r == task[c].result
           w == Designation(m)
           matching == {i \in DOMAIN m.headers : m.headers[i].key = m.key}
           l == CHOOSE i \in matching : \A j \in matching : j <= i
           last == m.headers[l]
<1>1. k.call = "DecodeHeaders" /\ k \in Calls /\ ResultTrue(k, r, entries, versions)
  BY DEF AnswersInv, CallTrue, Succeeded, Returned
<1>2. w = Wanted(k)
  BY <1>1 DEF Wanted
<1>3. IsWanted(w, r.schema, entries, versions) /\ r.data = w.datum
  BY <1>1, <1>2 DEF ResultTrue, LookupCalls
<1>4. /\ m.headers \in Seq({m.headers[i] : i \in DOMAIN m.headers})
      /\ m.data \in Seq(0 .. 255)
  BY <1>1, CallsAssumption DEF CallsAssumption
<1>5. CASE matching # {}
  <2>1. l \in matching /\ \A j \in matching : j <= l
    <3>1. matching \subseteq 0 .. Len(m.headers) /\ Len(m.headers) \in Nat
      <4>1. Len(m.headers) \in Nat /\ DOMAIN m.headers = 1 .. Len(m.headers)
        BY <1>4
      <4> QED  BY <4>1
    <3> HIDE DEF matching
    <3>2. \E i \in matching : \A j \in matching : j <= i
      BY <1>5, <3>1, GreatestIndex
    <3> QED  BY <3>2
  <2> HIDE DEF l
  <2>2. w = IF last.wellFormed THEN [by |-> "guid", spelling |-> last.guid, datum |-> m.data]
            ELSE [by |-> "none"]
    BY <1>5 DEF Designation, l
  <2>3. last.wellFormed
    <3> HIDE DEF w
    <3> QED  BY <1>3, <2>2 DEF IsWanted
  <2>4. w.by = "guid" /\ w.spelling = last.guid /\ w.datum = m.data
    BY <2>2, <2>3
  <2>5. Means(last.guid.guid, r.schema) /\ r.data = m.data
    BY <1>3, <2>4, MeantIsMeans DEF IsWanted
  <2>6. ASSUME NEW j \in DOMAIN m.headers, j > l PROVE m.headers[j].key # m.key
    <3>1. j \in Int /\ l \in Int
      BY <1>4, <2>1, SMTT(30)
    <3> QED  BY <2>1, <2>6, <3>1
  <2> QED  BY <2>1, <2>3, <2>5, <2>6
<1>6. CASE matching = {}
  <2> DEFINE id == ExtractSchemaID(m.data)
  <2> HIDE DEF id
  <2>1. w = IF Len(m.data) < PrefixLength \/ m.data[1] # 0 THEN [by |-> "none"]
            ELSE [by |-> "id", id |-> id,
                  datum |-> SubSeq(m.data, PrefixLength + 1, Len(m.data))]
    BY <1>6 DEF Designation, id
  <2> HIDE DEF w
  <2>2. Len(m.data) >= 5 /\ m.data[1] = 0
    BY <1>3, <1>4, <2>1, SMTT(30) DEF IsWanted, PrefixLength
  <2>3. w.by = "id" /\ w.id = id /\ w.datum = SubSeq(m.data, 6, Len(m.data))
    BY <1>4, <2>1, <2>2 DEF PrefixLength
  <2>4. id \in DOMAIN entries /\ r.schema = entries[id]
    BY <1>3, <2>3 DEF IsWanted
  <2>5. BigEndian(id) = <<m.data[2], m.data[3], m.data[4], m.data[5]>>
    BY <1>4, <2>2, PrefixDigits DEF id
  <2>6. m.data = <<0>> \o BigEndian(id) \o r.data
    BY <1>3, <1>4, <2>2, <2>3, <2>5, PrefixAndRest
  <2>7. \A i \in DOMAIN m.headers : m.headers[i].key # m.key
    BY <1>6
  <2> HIDE DEF id
  <2> QED  BY <2>4, <2>6, <2>7
<1> QED  BY <1>5, <1>6

\* A message is decoded with the schema that its last header of the kind names,
\* or without one its prefix, and with no other; the datum is all that the
\* designation leaves (Decode, DecodeHeaders, extractSchemaID).
THEOREM MessagesAlwaysNameTheirSchema == Spec => []MessagesNameTheirSchema
<1>1. Init => ClientInv /\ AnswersInv
  BY InitClient, InitAnswers
<1>2. ClientInv /\ AnswersInv /\ [Next]_vars => ClientInv' /\ AnswersInv'
  BY NextKeeps, NextAnswers
<1>3. ClientInv /\ AnswersInv => MessagesNameTheirSchema
  BY MessagesImplied
<1> QED  BY <1>1, <1>2, <1>3, PTL DEF Spec

=============================================================================
