--------------------------- MODULE RegistryClient ---------------------------
(***************************************************************************)
(* The schema registry client and its decoder (registry/client.go,          *)
(* registry/decoder.go).  Goroutines share one Client: they look schemas up *)
(* by id, by GUID and by subject version, register and delete schemas, and  *)
(* decode messages whose prefix or header names a schema.  The registry     *)
(* behind HTTP is external: it answers a request at some moment between     *)
(* sending and receiving, or the request fails, before or after it had its  *)
(* effect.                                                                  *)
(*                                                                         *)
(* A schema text is a document [name, uses] and a parsed schema is          *)
(* [doc, binds], where binds pairs each used name with the schema it stands *)
(* for.  The registry's resolved format delivers a document whose uses are  *)
(* bound; a GUID lookup delivers the bare document and its references.      *)
(***************************************************************************)
EXTENDS Integers, Sequences, FiniteSets

CONSTANTS
  Callers,
  Calls,          \* the calls a goroutine may make
  MaxCalls,       \* bound: calls in all
  MaxReferences,  \* maxReferences of GetSchemaByGUID
  MaxSlice,       \* the decoding configuration's limit on bytes
  Entries0,       \* the schemas registered at the start; an id is an index
  Versions0,      \* the ids of each subject's versions at the start
  Guids,          \* what the registry knows: guid -> [avro, doc, refs]
  None

VARIABLES
  entries, versions, deleted,  \* the registry; deleted: <<subject, version>>
  cache,                       \* Client.cache: <<id, schema>> pairs
  guidCache,                   \* Client.guidCache: <<key, schema>> pairs
  calls,                       \* calls begun
  task                         \* each goroutine's call and where it is

registry == <<entries, versions, deleted>>
vars == <<registry, cache, guidCache, calls, task>>

Subjects == DOMAIN Versions0

\* The registry starts with versions of schemas it has.
EntriesAssumption ==
  /\ Entries0 \in Seq({Entries0[i] : i \in DOMAIN Entries0})
  /\ Versions0 \in [Subjects -> Seq(DOMAIN Entries0)]
ASSUME EntriesAssumption

\* A document uses finitely many names; a well-formed reference has a subject
\* and a positive version.
GuidsAssumption ==
  \A g \in DOMAIN Guids :
    /\ IsFiniteSet(Guids[g].doc.uses)
    /\ \A i \in DOMAIN Guids[g].refs :
         LET ref == Guids[g].refs[i]
         IN ref.wellFormed => ref.subject \in Subjects /\ ref.version # 0
ASSUME GuidsAssumption

Failed      == [ok |-> FALSE]
Schema(s)   == [ok |-> TRUE, schema |-> s]
Keys(pairs) == {p[1] : p \in pairs}
Lookup(pairs, key) == (CHOOSE p \in pairs : p[1] = key)[2]
Store(pairs, key, value) == {p \in pairs : p[1] # key} \cup {<<key, value>>}

\* avro.ParseWithCache: every used name must be bound.
Parse(doc, pairs) ==
  IF doc.uses \subseteq Keys(pairs)
    THEN Schema([doc |-> doc, binds |-> {p \in pairs : p[1] \in doc.uses}])
    ELSE Failed

(* A goroutine's task: "idle", "sent" (waiting for HTTP) or "answered".      *)
Idle == [pc |-> "idle", call |-> None, result |-> None,
         req |-> None, resp |-> None,
         id |-> 0,          \* the id a registration got
         key |-> None,      \* the GUID as guidCache has it
         text |-> None,     \* the GUID response whose references are fetched
         next |-> 0,        \* the reference being fetched
         names |-> {},      \* the lookup's own SchemaCache: <<name, schema>>
         warm |-> FALSE,    \* history: cached when the lookup began
         sent |-> 0]        \* history: requests of this call

Return(t, r) == [Idle EXCEPT !.call = t.call, !.result = r, !.id = t.id,
                             !.warm = t.warm, !.sent = t.sent]

\* Client.request
Request(t, r) == [t EXCEPT !.pc = "sent", !.req = r, !.resp = None, !.sent = @ + 1]

Set(c, t) == task' = [task EXCEPT ![c] = t]

Init ==
  /\ entries = Entries0 /\ versions = Versions0 /\ deleted = {}
  /\ cache = {} /\ guidCache = {} /\ calls = 0
  /\ task = [c \in Callers |-> Idle]

-----------------------------------------------------------------------------
(* The registry (external).                                                 *)

HasVersion(s, v) == v \in DOMAIN versions[s] /\ <<s, v>> \notin deleted
SchemaOf(s, v)   == entries[versions[s][v]]

\* What the references of a registration bind, by the registry's own check.
Bound(refs)     == {<<refs[i].name, SchemaOf(refs[i].subject, refs[i].version)>> : i \in DOMAIN refs}
RefsExist(refs) == \A i \in DOMAIN refs : HasVersion(refs[i].subject, refs[i].version)

IdIn(known, s) == CHOOSE i \in DOMAIN known : known[i] = s

Answer(r) ==
  CASE r.get = "id" -> IF r.id \in DOMAIN entries THEN Schema(entries[r.id]) ELSE Failed
    [] r.get = "guid" -> IF r.guid \in DOMAIN Guids THEN [ok |-> TRUE, text |-> Guids[r.guid]]
                         ELSE Failed
    [] r.get = "version" ->
         LET v == IF r.version = 0 THEN Len(versions[r.subject]) ELSE r.version
         IN IF HasVersion(r.subject, v)
              THEN [ok |-> TRUE, schema |-> SchemaOf(r.subject, v), id |-> versions[r.subject][v]]
              ELSE Failed
    [] r.get = "registered" ->
         IF RefsExist(r.refs) /\ Parse(r.doc, Bound(r.refs)).ok
           THEN LET s == Parse(r.doc, Bound(r.refs)).schema
                IN IF \E v \in DOMAIN versions[r.subject] :
                        HasVersion(r.subject, v) /\ SchemaOf(r.subject, v) = s
                     THEN [ok |-> TRUE, id |-> IdIn(entries, s)] ELSE Failed
           ELSE Failed

Answered(c, a) == Set(c, [task[c] EXCEPT !.pc = "answered", !.resp = a])

\* An answer may lack the id its reader requires.
Serve(c) ==
  /\ task[c].pc = "sent" /\ task[c].req.get \in {"id", "guid", "version", "registered"}
  /\ LET a == Answer(task[c].req)
     IN \E b \in IF a.ok /\ "id" \in DOMAIN a THEN {a, [a EXCEPT !.id = None]} ELSE {a} :
          Answered(c, b)
  /\ UNCHANGED <<registry, cache, guidCache, calls>>

\* A transport error, a status outside 2xx, a body above the limit or not JSON.
Fail(c) ==
  /\ task[c].pc = "sent"
  /\ Answered(c, Failed)
  /\ UNCHANGED <<registry, cache, guidCache, calls>>

\* Registering takes effect even if its answer is lost; the same schema keeps
\* its id, and a subject its versions.
ServeCreate(c) ==
  /\ task[c].pc = "sent" /\ task[c].req.get = "create"
  /\ LET r == task[c].req
         s == Parse(r.doc, Bound(r.refs)).schema
     IN IF ~RefsExist(r.refs) \/ ~Parse(r.doc, Bound(r.refs)).ok
          THEN Answered(c, Failed) /\ UNCHANGED <<entries, versions>>
          ELSE /\ entries' = IF \E i \in DOMAIN entries : entries[i] = s THEN entries
                             ELSE Append(entries, s)
               /\ versions' = IF \E v \in DOMAIN versions[r.subject] :
                                   HasVersion(r.subject, v) /\ SchemaOf(r.subject, v) = s
                                THEN versions
                                ELSE [versions EXCEPT ![r.subject] = Append(@, IdIn(entries', s))]
               /\ \E a \in {Failed, [ok |-> TRUE, id |-> IdIn(entries', s)]} : Answered(c, a)
  /\ UNCHANGED <<deleted, cache, guidCache, calls>>

\* A deleted subject's version numbers are not used again.
ServeDelete(c) ==
  /\ task[c].pc = "sent" /\ task[c].req.get = "delete"
  /\ LET s == task[c].req.subject
     IN deleted' = deleted \cup ({s} \X DOMAIN versions[s])
  /\ \E a \in {Failed, [ok |-> TRUE]} : Answered(c, a)
  /\ UNCHANGED <<entries, versions, cache, guidCache, calls>>

-----------------------------------------------------------------------------
(* Messages: [headers, key, data], where data is bytes and a header is       *)
(* [key, wellFormed, guid]; a plain Decode has no headers.                   *)

PrefixLength == 5

\* extractSchemaID: the big-endian id after the magic byte.
ExtractSchemaID(data) ==
  256 * (256 * (256 * data[2] + data[3]) + data[4]) + data[5]

\* Mutant: the first header decides.
DesignationFirst(m) ==
  LET matching == {i \in DOMAIN m.headers : m.headers[i].key = m.key}
      first == m.headers[CHOOSE i \in matching : \A j \in matching : i <= j]
  IN IF matching # {}
       THEN IF first.wellFormed THEN [by |-> "guid", spelling |-> first.guid, datum |-> m.data]
            ELSE [by |-> "none"]
       ELSE IF Len(m.data) < PrefixLength \/ m.data[1] # 0 THEN [by |-> "none"]
       ELSE [by |-> "id", id |-> ExtractSchemaID(m.data),
             datum |-> SubSeq(m.data, PrefixLength + 1, Len(m.data))]

\* The last header of the name decides; only without one the prefix does. A
\* malformed header never falls back.
Designation(m) ==
  LET matching == {i \in DOMAIN m.headers : m.headers[i].key = m.key}
      last == m.headers[CHOOSE i \in matching : \A j \in matching : j <= i]
  IN IF matching # {}
       THEN IF last.wellFormed THEN [by |-> "guid", spelling |-> last.guid, datum |-> m.data]
            ELSE [by |-> "none"]
       ELSE IF Len(m.data) < PrefixLength \/ m.data[1] # 0 THEN [by |-> "none"]
       ELSE [by |-> "id", id |-> ExtractSchemaID(m.data),
             datum |-> SubSeq(m.data, PrefixLength + 1, Len(m.data))]

\* A datum of top-level bytes is all of the data; the configured limit on bytes
\* still holds for it.
DecodeDatum(schema, data) ==
  IF schema.doc.name = "bytes" /\ Len(data) > MaxSlice THEN Failed
  ELSE [ok |-> TRUE, schema |-> schema, data |-> data]

\* A GUID is spelt [guid, upper, wellFormed].
ToLower(spelling) == [spelling EXCEPT !.upper = FALSE]

\* The schema a call asks for by id or by GUID.
Wanted(k) ==
  CASE k.call = "GetSchema" -> [by |-> "id", id |-> k.id]
    [] k.call = "GetSchemaByGUID" ->
         IF k.spelling.wellFormed THEN [by |-> "guid", spelling |-> k.spelling]
         ELSE [by |-> "none"]
    [] k.call = "DecodeHeaders" -> Designation(k.message)

\* What is looked up by GUID is spelt as one.
SpellingsAssumption ==
  \A k \in {k \in Calls : k.call \in {"GetSchema", "GetSchemaByGUID", "DecodeHeaders"}} :
    LET w == Wanted(k)
    IN w.by = "guid" =>
         w.spelling = [guid |-> w.spelling.guid, upper |-> w.spelling.upper, wellFormed |-> TRUE]
ASSUME SpellingsAssumption

\* A message's headers are a list and its data are bytes; a registration's
\* references are a list; subjects are ones the registry may know.
CallsAssumption ==
  \A k \in Calls :
    /\ k.call = "DecodeHeaders" =>
         /\ k.message.headers \in Seq({k.message.headers[i] : i \in DOMAIN k.message.headers})
         /\ k.message.data \in Seq(0 .. 255)
    /\ k.call \in {"GetSchemaByVersion", "GetSchemaInfo", "CreateSchema", "IsRegistered"} =>
         k.subject \in Subjects
    /\ k.call \in {"CreateSchema", "IsRegistered"} =>
         /\ k.refs \in Seq({k.refs[i] : i \in DOMAIN k.refs})
         /\ \A i \in DOMAIN k.refs : k.refs[i].subject \in Subjects
ASSUME CallsAssumption

\* GetSchema and GetSchemaByGUID return to the application or to the decoder.
Delivered(t, schema) ==
  IF t.call.call = "DecodeHeaders"
    THEN DecodeDatum(schema, Designation(t.call.message).datum)
    ELSE [ok |-> TRUE, schema |-> schema, id |-> t.id]

-----------------------------------------------------------------------------
(* The client.                                                              *)

\* GetSchema's first step.
GetSchema(t, id) ==
  IF id \in Keys(cache)
    THEN Return(t, Delivered(t, Lookup(cache, id)))
    ELSE Request(t, [get |-> "id", id |-> id])

\* GetSchemaByGUID's first step: the cache is keyed by the lower-case spelling.
GetSchemaByGUID(t, spelling) ==
  LET key == ToLower(spelling)
  IN IF key \in Keys(guidCache)
       THEN Return(t, Delivered(t, Lookup(guidCache, key)))
       ELSE Request([t EXCEPT !.key = key], [get |-> "guid", guid |-> key.guid])

\* History: the schema is in the client, however its GUID is spelt.
Known(w) == \/ w.by = "id" /\ w.id \in Keys(cache)
            \/ w.by = "guid" /\ \E p \in guidCache : p[1].guid = w.spelling.guid

Beginning(c) == /\ task[c].pc = "idle" /\ calls < MaxCalls /\ calls' = calls + 1
                   /\ UNCHANGED <<registry, cache, guidCache>>

BeginLookup(c) ==
  \E k \in {k \in Calls : k.call \in {"GetSchema", "GetSchemaByGUID", "DecodeHeaders"}} :
    /\ Beginning(c)
    /\ LET w == Wanted(k)
           t == [Idle EXCEPT !.call = k, !.warm = Known(w)]
       IN Set(c, CASE w.by = "none" -> Return(t, Failed)
                   [] w.by = "id"   -> GetSchema(t, w.id)
                   [] w.by = "guid" -> GetSchemaByGUID(t, w.spelling))

\* GetSchemaByVersion, GetLatestSchema, GetSchemaInfo, GetLatestSchemaInfo.
BeginVersion(c) ==
  \E k \in {k \in Calls : k.call \in {"GetSchemaByVersion", "GetSchemaInfo"}} :
    /\ Beginning(c)
    /\ Set(c, Request([Idle EXCEPT !.call = k],
                      [get |-> "version", subject |-> k.subject, version |-> k.version]))

\* CreateSchema, IsRegistered and IsRegisteredWithRefs, DeleteSubject.
BeginRegistration(c) ==
  \E k \in {k \in Calls : k.call \in {"CreateSchema", "IsRegistered", "DeleteSubject"}} :
    /\ Beginning(c)
    /\ Set(c, Request([Idle EXCEPT !.call = k],
         IF k.call = "DeleteSubject" THEN [get |-> "delete", subject |-> k.subject]
         ELSE [get |-> IF k.call = "CreateSchema" THEN "create" ELSE "registered",
               subject |-> k.subject, doc |-> k.doc, refs |-> k.refs]))

Handling(c, gets) ==
  /\ task[c].pc = "answered" /\ task[c].req.get \in gets
  /\ UNCHANGED <<registry, calls>>

\* GetSchema: only what was delivered and parsed is stored.
HandleSchema(c) ==
  /\ Handling(c, {"id"})
  /\ LET t == task[c]
     IN IF ~t.resp.ok THEN Set(c, Return(t, Failed)) /\ UNCHANGED cache
        ELSE /\ cache' = Store(cache, t.req.id, t.resp.schema)
             /\ Set(c, Return(t, Delivered(t, t.resp.schema)))
  /\ UNCHANGED guidCache

ValidReference(t, ref) == ref.wellFormed /\ ref.name \notin Keys(t.names)

\* GetSchemaByGUID's loop: the next reference is checked and requested; after
\* the last one the document is parsed with the lookup's names and stored.
References(c, t) ==
  IF t.next \in DOMAIN t.text.refs
    THEN LET ref == t.text.refs[t.next]
         IN /\ Set(c, IF ValidReference(t, ref)
                        THEN Request(t, [get |-> "version", subject |-> ref.subject,
                                         version |-> ref.version])
                        ELSE Return(t, Failed))
            /\ UNCHANGED guidCache
    ELSE LET s == Parse(t.text.doc, t.names)
         IN /\ Set(c, Return(t, IF s.ok THEN Delivered(t, s.schema) ELSE Failed))
            /\ guidCache' = IF s.ok THEN Store(guidCache, t.key, s.schema) ELSE guidCache

\* Mutant: a failed response is dropped and no one returns.
HandleGUIDIfOk(c) ==
  /\ Handling(c, {"guid"}) /\ task[c].resp.ok
  /\ LET t == task[c]
     IN IF ~t.resp.text.avro \/ Len(t.resp.text.refs) > MaxReferences
          THEN Set(c, Return(t, Failed)) /\ UNCHANGED guidCache
          ELSE References(c, [t EXCEPT !.text = t.resp.text, !.next = 1])
  /\ UNCHANGED cache

HandleGUID(c) ==
  /\ Handling(c, {"guid"})
  /\ LET t == task[c]
     IN IF ~t.resp.ok \/ ~t.resp.text.avro \/ Len(t.resp.text.refs) > MaxReferences
          THEN Set(c, Return(t, Failed)) /\ UNCHANGED guidCache
          ELSE References(c, [t EXCEPT !.text = t.resp.text, !.next = 1])
  /\ UNCHANGED cache

\* Mutant: any schema is bound to the reference's name.
HandleReferenceUnnamed(c) ==
  /\ Handling(c, {"version"}) /\ task[c].call.call \in {"GetSchemaByGUID", "DecodeHeaders"}
  /\ LET t == task[c]
         ref == t.text.refs[t.next]
     IN IF ~t.resp.ok
          THEN Set(c, Return(t, Failed)) /\ UNCHANGED guidCache
          ELSE References(c, [t EXCEPT !.names = Store(@, ref.name, t.resp.schema),
                                       !.next = @ + 1])
  /\ UNCHANGED cache

\* A reference's schema must be named, by the name the reference gives it.
HandleReference(c) ==
  /\ Handling(c, {"version"}) /\ task[c].call.call \in {"GetSchemaByGUID", "DecodeHeaders"}
  /\ LET t == task[c]
         ref == t.text.refs[t.next]
     IN IF ~t.resp.ok \/ t.resp.schema.doc.name # ref.name
          THEN Set(c, Return(t, Failed)) /\ UNCHANGED guidCache
          ELSE References(c, [t EXCEPT !.names = Store(@, ref.name, t.resp.schema),
                                       !.next = @ + 1])
  /\ UNCHANGED cache

\* Only the info calls read, and require, the id.
HandleVersion(c) ==
  /\ Handling(c, {"version"}) /\ task[c].call.call \in {"GetSchemaByVersion", "GetSchemaInfo"}
  /\ LET t == task[c]
     IN Set(c, Return(t,
          IF ~t.resp.ok \/ (t.call.call = "GetSchemaInfo" /\ t.resp.id = None) THEN Failed
          ELSE [ok |-> TRUE, schema |-> t.resp.schema, id |-> t.resp.id]))
  /\ UNCHANGED <<cache, guidCache>>

\* Mutant: the text registered is parsed alone, references or not.
HandleRegistrationAlone(c) ==
  /\ Handling(c, {"create", "registered"})
  /\ LET t == task[c]
         got == [t EXCEPT !.id = t.resp.id]
     IN Set(c, IF ~t.resp.ok \/ t.resp.id = None THEN Return(t, Failed)
               ELSE Return(got, [ok |-> TRUE, id |-> t.resp.id,
                                 schema |-> [doc |-> t.call.doc, binds |-> {}]]))
  /\ UNCHANGED <<cache, guidCache>>

\* parseRegisteredSchema: a schema with references comes from its id.
HandleRegistration(c) ==
  /\ Handling(c, {"create", "registered"})
  /\ LET t == task[c]
         got == [t EXCEPT !.id = t.resp.id]
     IN Set(c, IF ~t.resp.ok \/ t.resp.id = None THEN Return(t, Failed)
               ELSE IF Len(t.call.refs) = 0
                 THEN Return(got, [ok |-> TRUE, id |-> t.resp.id,
                                   schema |-> [doc |-> t.call.doc, binds |-> {}]])
               ELSE GetSchema(got, t.resp.id))
  /\ UNCHANGED <<cache, guidCache>>

HandleDelete(c) ==
  /\ Handling(c, {"delete"})
  /\ Set(c, Return(task[c], [ok |-> task[c].resp.ok]))
  /\ UNCHANGED <<cache, guidCache>>

Client(c) ==
  \/ HandleSchema(c) \/ HandleGUID(c) \/ HandleReference(c)
  \/ HandleVersion(c) \/ HandleRegistration(c) \/ HandleDelete(c)

Registry(c) == Serve(c) \/ Fail(c) \/ ServeCreate(c) \/ ServeDelete(c)

Next == \E c \in Callers :
          BeginLookup(c) \/ BeginVersion(c) \/ BeginRegistration(c) \/ Registry(c) \/ Client(c)

\* A goroutine that can run does; a request ends, if only by the HTTP client's
\* timeout (defaultClient).
Fairness == \A c \in Callers : WF_vars(Client(c)) /\ WF_vars(Registry(c))

Spec == Init /\ [][Next]_vars /\ Fairness

-----------------------------------------------------------------------------
(* Properties.                                                              *)

\* What a GUID means: its document with every name it uses bound to the schema
\* of the version its references say, which is named so.
Means(guid, s) ==
  /\ guid \in DOMAIN Guids /\ Guids[guid].avro
  /\ s.doc = Guids[guid].doc
  /\ Keys(s.binds) = s.doc.uses /\ Cardinality(s.binds) = Cardinality(s.doc.uses)
  /\ \A p \in s.binds :
       /\ p[2].doc.name = p[1]
       /\ \E i \in DOMAIN Guids[guid].refs :
            LET ref == Guids[guid].refs[i]
            IN ref.name = p[1] /\ p[2] = SchemaOf(ref.subject, ref.version)

\* Whatever lookups interleave and fail, a cached schema is the one the registry
\* has under that key: no failed, partial or foreign lookup is ever stored, so
\* that of two goroutines that both fetched the later store changes nothing.
CachedMeansRegistered ==
  /\ \A p \in cache : p[1] \in DOMAIN entries /\ p[2] = entries[p[1]]
  /\ \A p \in guidCache : Means(p[1].guid, p[2])
  /\ \A p, q \in guidCache : p[1].guid = q[1].guid => p = q

Returned(c) == task[c].pc = "idle" /\ task[c].call # None
Succeeded(c, names) == Returned(c) /\ task[c].result.ok /\ task[c].call.call \in names

\* A call that succeeds returns the schema the registry has for what was asked:
\* a GUID's references are its own, a registered schema with references has
\* them bound as registered and belongs to the id returned with it.
AnswersAreRegistered ==
  \A c \in Callers : LET k == task[c].call
                         r == task[c].result
                     IN
    /\ Succeeded(c, {"GetSchema"}) => r.schema = entries[k.id]
    /\ Succeeded(c, {"GetSchemaByGUID"}) => Means(k.spelling.guid, r.schema)
    /\ Succeeded(c, {"GetSchemaByVersion", "GetSchemaInfo"}) =>
         \E v \in DOMAIN versions[k.subject] :
           k.version \in {0, v} /\ r.schema = SchemaOf(k.subject, v)
             /\ (k.call = "GetSchemaInfo" => r.id = versions[k.subject][v])
    /\ Succeeded(c, {"CreateSchema", "IsRegistered"}) =>
         /\ r.schema = entries[r.id]
         /\ r.schema = [doc |-> k.doc, binds |-> {p \in Bound(k.refs) : p[1] \in k.doc.uses}]

\* A number in four bytes, the most significant one first.
BigEndian(n) == <<n \div 16777216, (n \div 65536) % 256, (n \div 256) % 256, n % 256>>

\* A message is decoded with the schema it names: the last header of the kind
\* asked for if it has one, and then all of the data is the datum; else the id
\* of the prefix, and the datum is what follows. No other schema is tried.
MessagesNameTheirSchema ==
  \A c \in Callers : Succeeded(c, {"DecodeHeaders"}) =>
    LET m == task[c].call.message
        r == task[c].result
    IN \/ \E i \in DOMAIN m.headers :
            /\ m.headers[i].key = m.key /\ m.headers[i].wellFormed
            /\ \A j \in DOMAIN m.headers : j > i => m.headers[j].key # m.key
            /\ Means(m.headers[i].guid.guid, r.schema) /\ r.data = m.data
       \/ /\ \A i \in DOMAIN m.headers : m.headers[i].key # m.key
          /\ \E id \in DOMAIN entries :
               /\ m.data = <<0>> \o BigEndian(id) \o r.data
               /\ r.schema = entries[id]

\* What is in a cache is answered without a request, whichever call stored it
\* and however a GUID is spelt; a failure never makes a later call fail.
CachedMakesNoRequest ==
  \A c \in Callers : Returned(c) /\ task[c].warm =>
    /\ task[c].sent = 0
    /\ ~task[c].result.ok => task[c].call.call = "DecodeHeaders"

\* Caches are true: they hold what is registered, and answer with it.
CachesAreTrue == CachedMeansRegistered /\ CachedMakesNoRequest

\* Every call returns, whatever fails and however many references it follows.
EveryCallReturns == \A c \in Callers : task[c].pc # "idle" ~> task[c].pc = "idle"
=============================================================================
