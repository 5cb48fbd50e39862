---------------------------- MODULE SchemaResolve ----------------------------
(***************************************************************************)
(* Resolve (schema_compatibility.go, schema_resolution.go) turns a reader's *)
(* and a writer's schema into a decoding plan; the codecs of records,       *)
(* unions, enums, arrays and maps (codec_*.go), ReadNext                    *)
(* (reader_generic.go) and the skip decoders follow it over data of the     *)
(* writer, and the decoders built for plans are cached by fingerprint.      *)
(*                                                                          *)
(* Schemas are the nodes of SchemaCompat's graph, with the ordered symbols  *)
(* of an enum (list), its default (def) and the JSON default of a field     *)
(* (json).  A schema document defines a full name once.  Go values are      *)
(* [type, v] records, the wire is a sequence of tokens [k, v].  Blocks,     *)
(* numbers and logical types have modules of their own.                     *)
(***************************************************************************)
EXTENDS Integers, Sequences, FiniteSets, TLC, SequencesExt

CONSTANTS
  Schemas, Graph,  \* as in SchemaCompat
  Resolvable, \* the pairs << reader, writer >> SchemaCompat finds readable
  Requests,   \* pairs << reader, writer >> Resolve is called with
  Data,       \* for each writer's schema: Go values handed to its encoder
  Structs,    \* for each reader's record: struct types decoded into, as field names
  CacheBound  \* bound: decoders cached before the last request

\* Compatible's answers are taken to be exact here: see SchemaCompat for when
\* they are not.  Its rules for names and types are used below.
C == INSTANCE SchemaCompat WITH
       Callers <- {}, Asked <- Requests, NoPair <- "none", Rounds <- 0, cache <- << >>, goal <- << >>,
       stack <- << >>, answer <- << >>, query <- << >>, assumed <- {}

VARIABLES
  step,     \* where the caller is: idle, resolved, failed, written or read
  request,  \* the pair asked about
  plan,     \* what Resolve returned
  datum,    \* the value written
  wire,     \* its encoding by the writer's schema
  into,     \* what it was read into: "any", "next" or a set of struct fields
  result,   \* the value read and the tokens left
  decoders  \* frozenConfig.decoderCache: the plan each cached decoder follows

vars == << step, request, plan, datum, wire, into, result, decoders >>
------------------------------------------------------------------------------
\* Values and tokens.
Value(t, v) == [type |-> t, v |-> v]
Null  == Value("null", "null")
NullDefault == Value("nullDefault", "null")  \* the sentinel of a default that is null
Wrong == Value("error", "error")
IsOk(v) == v.type # "error"
Token(k, v) == << [k |-> k, v |-> v] >>
Bad  == Token("error", "error")
Has(k, in) == in # << >> /\ in[1].k = k

Type(s) == Graph[s].type
Primitives == {"null", "boolean", "int", "long", "float", "double", "bytes", "string"}
WireKind(type) ==
  CASE type \in {"int", "long"}     -> "varint"
    [] type \in {"string", "bytes"} -> "bytes"
    [] OTHER                        -> type

\* schemaTypeName, without logical types.
TypeName(s) == IF Type(s) \in {"record", "enum", "fixed"} THEN Graph[s].full ELSE Type(s)
PositionIn(list, x) == CHOOSE i \in DOMAIN list : list[i] = x
FirstOf(S) == CHOOSE i \in S : \A j \in S : i <= j
------------------------------------------------------------------------------
\* Plans.  The codecs read schema s itself by Self(s); Pair(r, w) is what
\* resolve built to read data of w as r.  Placeholders of recursive records
\* need no counterpart: a plan names its pair, and the pair its children.
\* A union is always the writer's: the data says which branch it is.
Self(s)    == [of |-> "self", r |-> s, w |-> s, type |-> Type(s)]
Pair(r, w) == [of |-> "pair", r |-> r, w |-> w, type |-> IF Type(w) = "union" THEN "union" ELSE Type(r)]
NoPlan     == [of |-> "none", r |-> "none", w |-> "none", type |-> "none"]

\* Mutant: the first branch of the reader's union is taken unasked.
FirstBranch(r, w) == {1}

\* The branches of a reader's union that data of w may be read with; the first
\* one is taken.
ReadableBranches(r, w) ==
  { i \in DOMAIN Graph[r].types : << Graph[r].types[i], w >> \in Resolvable }
FirstReadable(r, n, readable) ==
  CASE n.type # "union" -> r
    [] n.type = "union" /\ readable # {} -> n.types[FirstOf(readable)]
    [] OTHER -> "none"
ReaderBranch(r, w) == FirstReadable(r, Graph[r], ReadableBranches(r, w))

ResolveNodes(r, w, rn, wn) ==
  CASE rn.type # wn.type -> IF C!Promotes(wn.type, rn.type) THEN Pair(r, w) ELSE NoPlan
    [] rn.type = wn.type /\ rn.type \in Primitives \cup {"fixed"} -> Self(r)
    [] rn.type = wn.type /\ rn.type = "enum" ->
         IF ~(wn.symbols \subseteq rn.symbols) /\ ~rn.default THEN NoPlan
         ELSE IF wn.list = rn.list THEN Self(r) ELSE Pair(r, w)
    [] OTHER -> Pair(r, w)
ResolvePlain(r, w) == IF r = "none" THEN NoPlan ELSE ResolveNodes(r, w, Graph[r], Graph[w])

Resolve(r, w) == IF Type(w) = "union" THEN Pair(r, w) ELSE ResolvePlain(ReaderBranch(r, w), w)

Child(p, sr, sw) == IF p.of = "self" THEN Self(sr) ELSE Resolve(sr, sw)
Items(p)     == Child(p, Graph[p.r].items, Graph[p.w].items)
\* decodeTypes: by the writer's index, once there is a writer.
BranchesFor(p, types) ==
  [i \in DOMAIN types |-> IF p.of = "self" THEN Self(types[i]) ELSE Resolve(p.r, types[i])]
Branches(p) == BranchesFor(p, Graph[p.w].types)

\* resolveRecord: the writer's fields in the writer's order, as the reader
\* calls them or to be ignored; then the reader's own, to be set by default.
PlanField(f, action, p) ==
  [name |-> f.name, aliases |-> f.aliases, default |-> f.default, json |-> f.json,
   type |-> f.type, action |-> action, plan |-> p]
ReadBy(i, rn, wn) == { f \in ToSet(rn.fields) : i \in C!Sources(f, wn) }
WriterField(wf, readers) ==
  IF readers = {} THEN PlanField([wf EXCEPT !.aliases = {}], "ignore", Self(wf.type))
  ELSE LET rf == CHOOSE f \in readers : TRUE IN PlanField(rf, "", Resolve(rf.type, wf.type))
ReaderOnly(rn, wn) ==
  LET unmatched(f) == C!Sources(f, wn) = {}
      added == SelectSeq(rn.fields, unmatched)
  IN  [j \in DOMAIN added |-> PlanField(added[j], "set_default", Self(added[j].type))]
ResolveFields(rn, wn) ==
  [i \in DOMAIN wn.fields |-> WriterField(wn.fields[i], ReadBy(i, rn, wn))] \o ReaderOnly(rn, wn)
OwnFields(n) == [i \in DOMAIN n.fields |-> PlanField(n.fields[i], "", Self(n.fields[i].type))]
PlanFields(p) == IF p.of = "self" THEN OwnFields(Graph[p.r]) ELSE ResolveFields(Graph[p.r], Graph[p.w])

\* validateRecordFields.
FieldsValid(fields) ==
  \A i, j \in DOMAIN fields : i # j =>
    /\ fields[i].name # fields[j].name
    /\ fields[i].name \notin fields[j].aliases
    /\ fields[i].aliases \cap fields[j].aliases = {}

\* The plans a plan leads to.
Children(p) ==
  CASE p.type = "union" -> ToSet(Branches(p))
    [] p.type \in {"array", "map"} -> {Items(p)}
    [] p.type = "record" -> { f.plan : f \in ToSet(PlanFields(p)) }
    [] OTHER -> {}
RECURSIVE ReachFrom(_, _)
ReachFrom(S, new) ==
  IF new = {} THEN S ELSE ReachFrom(S \cup new, UNION { Children(p) : p \in new } \ (S \cup new))
Reach(p) == ReachFrom({}, {p})
------------------------------------------------------------------------------
\* isValidDefault: the Go value of a JSON default, if the type accepts it.
FirstOk(vs) == LET fits == { i \in DOMAIN vs : IsOk(vs[i]) } IN IF fits = {} THEN 0 ELSE FirstOf(fits)
Whole(type, vs) == IF \A i \in DOMAIN vs : IsOk(vs[i]) THEN Value(type, vs) ELSE Wrong
Accepted(ok, v) == IF ok THEN v ELSE Wrong
FirstAccepted(vs) == IF FirstOk(vs) = 0 THEN Wrong ELSE vs[FirstOk(vs)]

FieldNames(n) == { n.fields[i].name : i \in DOMAIN n.fields }
FieldOf(n, x) == n.fields[CHOOSE i \in DOMAIN n.fields : n.fields[i].name = x]

RECURSIVE TypedDefault(_, _)
TypedNode(n, j) ==
  CASE n.type = "null" -> Accepted(j.type = "null", NullDefault)
    [] n.type \in {"int", "long", "float", "double"} -> Accepted(j.type = "number", Value(n.type, j.v))
    [] n.type \in {"string", "bytes"} -> Accepted(j.type = "text", Value(n.type, j.v))
    [] n.type = "boolean" -> Accepted(j.type = "boolean", j)
    [] n.type = "fixed" -> Accepted(j.type = "text" /\ Len(j.v) = n.size, Value("fixed", j.v))
    [] n.type = "enum" -> Accepted(j.type = "text" /\ j.v \in n.symbols, Value("string", j.v))
    [] n.type \in {"array", "map"} ->
         Accepted(j.type = (IF n.type = "array" THEN "list" ELSE "object"),
                  Whole(n.type, [x \in DOMAIN j.v |-> TypedDefault(n.items, j.v[x])]))
    [] n.type = "record" ->
         Accepted(j.type = "object",
                  Whole("record", [x \in FieldNames(n) |->
                     LET f == FieldOf(n, x) IN
                     Accepted(x \in DOMAIN j.v \/ f.default,
                              TypedDefault(f.type, IF x \in DOMAIN j.v THEN j.v[x] ELSE f.json))]))
    [] OTHER -> FirstAccepted([i \in DOMAIN n.types |-> TypedDefault(n.types[i], j)])
TypedDefault(s, j) == TypedNode(Graph[s], j)

\* Field.Default: the sentinel of the field itself becomes nil, none below it.
WithoutSentinel(v) == IF v = NullDefault THEN Null ELSE v

\* With the branch recordUnionDefault names for a union field.
DefaultIn(types, vs) ==
  Value("union", << TypeName(types[FirstOk(vs)]), WithoutSentinel(vs[FirstOk(vs)]) >>)
DefaultOf(n, vs) == IF n.type = "union" THEN DefaultIn(n.types, vs) ELSE WithoutSentinel(vs[1])
DefaultValue(f) ==
  LET types(n) == IF n.type = "union" THEN n.types ELSE << f.type >>
      typed(list) == [i \in DOMAIN list |-> TypedDefault(list[i], f.json)]
  IN  DefaultOf(Graph[f.type], typed(types(Graph[f.type])))
------------------------------------------------------------------------------
\* Encoders.  The branch of a union: the key of a one-entry map, or what the
\* resolver has registered for the Go type, in its order.
GoNames(n, d) ==
  CASE d.type = "union" -> << d.v[1] >>
    [] d.type = "int"   -> << "int", "long" >>
    [] d.type \in Primitives \ {"int"} -> << d.type >>
    [] d.type = "array" /\ Len(n.types) = 2 /\ \E i \in 1 .. 2 : Type(n.types[i]) = "null" -> << "array" >>
    [] OTHER -> << >>
BranchAt(n, d) ==
  LET at(name) == { i \in DOMAIN n.types : TypeName(n.types[i]) = name }
      known    == SelectSeq(GoNames(n, d), LAMBDA name : at(name) # {})
  IN  IF known = << >> THEN 0 ELSE FirstOf(at(known[1]))
Payload(d) == IF d.type = "union" THEN d.v[2] ELSE d

\* A block of items, and the end of the blocks.
Blocks(items) ==
  (IF items = << >> THEN << >> ELSE Token("varint", Len(items)) \o FlattenSeq(items)) \o Token("varint", 0)

\* The keys of a map in some order.
MapItem(key, item) == Token("bytes", key) \o item
Accepts(n, d) == d.type = n.type \/ (d.type = "int" /\ n.type = "long")
Guarded(ok, tokens) == IF ok THEN tokens ELSE Bad

RECURSIVE Encode(_, _)
\* A field of the value, or the field's default.
EncodeField(f, d) ==
  Guarded(f.name \in DOMAIN d.v \/ f.default,
          Encode(f.type, IF f.name \in DOMAIN d.v THEN d.v[f.name] ELSE DefaultValue(f)))
EncodeBranch(n, i, d) == Guarded(i # 0, Token("varint", i - 1) \o Encode(n.types[i], Payload(d)))
EncodeNode(n, d) ==
  CASE n.type = "null" -> << >>
    [] n.type \in Primitives \ {"null"} -> Guarded(Accepts(n, d), Token(WireKind(n.type), d.v))
    [] n.type = "fixed" -> Guarded(Accepts(n, d) /\ Len(d.v) = n.size, Token("fixed", d.v))
    [] n.type = "enum" ->
         Guarded(d.type = "string" /\ d.v \in n.symbols, Token("varint", PositionIn(n.list, d.v) - 1))
    [] n.type = "array" ->
         Guarded(Accepts(n, d), Blocks([i \in DOMAIN d.v |-> Encode(n.items, d.v[i])]))
    [] n.type = "map" ->
         Guarded(Accepts(n, d),
                 Blocks([i \in DOMAIN SetToSeq(DOMAIN d.v) |->
                           LET key == SetToSeq(DOMAIN d.v)[i] IN MapItem(key, Encode(n.items, d.v[key]))]))
    [] n.type = "record" ->
         Guarded(Accepts(n, d), FlattenSeq([i \in DOMAIN n.fields |-> EncodeField(n.fields[i], d)]))
    [] OTHER -> EncodeBranch(n, BranchAt(n, d), d)
Encode(s, d) == EncodeNode(Graph[s], d)

Fails(tokens) == \E i \in DOMAIN tokens : tokens[i].k = "error"
------------------------------------------------------------------------------
\* Skip decoders: what is left after skipping a plan's data.

\* Mutant: the fields set by default are skipped too.
SkipEveryField(fields) == fields

\* Reader-only defaults occupy no bytes.
SkippedFields(fields) ==
  LET written(f) == f.action # "set_default" IN SelectSeq(fields, written)

\* What is left after a token of a kind.
Past(kind, in) == Guarded(Has(kind, in), Tail(in))
\* An index that starts what is left, or -1.
Index(in) == IF Has("varint", in) THEN in[1].v ELSE -1

RECURSIVE Skip(_, _)
RECURSIVE SkipItems(_, _, _, _)
SkipItems(p, keyed, n, in) ==
  CASE n = 0 /\ Index(in) = 0 -> Tail(in)
    [] n = 0 /\ Index(in) # 0 -> Guarded(Has("varint", in), SkipItems(p, keyed, Index(in), Tail(in)))
    [] OTHER -> SkipItems(p, keyed, n - 1, Skip(p, IF keyed THEN Past("bytes", in) ELSE in))
SkipBranch(branches, in) ==
  Guarded(Index(in) \in 0 .. Len(branches) - 1, Skip(branches[Index(in) + 1], Tail(in)))
Skip(p, in) ==
  CASE p.type = "null" -> in
    [] p.type \in Primitives \ {"null"} -> Past(WireKind(Type(p.w)), in)
    [] p.type = "fixed"  -> Past("fixed", in)
    [] p.type = "enum"   -> Guarded(Index(in) \in 0 .. Len(Graph[p.w].list) - 1, Tail(in))
    [] p.type = "record" ->
         FoldLeft(LAMBDA left, f : Skip(f.plan, left), in, SkippedFields(PlanFields(p)))
    [] p.type \in {"array", "map"} -> SkipItems(Items(p), p.type = "map", 0, in)
    [] OTHER -> SkipBranch(Branches(p), in)
------------------------------------------------------------------------------
\* Decoders, into an any ({"any"}), by ReadNext ({"next"}), or for a record into
\* a struct with these fields.  What was read, and the tokens left.
Got(v, rest) == [v |-> v, rest |-> rest]
Failed == Got(Wrong, << >>)

\* Mutant of Symbol: the reader's own list is indexed.
SymbolOfReader(p, i) ==
  LET list == Graph[p.r].list IN IF i \in 0 .. Len(list) - 1 THEN Value("string", list[i + 1]) ELSE Wrong

\* EnumSchema.Symbol.
SymbolAt(list, n, i) ==
  CASE i \notin 0 .. Len(list) - 1 -> Wrong
    [] i \in 0 .. Len(list) - 1 /\ list[i + 1] \in n.symbols -> Value("string", list[i + 1])
    [] OTHER -> IF n.default THEN Value("string", n.def) ELSE Wrong
Symbol(p, i) == SymbolAt(Graph[p.w].list, Graph[p.r], i)

\* A decoded union value: bare when the resolver knows a Go type for every
\* branch and the destination is an any, else keyed by the branch's name.
BranchName(p) == IF p.type \in {"record", "enum", "fixed"} THEN Graph[p.r].full ELSE p.type
Tagged(branches, branch, v, how) ==
  IF ~IsOk(v) \/ (how # {"next"} /\ \A i \in DOMAIN branches : branches[i].type \in Primitives)
  THEN v ELSE Value("union", << BranchName(branch), v >>)

\* Where a field goes: under its name, or in the struct field of its name or
\* of an alias.
Place(f, into_) ==
  CASE into_ \in {{"any"}, {"next"}} -> {f.name}
    [] into_ \notin {{"any"}, {"next"}} /\ f.name \in into_ -> {f.name}
    [] OTHER -> LET S == f.aliases \cap into_ IN IF S = {} THEN {} ELSE { CHOOSE a \in S : TRUE }

RECURSIVE Decode(_, _, _)
RECURSIVE DecodeItems(_, _, _, _, _, _)
\* After a decoded item: the rest of the items, or its error.
NextItem(p, keyed, n, in, how, got, x) ==
  IF ~IsOk(x.v) THEN Failed
  ELSE DecodeItems(p, keyed, n - 1, x.rest, how, IF keyed THEN (in[1].v :> x.v) @@ got ELSE Append(got, x.v))
\* The items of an array (keyed: of a map) onto got.
DecodeItems(p, keyed, n, in, how, got) ==
  CASE n = 0 /\ Index(in) = 0 -> Got(Value(IF keyed THEN "map" ELSE "array", got), Tail(in))
    [] n = 0 /\ Index(in) # 0 ->
         IF Has("varint", in) THEN DecodeItems(p, keyed, Index(in), Tail(in), how, got) ELSE Failed
    [] n # 0 /\ keyed /\ ~Has("bytes", in) -> Failed
    [] OTHER ->
         NextItem(p, keyed, n, in, how, got, Decode(p, IF keyed THEN Tail(in) ELSE in, how))

\* A field of its plan: decoded, skipped, or set by default from the default's
\* own encoding.
DecodeDefault(plan_, bytes, in, how) ==
  IF Fails(bytes) THEN Failed ELSE Got(Decode(plan_, bytes, how).v, in)
DecodeField(f, to, in, how) ==
  CASE f.action = "set_default" /\ to # {} -> DecodeDefault(f.plan, Encode(f.type, DefaultValue(f)), in, how)
    [] f.action = "set_default" /\ to = {} -> Got(Null, in)
    [] f.action # "set_default" /\ to # {} -> Decode(f.plan, in, how)
    [] OTHER -> Got(Null, Skip(f.plan, in))
\* The fields one after the other, onto the record read so far.
WithField(record, x, to) ==
  IF ~IsOk(x.v) THEN Failed
  ELSE Got(Value("record", [a \in to |-> x.v] @@ record.v.v), x.rest)
DecodeFields(fields, in, into_) ==
  LET how == IF into_ = {"next"} THEN into_ ELSE {"any"}
      to(f) == IF f.action = "ignore" THEN {} ELSE Place(f, into_)
  IN  FoldLeft(LAMBDA record, f :
                 IF IsOk(record.v) THEN WithField(record, DecodeField(f, to(f), record.rest, how), to(f)) ELSE Failed,
               Got(Value("record", << >>), in), fields)

AfterIndex(branches, branch, x, how) ==
  IF branch.type = "null" THEN x ELSE Got(Tagged(branches, branch, x.v, how), x.rest)
DecodeBranch(branches, in, how) ==
  IF Index(in) \notin 0 .. Len(branches) - 1 THEN Failed
  ELSE AfterIndex(branches, branches[Index(in) + 1], Decode(branches[Index(in) + 1], Tail(in), how), how)
Decode(p, in, how) ==
  CASE p.type = "null" -> Got(Null, in)
    [] p.type \in (Primitives \ {"null"}) \cup {"fixed"} ->
         IF Has(WireKind(Type(p.w)), in) THEN Got(Value(p.type, in[1].v), Tail(in)) ELSE Failed
    [] p.type = "enum" -> IF Has("varint", in) THEN Got(Symbol(p, Index(in)), Tail(in)) ELSE Failed
    [] p.type \in {"array", "map"} -> DecodeItems(Items(p), p.type = "map", 0, in, how, << >>)
    [] p.type = "record" -> DecodeFields(PlanFields(p), in, how)
    [] OTHER -> DecodeBranch(Branches(p), in, how)
------------------------------------------------------------------------------
\* Fingerprints, as the text that is hashed: equal for equal fingerprints.

\* compatibilityFingerprint: every definition once, then by its number.
Named(type) == type \in {"record", "enum", "fixed"}
CompatOwn(n) ==
  CASE n.type = "record" -> << n.full, n.aliases, [i \in DOMAIN n.fields |->
                               << n.fields[i].name, n.fields[i].aliases, n.fields[i].default >>] >>
    [] n.type = "enum"   -> << n.full, n.aliases, n.list, n.default >>
    [] n.type = "fixed"  -> << n.full, n.aliases, n.size, n.decimal >>
    [] OTHER             -> << C!Decimal(n) >>
CompatChildren(n) ==
  CASE n.type = "record"            -> [i \in DOMAIN n.fields |-> n.fields[i].type]
    [] n.type \in {"array", "map"} -> << n.items >>
    [] n.type = "union"             -> n.types
    [] OTHER                        -> << >>
RECURSIVE CompatNode(_, _)
Numbered(told, x) == [seen |-> x.seen, out |-> Append(told.out, x.out)]
CompatNodes(nodes, seen) ==
  FoldLeft(LAMBDA told, s : Numbered(told, CompatNode(s, told.seen)), [seen |-> seen, out |-> << >>], nodes)
CompatTold(n, x) == [seen |-> x.seen, out |-> << n.type, CompatOwn(n), x.out >>]
CompatNode(s, seen) ==
  IF Named(Type(s)) /\ Contains(seen, s)
  THEN [seen |-> seen, out |-> << "reference", PositionIn(seen, s) >>]
  ELSE CompatTold(Graph[s], CompatNodes(CompatChildren(Graph[s]), IF Named(Type(s)) THEN Append(seen, s) ELSE seen))

\* codecCacheNode: a named schema is expanded once and then named.  What its
\* canonical forms add to the children they also print is left out.  bind is
\* what finish mixes into the caches of what resolve built.
WriterOf(p, bind) == IF p.of = "self" THEN << >> ELSE << bind, TypeName(p.w) >>
CacheOwn(p, n, fields) ==
  CASE p.type = "record" -> << n.full, n.aliases, [i \in DOMAIN fields |->
                                    << fields[i].name, fields[i].aliases, fields[i].action, fields[i].json >>] >>
    [] p.type = "enum"   -> << n.full, n.aliases, n.list, n.def, IF p.of = "self" THEN << >> ELSE Graph[p.w].list >>
    [] p.type = "fixed"  -> << n.full, n.aliases, n.size >>
    [] OTHER                  -> << Type(p.w) >>
\* The children of a plan as fields, named for records only.
CacheFields(p) ==
  CASE p.type = "record"            -> PlanFields(p)
    [] p.type \in {"array", "map"} -> << [plan |-> Items(p)] >>
    [] p.type = "union"             -> LET plans == Branches(p) IN [i \in DOMAIN plans |-> [plan |-> plans[i]]]
    [] OTHER                             -> << >>
RECURSIVE CacheNode(_, _, _)
Expanded(told, x) == [expanded |-> x.expanded, out |-> Append(told.out, x.out)]
CacheNodes(fields, expanded, bind) ==
  FoldLeft(LAMBDA told, f : Expanded(told, CacheNode(f.plan, told.expanded, bind)),
           [expanded |-> expanded, out |-> << >>], fields)
CacheTold(p, bind, fields, x) ==
  [expanded |-> x.expanded, out |-> << p.type, WriterOf(p, bind), CacheOwn(p, Graph[p.r], fields), x.out >>]
CacheFor(p, expanded, bind, fields) == CacheTold(p, bind, fields, CacheNodes(fields, expanded, bind))
CacheNode(p, expanded, bind) ==
  LET name == Graph[p.r].full IN
  IF Named(p.type) /\ name \in expanded THEN [expanded |-> expanded, out |-> << "ref", name >>]
  ELSE CacheFor(p, IF Named(p.type) THEN expanded \cup {name} ELSE expanded, bind, CacheFields(p))

\* Mutant of Binding: finish binds the caches to nothing.
Unbound(r, w) == ""

\* finish: both graphs, and both sides of every record pair.
Bound(r, w, compat, own, pairs) ==
  ToString(<< compat[r], compat[w], own[r], own[w], { << own[p.r], own[p.w] >> : p \in pairs } >>)
BoundPairs(r, w, pairs) ==
  LET all == {r, w} \cup { p.r : p \in pairs } \cup { p.w : p \in pairs }
  IN  Bound(r, w, [s \in {r, w} |-> CompatNode(s, << >>).out],
            [s \in all |-> ToString(CacheNode(Self(s), {}, "").out)], pairs)
Binding(r, w) == BoundPairs(r, w, { p \in Reach(Resolve(r, w)) : p.of = "pair" /\ p.type = "record" })

Fingerprint(p, bind) == ToString(CacheNode(p, {}, bind).out)
Readables == Requests \cap Resolvable
Bindings == [q \in Readables |-> Binding(q[1], q[2])]
Fingerprints == [q \in Readables |-> Fingerprint(Resolve(q[1], q[2]), Bindings[q])]
\* newCacheKey: requests stand for the fingerprints they share.
SameAs(q, prints) == CHOOSE x \in Readables : prints[x] = prints[q]
CacheKey(q, to) == << SameAs(q, Fingerprints), to >>

\* The decoders one decoderOfType call builds for the records of a plan, and
\* later finds again for references, are keyed by fingerprint as well.
DecodedChildren(p) ==
  IF p.type # "record" THEN Children(p)
  ELSE { f.plan : f \in { g \in ToSet(PlanFields(p)) : g.action # "ignore" } }
RECURSIVE DecodedFrom(_, _)
DecodedFrom(S, new) ==
  IF new = {} THEN S ELSE DecodedFrom(S \cup new, UNION { DecodedChildren(p) : p \in new } \ (S \cup new))
DecoderTable ==
  [q \in Readables |->
     { << p, Fingerprint(p, Bindings[q]) >> :
         p \in { x \in DecodedFrom({}, {Resolve(q[1], q[2])}) : x.type = "record" } }]
------------------------------------------------------------------------------
None == Value("none", "none")
NoRequest == << "none", "none" >>

Init ==
  /\ step = "idle" /\ request = NoRequest /\ plan = NoPlan
  /\ datum = None /\ wire = << >> /\ into = {} /\ result = Got(None, << >>)
  /\ decoders = << >>

\* Resolve, for schemas Compatible accepts; any other pair is its error.
Ask(q) ==
  /\ step = "idle" /\ q \in Resolvable
  /\ Cardinality(DOMAIN decoders) < CacheBound
  /\ request' = q /\ plan' = Resolve(q[1], q[2])
  /\ step' = "resolved"
  /\ UNCHANGED << datum, wire, into, result, decoders >>

\* The writer encodes a value by its schema, or refuses it.
Write(d) ==
  /\ step = "resolved"
  /\ datum' = d /\ wire' = Encode(request[2], d)
  /\ step' = IF Fails(wire') THEN "failed" ELSE "written"
  /\ UNCHANGED << request, plan, into, result, decoders >>

\* ReadVal with the resolved schema, through the cached decoder if there is
\* one; ReadNext builds and caches none.
ReadThrough(to, key) ==
  LET dec == IF key \in DOMAIN decoders THEN decoders[key] ELSE plan
  IN  /\ step = "written"
      /\ into' = to
      /\ result' = Decode(IF to = {"next"} THEN plan ELSE dec, wire, to)
      /\ decoders' = IF to = {"next"} THEN decoders ELSE (key :> dec) @@ decoders
      /\ step' = "read"
      /\ UNCHANGED << request, plan, datum, wire >>
Read(to) == ReadThrough(to, CacheKey(request, to))

Done ==
  /\ step \in {"failed", "read"}
  /\ step' = "idle" /\ request' = NoRequest /\ plan' = NoPlan
  /\ datum' = None /\ wire' = << >> /\ into' = {} /\ result' = Got(None, << >>)
  /\ UNCHANGED decoders

Targets(p) == { {"any"}, {"next"} } \cup (IF p.type = "record" THEN Structs[p.r] ELSE {})

Next ==
  \/ \E q \in Requests : Ask(q)
  \/ step = "resolved" /\ \E d \in Data[request[2]] : Write(d)
  \/ step = "written" /\ \E to \in Targets(plan) : Read(to)
  \/ Done

Spec == Init /\ [][Next]_vars
------------------------------------------------------------------------------
\* The reference: what Avro's rules read from a value, schemas alone in hand.
RECURSIVE Bare(_)
\* A value without the names of union branches.
Bare(v) ==
  CASE v.type = "union" -> Bare(v.v[2])
    [] v.type \in {"array", "map", "record"} -> Value(v.type, [x \in DOMAIN v.v |-> Bare(v.v[x])])
    [] OTHER -> IF v = NullDefault THEN Null ELSE v

Fits(s, d) ==
  CASE Type(s) = "enum" -> d.type = "string" /\ d.v \in Graph[s].symbols
    [] OTHER -> d.type = Type(s) \/ (d.type = "int" /\ Type(s) = "long")
MeantBranch(n, d) ==
  IF d.type = "union" THEN CHOOSE i \in DOMAIN n.types : TypeName(n.types[i]) = d.v[1]
  ELSE FirstOf({ i \in DOMAIN n.types : Fits(n.types[i], d) })

Given(f, d) == IF f.name \in DOMAIN d.v THEN d.v[f.name] ELSE Bare(TypedDefault(f.type, f.json))

RECURSIVE ReadAs(_, _, _)
ReadAs(r, w, d) ==
  LET rn == Graph[r]
      wn == Graph[w]
      field(x) == rn.fields[CHOOSE i \in DOMAIN rn.fields : rn.fields[i].name = x]
      readField(f) ==
        LET S == C!Sources(f, wn)
        IN  IF S = {} THEN Bare(TypedDefault(f.type, f.json))
            ELSE LET wf == wn.fields[CHOOSE i \in S : TRUE] IN ReadAs(f.type, wf.type, Given(wf, d))
  IN  CASE wn.type = "union" -> ReadAs(r, wn.types[MeantBranch(wn, d)], Payload(d))
        [] wn.type # "union" /\ rn.type = "union" -> ReadAs(rn.types[FirstOf(ReadableBranches(r, w))], w, d)
        [] rn.type = "null" -> Null
        [] rn.type = "enum" -> Value("string", IF d.v \in rn.symbols THEN d.v ELSE rn.def)
        [] rn.type \in {"array", "map"} -> Value(rn.type, [x \in DOMAIN d.v |-> ReadAs(rn.items, wn.items, d.v[x])])
        [] rn.type = "record" ->
             Value("record", [x \in { rn.fields[i].name : i \in DOMAIN rn.fields } |-> readField(field(x))])
        [] OTHER -> Value(rn.type, d.v)

Expected == ReadAs(request[1], request[2], datum)
\* The part of a record that a struct with these fields has room for.
InStruct(fields, v, to) ==
  LET placed == { i \in DOMAIN fields : fields[i].action # "ignore" /\ Place(fields[i], to) # {} }
      at(a)  == CHOOSE i \in placed : a \in Place(fields[i], to)
  IN  Value("record", [a \in UNION { Place(fields[i], to) : i \in placed } |-> v.v[fields[at(a)].name]])

\* Resolve "fails if the writer and reader schemas are not compatible" and
\* only then: whatever branch, symbol or field the data takes, the plan has a
\* plan for it, and records it builds have distinct field names and aliases.
CompatibleResolves ==
  step # "idle" =>
    \A p \in Reach(plan) : p # NoPlan /\ (p.type = "record" => FieldsValid(PlanFields(p)))

\* Decoding the writer's data by the plan, into an any or with ReadNext, gives
\* what Avro's rules give, and consumes the value exactly.
DecodingIsResolution ==
  (step = "read" /\ into \in {{"any"}, {"next"}}) =>
    /\ Bare(result.v) = Expected
    /\ result.rest = << >>

\* Resolve preserves "nested promotions, defaults and references": what was
\* written is read without an error, into an any or with ReadNext.
ResolvedReads == (step = "read" /\ into \in {{"any"}, {"next"}}) => IsOk(result.v)

\* A struct that lacks some of the fields gets the others right: what is
\* skipped is as long as what was written.
SkippingKeepsPlace ==
  (step = "read" /\ into \notin {{"any"}, {"next"}}) =>
    /\ Bare(result.v) = InStruct(PlanFields(plan), Expected, into)
    /\ result.rest = << >>

\* Two plans share a cached decoder, or records of one plan a decoder of the
\* same build, only if they decode alike.
CacheSeparatesPlans ==
  (step = "read" /\ into # {"next"}) =>
    /\ result = Decode(plan, wire, into)
    /\ \A x, y \in DecoderTable[request] : x[2] = y[2] => x[1] = y[1]
==============================================================================
