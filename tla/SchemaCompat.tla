----------------------------- MODULE SchemaCompat -----------------------------
(***************************************************************************)
(* SchemaCompatibility (schema_compatibility.go): may data written with    *)
(* one schema be read with another?                                        *)
(*                                                                         *)
(* Schemas are a graph: a node is a schema, recursive schemas are cycles.  *)
(* Compatible walks pairs (reader, writer) depth first.  A pair that is    *)
(* already being decided further up the same call is taken to be           *)
(* compatible; every decided pair goes into a cache that all calls share,  *)
(* from any goroutine.  The answer that must come out is the greatest      *)
(* relation closed under Avro's rules for resolving schemas.               *)
(***************************************************************************)
EXTENDS Integers, Sequences, FiniteSets

CONSTANTS
  Schemas,  \* the schemas, one for each compatibilityFingerprint
  Graph,    \* what each schema is: type, name, fields, items, ...
  Callers,  \* goroutines that call Compatible
  Asked,    \* the pairs << reader, writer >> they ask about
  NoPair,   \* nothing is being asked
  Rounds    \* bound: iterations of the reference definitions

ASSUME GraphAssumption == DOMAIN Graph = Schemas /\ Asked \subseteq Schemas \X Schemas
ASSUME ShapeAssumption ==
  \A s \in Schemas : LET g == Graph[s] IN
    /\ g.type = "union" => g.types \in Seq(Schemas)
    /\ g.type \in {"array", "map"} => g.items \in Schemas
    /\ g.type = "record" => /\ g.fields \in Seq({g.fields[i] : i \in DOMAIN g.fields})
                           /\ \A i \in DOMAIN g.fields : g.fields[i].type \in Schemas
ASSUME NoPairAssumption == NoPair \notin Schemas \X Schemas

VARIABLES
  cache,   \* SchemaCompatibility.cache: pairs decided so far and how
  goal,    \* the pair compatible() was called for and has not looked up yet
  stack,   \* pairs a call is deciding, outermost first: the active set
  answer,  \* what the innermost call of compatible() returned
  query,   \* the pair each caller asks about
  assumed  \* history: pairs that were taken to be compatible

vars == << cache, goal, stack, answer, query, assumed >>

Pairs == Schemas \X Schemas
Verdicts == {"nil", "error"}
------------------------------------------------------------------------------
\* match: what to ask about a pair.  "all": every pair in turn must be
\* compatible; "any": one of them must.  Fail is an error found on the way.
Fail     == << "fail" >>
AllOf(asks) == [mode |-> "all", asks |-> asks]
AnyOf(asks) == [mode |-> "any", asks |-> asks]
Holds     == AllOf(<< >>)
Fails     == AllOf(<< Fail >>)
Check(b)  == IF b THEN Holds ELSE Fails

Promotes(w, r) ==
  << w, r >> \in { << "int", "long" >>, << "int", "float" >>, << "int", "double" >>,
                   << "long", "float" >>, << "long", "double" >>, << "float", "double" >>,
                   << "string", "bytes" >>, << "bytes", "string" >> }

\* checkDecimalCompatibility: precision and scale, when both are decimals.
Decimal(s) == IF s.type \in {"bytes", "fixed"} THEN s.decimal ELSE << >>
DecimalsAgree(r, w) == Decimal(r) = << >> \/ Decimal(w) = << >> \/ Decimal(r) = Decimal(w)

\* checkSchemaName: unqualified names, or an alias with the writer's full name.
NamesAgree(r, w) == r.name = w.name \/ w.full \in r.aliases

\* Writer fields a reader field may be filled from, through its name or aliases.
Sources(f, w) == { i \in DOMAIN w.fields : w.fields[i].name \in {f.name} \cup f.aliases }

\* matchRecordFields rejects fields that match more than once, on either side.
Ambiguous(r, w) ==
  \/ \E i \in DOMAIN r.fields : Cardinality(Sources(r.fields[i], w)) > 1
  \/ \E i, j \in DOMAIN r.fields : i # j /\ Sources(r.fields[i], w) \cap Sources(r.fields[j], w) # {}

\* Mutant of FieldAsk: a reader field without a source is passed over.
FieldAskNoDefault(f, w) ==
  { << f.type, w.fields[i].type >> : i \in Sources(f, w) }

\* What checkRecordFields does about one reader field: nothing, ask or fail.
FieldAsk(f, w) ==
  IF Sources(f, w) = {} THEN IF f.default THEN {} ELSE {Fail}
  ELSE { << f.type, w.fields[i].type >> : i \in Sources(f, w) }

\* The asks of the reader's fields, in the reader's order.
FieldAsks(r, w) ==
  LET upTo[i \in 0 .. Len(r.fields)] ==
        IF i = 0 THEN << >>
        ELSE LET ask == FieldAsk(r.fields[i], w)
             IN  IF ask = {} THEN upTo[i - 1] ELSE Append(upTo[i - 1], CHOOSE a \in ask : TRUE)
  IN  upTo[Len(r.fields)]

Match(reader, writer) ==
  LET r == Graph[reader]
      w == Graph[writer]
  IN  CASE ~DecimalsAgree(r, w) -> Fails
        [] DecimalsAgree(r, w) /\ w.type = "union" ->
             AllOf([i \in DOMAIN w.types |-> << reader, w.types[i] >>])
        [] DecimalsAgree(r, w) /\ r.type = "union" /\ w.type # "union" ->
             AnyOf([i \in DOMAIN r.types |-> << r.types[i], writer >>])
        [] DecimalsAgree(r, w) /\ r.type # w.type /\ "union" \notin {r.type, w.type} ->
             Check(Promotes(w.type, r.type))
        [] DecimalsAgree(r, w) /\ r.type = w.type /\ r.type # "union" ->
             CASE r.type \in {"array", "map"} -> AllOf(<< << r.items, w.items >> >>)
               [] r.type = "fixed"  -> Check(NamesAgree(r, w) /\ r.size = w.size)
               [] r.type = "enum"   -> Check(NamesAgree(r, w) /\ (w.symbols \subseteq r.symbols \/ r.default))
               [] r.type = "record" -> IF ~NamesAgree(r, w) \/ Ambiguous(r, w) THEN Fails
                                       ELSE AllOf(FieldAsks(r, w))
               [] OTHER             -> Holds
------------------------------------------------------------------------------
Init ==
  /\ cache = << >>
  /\ goal = [c \in Callers |-> NoPair]
  /\ stack = [c \in Callers |-> << >>]
  /\ answer = [c \in Callers |-> "none"]
  /\ query = [c \in Callers |-> NoPair]
  /\ assumed = {}

Active(c)  == { stack[c][i].pair : i \in DOMAIN stack[c] }
Top(c)     == stack[c][Len(stack[c])]
Rest(c)    == SubSeq(stack[c], 1, Len(stack[c]) - 1)
Waiting(c) == goal[c] = NoPair /\ stack[c] # << >>

\* Compatible, with an active set of its own.
Compatible(c, p) ==
  /\ query[c] = NoPair
  /\ query' = [query EXCEPT ![c] = p]
  /\ goal' = [goal EXCEPT ![c] = p]
  /\ answer' = [answer EXCEPT ![c] = "none"]
  /\ UNCHANGED << cache, stack, assumed >>

\* compatible: another call, or this one, has decided the pair.
Load(c) ==
  /\ goal[c] \in DOMAIN cache
  /\ answer' = [answer EXCEPT ![c] = cache[goal[c]]]
  /\ goal' = [goal EXCEPT ![c] = NoPair]
  /\ UNCHANGED << cache, stack, query, assumed >>

\* Mutant: the recursion marker is an error.
MarkerIsError == "error"

\* compatible: the pair is being decided further up in this call.
Assumed   == "nil"
Deciding(c) == Active(c)

Assume(c) ==
  /\ goal[c] # NoPair /\ goal[c] \notin DOMAIN cache
  /\ goal[c] \in Deciding(c)
  /\ answer' = [answer EXCEPT ![c] = Assumed]
  /\ goal' = [goal EXCEPT ![c] = NoPair]
  /\ assumed' = assumed \cup {goal[c]}
  /\ UNCHANGED << cache, stack, query >>

\* compatible: the pair becomes active and match is called.
Enter(c) ==
  LET p == goal[c] IN
  /\ p # NoPair /\ p \notin DOMAIN cache /\ p \notin Deciding(c)
  /\ stack' = [stack EXCEPT ![c] = Append(@, [pair |-> p, left |-> Match(p[1], p[2]).asks])]
  /\ goal' = [goal EXCEPT ![c] = NoPair]
  /\ answer' = [answer EXCEPT ![c] = "none"]
  /\ UNCHANGED << cache, query, assumed >>

ModeOf(p) == Match(p[1], p[2]).mode

\* Mutant of Verdict: the first child decides.
FirstBranchOnly(mode, left, child) ==
  CASE child # "none" -> child
    [] child = "none" /\ left = << >> -> (IF mode = "all" THEN "nil" ELSE "error")
    [] child = "none" /\ left # << >> /\ left[1] = Fail -> "error"
    [] OTHER -> "none"

\* What match returns, if it can tell, from the answer of the last child it
\* asked about ("none" before the first) and the asks that are left.
Verdict(mode, left, child) ==
  CASE mode = "all" /\ (child = "error" \/ (left # << >> /\ left[1] = Fail)) -> "error"
    [] mode = "any" /\ child = "nil" -> "nil"
    [] mode = "all" /\ child # "error" /\ left = << >> -> "nil"
    [] mode = "any" /\ child # "nil" /\ left = << >> -> "error"
    [] OTHER -> "none"

Decision(c) == Verdict(ModeOf(Top(c).pair), Top(c).left, answer[c])

\* match asks about the next pair.
AskNext(c) ==
  /\ Waiting(c) /\ Decision(c) = "none"
  /\ goal' = [goal EXCEPT ![c] = Top(c).left[1]]
  /\ stack' = [stack EXCEPT ![c][Len(stack[c])].left = Tail(@)]
  /\ UNCHANGED << cache, answer, query, assumed >>

\* compatible: match has returned; the pair leaves the active set and its
\* verdict is stored and returned.
Store(c) ==
  /\ Waiting(c) /\ Decision(c) # "none"
  /\ cache' = [p \in DOMAIN cache \cup {Top(c).pair} |->
                 IF p = Top(c).pair THEN Decision(c) ELSE cache[p]]
  /\ answer' = [answer EXCEPT ![c] = Decision(c)]
  /\ stack' = [stack EXCEPT ![c] = Rest(c)]
  /\ UNCHANGED << goal, query, assumed >>

\* The call returns answer[c] to the caller.
Return(c) ==
  /\ query[c] # NoPair /\ goal[c] = NoPair /\ stack[c] = << >>
  /\ query' = [query EXCEPT ![c] = NoPair]
  /\ UNCHANGED << cache, goal, stack, answer, assumed >>

Next == \E c \in Callers :
  \/ \E p \in Asked : Compatible(c, p)
  \/ Load(c) \/ Assume(c) \/ Enter(c) \/ AskNext(c) \/ Store(c) \/ Return(c)

Spec == Init /\ [][Next]_vars
------------------------------------------------------------------------------
\* Avro's rules, for the pairs in X being readable.
Readable(reader, writer, X) ==
  LET r == Graph[reader]
      w == Graph[writer]
      filled(f) == \E g \in DOMAIN w.fields :
        /\ Sources(f, w) = {g}
        /\ << f.type, w.fields[g].type >> \in X
  IN  /\ (Decimal(r) # << >> /\ Decimal(w) # << >>) => Decimal(r) = Decimal(w)
      /\ \/ w.type = "union" /\ \A i \in DOMAIN w.types : << reader, w.types[i] >> \in X
         \/ /\ r.type = "union" /\ w.type # "union"
            /\ \E i \in DOMAIN r.types : << r.types[i], writer >> \in X
         \/ /\ "union" \notin {r.type, w.type} /\ r.type # w.type /\ Promotes(w.type, r.type)
         \/ /\ r.type = w.type
            /\ r.type \in {"fixed", "enum", "record"} => NamesAgree(r, w)
            /\ CASE r.type \in {"array", "map"} -> << r.items, w.items >> \in X
                 [] r.type = "fixed" -> r.size = w.size
                 [] r.type = "enum" -> r.default \/ \A s \in w.symbols : s \in r.symbols
                 [] r.type = "record" ->
                      /\ \A i \in DOMAIN r.fields :
                           filled(r.fields[i]) \/ (Sources(r.fields[i], w) = {} /\ r.fields[i].default)
                      /\ \A g \in DOMAIN w.fields :
                           Cardinality({ i \in DOMAIN r.fields : g \in Sources(r.fields[i], w) }) <= 1
                 [] r.type = "union" -> FALSE
                 [] OTHER -> TRUE

\* The pairs that are readable: the greatest set closed under the rules.
ReadablePairs ==
  LET shrink[n \in 0 .. Rounds] ==
        IF n = 0 THEN Pairs
        ELSE LET X == shrink[n - 1] IN { p \in X : Readable(p[1], p[2], X) }
  IN  shrink[Rounds]

\* The pairs with no recursion below them: the least set that contains a pair
\* when it contains all that match may ask about it.
Asks(p) == LET asks == Match(p[1], p[2]).asks IN { asks[i] : i \in DOMAIN asks } \ {Fail}
FlatPairs ==
  LET grow[n \in 0 .. Rounds] ==
        IF n = 0 THEN {}
        ELSE LET X == grow[n - 1] IN { p \in Pairs : Asks(p) \subseteq X }
  IN  grow[Rounds]

\* Enough rounds for both sets to be fixed points.
ASSUME RoundsAssumption ==
  /\ Rounds \in Nat
  /\ ReadablePairs = { p \in ReadablePairs : Readable(p[1], p[2], ReadablePairs) }
  /\ FlatPairs = { p \in Pairs : Asks(p) \subseteq FlatPairs }

\* Every variable keeps its type.
TypeOK ==
  /\ DOMAIN cache \subseteq Pairs /\ \A p \in DOMAIN cache : cache[p] \in Verdicts
  /\ goal \in [Callers -> Pairs \cup {NoPair}]
  /\ answer \in [Callers -> Verdicts \cup {"none"}]
  /\ query \in [Callers -> Asked \cup {NoPair}]
  /\ \A c \in Callers : Active(c) \subseteq Pairs
  /\ assumed \subseteq Pairs

\* A pair is only ever rejected for a reason: data of that writer cannot be
\* read with that reader, whatever was assumed or cached on the way.
ErrorsAreGenuine ==
  \A p \in DOMAIN cache : cache[p] = "error" => p \notin ReadablePairs

\* Without recursion below it a pair is decided exactly.
ExactWithoutRecursion ==
  \A p \in DOMAIN cache \cap FlatPairs : (cache[p] = "nil") <=> (p \in ReadablePairs)

\* A wrong answer can only come from an assumption that was refuted: if every
\* pair that was ever assumed was then accepted, every accepted pair is readable.
AssumptionsConfirmed ==
  /\ \A c \in Callers : query[c] = NoPair
  /\ \A p \in assumed : cache[p] = "nil"
  => \A p \in DOMAIN cache : cache[p] = "nil" => p \in ReadablePairs

\* "Compatible determines whether the reader can read the writer schema":
\* what a call returns is right.
AnswersAreRight ==
  \A c \in Callers :
    (query[c] # NoPair /\ goal[c] = NoPair /\ stack[c] = << >>)
      => ((answer[c] = "nil") <=> (query[c] \in ReadablePairs))
==============================================================================
