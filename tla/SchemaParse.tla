----------------------------- MODULE SchemaParse -----------------------------
(***************************************************************************)
(* Concurrent calls of ParseBytesWithCache (schema_parse.go) on one        *)
(* SchemaCache (schema.go), such as DefaultSchemaCache.  A call copies the *)
(* shared cache name by name, parses with its own copy, and on success     *)
(* stores its copy, name by name, in the shared cache.  A schema text is   *)
(* the sequence of its definitions and uses of names in the order they are *)
(* parsed: a record is defined before its fields are parsed.               *)
(***************************************************************************)
EXTENDS Integers, Sequences, FiniteSets

CONSTANTS Parsers, Names,
          Texts,     \* sequences of [does : {"define", "use"}, names : SUBSET Names]
          MaxCalls,  \* bound: calls in all
          None

ASSUME TextsAssumption ==
  /\ MaxCalls \in Nat
  /\ \A t \in Texts : t \in Seq([does : {"define", "use"}, names : SUBSET Names])

ASSUME NoneAssumption == None \notin [call : Nat, at : Nat]

\* A definition is known by the call that parsed it and its place in the text.
Definitions == [call : Nat, at : Nat]

VARIABLES shared,    \* the SchemaCache: a definition or None for each name
          calls,     \* calls so far
          accepted,  \* definitions of the texts that parsed without error
          pc, call, text, at,
          todo,      \* names sync.Map.Range has still to visit
          internal,  \* internalCache
          seen,      \* seenCache: names this text has defined
          uses,      \* what each use of this text was resolved to
          before,    \* names the shared cache had when the call began
          alone      \* no other call has been under way during this one

pvars == << pc, call, text, at, todo, internal, seen, uses, before, alone >>
vars  == << shared, calls, accepted, pvars >>

Nothing == [n \in Names |-> None]

Init ==
  /\ shared = Nothing /\ calls = 0 /\ accepted = {}
  /\ pc = [p \in Parsers |-> "idle"] /\ call = [p \in Parsers |-> 0]
  /\ text = [p \in Parsers |-> << >>] /\ at = [p \in Parsers |-> 0]
  /\ todo = [p \in Parsers |-> {}] /\ internal = [p \in Parsers |-> Nothing]
  /\ seen = [p \in Parsers |-> {}] /\ uses = [p \in Parsers |-> << >>]
  /\ before = [p \in Parsers |-> {}] /\ alone = [p \in Parsers |-> TRUE]

Active(p) == pc[p] \in {"copy", "parse", "publish"}
Event(p)  == text[p][at[p] + 1]
Own(p)    == [call |-> call[p], at |-> at[p] + 1]
NamesIn(cache) == {n \in Names : cache[n] /= None}

Begin(p) ==
  /\ ~Active(p) /\ calls < MaxCalls
  /\ \E t \in Texts : text' = [text EXCEPT ![p] = t]
  /\ calls' = calls + 1 /\ call' = [call EXCEPT ![p] = calls + 1]
  /\ pc' = [pc EXCEPT ![p] = "copy"] /\ at' = [at EXCEPT ![p] = 0]
  /\ todo' = [todo EXCEPT ![p] = Names]
  /\ internal' = [internal EXCEPT ![p] = Nothing]
  /\ seen' = [seen EXCEPT ![p] = {}] /\ uses' = [uses EXCEPT ![p] = << >>]
  /\ before' = [before EXCEPT ![p] = NamesIn(shared)]
  /\ alone' = [q \in Parsers |-> IF q = p THEN \A r \in Parsers : ~Active(r)
                                          ELSE alone[q] /\ ~Active(q)]
  /\ UNCHANGED << shared, accepted >>

\* internalCache.AddAll(cache): Range visits each name once, in any order, and
\* gives what is stored there at that moment.
CopyName(p) ==
  /\ pc[p] = "copy"
  /\ \E n \in todo[p] :
       /\ internal' = [internal EXCEPT ![p][n] = shared[n]]
       /\ todo' = [todo EXCEPT ![p] = @ \ {n}]
  /\ pc' = [pc EXCEPT ![p] = IF todo'[p] = {} THEN "parse" ELSE "copy"]
  /\ UNCHANGED << shared, calls, accepted, call, text, at, seen, uses, before, alone >>

\* parseRecord, parseEnum, parseFixed: seenCache.AddSchema, then SchemaCache.Add
\* for the name and its aliases, in the copy.
Define(p) ==
  /\ pc[p] = "parse" /\ at[p] < Len(text[p]) /\ Event(p).does = "define"
  /\ Event(p).names \cap seen[p] = {}
  /\ seen' = [seen EXCEPT ![p] = @ \cup Event(p).names]
  /\ internal' = [internal EXCEPT ![p] =
                    [n \in Names |-> IF n \in Event(p).names THEN Own(p) ELSE @[n]]]
  /\ at' = [at EXCEPT ![p] = @ + 1]
  /\ UNCHANGED << shared, calls, accepted, pc, call, text, todo, uses, before, alone >>

\* Mutant: names are looked up in the shared cache first.
SharedFirst(p, n) == IF shared[n] /= None THEN shared[n] ELSE internal[p][n]

\* Mutant: the shared cache was not copied.
OwnOnly(p, n) == IF n \in seen[p] THEN internal[p][n] ELSE None

\* SchemaCache.Get, on the copy.
Lookup(p, n) == internal[p][n]

\* parsePrimitiveType.
Use(p) ==
  /\ pc[p] = "parse" /\ at[p] < Len(text[p]) /\ Event(p).does = "use"
  /\ \E n \in Event(p).names :
       /\ Lookup(p, n) /= None
       /\ uses' = [uses EXCEPT ![p] =
                     Append(@, [name |-> n, own |-> n \in seen[p], is |-> Lookup(p, n)])]
  /\ at' = [at EXCEPT ![p] = @ + 1]
  /\ UNCHANGED << shared, calls, accepted, pc, call, text, todo, internal, seen, before, alone >>

\* Mutant: the copy is stored although the text has an error.
FailsButPublishes(p) ==
  /\ pc[p] = "parse" /\ at[p] < Len(text[p]) /\ NamesIn(internal[p]) /= {}
  /\ pc' = [pc EXCEPT ![p] = "publish"]
  /\ todo' = [todo EXCEPT ![p] = NamesIn(internal[p])]
  /\ UNCHANGED << shared, calls, accepted, call, text, at, internal, seen, uses, before, alone >>

\* An unknown name, a name defined twice, or any other error at this place.
ParseFails(p) ==
  /\ pc[p] = "parse" /\ at[p] < Len(text[p])
  /\ pc' = [pc EXCEPT ![p] =
              IF Event(p).does = "use" /\ \A n \in Event(p).names : Lookup(p, n) = None
              THEN "unknown" ELSE "failed"]
  /\ UNCHANGED << shared, calls, accepted, call, text, at, todo, internal, seen, uses, before, alone >>

ParseSucceeds(p) ==
  /\ pc[p] = "parse" /\ at[p] = Len(text[p])
  /\ accepted' = accepted \cup {internal[p][n] : n \in seen[p]}
  /\ todo' = [todo EXCEPT ![p] = NamesIn(internal[p])]
  /\ pc' = [pc EXCEPT ![p] = IF todo'[p] = {} THEN "returned" ELSE "publish"]
  /\ UNCHANGED << shared, calls, call, text, at, internal, seen, uses, before, alone >>

\* Mutant: a name that is there already is kept.
StoreIfNew(n, d) == IF shared[n] = None THEN d ELSE shared[n]

\* sync.Map.Store.
Store(n, d) == d

\* cache.AddAll(internalCache): all of the copy, not only this text's names.
PublishName(p) ==
  /\ pc[p] = "publish"
  /\ \E n \in todo[p] :
       /\ shared' = [shared EXCEPT ![n] = Store(n, internal[p][n])]
       /\ todo' = [todo EXCEPT ![p] = @ \ {n}]
  /\ pc' = [pc EXCEPT ![p] = IF todo'[p] = {} THEN "returned" ELSE "publish"]
  /\ UNCHANGED << calls, accepted, call, text, at, internal, seen, uses, before, alone >>

Next == \E p \in Parsers :
          \/ Begin(p) \/ CopyName(p) \/ Define(p) \/ Use(p)
          \/ ParseFails(p) \/ ParseSucceeds(p) \/ PublishName(p)

Spec == Init /\ [][Next]_vars

CacheTypes ==
  /\ shared \in [Names -> Definitions \cup {None}]
  /\ internal \in [Parsers -> [Names -> Definitions \cup {None}]]

CallTypes ==
  /\ calls \in Nat /\ call \in [Parsers -> Nat] /\ at \in [Parsers -> Nat]
  /\ pc \in [Parsers -> {"idle", "copy", "parse", "publish", "returned", "unknown", "failed"}]
  /\ text \in [Parsers -> Texts \cup {<< >>}]
  /\ todo \in [Parsers -> SUBSET Names] /\ seen \in [Parsers -> SUBSET Names]
  /\ before \in [Parsers -> SUBSET Names] /\ alone \in [Parsers -> BOOLEAN]

TypeOK == CacheTypes /\ CallTypes

(***************************************************************************)
(* A call sees only definitions of texts that parsed without error: a text *)
(* that fails half-way, and one that is still being parsed, leave nothing  *)
(* in the shared cache, whatever other calls copy and store meanwhile      *)
(* (schema_parse.go:92-104).                                               *)
(***************************************************************************)
OnlyWholeTextsAreShared == \A n \in Names : shared[n] /= None => shared[n] \in accepted

(***************************************************************************)
(* A name that is in the shared cache when a call begins is never unknown  *)
(* to that call, even while others store definitions under it.             *)
(***************************************************************************)
EarlierNamesAreKnown ==
  \A p \in Parsers : pc[p] = "unknown" => Event(p).names \cap before[p] = {}

(***************************************************************************)
(* A use of a name the same text has defined before it means that          *)
(* definition, although other calls may define the name meanwhile.         *)
(***************************************************************************)
OwnDefinitionsWin ==
  \A p \in Parsers : \A k \in DOMAIN uses[p] :
    uses[p][k].own <=> (uses[p][k].is.call = call[p])

(***************************************************************************)
(* A call during which no other is under way leaves its own definitions in *)
(* the shared cache, in place of earlier ones of the same names.           *)
(***************************************************************************)
LoneCallReplaces ==
  \A p \in Parsers : pc[p] = "returned" /\ alone[p] /\ call[p] = calls =>
    \A n \in seen[p] : shared[n] /= None /\ shared[n].call = call[p]

\* Names are never taken out of the shared cache.
NamesStay == [][NamesIn(shared) \subseteq NamesIn(shared')]_shared
==============================================================================
