------------------------- MODULE SchemaParse_proofs -------------------------
(***************************************************************************)
(* For any number of concurrent parses of any texts over any names: only   *)
(* texts without error are shared, names stay, and a name that was there   *)
(* when a call began is known to it.                                       *)
(***************************************************************************)
EXTENDS SchemaParse, TLAPS

\* What a call may hold for a name: nothing, or a definition already accepted.
Shareable == accepted \cup {None}

(***************************************************************************)
(* Everything shared is accepted, and so is everything a call has copied;  *)
(* while it parses it also holds its own definitions, which its seenCache  *)
(* knows, and these are accepted before the first of them is stored.       *)
(***************************************************************************)
Clean(p) ==
  /\ pc[p] = "copy" => seen[p] = {} /\ \A n \in Names : internal[p][n] \in Shareable
  /\ pc[p] = "parse" => \A n \in Names \ seen[p] : internal[p][n] \in Shareable
  /\ pc[p] = "publish" => \A n \in Names : internal[p][n] \in Shareable

SharedInv ==
  /\ TypeOK
  /\ \A n \in Names : shared[n] \in Shareable
  /\ \A p \in Parsers : Clean(p)

(***************************************************************************)
(* The names shared when a call began stay shared; those its copy has      *)
(* visited are in the copy, and a call stores only names its copy has.     *)
(***************************************************************************)
Knows(p) ==
  /\ pc[p] = "copy" => /\ before[p] \subseteq NamesIn(shared)
                       /\ before[p] \ todo[p] \subseteq NamesIn(internal[p])
  /\ pc[p] = "parse" => before[p] \subseteq NamesIn(internal[p])
  /\ pc[p] = "publish" => todo[p] \subseteq NamesIn(internal[p])
  /\ pc[p] = "unknown" => Event(p).names \cap before[p] = {}

KnownInv == TypeOK /\ \A p \in Parsers : Knows(p)

\* The next event of a text is about names of the model.
LEMMA EventTypes ==
  ASSUME CallTypes, NEW p \in Parsers, at[p] < Len(text[p])
  PROVE  Event(p).names \in SUBSET Names
<1> DEFINE E == [does : {"define", "use"}, names : SUBSET Names]
           t == text[p]
           k == at[p] + 1
<1>1. t \in Texts \cup {<< >>} /\ at[p] \in Nat
  BY DEF CallTypes
<1>2. t \in Seq(E)
  <2>1. CASE t \in Texts
    BY <2>1, TextsAssumption, Zenon
  <2>2. CASE t = << >>
    BY <2>2
  <2> QED  BY <1>1, <2>1, <2>2
<1>3. k \in 1 .. Len(t)
  BY <1>1, <1>2
<1>4. t[k] \in E
  <2> HIDE DEF E, t, k
  <2> QED  BY <1>2, <1>3
<1>5. t[k].names \in SUBSET Names
  BY <1>4
<1> QED  BY <1>5 DEF Event

\* The types hold at first.
LEMMA TypeInit == Init => TypeOK
<1> SUFFICES ASSUME Init PROVE TypeOK
  OBVIOUS
<1>1. CacheTypes
  BY DEF Init, CacheTypes, Nothing
<1>2. CallTypes
  BY DEF Init, CallTypes
<1> QED  BY <1>1, <1>2 DEF TypeOK

\* No step of a call breaks the types.
LEMMA TypeStep == TypeOK /\ [Next]_vars => TypeOK'
<1> SUFFICES ASSUME CacheTypes, CallTypes, [Next]_vars
             PROVE  CacheTypes' /\ CallTypes'
  BY DEF TypeOK
<1>1. ASSUME NEW p \in Parsers, Begin(p)
      PROVE  CacheTypes' /\ CallTypes'
  <2>1. Nothing \in [Names -> Definitions \cup {None}]
    BY DEF Nothing
  <2>2. CacheTypes'
    BY <1>1, <2>1 DEF Begin, CacheTypes
  <2>3. alone' \in [Parsers -> BOOLEAN]
    BY <1>1, Zenon DEF Begin, CallTypes
  <2>4. NamesIn(shared) \in SUBSET Names
    BY DEF NamesIn
  <2>5. before' \in [Parsers -> SUBSET Names]
    BY <1>1, <2>4 DEF Begin, CallTypes
  <2>6. text' \in [Parsers -> Texts \cup {<< >>}]
    BY <1>1 DEF Begin, CallTypes
  <2>7. todo' \in [Parsers -> SUBSET Names] /\ seen' \in [Parsers -> SUBSET Names]
    BY <1>1 DEF Begin, CallTypes
  <2>8. /\ calls' \in Nat /\ call' \in [Parsers -> Nat] /\ at' \in [Parsers -> Nat]
        /\ pc' \in [Parsers -> {"idle", "copy", "parse", "publish", "returned", "unknown", "failed"}]
    BY <1>1 DEF Begin, CallTypes
  <2> QED  BY <2>2, <2>3, <2>5, <2>6, <2>7, <2>8 DEF CallTypes
<1>2. ASSUME NEW p \in Parsers, CopyName(p)
      PROVE  CacheTypes' /\ CallTypes'
  <2> PICK n \in todo[p] :
        /\ internal' = [internal EXCEPT ![p][n] = shared[n]]
        /\ todo' = [todo EXCEPT ![p] = @ \ {n}]
    BY <1>2 DEF CopyName
  <2>1. n \in Names /\ todo[p] \ {n} \in SUBSET Names
    BY DEF CallTypes
  <2>2. CacheTypes'
    BY <1>2, <2>1 DEF CopyName, CacheTypes
  <2>3. todo' \in [Parsers -> SUBSET Names]
    BY <2>1 DEF CallTypes
  <2> QED  BY <1>2, <2>2, <2>3 DEF CopyName, CallTypes
<1>3. ASSUME NEW p \in Parsers, Define(p)
      PROVE  CacheTypes' /\ CallTypes'
  <2>1. Event(p).names \in SUBSET Names
    BY <1>3, EventTypes DEF Define
  <2>2. Own(p) \in Definitions
    BY DEF Own, Definitions, CallTypes
  <2>3. [n \in Names |-> IF n \in Event(p).names THEN Own(p) ELSE internal[p][n]]
          \in [Names -> Definitions \cup {None}]
    BY <2>2 DEF CacheTypes
  <2>4. CacheTypes'
    BY <1>3, <2>3 DEF Define, CacheTypes
  <2>5. seen[p] \cup Event(p).names \in SUBSET Names
    BY <2>1 DEF CallTypes
  <2>6. seen' \in [Parsers -> SUBSET Names]
    BY <1>3, <2>5 DEF Define, CallTypes
  <2> QED  BY <1>3, <2>4, <2>6 DEF Define, CallTypes
<1>4. ASSUME NEW p \in Parsers, Use(p)
      PROVE  CacheTypes' /\ CallTypes'
  BY <1>4 DEF Use, CacheTypes, CallTypes
<1>5. ASSUME NEW p \in Parsers, ParseFails(p)
      PROVE  CacheTypes' /\ CallTypes'
  <2>1. pc' \in [Parsers -> {"idle", "copy", "parse", "publish", "returned", "unknown", "failed"}]
    BY <1>5, Zenon DEF ParseFails, CallTypes
  <2> QED  BY <1>5, <2>1 DEF ParseFails, CacheTypes, CallTypes
<1>6. ASSUME NEW p \in Parsers, ParseSucceeds(p)
      PROVE  CacheTypes' /\ CallTypes'
  <2>1. NamesIn(internal[p]) \in SUBSET Names
    BY DEF NamesIn
  <2>2. todo' \in [Parsers -> SUBSET Names]
    BY <1>6, <2>1 DEF ParseSucceeds, CallTypes
  <2>3. CacheTypes'
    BY <1>6 DEF ParseSucceeds, CacheTypes
  <2> QED  BY <1>6, <2>2, <2>3 DEF ParseSucceeds, CallTypes
<1>7. ASSUME NEW p \in Parsers, PublishName(p)
      PROVE  CacheTypes' /\ CallTypes'
  <2> PICK n \in todo[p] :
        /\ shared' = [shared EXCEPT ![n] = internal[p][n]]
        /\ todo' = [todo EXCEPT ![p] = @ \ {n}]
    BY <1>7 DEF PublishName, Store
  <2>1. n \in Names /\ todo[p] \ {n} \in SUBSET Names
    BY DEF CallTypes
  <2>2. CacheTypes'
    BY <1>7, <2>1 DEF PublishName, CacheTypes
  <2>3. todo' \in [Parsers -> SUBSET Names]
    BY <2>1 DEF CallTypes
  <2> QED  BY <1>7, <2>2, <2>3 DEF PublishName, CallTypes
<1>8. CASE UNCHANGED vars
  BY <1>8 DEF vars, pvars, CacheTypes, CallTypes
<1> QED
  BY <1>1, <1>2, <1>3, <1>4, <1>5, <1>6, <1>7, <1>8 DEF Next

\* Nothing is shared at first.
LEMMA SharedInit == Init => SharedInv
  BY TypeInit DEF Init, SharedInv, Clean, Shareable, Nothing

\* No step shares a definition that is not accepted.
LEMMA SharedStep == SharedInv /\ [Next]_vars => SharedInv'
<1> SUFFICES ASSUME SharedInv, [Next]_vars
             PROVE  SharedInv'
  OBVIOUS
<1> USE DEF SharedInv
<1>t. CacheTypes /\ CallTypes /\ TypeOK'
  BY TypeStep DEF TypeOK
<1> DEFINE Shares == \A n \in Names : shared[n] \in Shareable
           Rest(p) == \A q \in Parsers \ {p} : Clean(q)
<1>1. ASSUME NEW p \in Parsers, Begin(p)
      PROVE  Shares' /\ Rest(p)' /\ Clean(p)'
  <2>1. pc'[p] = "copy" /\ seen'[p] = {} /\ internal'[p] = Nothing
    BY <1>1, <1>t DEF Begin, CacheTypes, CallTypes
  <2>2. Clean(p)'
    BY <2>1 DEF Clean, Shareable, Nothing
  <2>3. Rest(p)'
    BY <1>1, <1>t DEF Begin, Clean, Shareable, CacheTypes, CallTypes
  <2> QED  BY <1>1, <2>2, <2>3 DEF Begin, Shareable
<1>2. ASSUME NEW p \in Parsers, CopyName(p)
      PROVE  Shares' /\ Rest(p)' /\ Clean(p)'
  <2> PICK n \in todo[p] : internal' = [internal EXCEPT ![p][n] = shared[n]]
    BY <1>2 DEF CopyName
  <2>1. n \in Names /\ pc'[p] \in {"copy", "parse"}
    BY <1>2, <1>t DEF CopyName, CallTypes
  <2>2. \A m \in Names : internal'[p][m] = IF m = n THEN shared[n] ELSE internal[p][m]
    BY <1>t, <2>1 DEF CacheTypes
  <2>3. Clean(p)'
    BY <1>2, <2>1, <2>2 DEF CopyName, Clean, Shareable
  <2>4. Rest(p)'
    BY <1>2, <1>t DEF CopyName, Clean, Shareable, CacheTypes, CallTypes
  <2> QED  BY <1>2, <2>3, <2>4 DEF CopyName, Shareable
<1>3. ASSUME NEW p \in Parsers, Define(p)
      PROVE  Shares' /\ Rest(p)' /\ Clean(p)'
  <2>1. \A n \in Names \ seen'[p] : n \in Names \ seen[p] /\ internal'[p][n] = internal[p][n]
    BY <1>3, <1>t DEF Define, CacheTypes, CallTypes
  <2>2. Clean(p)'
    BY <1>3, <2>1 DEF Define, Clean, Shareable
  <2>3. Rest(p)'
    BY <1>3, <1>t DEF Define, Clean, Shareable, CacheTypes, CallTypes
  <2> QED  BY <1>3, <2>2, <2>3 DEF Define, Shareable
<1>4. ASSUME NEW p \in Parsers, Use(p)
      PROVE  Shares' /\ Rest(p)' /\ Clean(p)'
  BY <1>4 DEF Use, Clean, Shareable
<1>5. ASSUME NEW p \in Parsers, ParseFails(p)
      PROVE  Shares' /\ Rest(p)' /\ Clean(p)'
  <2>1. pc'[p] \in {"unknown", "failed"} /\ \A q \in Parsers \ {p} : pc'[q] = pc[q]
    BY <1>5, <1>t DEF ParseFails, CallTypes
  <2> QED  BY <1>5, <2>1 DEF ParseFails, Clean, Shareable
<1>6. ASSUME NEW p \in Parsers, ParseSucceeds(p)
      PROVE  Shares' /\ Rest(p)' /\ Clean(p)'
  <2>1. pc'[p] \in {"returned", "publish"} /\ \A q \in Parsers \ {p} : pc'[q] = pc[q]
    BY <1>6, <1>t DEF ParseSucceeds, CallTypes
  <2>2. accepted \subseteq accepted'
    BY <1>6 DEF ParseSucceeds
  <2>3. \A n \in Names : internal[p][n] \in accepted' \cup {None}
    BY <1>6 DEF ParseSucceeds, Clean, Shareable
  <2> QED  BY <1>6, <2>1, <2>2, <2>3 DEF ParseSucceeds, Clean, Shareable
<1>7. ASSUME NEW p \in Parsers, PublishName(p)
      PROVE  Shares' /\ Rest(p)' /\ Clean(p)'
  <2> PICK n \in todo[p] : shared' = [shared EXCEPT ![n] = internal[p][n]]
    BY <1>7 DEF PublishName, Store
  <2>1. internal[p][n] \in Shareable
    BY <1>7, <1>t DEF PublishName, Clean, CallTypes
  <2>2. Shares'
    BY <1>7, <1>t, <2>1 DEF PublishName, Shareable, CacheTypes
  <2>3. pc'[p] \in {"publish", "returned"} /\ \A q \in Parsers \ {p} : pc'[q] = pc[q]
    BY <1>7, <1>t DEF PublishName, CallTypes
  <2> QED  BY <1>7, <2>2, <2>3 DEF PublishName, Clean, Shareable
<1>8. CASE UNCHANGED vars
  BY <1>8, <1>t DEF vars, pvars, Clean, Shareable
<1>9. ASSUME NEW p \in Parsers, Shares' /\ Rest(p)' /\ Clean(p)'
      PROVE  SharedInv'
  BY <1>t, <1>9
<1> QED
  BY <1>1, <1>2, <1>3, <1>4, <1>5, <1>6, <1>7, <1>8, <1>9 DEF Next

(***************************************************************************)
(* For any parsers, texts and names, the shared cache only ever holds      *)
(* definitions of texts that parsed without error.                         *)
(***************************************************************************)
THEOREM OnlyWholeTextsAreEverShared == Spec => []OnlyWholeTextsAreShared
<1>1. SharedInv => OnlyWholeTextsAreShared
  BY DEF SharedInv, Shareable, OnlyWholeTextsAreShared
<1> QED  BY SharedInit, SharedStep, <1>1, PTL DEF Spec

\* No call is under way at first.
LEMMA KnownInit == Init => KnownInv
  BY TypeInit DEF Init, KnownInv, Knows

\* A call stores only names its copy has: names stay.
LEMMA NamesGrow == KnownInv /\ [Next]_vars => NamesIn(shared) \subseteq NamesIn(shared')
<1> SUFFICES ASSUME KnownInv, [Next]_vars
             PROVE  NamesIn(shared) \subseteq NamesIn(shared')
  OBVIOUS
<1>1. ASSUME NEW p \in Parsers, PublishName(p)
      PROVE  NamesIn(shared) \subseteq NamesIn(shared')
  <2> PICK n \in todo[p] : shared' = [shared EXCEPT ![n] = internal[p][n]]
    BY <1>1 DEF PublishName, Store
  <2>1. internal[p][n] /= None
    BY <1>1 DEF PublishName, KnownInv, Knows, NamesIn
  <2>2. \A m \in Names : shared'[m] = IF m = n THEN internal[p][n] ELSE shared[m]
    BY DEF KnownInv, TypeOK, CacheTypes
  <2> QED  BY <2>1, <2>2 DEF NamesIn
<1>2. CASE shared' = shared
  BY <1>2
<1> QED
  BY <1>1, <1>2 DEF Next, vars, pvars, Begin, CopyName, Define, Use, ParseFails, ParseSucceeds

\* No step makes a call forget a name it was promised.
LEMMA KnownStep == KnownInv /\ [Next]_vars => KnownInv'
<1> SUFFICES ASSUME KnownInv, [Next]_vars
             PROVE  KnownInv'
  OBVIOUS
<1> USE DEF KnownInv
<1>t. CacheTypes /\ CallTypes /\ TypeOK'
  BY TypeStep DEF TypeOK
<1>g. NamesIn(shared) \subseteq NamesIn(shared)'
  BY NamesGrow DEF NamesIn
<1>o. ASSUME NEW p \in Parsers, NEW q \in Parsers \ {p},
             \/ Begin(p) \/ CopyName(p) \/ Define(p) \/ Use(p)
             \/ ParseFails(p) \/ ParseSucceeds(p) \/ PublishName(p)
      PROVE  Knows(q)'
  <2>1. /\ pc'[q] = pc[q] /\ before'[q] = before[q] /\ todo'[q] = todo[q]
        /\ internal'[q] = internal[q] /\ text'[q] = text[q] /\ at'[q] = at[q]
    BY <1>o, <1>t DEF Begin, CopyName, Define, Use, ParseFails, ParseSucceeds, PublishName,
                      CacheTypes, CallTypes
  <2>2. Event(q)' = Event(q) /\ NamesIn(internal[q])' = NamesIn(internal[q])
    BY <2>1 DEF Event, NamesIn
  <2>3. Knows(q)
    OBVIOUS
  <2> QED  BY <1>g, <2>1, <2>2, <2>3 DEF Knows
<1>1. ASSUME NEW p \in Parsers, Begin(p)
      PROVE  Knows(p)'
  <2>1. pc'[p] = "copy" /\ todo'[p] = Names /\ before'[p] = NamesIn(shared)
    BY <1>1, <1>t DEF Begin, CallTypes
  <2>2. before'[p] \ todo'[p] = {}
    BY <2>1 DEF NamesIn
  <2> QED  BY <1>g, <2>1, <2>2 DEF Knows
<1>2. ASSUME NEW p \in Parsers, CopyName(p)
      PROVE  Knows(p)'
  <2> PICK n \in todo[p] :
        /\ internal' = [internal EXCEPT ![p][n] = shared[n]]
        /\ todo' = [todo EXCEPT ![p] = @ \ {n}]
    BY <1>2 DEF CopyName
  <2>1. n \in Names /\ todo'[p] = todo[p] \ {n} /\ before'[p] = before[p]
    BY <1>2, <1>t DEF CopyName, CallTypes
  <2>2. \A m \in Names : internal'[p][m] = IF m = n THEN shared[n] ELSE internal[p][m]
    BY <1>t, <2>1 DEF CacheTypes
  <2>3. before[p] \subseteq NamesIn(shared) /\ before[p] \ todo[p] \subseteq NamesIn(internal[p])
    BY <1>2 DEF CopyName, Knows
  <2>4. before'[p] \ todo'[p] \subseteq NamesIn(internal[p])'
    BY <2>1, <2>2, <2>3 DEF NamesIn
  <2>5. \/ pc'[p] = "copy"
        \/ pc'[p] = "parse" /\ todo'[p] = {}
    BY <1>2, <1>t DEF CopyName, CallTypes
  <2> QED  BY <1>g, <2>1, <2>3, <2>4, <2>5 DEF Knows
<1>3. ASSUME NEW p \in Parsers, Define(p)
      PROVE  Knows(p)'
  <2>1. Own(p) /= None
    BY <1>t, NoneAssumption DEF Own, CallTypes
  <2>2. \A n \in Names : internal'[p][n] = IF n \in Event(p).names THEN Own(p) ELSE internal[p][n]
    BY <1>3, <1>t DEF Define, CacheTypes
  <2>3. NamesIn(internal[p]) \subseteq NamesIn(internal[p])'
    BY <2>1, <2>2 DEF NamesIn
  <2>4. pc'[p] = "parse" /\ before'[p] = before[p] /\ before[p] \subseteq NamesIn(internal[p])
    BY <1>3 DEF Define, Knows
  <2> QED  BY <2>3, <2>4 DEF Knows
<1>4. ASSUME NEW p \in Parsers, Use(p)
      PROVE  Knows(p)'
  <2>1. /\ pc'[p] = "parse" /\ before'[p] = before[p] /\ internal' = internal
        /\ before[p] \subseteq NamesIn(internal[p])
    BY <1>4 DEF Use, Knows
  <2> QED  BY <2>1 DEF Knows, NamesIn
<1>5. ASSUME NEW p \in Parsers, ParseFails(p)
      PROVE  Knows(p)'
  <2>1. Event(p)' = Event(p) /\ before'[p] = before[p]
    BY <1>5 DEF ParseFails, Event
  <2>2. before[p] \subseteq NamesIn(internal[p])
    BY <1>5 DEF ParseFails, Knows
  <2>3. pc'[p] \in {"unknown", "failed"}
    BY <1>5, <1>t DEF ParseFails, CallTypes
  <2>4. pc'[p] = "unknown" => \A n \in Event(p).names : internal[p][n] = None
    BY <1>5, <1>t DEF ParseFails, CallTypes, Lookup
  <2> QED  BY <2>1, <2>2, <2>3, <2>4 DEF Knows, NamesIn
<1>6. ASSUME NEW p \in Parsers, ParseSucceeds(p)
      PROVE  Knows(p)'
  <2>1. pc'[p] \in {"returned", "publish"} /\ todo'[p] = NamesIn(internal[p]) /\ internal' = internal
    BY <1>6, <1>t DEF ParseSucceeds, CallTypes
  <2> QED  BY <2>1 DEF Knows, NamesIn
<1>7. ASSUME NEW p \in Parsers, PublishName(p)
      PROVE  Knows(p)'
  <2>1. pc'[p] \in {"publish", "returned"} /\ todo'[p] \subseteq todo[p] /\ internal' = internal
    BY <1>7, <1>t DEF PublishName, CallTypes
  <2>2. todo[p] \subseteq NamesIn(internal[p])
    BY <1>7 DEF PublishName, Knows
  <2> QED  BY <2>1, <2>2 DEF Knows, NamesIn
<1>8. CASE UNCHANGED vars
  BY <1>8, <1>t DEF vars, pvars, Knows, NamesIn, Event
<1>9. ASSUME NEW p \in Parsers, \A q \in Parsers : Knows(q)'
      PROVE  KnownInv'
  BY <1>t, <1>9
<1> QED
  BY <1>o, <1>1, <1>2, <1>3, <1>4, <1>5, <1>6, <1>7, <1>8, <1>9 DEF Next

(***************************************************************************)
(* For any parsers, texts and names, a call knows every name that was in   *)
(* the shared cache when it began.                                         *)
(***************************************************************************)
THEOREM EarlierNamesAreAlwaysKnown == Spec => []EarlierNamesAreKnown
<1>1. KnownInv => EarlierNamesAreKnown
  BY DEF KnownInv, Knows, EarlierNamesAreKnown
<1> QED  BY KnownInit, KnownStep, <1>1, PTL DEF Spec

(***************************************************************************)
(* For any parsers, texts and names, no name ever leaves the shared cache. *)
(***************************************************************************)
THEOREM NamesAlwaysStay == Spec => NamesStay
<1>1. KnownInv /\ [Next]_vars => [NamesIn(shared) \subseteq NamesIn(shared')]_shared
  BY NamesGrow
<1> QED  BY KnownInit, KnownStep, <1>1, PTL DEF Spec, NamesStay
------------------------------------------------------------------------------
\* A definition, if there is one, was parsed by another call; by this call.
Foreign(c, d) == d /= None => d.call /= c
ParsedBy(c, d) == d /= None /\ d.call = c

Resolved == [name : Names, own : BOOLEAN, is : Definitions]

\* Calls are numbered in the order they begin.
Numbered ==
  /\ \A p \in Parsers : call[p] <= calls /\ (pc[p] /= "idle" => call[p] > 0)
  /\ \A p, q \in Parsers : p /= q /\ call[p] > 0 => call[p] /= call[q]

\* No cache holds a definition of a call that has not begun.
Dated ==
  /\ \A n \in Names : shared[n] /= None => shared[n].call <= calls
  /\ \A p \in Parsers, n \in Names : internal[p][n] /= None => internal[p][n].call <= calls

(***************************************************************************)
(* Until a call stores its copy, its definitions are in that copy alone,   *)
(* under the names its seenCache has; what its uses were resolved to is    *)
(* marked accordingly.                                                     *)
(***************************************************************************)
Origin(p) ==
  /\ pc[p] \in {"copy", "parse"} =>
       /\ \A n \in Names : Foreign(call[p], shared[n])
       /\ \A n \in Names, q \in Parsers \ {p} : Foreign(call[p], internal[q][n])
       /\ \A n \in Names \ seen[p] : Foreign(call[p], internal[p][n])
  /\ pc[p] = "copy" => seen[p] = {}
  /\ pc[p] \in {"parse", "publish"} => \A n \in seen[p] : ParsedBy(call[p], internal[p][n])

Marked(p) == \A k \in DOMAIN uses[p] : uses[p][k].own <=> (uses[p][k].is.call = call[p])

OriginInv ==
  /\ TypeOK /\ uses \in [Parsers -> Seq(Resolved)]
  /\ Numbered /\ Dated
  /\ \A p \in Parsers : Origin(p) /\ Marked(p)

LEMMA OriginInit == Init => OriginInv
<1> SUFFICES ASSUME Init PROVE OriginInv
  OBVIOUS
<1>1. uses \in [Parsers -> Seq(Resolved)] /\ \A p \in Parsers : Marked(p)
  BY DEF Init, Marked
<1>2. Numbered /\ Dated /\ \A p \in Parsers : Origin(p)
  BY DEF Init, Numbered, Dated, Origin, Nothing
<1> QED  BY <1>1, <1>2, TypeInit DEF OriginInv

\* Only Begin gives out a call number, and a new one.
LEMMA NumberedStep == OriginInv /\ [Next]_vars => Numbered'
<1> SUFFICES ASSUME OriginInv, [Next]_vars
             PROVE  Numbered'
  OBVIOUS
<1>t. CallTypes /\ Numbered
  BY DEF OriginInv, TypeOK
<1>1. ASSUME NEW p \in Parsers, Begin(p)
      PROVE  Numbered'
  <2>1. /\ calls' = calls + 1 /\ call'[p] = calls + 1
        /\ \A q \in Parsers \ {p} : call'[q] = call[q] /\ pc'[q] = pc[q]
    BY <1>1, <1>t DEF Begin, CallTypes
  <2>2. calls \in Nat /\ \A q \in Parsers : call[q] \in Nat /\ call[q] <= calls
    BY <1>t DEF Numbered, CallTypes
  <2>3. /\ \A q \in Parsers : call'[q] <= calls'
        /\ \A q \in Parsers \ {p} : call'[q] < call'[p]
    BY <2>1, <2>2
  <2>4. \A q \in Parsers : pc'[q] /= "idle" => call'[q] > 0
    BY <1>t, <2>1, <2>2 DEF Numbered
  <2>5. ASSUME NEW q \in Parsers, NEW s \in Parsers, q /= s, call'[q] > 0
        PROVE  call'[q] /= call'[s]
    <3>1. CASE q /= p /\ s /= p
      BY <1>t, <2>1, <2>5, <3>1 DEF Numbered
    <3>2. CASE q = p \/ s = p
      BY <2>1, <2>2, <2>3, <2>5, <3>2
    <3> QED  BY <3>1, <3>2
  <2> QED  BY <2>3, <2>4, <2>5 DEF Numbered
<1>2. ASSUME NEW p \in Parsers, UNCHANGED << call, calls >>, pc[p] /= "idle",
             \A q \in Parsers \ {p} : pc'[q] = pc[q]
      PROVE  Numbered'
  BY <1>2, <1>t DEF Numbered
<1>3. ASSUME NEW p \in Parsers,
             CopyName(p) \/ Define(p) \/ Use(p) \/ ParseFails(p) \/ ParseSucceeds(p) \/ PublishName(p)
      PROVE  /\ UNCHANGED << call, calls >> /\ pc[p] /= "idle"
             /\ \A q \in Parsers \ {p} : pc'[q] = pc[q]
  BY <1>3, <1>t DEF CopyName, Define, Use, ParseFails, ParseSucceeds, PublishName, CallTypes
<1>4. CASE UNCHANGED vars
  BY <1>4, <1>t DEF vars, pvars, Numbered
<1> QED  BY <1>1, <1>2, <1>3, <1>4 DEF Next

\* Definitions are made by calls under way and move between the caches.
LEMMA DatedStep == OriginInv /\ [Next]_vars => Dated'
<1> SUFFICES ASSUME OriginInv, [Next]_vars
             PROVE  Dated'
  OBVIOUS
<1>t. CacheTypes /\ CallTypes /\ Numbered /\ Dated /\ calls \in Nat
  BY DEF OriginInv, TypeOK, CallTypes
<1>d. \A n \in Names, d \in Definitions : d.call \in Nat
  BY DEF Definitions
<1>1. ASSUME NEW p \in Parsers, Begin(p)
      PROVE  Dated'
  <2>1. /\ calls' = calls + 1 /\ shared' = shared
        /\ \A q \in Parsers : internal'[q] = internal[q] \/ internal'[q] = Nothing
    BY <1>1, <1>t DEF Begin, CacheTypes
  <2>2. \A d : d \in Definitions /\ d.call <= calls => d.call <= calls'
    BY <1>d, <1>t, <2>1 DEF Definitions
  <2>3. \A n \in Names : shared'[n] /= None => shared'[n].call <= calls'
    BY <1>t, <2>1, <2>2 DEF Dated, CacheTypes
  <2>4. ASSUME NEW q \in Parsers, NEW n \in Names, internal'[q][n] /= None
        PROVE  internal'[q][n].call <= calls'
    <3>1. internal'[q] = internal[q]
      BY <2>1, <2>4 DEF Nothing
    <3>2. internal[q][n] \in Definitions /\ internal[q][n].call <= calls
      BY <1>t, <2>4, <3>1 DEF Dated, CacheTypes
    <3> QED  BY <2>2, <3>1, <3>2
  <2> QED  BY <2>3, <2>4 DEF Dated
<1>2. ASSUME NEW p \in Parsers, CopyName(p)
      PROVE  Dated'
  <2> PICK n \in todo[p] : internal' = [internal EXCEPT ![p][n] = shared[n]]
    BY <1>2 DEF CopyName
  <2>1. n \in Names /\ shared' = shared /\ calls' = calls
    BY <1>2, <1>t DEF CopyName, CallTypes
  <2>2. \A q \in Parsers, m \in Names :
          internal'[q][m] = IF q = p /\ m = n THEN shared[n] ELSE internal[q][m]
    BY <1>t, <2>1 DEF CacheTypes
  <2> QED  BY <1>t, <2>1, <2>2 DEF Dated
<1>3. ASSUME NEW p \in Parsers, Define(p)
      PROVE  Dated'
  <2>1. \A q \in Parsers, m \in Names :
          internal'[q][m] = IF q = p /\ m \in Event(p).names THEN Own(p) ELSE internal[q][m]
    BY <1>3, <1>t DEF Define, CacheTypes
  <2>2. Own(p).call <= calls /\ shared' = shared /\ calls' = calls
    BY <1>3, <1>t DEF Define, Own, Numbered
  <2> QED  BY <1>t, <2>1, <2>2 DEF Dated
<1>4. ASSUME NEW p \in Parsers, PublishName(p)
      PROVE  Dated'
  <2> PICK n \in todo[p] : shared' = [shared EXCEPT ![n] = internal[p][n]]
    BY <1>4 DEF PublishName, Store
  <2>1. /\ n \in Names /\ internal' = internal /\ calls' = calls
        /\ \A m \in Names : shared'[m] = IF m = n THEN internal[p][n] ELSE shared[m]
    BY <1>4, <1>t DEF PublishName, CacheTypes, CallTypes
  <2> QED  BY <1>t, <2>1 DEF Dated
<1>5. CASE UNCHANGED << shared, internal, calls >>
  BY <1>5, <1>t DEF Dated
<1> QED
  BY <1>1, <1>2, <1>3, <1>4, <1>5 DEF Next, vars, pvars, Use, ParseFails, ParseSucceeds

\* A use is marked by what the copy holds for the name.
LEMMA MarkedStep ==
  OriginInv /\ [Next]_vars
    => uses' \in [Parsers -> Seq(Resolved)] /\ \A p \in Parsers : Marked(p)'
<1> SUFFICES ASSUME OriginInv, [Next]_vars
             PROVE  uses' \in [Parsers -> Seq(Resolved)] /\ \A p \in Parsers : Marked(p)'
  OBVIOUS
<1>t. /\ CacheTypes /\ CallTypes /\ uses \in [Parsers -> Seq(Resolved)]
      /\ \A p \in Parsers : Origin(p) /\ Marked(p)
  BY DEF OriginInv, TypeOK
<1>1. ASSUME NEW p \in Parsers, Begin(p)
      PROVE  uses' \in [Parsers -> Seq(Resolved)] /\ \A q \in Parsers : Marked(q)'
  <2>1. uses' = [uses EXCEPT ![p] = << >>] /\ << >> \in Seq(Resolved)
    BY <1>1 DEF Begin
  <2>2. \A q \in Parsers \ {p} : uses'[q] = uses[q] /\ call'[q] = call[q]
    BY <1>1, <1>t DEF Begin, CallTypes
  <2>3. uses'[p] = << >>
    BY <1>t, <2>1
  <2>4. Marked(p)'
    BY <2>3 DEF Marked
  <2> QED  BY <1>t, <2>1, <2>2, <2>4 DEF Marked
<1>2. ASSUME NEW p \in Parsers, Use(p)
      PROVE  uses' \in [Parsers -> Seq(Resolved)] /\ \A q \in Parsers : Marked(q)'
  <2> PICK n \in Event(p).names :
        /\ Lookup(p, n) /= None
        /\ uses' = [uses EXCEPT ![p] =
                     Append(@, [name |-> n, own |-> n \in seen[p], is |-> Lookup(p, n)])]
    BY <1>2 DEF Use
  <2> DEFINE use == [name |-> n, own |-> n \in seen[p], is |-> internal[p][n]]
  <2>1. n \in Names /\ call' = call /\ pc[p] = "parse"
    <3>1. Event(p).names \in SUBSET Names
      BY <1>2, <1>t, EventTypes DEF Use
    <3> QED  BY <1>2, <3>1 DEF Use
  <2>2. internal[p][n] \in Definitions /\ internal[p][n] /= None
    BY <1>t, <2>1 DEF CacheTypes, Lookup
  <2>3. use \in Resolved
    <3>1. (n \in seen[p]) \in BOOLEAN
      OBVIOUS
    <3> QED  BY <2>1, <2>2, <3>1, Zenon DEF Resolved
  <2>4. use.own <=> (use.is.call = call[p])
    BY <1>t, <2>1, <2>2 DEF Origin, Foreign, ParsedBy
  <2>5. uses' = [uses EXCEPT ![p] = Append(@, use)]
    BY DEF Lookup
  <2> HIDE DEF use
  <2>6. uses[p] \in Seq(Resolved) /\ Append(uses[p], use) \in Seq(Resolved)
    BY <1>t, <2>3
  <2>7. uses'[p] = Append(uses[p], use) /\ \A q \in Parsers \ {p} : uses'[q] = uses[q]
    BY <1>t, <2>5
  <2>8. Marked(p)'
    <3>1. \A k \in DOMAIN uses'[p] : (k \in DOMAIN uses[p] /\ uses'[p][k] = uses[p][k]) \/ uses'[p][k] = use
      BY <2>6, <2>7
    <3> QED  BY <1>t, <2>1, <2>4, <3>1 DEF Marked
  <2> QED  BY <1>t, <2>1, <2>5, <2>6, <2>7, <2>8 DEF Marked
<1>3. CASE UNCHANGED << uses, call >>
  BY <1>3, <1>t DEF Marked
<1> QED
  BY <1>1, <1>2, <1>3
     DEF Next, vars, pvars, CopyName, Define, ParseFails, ParseSucceeds, PublishName

\* No step puts a call's definition anywhere but in its own copy before the
\* call stores it.
LEMMA OriginStep == OriginInv /\ [Next]_vars => \A r \in Parsers : Origin(r)'
<1> SUFFICES ASSUME OriginInv, [Next]_vars, NEW r \in Parsers
             PROVE  Origin(r)'
  OBVIOUS
<1>t. CacheTypes /\ CallTypes /\ Numbered /\ Dated /\ Origin(r)
  BY DEF OriginInv, TypeOK
<1>n. /\ \A c \in Nat : Foreign(c, None)
      /\ calls \in Nat /\ call[r] \in Nat /\ (pc[r] /= "idle" => call[r] > 0)
  BY <1>t DEF Foreign, Numbered, CallTypes
<1>1. ASSUME NEW p \in Parsers, Begin(p)
      PROVE  Origin(r)'
  <2>1. /\ shared' = shared /\ internal' = [internal EXCEPT ![p] = Nothing]
        /\ call' = [call EXCEPT ![p] = calls + 1]
        /\ \A q \in Parsers \ {p} : pc'[q] = pc[q] /\ seen'[q] = seen[q] /\ internal'[q] = internal[q]
        /\ internal'[p] = Nothing /\ pc'[p] = "copy" /\ seen'[p] = {} /\ call'[p] = calls + 1
    BY <1>1, <1>t DEF Begin, CacheTypes, CallTypes
  <2>2. CASE r = p
    <3>1. \A d \in Definitions \cup {None} : (d /= None => d.call <= calls) => Foreign(calls + 1, d)
      BY <1>n DEF Foreign, Definitions
    <3>2. \A n \in Names : Foreign(calls + 1, shared[n])
      BY <1>t, <3>1 DEF Dated, CacheTypes
    <3>3. \A n \in Names, q \in Parsers : Foreign(calls + 1, internal[q][n])
      BY <1>t, <3>1 DEF Dated, CacheTypes
    <3>4. \A n \in Names : Foreign(calls + 1, internal'[p][n])
      BY <2>1 DEF Foreign, Nothing
    <3> QED  BY <2>1, <2>2, <3>2, <3>3, <3>4 DEF Origin
  <2>3. CASE r /= p
    <3>1. call'[r] = call[r]
      BY <1>t, <2>1, <2>3 DEF CallTypes
    <3>2. \A n \in Names, q \in Parsers \ {r} :
            Foreign(call[r], internal[q][n]) => Foreign(call[r], internal'[q][n])
      BY <2>1 DEF Foreign, Nothing
    <3> QED  BY <1>t, <2>1, <2>3, <3>1, <3>2 DEF Origin
  <2> QED  BY <2>2, <2>3
<1>2. ASSUME NEW p \in Parsers, CopyName(p)
      PROVE  Origin(r)'
  <2> PICK n \in todo[p] : internal' = [internal EXCEPT ![p][n] = shared[n]]
    BY <1>2 DEF CopyName
  <2>1. /\ n \in Names /\ UNCHANGED << shared, call, seen >>
        /\ pc[p] = "copy" /\ pc'[p] \in {"copy", "parse"} /\ \A q \in Parsers \ {p} : pc'[q] = pc[q]
    BY <1>2, <1>t DEF CopyName, CallTypes
  <2>2. \A q \in Parsers, m \in Names :
          internal'[q][m] = IF q = p /\ m = n THEN shared[n] ELSE internal[q][m]
    BY <1>t, <2>1 DEF CacheTypes
  <2>3. seen[p] \in SUBSET Names /\ seen[r] \in SUBSET Names
    BY <1>t DEF CallTypes
  <2> QED  BY <1>t, <2>1, <2>2, <2>3 DEF Origin
<1>3. ASSUME NEW p \in Parsers, Define(p)
      PROVE  Origin(r)'
  <2>1. \A q \in Parsers, m \in Names :
          internal'[q][m] = IF q = p /\ m \in Event(p).names THEN Own(p) ELSE internal[q][m]
    BY <1>3, <1>t DEF Define, CacheTypes
  <2>2. /\ UNCHANGED << shared, call, pc >> /\ pc[p] = "parse"
        /\ seen'[p] = seen[p] \cup Event(p).names /\ \A q \in Parsers \ {p} : seen'[q] = seen[q]
    BY <1>3, <1>t DEF Define, CallTypes
  <2>3. Own(p) /= None /\ Own(p).call = call[p]
    BY <1>t, NoneAssumption DEF Own, CallTypes
  <2>4. seen[p] \in SUBSET Names /\ seen[r] \in SUBSET Names /\ Event(p).names \in SUBSET Names
    BY <1>3, <1>t, EventTypes DEF CallTypes, Define
  <2>5. CASE r = p
    BY <1>t, <2>1, <2>2, <2>3, <2>4, <2>5 DEF Origin, ParsedBy
  <2>6. CASE r /= p
    <3>1. pc[r] /= "idle" => Foreign(call[r], Own(p))
      BY <1>t, <2>3, <2>6 DEF Foreign, Numbered
    <3>2. /\ \A m \in Names : internal'[r][m] = internal[r][m]
          /\ \A q \in Parsers, m \in Names : internal'[q][m] = internal[q][m] \/ internal'[q][m] = Own(p)
      BY <2>1, <2>6
    <3> QED  BY <1>t, <2>2, <2>4, <2>6, <3>1, <3>2 DEF Origin
  <2> QED  BY <2>5, <2>6
<1>4. ASSUME NEW p \in Parsers, ParseFails(p) \/ ParseSucceeds(p)
      PROVE  Origin(r)'
  <2>1. /\ UNCHANGED << shared, call, seen, internal >> /\ pc[p] = "parse"
        /\ pc'[p] \in {"unknown", "failed", "publish", "returned"} /\ \A q \in Parsers \ {p} : pc'[q] = pc[q]
    BY <1>4, <1>t DEF ParseFails, ParseSucceeds, CallTypes
  <2> QED  BY <1>t, <2>1 DEF Origin
<1>5. ASSUME NEW p \in Parsers, PublishName(p)
      PROVE  Origin(r)'
  <2> PICK n \in todo[p] : shared' = [shared EXCEPT ![n] = internal[p][n]]
    BY <1>5 DEF PublishName, Store
  <2>1. /\ UNCHANGED << call, seen, internal >> /\ pc[p] = "publish"
        /\ pc'[p] \in {"publish", "returned"} /\ \A q \in Parsers \ {p} : pc'[q] = pc[q]
    BY <1>5, <1>t DEF PublishName, CallTypes
  <2>2. n \in Names /\ \A m \in Names : shared'[m] = IF m = n THEN internal[p][n] ELSE shared[m]
    BY <1>t DEF CacheTypes, CallTypes
  <2> QED  BY <1>t, <2>1, <2>2 DEF Origin
<1>6. CASE UNCHANGED << shared, call, seen, internal, pc >>
  BY <1>6, <1>t DEF Origin
<1> QED
  BY <1>1, <1>2, <1>3, <1>4, <1>5, <1>6 DEF Next, vars, pvars, Use

LEMMA OriginInvStep == OriginInv /\ [Next]_vars => OriginInv'
  BY TypeStep, NumberedStep, DatedStep, MarkedStep, OriginStep DEF OriginInv

(***************************************************************************)
(* For any parsers, texts and names: a use is resolved to the definition   *)
(* of its own text exactly when the text has defined the name before it,   *)
(* whatever other calls define, copy and store meanwhile.                  *)
(***************************************************************************)
THEOREM OwnDefinitionsAlwaysWin == Spec => []OwnDefinitionsWin
<1>1. OriginInv => OwnDefinitionsWin
  BY DEF OriginInv, Marked, OwnDefinitionsWin
<1> QED  BY OriginInit, OriginInvStep, <1>1, PTL DEF Spec
------------------------------------------------------------------------------
(***************************************************************************)
(* While the latest call is the only one under way, the names it has       *)
(* stored so far hold its definitions, and nobody else stores any.         *)
(***************************************************************************)
Lone(p) ==
  alone[p] /\ call[p] = calls =>
    /\ \A q \in Parsers \ {p} : ~Active(q)
    /\ pc[p] = "publish" => \A n \in seen[p] \ todo[p] : ParsedBy(call[p], shared[n])
    /\ pc[p] = "returned" => \A n \in seen[p] : ParsedBy(call[p], shared[n])

\* Only the call itself and a new one can disturb that.
LEMMA LoneStep ==
  ASSUME OriginInv, [Next]_vars, NEW r \in Parsers, Lone(r)
  PROVE  Lone(r)'
<1>t. CacheTypes /\ CallTypes /\ Numbered /\ Origin(r)
  BY DEF OriginInv, TypeOK
<1>1. ASSUME NEW p \in Parsers, Begin(p)
      PROVE  Lone(r)'
  <2>1. /\ calls' = calls + 1 /\ calls \in Nat
        /\ \A q \in Parsers \ {p} : call'[q] = call[q] /\ pc'[q] = pc[q]
        /\ pc'[p] = "copy" /\ alone'[p] = \A q \in Parsers : ~Active(q)
    BY <1>1, <1>t DEF Begin, CallTypes
  <2>2. CASE r = p
    BY <2>1, <2>2 DEF Lone, Active
  <2>3. CASE r /= p
    <3>1. call'[r] \in Nat /\ call'[r] <= calls
      BY <1>t, <2>1, <2>3 DEF Numbered, CallTypes
    <3> QED  BY <2>1, <3>1 DEF Lone
  <2> QED  BY <2>2, <2>3
<1>2. ASSUME NEW p \in Parsers,
             CopyName(p) \/ Define(p) \/ Use(p) \/ ParseFails(p) \/ ParseSucceeds(p) \/ PublishName(p)
      PROVE  Lone(r)'
  <2>1. /\ UNCHANGED << calls, call, alone >>
        /\ Active(p) /\ \A q \in Parsers \ {p} : pc'[q] = pc[q]
    BY <1>2, <1>t DEF CopyName, Define, Use, ParseFails, ParseSucceeds, PublishName, CallTypes, Active
  <2>2. CASE r /= p
    BY <2>1, <2>2 DEF Lone
  <2>3. CASE r = p /\ pc'[p] \notin {"publish", "returned"}
    BY <2>1, <2>3 DEF Lone, Active
  <2>4. CASE r = p /\ ParseSucceeds(p)
    <3>1. /\ pc[p] = "parse" /\ UNCHANGED << internal, seen >> /\ todo'[p] = NamesIn(internal[p])
          /\ pc'[p] = IF todo'[p] = {} THEN "returned" ELSE "publish"
      BY <1>t, <2>4 DEF ParseSucceeds, CallTypes
    <3>2. seen[p] \subseteq NamesIn(internal[p])
      BY <1>t, <2>4, <3>1 DEF Origin, ParsedBy, NamesIn, CallTypes
    <3> QED  BY <2>1, <2>4, <3>1, <3>2 DEF Lone, Active
  <2>5. CASE r = p /\ PublishName(p)
    <3> PICK n \in todo[p] :
          /\ shared' = [shared EXCEPT ![n] = internal[p][n]]
          /\ todo' = [todo EXCEPT ![p] = @ \ {n}]
      BY <2>5 DEF PublishName, Store
    <3>1. /\ pc[p] = "publish" /\ UNCHANGED << internal, seen >> /\ todo'[p] = todo[p] \ {n}
          /\ pc'[p] = IF todo'[p] = {} THEN "returned" ELSE "publish"
          /\ n \in Names /\ seen[p] \in SUBSET Names
      BY <1>t, <2>5 DEF PublishName, CallTypes
    <3>2. \A m \in Names : shared'[m] = IF m = n THEN internal[p][n] ELSE shared[m]
      BY <1>t, <3>1 DEF CacheTypes
    <3>3. n \in seen[p] => ParsedBy(call[p], internal[p][n])
      BY <1>t, <2>5, <3>1 DEF Origin
    <3>4. alone[p] /\ call[p] = calls =>
            \A m \in seen[p] \ todo'[p] : ParsedBy(call[p], shared'[m])
      BY <2>5, <3>1, <3>2, <3>3 DEF Lone
    <3>5. alone[p] /\ call[p] = calls => \A q \in Parsers \ {p} : ~Active(q)'
      BY <2>1, <2>5 DEF Lone, Active
    <3> QED  BY <2>1, <2>5, <3>1, <3>4, <3>5 DEF Lone
  <2>6. CASE r = p /\ (CopyName(p) \/ Define(p) \/ Use(p) \/ ParseFails(p))
    BY <1>t, <2>3, <2>6 DEF CopyName, Define, Use, ParseFails, CallTypes
  <2> QED  BY <1>2, <2>2, <2>4, <2>5, <2>6
<1>3. CASE UNCHANGED vars
  BY <1>3 DEF vars, pvars, Lone, Active
<1> QED  BY <1>1, <1>2, <1>3 DEF Next

(***************************************************************************)
(* For any parsers, texts and names: a call that ran alone has replaced    *)
(* what the shared cache held under every name its text defines.           *)
(***************************************************************************)
THEOREM LoneCallsReplace == Spec => []LoneCallReplaces
<1> DEFINE LoneInv == \A p \in Parsers : Lone(p)
<1>1. Init => LoneInv
  BY DEF Init, Lone, Active
<1>2. OriginInv /\ LoneInv /\ [Next]_vars => LoneInv'
  BY LoneStep
<1>3. LoneInv => LoneCallReplaces
  BY DEF Lone, ParsedBy, LoneCallReplaces
<1> QED  BY OriginInit, OriginInvStep, <1>1, <1>2, <1>3, PTL DEF Spec
==============================================================================
