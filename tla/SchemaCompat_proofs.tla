------------------------- MODULE SchemaCompat_proofs -------------------------
(***************************************************************************)
(* What Compatible answers is proved, for every graph of schemas and any   *)
(* number of goroutines that share the cache:                              *)
(*                                                                         *)
(*  - a pair is never rejected without a reason;                           *)
(*  - a pair with no recursion below it is decided exactly;                *)
(*  - an accepted pair is readable once all that was assumed on the way    *)
(*    has been confirmed.                                                  *)
(*                                                                         *)
(* The first part shows that match asks what Avro's rules need; the second *)
(* that ReadablePairs and FlatPairs are the greatest and the least set of  *)
(* their kind; the third is the invariant.                                 *)
(***************************************************************************)
EXTENDS SchemaCompat, SequenceTheorems, FiniteSetTheorems, Induction

------------------------------------------------------------------------------
(* match asks what the rules need. *)

\* The elements of a sequence.
Elements(s) == {s[j] : j \in DOMAIN s}

\* Append adds one element.
LEMMA AppendElements ==
  ASSUME NEW S, NEW s \in Seq(S), NEW a \in S
  PROVE  Append(s, a) \in Seq(S) /\ Elements(Append(s, a)) = Elements(s) \cup {a}
<1>1. Append(s, a) \in Seq(S) /\ Len(Append(s, a)) = Len(s) + 1
  OBVIOUS
<1>2. DOMAIN Append(s, a) = 1 .. Len(s) + 1 /\ DOMAIN s = 1 .. Len(s) /\ Len(s) \in Nat
  OBVIOUS
<1>3. \A j \in 1 .. Len(s) : Append(s, a)[j] = s[j]
  OBVIOUS
<1>4. Append(s, a)[Len(s) + 1] = a
  OBVIOUS
<1>5. \A j \in 1 .. Len(s) + 1 : j \in 1 .. Len(s) \/ j = Len(s) + 1
  BY <1>2
<1>6. 1 .. Len(s) \subseteq 1 .. Len(s) + 1 /\ Len(s) + 1 \in 1 .. Len(s) + 1
  BY <1>2
<1> DEFINE t == Append(s, a)
<1> HIDE DEF t
<1>7. \A x : x \in Elements(t) <=> x \in Elements(s) \cup {a}
  BY <1>2, <1>3, <1>4, <1>5, <1>6 DEF Elements, t
<1> QED  BY <1>1, <1>7 DEF t

\* FieldAsks has one ask for every reader field that needs one.
LEMMA FieldAsksAre ==
  ASSUME NEW r, NEW w, NEW n \in Nat, n = Len(r.fields),
         NEW A, \A i \in 1 .. n : FieldAsk(r.fields[i], w) \subseteq A
  PROVE  /\ FieldAsks(r, w) \in Seq(A)
         /\ Elements(FieldAsks(r, w)) =
              {CHOOSE a \in FieldAsk(r.fields[i], w) : TRUE :
                 i \in {k \in 1 .. n : FieldAsk(r.fields[k], w) # {}}}
<1> DEFINE ask(i) == FieldAsk(r.fields[i], w)
           more(s, i) == IF ask(i) = {} THEN s ELSE Append(s, CHOOSE a \in ask(i) : TRUE)
           body(g, i) == IF i = 0 THEN << >> ELSE more(g[i - 1], i)
           upTo == CHOOSE g : g = [i \in 0 .. n |-> body(g, i)]
           step == [i \in 1 .. n |-> [s \in Seq(A) |-> more(s, i)]]
           asking(m) == {k \in 1 .. m : ask(k) # {}}
           chosen(m) == {CHOOSE a \in ask(i) : TRUE : i \in asking(m)}
<1>1. FieldAsks(r, w) = upTo[n]
  BY DEF FieldAsks
<1>2. \A i \in 1 .. n : ask(i) # {} => (CHOOSE a \in ask(i) : TRUE) \in A
  OBVIOUS
<1> HIDE DEF ask
<1>3. \A i \in 1 .. n : \A s \in Seq(A) : more(s, i) \in Seq(A)
  BY <1>2
<1> HIDE DEF more
<1>4. step \in [1 .. n -> [Seq(A) -> Seq(A)]]
  BY <1>3
<1>5. \A i \in 1 .. n : \A s \in Seq(A) : step[i][s] = more(s, i)
  OBVIOUS
<1> HIDE DEF step
<1>6. PICK f : IsRecursive(f, n, Seq(A), << >>, step)
  <2>1. << >> \in Seq(A) /\ IsStep(step, n, Seq(A))
    BY <1>4 DEF IsStep
  <2> QED  BY <2>1, Recursion
<1>7. \A i \in 1 .. n : f[i] = more(f[i - 1], i)
  <2>1. ASSUME NEW i \in 1 .. n PROVE f[i] = more(f[i - 1], i)
    <3>1. i - 1 \in 0 .. n
      OBVIOUS
    <3>2. f[i - 1] \in Seq(A) /\ f[i] = step[i][f[i - 1]]
      BY <1>6, <3>1 DEF IsRecursive
    <3> QED  BY <1>5, <3>2
  <2> QED  BY <2>1
<1>8. f = [i \in 0 .. n |-> body(f, i)]
  <2>1. ASSUME NEW i \in 0 .. n PROVE f[i] = body(f, i)
    <3>1. i = 0 \/ i \in 1 .. n
      OBVIOUS
    <3> QED  BY <1>6, <1>7, <3>1 DEF IsRecursive
  <2> HIDE DEF body
  <2> QED  BY <1>6, <2>1 DEF IsRecursive
<1>9. upTo = [i \in 0 .. n |-> body(upTo, i)]
  <2> HIDE DEF body
  <2> QED  BY <1>8
<1> HIDE DEF upTo
<1>10. upTo[0] = << >> /\ \A i \in 1 .. n : upTo[i] = more(upTo[i - 1], i)
  <2>1. \A i \in 0 .. n : upTo[i] = body(upTo, i)
    <3> HIDE DEF body
    <3> QED  BY <1>9
  <2> QED  BY <2>1
<1> DEFINE T == {m \in 0 .. n : upTo[m] \in Seq(A) /\ Elements(upTo[m]) = chosen(m)}
<1>11. 0 \in T
  <2>1. asking(0) = {} /\ chosen(0) = {} /\ Elements(<< >>) = {} /\ << >> \in Seq(A)
    BY DEF Elements
  <2>2. upTo[0] \in Seq(A) /\ Elements(upTo[0]) = chosen(0)
    <3> HIDE DEF asking, chosen
    <3> QED  BY <1>10, <2>1
  <2> QED  BY <2>2
<1>12. ASSUME NEW m \in 1 .. n, m - 1 \in T
       PROVE  m \in T
  <2>1. upTo[m - 1] \in Seq(A) /\ Elements(upTo[m - 1]) = chosen(m - 1)
    BY <1>12
  <2>2. upTo[m] = more(upTo[m - 1], m)
    BY <1>10
  <2>3. \A k : k \in 1 .. m <=> k \in 1 .. m - 1 \/ k = m
    OBVIOUS
  <2>4. CASE ask(m) = {}
    <3>1. upTo[m] = upTo[m - 1]
      BY <2>2, <2>4 DEF more
    <3>2. asking(m) = asking(m - 1)
      BY <2>3, <2>4
    <3> QED  BY <2>1, <3>1, <3>2
  <2>5. CASE ask(m) # {}
    <3> DEFINE b == CHOOSE a \in ask(m) : TRUE
    <3>1. upTo[m] = Append(upTo[m - 1], b)
      BY <2>2, <2>5 DEF more
    <3>2. b \in A
      BY <1>2, <2>5
    <3>3. asking(m) = asking(m - 1) \cup {m}
      BY <2>3, <2>5
    <3>4. chosen(m) = chosen(m - 1) \cup {b}
      <4> HIDE DEF asking
      <4> QED  BY <3>3
    <3>5. upTo[m] \in Seq(A) /\ Elements(upTo[m]) = Elements(upTo[m - 1]) \cup {b}
      <4>1. upTo[m - 1] \in Seq(A)
        BY <2>1
      <4>2. Append(upTo[m - 1], b) \in Seq(A) /\
            Elements(Append(upTo[m - 1], b)) = Elements(upTo[m - 1]) \cup {b}
        <5> HIDE DEF b
        <5> QED  BY <3>2, <4>1, AppendElements
      <4> QED  BY <3>1, <4>2
    <3>6. Elements(upTo[m]) = chosen(m)
      <4> HIDE DEF b, chosen
      <4> QED  BY <2>1, <3>4, <3>5
    <3> HIDE DEF b, chosen
    <3> QED  BY <3>5, <3>6
  <2> QED  BY <2>4, <2>5
<1>13. n \in T
  <2> HIDE DEF T
  <2>1. 0 .. n \subseteq T
    BY <1>11, <1>12, BoundedInduction
  <2> QED  BY <2>1
<1> QED  BY <1>1, <1>13 DEF ask


\* More than one index of a sequence are two that differ.
LEMMA AtMostOne ==
  ASSUME NEW n \in Nat, NEW S, S \subseteq 1 .. n
  PROVE  Cardinality(S) > 1 <=> \E x, y \in S : x # y
<1>1. IsFiniteSet(S) /\ Cardinality(S) \in Nat
  <2>1. IsFiniteSet(1 .. n)
    BY FS_Interval
  <2>2. IsFiniteSet(S)
    BY <2>1, FS_Subset
  <2> QED  BY <2>2, FS_CardinalityType
<1>2. CASE S = {}
  BY <1>2, FS_EmptySet
<1>3. CASE S # {}
  <2>1. PICK x \in S : TRUE
    BY <1>3
  <2>2. Cardinality(S \ {x}) = Cardinality(S) - 1 /\ IsFiniteSet(S \ {x})
    BY <1>1, <2>1, FS_RemoveElement
  <2>3. Cardinality(S \ {x}) = 0 <=> S \ {x} = {}
    BY <2>2, FS_EmptySet
  <2>4. Cardinality(S \ {x}) \in Nat
    BY <2>2, FS_CardinalityType
  <2>5. Cardinality(S) > 1 <=> S \ {x} # {}
    <3>1. Cardinality(S) > 1 <=> Cardinality(S \ {x}) # 0
      BY <1>1, <2>2, <2>4
    <3> QED  BY <2>3, <3>1
  <2>6. S \ {x} # {} <=> \E u, v \in S : u # v
    <3>1. ASSUME S \ {x} # {} PROVE \E u, v \in S : u # v
      BY <2>1, <3>1
    <3>2. ASSUME NEW u \in S, NEW v \in S, u # v PROVE S \ {x} # {}
      <4>1. u # x \/ v # x
        BY <3>2
      <4> QED  BY <4>1
    <3> QED  BY <3>1, <3>2
  <2> QED  BY <2>5, <2>6
<1> QED  BY <1>2, <1>3

\* No reader field and no writer field matches more than once.
Unmixed(r, w) ==
  /\ \A i \in DOMAIN r.fields : \A x, y \in Sources(r.fields[i], w) : x = y
  /\ \A g \in DOMAIN w.fields :
       Cardinality({i \in DOMAIN r.fields : g \in Sources(r.fields[i], w)}) <= 1

\* matchRecordFields finds a field that matches twice exactly when there is one.
LEMMA AmbiguousIs ==
  ASSUME NEW r, NEW w, NEW m \in Nat, NEW n \in Nat,
         DOMAIN r.fields = 1 .. m, DOMAIN w.fields = 1 .. n
  PROVE  ~Ambiguous(r, w) <=> Unmixed(r, w)
<1> DEFINE R == DOMAIN r.fields
           src(i) == Sources(r.fields[i], w)
           claim(g) == {i \in R : g \in src(i)}
<1>1. \A i \in R : src(i) \subseteq 1 .. n
  BY DEF Sources
<1>2. \A g : claim(g) \subseteq 1 .. m
  OBVIOUS
<1>3. Ambiguous(r, w) <=>
        \/ \E i \in R : Cardinality(src(i)) > 1
        \/ \E i, j \in R : i # j /\ src(i) \cap src(j) # {}
  BY DEF Ambiguous
<1> HIDE DEF R, src
<1>4. \A i \in R : Cardinality(src(i)) > 1 <=> \E x, y \in src(i) : x # y
  BY <1>1, AtMostOne
<1>5. \A g : Cardinality(claim(g)) > 1 <=> \E i, j \in claim(g) : i # j
  <2> HIDE DEF claim
  <2> QED  BY <1>2, AtMostOne
<1>6. \A g : Cardinality(claim(g)) \in Nat
  <2> SUFFICES ASSUME NEW g PROVE Cardinality(claim(g)) \in Nat
    OBVIOUS
  <2> HIDE DEF claim
  <2>1. IsFiniteSet(1 .. m)
    BY FS_Interval
  <2>2. IsFiniteSet(claim(g))
    BY <1>2, <2>1, FS_Subset
  <2> QED  BY <2>2, FS_CardinalityType
<1>7. (\E i, j \in R : i # j /\ src(i) \cap src(j) # {})
        <=> \E g \in 1 .. n : \E i, j \in claim(g) : i # j
  <2>1. ASSUME NEW i \in R, NEW j \in R, i # j, src(i) \cap src(j) # {}
        PROVE  \E g \in 1 .. n : \E k, l \in claim(g) : k # l
    <3>1. PICK g \in src(i) \cap src(j) : TRUE
      BY <2>1
    <3>2. g \in 1 .. n /\ i \in claim(g) /\ j \in claim(g)
      BY <1>1, <3>1
    <3> QED  BY <2>1, <3>2
  <2>2. ASSUME NEW g \in 1 .. n, NEW i \in claim(g), NEW j \in claim(g), i # j
        PROVE  \E k, l \in R : k # l /\ src(k) \cap src(l) # {}
    <3>1. i \in R /\ j \in R /\ g \in src(i) \cap src(j)
      OBVIOUS
    <3> QED  BY <2>2, <3>1
  <2> QED  BY <2>1, <2>2
<1>8. \A g : Cardinality(claim(g)) <= 1 <=> ~(\E i, j \in claim(g) : i # j)
  <2> SUFFICES ASSUME NEW g
               PROVE  Cardinality(claim(g)) <= 1 <=> ~(\E i, j \in claim(g) : i # j)
    OBVIOUS
  <2>1. Cardinality(claim(g)) <= 1 <=> ~(Cardinality(claim(g)) > 1)
    <3> HIDE DEF claim
    <3> QED  BY <1>6
  <2> HIDE DEF claim
  <2> QED  BY <1>5, <2>1
<1>9. ~Ambiguous(r, w) <=>
        /\ \A i \in R : \A x, y \in src(i) : x = y
        /\ \A g \in 1 .. n : ~(\E i, j \in claim(g) : i # j)
  <2> HIDE DEF claim
  <2> QED  BY <1>3, <1>4, <1>7
<1>10. ~Ambiguous(r, w) <=>
        /\ \A i \in R : \A x, y \in src(i) : x = y
        /\ \A g \in 1 .. n : Cardinality(claim(g)) <= 1
  <2> HIDE DEF claim
  <2> QED  BY <1>8, <1>9
<1> QED  BY <1>10 DEF R, src, Unmixed

\* One reader field.
Filled(f, w, X) == \E g \in DOMAIN w.fields : Sources(f, w) = {g} /\ << f.type, w.fields[g].type >> \in X
Defaulted(f, w) == Sources(f, w) = {} /\ f.default

\* What checkRecordFields asks about a field is compatible exactly when the
\* rules are content with the field.
LEMMA FieldAskIs ==
  ASSUME NEW f, NEW w, NEW X, Fail \notin X,
         \A x, y \in Sources(f, w) : x = y
  PROVE  (Filled(f, w, X) \/ Defaulted(f, w))
           <=> (FieldAsk(f, w) # {} => (CHOOSE a \in FieldAsk(f, w) : TRUE) \in X)
<1>1. CASE Sources(f, w) = {}
  <2>1. ~Filled(f, w, X)
    BY <1>1 DEF Filled
  <2>2. CASE f.default
    <3>1. FieldAsk(f, w) = {}
      BY <1>1, <2>2 DEF FieldAsk
    <3> QED  BY <1>1, <2>2, <3>1 DEF Defaulted
  <2>3. CASE ~f.default
    <3>1. FieldAsk(f, w) = {Fail}
      BY <1>1, <2>3 DEF FieldAsk
    <3>2. (CHOOSE a \in {Fail} : TRUE) = Fail
      OBVIOUS
    <3> QED  BY <2>1, <2>3, <3>1, <3>2 DEF Defaulted
  <2> QED  BY <2>2, <2>3
<1>2. CASE Sources(f, w) # {}
  <2>1. PICK g \in Sources(f, w) : TRUE
    BY <1>2
  <2>2. Sources(f, w) = {g} /\ g \in DOMAIN w.fields
    BY <2>1 DEF Sources
  <2> DEFINE a == << f.type, w.fields[g].type >>
  <2>3. FieldAsk(f, w) = {a}
    BY <1>2, <2>2 DEF FieldAsk
  <2>4. (CHOOSE b \in {a} : TRUE) = a
    OBVIOUS
  <2>5. Filled(f, w, X) <=> a \in X
    BY <2>2 DEF Filled
  <2> HIDE DEF a
  <2> QED  BY <1>2, <2>3, <2>4, <2>5 DEF Defaulted
<1> QED  BY <1>1, <1>2


\* What match would return if the pairs in X, and no others, were compatible.
Granted(m, X) ==
  IF m.mode = "all" THEN Elements(m.asks) \subseteq X ELSE Elements(m.asks) \cap X # {}

\* m asks about the pair what the rules need.
IsMatch(m, reader, writer) ==
  /\ m.mode \in {"all", "any"}
  /\ m.asks \in Seq(Pairs \cup {Fail})
  /\ m.mode = "any" => Fail \notin Elements(m.asks)
  /\ \A X \in SUBSET Pairs : Readable(reader, writer, X) <=> Granted(m, X)

\* An error is not a pair.
LEMMA FailIsNoPair == Fail \notin Pairs
<1> SUFFICES ASSUME NEW a \in Schemas, NEW b \in Schemas, << a, b >> = Fail PROVE FALSE
  BY DEF Pairs
<1> QED  BY DEF Fail

\* Nothing to ask, and an error.
LEMMA HoldsIs ==
  ASSUME NEW X \in SUBSET Pairs
  PROVE  Granted(Holds, X) /\ ~Granted(Fails, X)
<1>1. Holds.mode = "all" /\ Elements(Holds.asks) = {}
  BY DEF Holds, AllOf, Elements
<1>2. Fails.mode = "all" /\ Fail \in Elements(Fails.asks)
  <2>1. Fails.mode = "all" /\ Fails.asks = << Fail >>
    BY DEF Fails, AllOf
  <2>2. 1 \in DOMAIN Fails.asks /\ Fails.asks[1] = Fail
    BY <2>1
  <2> QED  BY <2>1, <2>2 DEF Elements
<1> QED  BY <1>1, <1>2, FailIsNoPair DEF Granted

\* Their asks.
LEMMA ConstantAsks ==
  /\ Holds.mode = "all" /\ Holds.asks = << >> /\ Holds.asks \in Seq(Pairs \cup {Fail})
  /\ Fails.mode = "all" /\ Fails.asks = << Fail >> /\ Fails.asks \in Seq(Pairs \cup {Fail})
BY DEF Holds, Fails, AllOf

\* A pair that is decided without asking.
LEMMA CheckIs ==
  ASSUME NEW b \in BOOLEAN, NEW reader, NEW writer,
         \A X \in SUBSET Pairs : Readable(reader, writer, X) <=> b
  PROVE  IsMatch(Check(b), reader, writer)
BY HoldsIs, ConstantAsks DEF IsMatch, Check

\* All the asks of a record are compatible when every reader field gets a value.
LEMMA RecordMatchIs ==
  ASSUME NEW reader \in Schemas, NEW writer \in Schemas,
         Graph[reader].type = "record", Graph[writer].type = "record",
         ~Ambiguous(Graph[reader], Graph[writer])
  PROVE  /\ FieldAsks(Graph[reader], Graph[writer]) \in Seq(Pairs \cup {Fail})
         /\ \A X \in SUBSET Pairs :
              Elements(FieldAsks(Graph[reader], Graph[writer])) \subseteq X
                <=> \A i \in DOMAIN Graph[reader].fields :
                      \/ Filled(Graph[reader].fields[i], Graph[writer], X)
                      \/ Defaulted(Graph[reader].fields[i], Graph[writer])
<1> DEFINE r == Graph[reader]
           w == Graph[writer]
           n == Len(r.fields)
           A == Pairs \cup {Fail}
<1>1. /\ r.fields \in Seq({r.fields[i] : i \in DOMAIN r.fields})
      /\ \A i \in DOMAIN r.fields : r.fields[i].type \in Schemas
      /\ w.fields \in Seq({w.fields[i] : i \in DOMAIN w.fields})
      /\ \A i \in DOMAIN w.fields : w.fields[i].type \in Schemas
  BY ShapeAssumption DEF ShapeAssumption
<1> HIDE DEF r, w
<1>2. n \in Nat /\ DOMAIN r.fields = 1 .. n /\ Len(w.fields) \in Nat /\ DOMAIN w.fields = 1 .. Len(w.fields)
  BY <1>1
<1>3. \A i \in 1 .. n : \A x, y \in Sources(r.fields[i], w) : x = y
  <2>1. ~Ambiguous(r, w)
    BY DEF r, w
  <2> HIDE DEF n
  <2>2. Unmixed(r, w)
    BY <1>2, <2>1, AmbiguousIs
  <2> QED  BY <1>2, <2>2 DEF Unmixed
<1>4. \A i \in 1 .. n : FieldAsk(r.fields[i], w) \subseteq A
  <2> SUFFICES ASSUME NEW i \in 1 .. n, NEW a \in FieldAsk(r.fields[i], w), a # Fail
               PROVE  a \in Pairs
    OBVIOUS
  <2>1. PICK g \in Sources(r.fields[i], w) : a = << r.fields[i].type, w.fields[g].type >>
    BY DEF FieldAsk
  <2>2. g \in DOMAIN w.fields
    BY DEF Sources
  <2> QED  BY <1>1, <1>2, <2>1, <2>2 DEF Pairs
<1> HIDE DEF n
<1>5. /\ FieldAsks(r, w) \in Seq(A)
      /\ Elements(FieldAsks(r, w)) =
              {CHOOSE a \in FieldAsk(r.fields[i], w) : TRUE :
                 i \in {k \in 1 .. n : FieldAsk(r.fields[k], w) # {}}}
  <2> HIDE DEF A
  <2>1. n = Len(r.fields)
    BY DEF n
  <2> QED  BY <1>2, <1>4, <2>1, FieldAsksAre
<1>6. ASSUME NEW X \in SUBSET Pairs
      PROVE  Elements(FieldAsks(r, w)) \subseteq X
               <=> \A i \in 1 .. n : Filled(r.fields[i], w, X) \/ Defaulted(r.fields[i], w)
  <2>1. Fail \notin X
    BY FailIsNoPair
  <2>2. \A i \in 1 .. n :
          (Filled(r.fields[i], w, X) \/ Defaulted(r.fields[i], w))
            <=> (FieldAsk(r.fields[i], w) # {}
                   => (CHOOSE a \in FieldAsk(r.fields[i], w) : TRUE) \in X)
    BY <1>3, <2>1, FieldAskIs
  <2>3. Elements(FieldAsks(r, w)) \subseteq X
          <=> \A i \in 1 .. n : FieldAsk(r.fields[i], w) # {}
                   => (CHOOSE a \in FieldAsk(r.fields[i], w) : TRUE) \in X
    BY <1>5
  <2> QED  BY <2>2, <2>3
<1> QED  BY <1>2, <1>5, <1>6 DEF r, w

\* The asks of a union are a sequence.
LEMMA SequenceAsks ==
  ASSUME NEW s, NEW T, s \in Seq(T), NEW A, NEW t,
         DOMAIN t = DOMAIN s, \A i \in DOMAIN s : t[i] \in A, t = [i \in DOMAIN s |-> t[i]]
  PROVE  t \in Seq(A)
OBVIOUS

\* What match asks about a pair is what Avro's rules need, for any pair and
\* whatever pairs are compatible.
THEOREM MatchFollowsTheRules ==
  ASSUME NEW reader \in Schemas, NEW writer \in Schemas
  PROVE  IsMatch(Match(reader, writer), reader, writer)
<1> DEFINE r == Graph[reader]
           w == Graph[writer]
           m == Match(reader, writer)
           Agree == DecimalsAgree(r, w)
<1> SUFFICES IsMatch(m, reader, writer)
  OBVIOUS
<1>1. CASE ~Agree
  <2>1. m = Fails
    BY <1>1 DEF Match
  <2>2. \A X \in SUBSET Pairs : ~Readable(reader, writer, X)
    BY <1>1 DEF Readable, DecimalsAgree
  <2> HIDE DEF m, Agree, r, w
  <2> QED  BY <2>1, <2>2, HoldsIs, ConstantAsks DEF IsMatch
<1>2. CASE Agree /\ w.type = "union"
  <2> DEFINE t == [i \in DOMAIN w.types |-> << reader, w.types[i] >>]
  <2>1. m = AllOf(t)
    BY <1>2 DEF Match
  <2>2. w.types \in Seq(Schemas)
    BY <1>2, ShapeAssumption DEF ShapeAssumption
  <2>3. \A i \in DOMAIN w.types : w.types[i] \in Schemas
    BY <2>2
  <2>4. \A i \in DOMAIN w.types : t[i] \in Pairs \cup {Fail}
    BY <2>3 DEF Pairs
  <2>5. t \in Seq(Pairs \cup {Fail})
    BY <2>2, <2>4, SequenceAsks
  <2>6. \A X \in SUBSET Pairs : Readable(reader, writer, X) <=> \A i \in DOMAIN w.types : t[i] \in X
    BY <1>2 DEF Readable, DecimalsAgree
  <2>7. m.mode = "all" /\ m.asks = t
    BY <2>1 DEF AllOf
  <2>8. \A X : Elements(t) \subseteq X <=> \A i \in DOMAIN w.types : t[i] \in X
    BY DEF Elements
  <2> HIDE DEF m, t
  <2> QED  BY <2>5, <2>6, <2>7, <2>8 DEF IsMatch, Granted
<1>3. CASE Agree /\ r.type = "union" /\ w.type # "union"
  <2> DEFINE t == [i \in DOMAIN r.types |-> << r.types[i], writer >>]
  <2>1. m = AnyOf(t)
    BY <1>3 DEF Match
  <2>2. r.types \in Seq(Schemas)
    BY <1>3, ShapeAssumption DEF ShapeAssumption
  <2>3. \A i \in DOMAIN r.types : r.types[i] \in Schemas
    BY <2>2
  <2>4. \A i \in DOMAIN r.types : t[i] \in Pairs
    BY <2>3 DEF Pairs
  <2>5. t \in Seq(Pairs \cup {Fail})
    BY <2>2, <2>4, SequenceAsks
  <2>6. \A X \in SUBSET Pairs : Readable(reader, writer, X) <=> \E i \in DOMAIN r.types : t[i] \in X
    BY <1>3 DEF Readable, DecimalsAgree
  <2>7. m.mode = "any" /\ m.asks = t
    BY <2>1 DEF AnyOf
  <2>8. \A X : Elements(t) \cap X # {} <=> \E i \in DOMAIN r.types : t[i] \in X
    BY DEF Elements
  <2>9. Fail \notin Elements(t)
    BY <2>4, FailIsNoPair DEF Elements
  <2> HIDE DEF m, t
  <2> QED  BY <2>5, <2>6, <2>7, <2>8, <2>9 DEF IsMatch, Granted
<1>4. CASE Agree /\ r.type # w.type /\ "union" \notin {r.type, w.type}
  <2> DEFINE b == Promotes(w.type, r.type)
  <2>1. m = Check(b)
    BY <1>4 DEF Match
  <2>2. \A X \in SUBSET Pairs : Readable(reader, writer, X) <=> b
    BY <1>4 DEF Readable, DecimalsAgree
  <2>3. b \in BOOLEAN
    BY DEF Promotes
  <2> HIDE DEF m, b
  <2> QED  BY <2>1, <2>2, <2>3, CheckIs
<1>5. CASE Agree /\ r.type = w.type /\ r.type # "union"
  <2>1. CASE r.type \in {"array", "map"}
    <3> DEFINE a == << r.items, w.items >>
    <3>1. m = AllOf(<< a >>)
      BY <1>5, <2>1 DEF Match
    <3>2. a \in Pairs
      BY <1>5, <2>1, ShapeAssumption DEF ShapeAssumption, Pairs
    <3>3. \A X \in SUBSET Pairs : Readable(reader, writer, X) <=> a \in X
      BY <1>5, <2>1 DEF Readable, DecimalsAgree
    <3>4. m.mode = "all" /\ m.asks = << a >>
      BY <3>1 DEF AllOf
    <3>5. Elements(<< a >>) = {a}
      BY DEF Elements
    <3> HIDE DEF m, a
    <3> QED  BY <3>2, <3>3, <3>4, <3>5 DEF IsMatch, Granted
  <2>2. CASE r.type = "fixed"
    <3> DEFINE b == NamesAgree(r, w) /\ r.size = w.size
    <3>1. m = Check(b)
      BY <1>5, <2>2 DEF Match
    <3>2. \A X \in SUBSET Pairs : Readable(reader, writer, X) <=> b
      BY <1>5, <2>2 DEF Readable, DecimalsAgree
    <3>3. b \in BOOLEAN
      OBVIOUS
    <3> HIDE DEF m, b
    <3> QED  BY <3>1, <3>2, <3>3, CheckIs
  <2>3. CASE r.type = "enum"
    <3> DEFINE b == NamesAgree(r, w) /\ (w.symbols \subseteq r.symbols \/ r.default)
    <3>1. m = Check(b)
      BY <1>5, <2>3 DEF Match
    <3>2. \A X \in SUBSET Pairs : Readable(reader, writer, X) <=> b
      BY <1>5, <2>3 DEF Readable, DecimalsAgree
    <3>3. b \in BOOLEAN
      OBVIOUS
    <3> HIDE DEF m, b
    <3> QED  BY <3>1, <3>2, <3>3, CheckIs
  <2>4. CASE r.type = "record"
    <3>1. /\ r.fields \in Seq({r.fields[i] : i \in DOMAIN r.fields})
          /\ w.fields \in Seq({w.fields[i] : i \in DOMAIN w.fields})
      BY <1>5, <2>4, ShapeAssumption DEF ShapeAssumption
    <3>2. /\ DOMAIN r.fields = 1 .. Len(r.fields) /\ Len(r.fields) \in Nat
          /\ DOMAIN w.fields = 1 .. Len(w.fields) /\ Len(w.fields) \in Nat
      BY <3>1
    <3>3. ~Ambiguous(r, w) <=> Unmixed(r, w)
      <4> HIDE DEF r, w
      <4> QED  BY <3>2, AmbiguousIs
    <3>4. \A X \in SUBSET Pairs : Readable(reader, writer, X) <=>
            /\ NamesAgree(r, w)
            /\ \A i \in DOMAIN r.fields : Filled(r.fields[i], w, X) \/ Defaulted(r.fields[i], w)
            /\ \A g \in DOMAIN w.fields :
                 Cardinality({i \in DOMAIN r.fields : g \in Sources(r.fields[i], w)}) <= 1
      BY <1>5, <2>4 DEF Readable, DecimalsAgree, Filled, Defaulted
    <3>5. \A X \in SUBSET Pairs : Readable(reader, writer, X) => Unmixed(r, w)
      <4> SUFFICES ASSUME NEW X \in SUBSET Pairs, Readable(reader, writer, X),
                          NEW i \in DOMAIN r.fields,
                          NEW x \in Sources(r.fields[i], w), NEW y \in Sources(r.fields[i], w)
                   PROVE  x = y
        BY <3>4 DEF Unmixed
      <4>1. Filled(r.fields[i], w, X) \/ Defaulted(r.fields[i], w)
        BY <3>4
      <4>2. \E g : Sources(r.fields[i], w) = {g}
        BY <4>1 DEF Filled, Defaulted
      <4> HIDE DEF r, w
      <4> QED  BY <4>2
    <3>6. CASE ~NamesAgree(r, w) \/ Ambiguous(r, w)
      <4>1. m = Fails
        BY <1>5, <2>4, <3>6 DEF Match
      <4>2. \A X \in SUBSET Pairs : ~Readable(reader, writer, X)
        BY <3>3, <3>4, <3>5, <3>6
      <4> HIDE DEF m, Agree, r, w
      <4> QED  BY <4>1, <4>2, HoldsIs, ConstantAsks DEF IsMatch
    <3>7. CASE NamesAgree(r, w) /\ ~Ambiguous(r, w)
      <4>1. m = AllOf(FieldAsks(r, w))
        BY <1>5, <2>4, <3>7 DEF Match
      <4>2. m.mode = "all" /\ m.asks = FieldAsks(r, w)
        BY <4>1 DEF AllOf
      <4>3. /\ FieldAsks(r, w) \in Seq(Pairs \cup {Fail})
            /\ \A X \in SUBSET Pairs :
                 Elements(FieldAsks(r, w)) \subseteq X
                   <=> \A i \in DOMAIN r.fields :
                         Filled(r.fields[i], w, X) \/ Defaulted(r.fields[i], w)
        <5>1. r.type = "record" /\ w.type = "record"
          BY <1>5, <2>4
        <5> QED  BY <3>7, <5>1, RecordMatchIs
      <4>4. \A X \in SUBSET Pairs : Readable(reader, writer, X)
               <=> Elements(FieldAsks(r, w)) \subseteq X
        BY <3>3, <3>4, <3>7, <4>3 DEF Unmixed
      <4> HIDE DEF m, r, w
      <4> QED  BY <4>2, <4>3, <4>4 DEF IsMatch, Granted
    <3> QED  BY <3>6, <3>7
  <2>5. CASE r.type \notin {"array", "map", "fixed", "enum", "record"}
    <3>1. m = Check(TRUE)
      BY <1>5, <2>5 DEF Match, Check
    <3>2. \A X \in SUBSET Pairs : Readable(reader, writer, X) <=> TRUE
      BY <1>5, <2>5 DEF Readable, DecimalsAgree
    <3> HIDE DEF m
    <3> QED  BY <3>1, <3>2, CheckIs
  <2> QED  BY <2>1, <2>2, <2>3, <2>4, <2>5
<1> QED  BY <1>1, <1>2, <1>3, <1>4, <1>5

------------------------------------------------------------------------------
(* The reference definitions are fixed points, the greatest and the least. *)

\* The rounds in which ReadablePairs is found.
LEMMA Shrinks ==
  \E f \in [0 .. Rounds -> SUBSET Pairs] :
    /\ f[0] = Pairs /\ f[Rounds] = ReadablePairs
    /\ \A n \in 1 .. Rounds : f[n] = {p \in f[n - 1] : Readable(p[1], p[2], f[n - 1])}
<1> DEFINE kept(X) == {p \in X : Readable(p[1], p[2], X)}
           body(g, n) == IF n = 0 THEN Pairs ELSE kept(g[n - 1])
           shrink == CHOOSE g : g = [n \in 0 .. Rounds |-> body(g, n)]
           step == [n \in 1 .. Rounds |-> [X \in SUBSET Pairs |-> kept(X)]]
<1>1. ReadablePairs = shrink[Rounds]
  BY DEF ReadablePairs
<1>2. Rounds \in Nat
  BY RoundsAssumption DEF RoundsAssumption
<1>3. \A X \in SUBSET Pairs : kept(X) \in SUBSET Pairs
  OBVIOUS
<1> HIDE DEF kept
<1>4. step \in [1 .. Rounds -> [SUBSET Pairs -> SUBSET Pairs]]
  BY <1>3
<1>5. \A n \in 1 .. Rounds : \A X \in SUBSET Pairs : step[n][X] = kept(X)
  OBVIOUS
<1> HIDE DEF step
<1>6. PICK f : IsRecursive(f, Rounds, SUBSET Pairs, Pairs, step)
  <2>1. Pairs \in SUBSET Pairs /\ IsStep(step, Rounds, SUBSET Pairs)
    BY <1>4 DEF IsStep
  <2> QED  BY <1>2, <2>1, Recursion
<1>7. \A n \in 1 .. Rounds : f[n] = kept(f[n - 1])
  BY <1>2, <1>5, <1>6 DEF IsRecursive
<1>8. f = [n \in 0 .. Rounds |-> body(f, n)]
  <2>1. ASSUME NEW n \in 0 .. Rounds PROVE f[n] = body(f, n)
    <3>1. n = 0 \/ n \in 1 .. Rounds
      OBVIOUS
    <3> QED  BY <1>6, <1>7, <3>1 DEF IsRecursive
  <2> HIDE DEF body
  <2> QED  BY <1>6, <2>1 DEF IsRecursive
<1>9. shrink = [n \in 0 .. Rounds |-> body(shrink, n)]
  <2> HIDE DEF body
  <2> QED  BY <1>8
<1> HIDE DEF shrink
<1>10. shrink[0] = Pairs /\ \A n \in 1 .. Rounds : shrink[n] = kept(shrink[n - 1])
  <2>1. \A n \in 0 .. Rounds : shrink[n] = body(shrink, n)
    <3> HIDE DEF body
    <3> QED  BY <1>9
  <2> QED  BY <1>2, <2>1
<1>11. \A n \in 0 .. Rounds : shrink[n] \in SUBSET Pairs
  <2> DEFINE T == {n \in 0 .. Rounds : shrink[n] \in SUBSET Pairs}
  <2>1. 0 \in T
    BY <1>2, <1>10
  <2>2. \A n \in 1 .. Rounds : n - 1 \in T => n \in T
    BY <1>3, <1>10
  <2> HIDE DEF T
  <2>3. 0 .. Rounds \subseteq T
    BY <1>2, <2>1, <2>2, BoundedInduction
  <2> QED  BY <2>3 DEF T
<1>12. shrink \in [0 .. Rounds -> SUBSET Pairs]
  <2> HIDE DEF body
  <2> QED  BY <1>9, <1>11
<1> QED  BY <1>1, <1>10, <1>12 DEF kept

\* What match does about a pair, and the pairs it may ask about, with Fail.
Matching(p) == Match(p[1], p[2])
AskedAbout(p) == Elements(Matching(p).asks)

\* MatchFollowsTheRules, of a pair.
LEMMA MatchingIs ==
  ASSUME NEW p \in Pairs
  PROVE  IsMatch(Matching(p), p[1], p[2])
<1>1. p[1] \in Schemas /\ p[2] \in Schemas
  BY DEF Pairs
<1> QED  BY <1>1, MatchFollowsTheRules DEF Matching

\* match accepts a pair when it accepts it with fewer compatible pairs.
LEMMA GrantedGrows ==
  ASSUME NEW m, NEW X, NEW Y, X \subseteq Y, Granted(m, X)
  PROVE  Granted(m, Y)
BY DEF Granted

\* The readable pairs are closed under the rules.
LEMMA ReadableIs ==
  /\ ReadablePairs \subseteq Pairs
  /\ \A p \in ReadablePairs : Granted(Matching(p), ReadablePairs)
<1>1. PICK f \in [0 .. Rounds -> SUBSET Pairs] : f[Rounds] = ReadablePairs
  BY Shrinks
<1>2. Rounds \in 0 .. Rounds
  BY RoundsAssumption DEF RoundsAssumption
<1>3. ReadablePairs \in SUBSET Pairs
  BY <1>1, <1>2
<1>4. ASSUME NEW p \in ReadablePairs
      PROVE  Granted(Matching(p), ReadablePairs)
  <2>1. p \in Pairs /\ Readable(p[1], p[2], ReadablePairs)
    BY <1>3, RoundsAssumption DEF RoundsAssumption
  <2> QED  BY <1>3, <2>1, MatchingIs DEF IsMatch
<1> QED  BY <1>3, <1>4

\* A set of pairs that is closed under the rules is readable.
LEMMA ReadableGreatest ==
  ASSUME NEW N \in SUBSET Pairs, \A p \in N : Granted(Matching(p), N)
  PROVE  N \subseteq ReadablePairs
<1>1. PICK f \in [0 .. Rounds -> SUBSET Pairs] :
        /\ f[0] = Pairs /\ f[Rounds] = ReadablePairs
        /\ \A n \in 1 .. Rounds : f[n] = {p \in f[n - 1] : Readable(p[1], p[2], f[n - 1])}
  BY Shrinks
<1>2. Rounds \in Nat
  BY RoundsAssumption DEF RoundsAssumption
<1> DEFINE T == {n \in 0 .. Rounds : N \subseteq f[n]}
<1>3. 0 \in T
  BY <1>1, <1>2
<1>4. ASSUME NEW n \in 1 .. Rounds, n - 1 \in T
      PROVE  n \in T
  <2> DEFINE X == f[n - 1]
  <2>1. n - 1 \in 0 .. Rounds /\ n \in 0 .. Rounds /\ N \subseteq X
    BY <1>2, <1>4
  <2>2. X \in SUBSET Pairs
    BY <2>1
  <2>3. f[n] = {p \in X : Readable(p[1], p[2], X)}
    BY <1>1
  <2> HIDE DEF X
  <2>4. ASSUME NEW p \in N PROVE p \in f[n]
    <3>1. Granted(Matching(p), X)
      BY <2>1, GrantedGrows
    <3>2. IsMatch(Matching(p), p[1], p[2])
      BY MatchingIs
    <3>3. Readable(p[1], p[2], X)
      BY <2>2, <3>1, <3>2 DEF IsMatch
    <3> QED  BY <2>1, <2>3, <3>3
  <2> QED  BY <2>1, <2>4
<1>5. Rounds \in T
  <2> HIDE DEF T
  <2>1. 0 .. Rounds \subseteq T
    BY <1>2, <1>3, <1>4, BoundedInduction
  <2> QED  BY <1>2, <2>1
<1> QED  BY <1>1, <1>5

\* Asks leaves the errors out.
LEMMA AsksAre ==
  ASSUME NEW p \in Pairs
  PROVE  Asks(p) = AskedAbout(p) \ {Fail}
BY DEF Asks, AskedAbout, Matching, Elements

\* What contains every pair all of whose asks it contains has the flat pairs.
LEMMA FlatLeast ==
  ASSUME NEW Y, \A p \in Pairs : Asks(p) \subseteq Y => p \in Y
  PROVE  FlatPairs \subseteq Y
<1> DEFINE next(X) == {p \in Pairs : Asks(p) \subseteq X}
           body(g, n) == IF n = 0 THEN {} ELSE next(g[n - 1])
           grow == CHOOSE g : g = [n \in 0 .. Rounds |-> body(g, n)]
           step == [n \in 1 .. Rounds |-> [X \in SUBSET Pairs |-> next(X)]]
<1>1. FlatPairs = grow[Rounds]
  BY DEF FlatPairs
<1>2. Rounds \in Nat
  BY RoundsAssumption DEF RoundsAssumption
<1>3. \A X \in SUBSET Pairs : next(X) \in SUBSET Pairs
  OBVIOUS
<1>4. \A X : X \subseteq Y => next(X) \subseteq Y
  OBVIOUS
<1> HIDE DEF next
<1>5. step \in [1 .. Rounds -> [SUBSET Pairs -> SUBSET Pairs]]
  BY <1>3
<1>6. \A n \in 1 .. Rounds : \A X \in SUBSET Pairs : step[n][X] = next(X)
  OBVIOUS
<1> HIDE DEF step
<1>7. PICK f : IsRecursive(f, Rounds, SUBSET Pairs, {}, step)
  <2>1. {} \in SUBSET Pairs /\ IsStep(step, Rounds, SUBSET Pairs)
    BY <1>5 DEF IsStep
  <2> QED  BY <1>2, <2>1, Recursion
<1>8. \A n \in 1 .. Rounds : f[n] = next(f[n - 1])
  BY <1>2, <1>6, <1>7 DEF IsRecursive
<1>9. f = [n \in 0 .. Rounds |-> body(f, n)]
  <2>1. ASSUME NEW n \in 0 .. Rounds PROVE f[n] = body(f, n)
    <3>1. n = 0 \/ n \in 1 .. Rounds
      OBVIOUS
    <3> QED  BY <1>7, <1>8, <3>1 DEF IsRecursive
  <2> HIDE DEF body
  <2> QED  BY <1>7, <2>1 DEF IsRecursive
<1>10. grow = [n \in 0 .. Rounds |-> body(grow, n)]
  <2> HIDE DEF body
  <2> QED  BY <1>9
<1> HIDE DEF grow
<1>11. grow[0] = {} /\ \A n \in 1 .. Rounds : grow[n] = next(grow[n - 1])
  <2>1. \A n \in 0 .. Rounds : grow[n] = body(grow, n)
    <3> HIDE DEF body
    <3> QED  BY <1>10
  <2> QED  BY <1>2, <2>1
<1> DEFINE T == {n \in 0 .. Rounds : grow[n] \subseteq Y}
<1>12. 0 \in T
  BY <1>2, <1>11
<1>13. \A n \in 1 .. Rounds : n - 1 \in T => n \in T
  BY <1>4, <1>11
<1>14. Rounds \in T
  <2> HIDE DEF T
  <2>1. 0 .. Rounds \subseteq T
    BY <1>2, <1>12, <1>13, BoundedInduction
  <2> QED  BY <1>2, <2>1
<1> QED  BY <1>1, <1>14

\* The flat pairs below a set of pairs that is closed under the rules, but for
\* pairs that are not flat, are readable.
LEMMA FlatAccepted ==
  ASSUME NEW G \in SUBSET Pairs, NEW B \in SUBSET Pairs, B \cap FlatPairs = {},
         \A p \in G : Granted(Matching(p), G \cup B)
  PROVE  G \cap FlatPairs \subseteq ReadablePairs
<1> DEFINE N == G \cap FlatPairs
<1>1. ASSUME NEW p \in N PROVE Granted(Matching(p), N)
  <2>1. Granted(Matching(p), G \cup B) /\ p \in Pairs /\ p \in FlatPairs
    OBVIOUS
  <2>2. Asks(p) \subseteq FlatPairs
    BY <2>1, RoundsAssumption DEF RoundsAssumption
  <2>3. AskedAbout(p) \subseteq FlatPairs \cup {Fail}
    BY <2>1, <2>2, AsksAre
  <2>4. (G \cup B) \cap (FlatPairs \cup {Fail}) \subseteq N
    BY FailIsNoPair
  <2>5. (G \cup B) \cap AskedAbout(p) \subseteq N
    BY <2>3, <2>4
  <2> HIDE DEF N
  <2> QED  BY <2>1, <2>5 DEF Granted, AskedAbout
<1>2. N \in SUBSET Pairs
  OBVIOUS
<1> HIDE DEF N
<1>3. N \subseteq ReadablePairs
  BY <1>1, <1>2, ReadableGreatest
<1> QED  BY <1>3 DEF N

\* A pair of which not enough is readable is not readable, and conversely.
LEMMA ReadableExactly ==
  ASSUME NEW p \in Pairs
  PROVE  p \in ReadablePairs <=> Granted(Matching(p), ReadablePairs)
<1>1. ASSUME Granted(Matching(p), ReadablePairs) PROVE p \in ReadablePairs
  <2> DEFINE N == ReadablePairs \cup {p}
  <2>1. N \in SUBSET Pairs
    BY ReadableIs
  <2>2. ASSUME NEW q \in N PROVE Granted(Matching(q), N)
    <3>1. Granted(Matching(q), ReadablePairs)
      BY <1>1, ReadableIs
    <3>2. ReadablePairs \subseteq N
      OBVIOUS
    <3> HIDE DEF N
    <3> QED  BY <3>1, <3>2, GrantedGrows
  <2>3. p \in N
    OBVIOUS
  <2> HIDE DEF N
  <2> QED  BY <2>1, <2>2, <2>3, ReadableGreatest
<1> QED  BY <1>1, ReadableIs

------------------------------------------------------------------------------
(* One call: its stack, what it is to look up and its answer. *)

\* The frames of a stack.
Frames == [pair : Pairs, left : Seq(Pairs \cup {Fail})]

\* An answer after which match asked about another pair.
Settled(mode, a, U) == IF mode = "all" THEN a \in U ELSE a \notin ReadablePairs

\* How far match has come with a pair, where the pairs in U are those taken to
\* be compatible: of all it may ask about, some is left, O is what it is asking
\* about, and the rest is settled.
Explained(f, O, U) ==
  /\ Elements(f.left) \subseteq AskedAbout(f.pair)
  /\ O \subseteq AskedAbout(f.pair)
  /\ \A a \in AskedAbout(f.pair) :
       a \in Elements(f.left) \/ a \in O \/ Settled(Matching(f.pair).mode, a, U)

\* An answer about b that compatible may return.
Sound(a, b, U) ==
  \/ a = "nil" /\ b \in U
  \/ a = "error" /\ b \notin ReadablePairs

\* What the innermost match is asking about, or was when it got its answer.
Reported(g, a, O, U) ==
  IF g # NoPair THEN O = {g}
  ELSE \/ a = "none" /\ O = {}
       \/ \E b \in Pairs : O = {b} /\ Sound(a, b, U)

\* The stack s of a call that is to look up g, or has the answer a.
StackInv(s, g, a, U) ==
  /\ s \in Seq(Frames)
  /\ \A i \in 1 .. Len(s) - 1 : Explained(s[i], {s[i + 1].pair}, U)
  /\ s # << >> => \E O \in SUBSET Pairs : Reported(g, a, O, U) /\ Explained(s[Len(s)], O, U)

\* Explained, Reported and StackInv stay true when more is taken to be compatible.
LEMMA ExplainedGrows ==
  ASSUME NEW f, NEW O, NEW U, NEW V, U \subseteq V, Explained(f, O, U)
  PROVE  Explained(f, O, V)
BY DEF Explained, Settled

LEMMA ReportedGrows ==
  ASSUME NEW g, NEW a, NEW O, NEW U, NEW V, U \subseteq V, Reported(g, a, O, U)
  PROVE  Reported(g, a, O, V)
BY DEF Reported, Sound

LEMMA StackGrows ==
  ASSUME NEW s, NEW g, NEW a, NEW U, NEW V, U \subseteq V, StackInv(s, g, a, U)
  PROVE  StackInv(s, g, a, V)
<1>1. \A i \in 1 .. Len(s) - 1 : Explained(s[i], {s[i + 1].pair}, V)
  BY ExplainedGrows DEF StackInv
<1>2. ASSUME s # << >>
      PROVE  \E O \in SUBSET Pairs : Reported(g, a, O, V) /\ Explained(s[Len(s)], O, V)
  <2>1. PICK O \in SUBSET Pairs : Reported(g, a, O, U) /\ Explained(s[Len(s)], O, U)
    BY <1>2 DEF StackInv
  <2> QED  BY <2>1, ExplainedGrows, ReportedGrows
<1> QED  BY <1>1, <1>2 DEF StackInv

\* Nothing is being decided.
LEMMA EmptyStack ==
  ASSUME NEW g, NEW a, NEW U
  PROVE  StackInv(<< >>, g, a, U)
BY DEF StackInv

\* The last frame of a stack.
LEMMA LastFrame ==
  ASSUME NEW s \in Seq(Frames), s # << >>
  PROVE  /\ Len(s) \in Nat \ {0} /\ DOMAIN s = 1 .. Len(s) /\ s[Len(s)] \in Frames
         /\ s[Len(s)].pair \in Pairs /\ s[Len(s)].left \in Seq(Pairs \cup {Fail})
<1>1. Len(s) \in Nat \ {0} /\ DOMAIN s = 1 .. Len(s)
  OBVIOUS
<1>2. s[Len(s)] \in Frames
  BY <1>1
<1> QED  BY <1>1, <1>2 DEF Frames

\* compatible, when match is called.
LEMMA Entered ==
  ASSUME NEW s, NEW p \in Pairs, NEW a, NEW U, StackInv(s, p, a, U)
  PROVE  StackInv(Append(s, [pair |-> p, left |-> Matching(p).asks]), NoPair, "none", U)
<1> DEFINE f == [pair |-> p, left |-> Matching(p).asks]
           t == Append(s, f)
           n == Len(s)
<1> SUFFICES StackInv(t, NoPair, "none", U)
  OBVIOUS
<1>1. s \in Seq(Frames) /\ n \in Nat
  BY DEF StackInv
<1>2. f \in Frames
  <2>1. Matching(p).asks \in Seq(Pairs \cup {Fail})
    BY MatchingIs DEF IsMatch
  <2> QED  BY <2>1 DEF Frames
<1>3. f.pair = p /\ f.left = Matching(p).asks
  OBVIOUS
<1> HIDE DEF f
<1>4. t \in Seq(Frames) /\ Len(t) = n + 1 /\ t[n + 1] = f /\ t # << >>
  BY <1>1, <1>2
<1>5. \A i \in 1 .. n : t[i] = s[i]
  BY <1>1
<1> HIDE DEF t
<1>6. Explained(f, {}, U) /\ Reported(NoPair, "none", {}, U)
  BY <1>3 DEF Explained, Reported, AskedAbout
<1>7. ASSUME NEW i \in 1 .. n
      PROVE  Explained(t[i], {t[i + 1].pair}, U)
  <2>1. CASE i # n
    <3>1. i \in 1 .. n - 1 /\ i + 1 \in 1 .. n
      BY <1>1, <2>1
    <3> QED  BY <1>5, <3>1 DEF StackInv
  <2>2. CASE i = n
    <3>1. p # NoPair
      BY NoPairAssumption DEF NoPairAssumption, Pairs
    <3>2. s # << >>
      BY <2>2
    <3>3. Explained(s[n], {p}, U)
      BY <3>1, <3>2 DEF StackInv, Reported
    <3> QED  BY <1>3, <1>4, <1>5, <2>2, <3>3
  <2> QED  BY <2>1, <2>2
<1>8. \A i \in 1 .. Len(t) - 1 : Explained(t[i], {t[i + 1].pair}, U)
  <2>1. Len(t) - 1 = n
    BY <1>1, <1>4
  <2> HIDE DEF n
  <2> QED  BY <1>7, <2>1
<1>9. Reported(NoPair, "none", {}, U) /\ Explained(t[Len(t)], {}, U)
  BY <1>4, <1>6
<1> QED  BY <1>4, <1>8, <1>9 DEF StackInv

\* compatible, when the pair has been decided or is being decided.
LEMMA Answered ==
  ASSUME NEW s, NEW p \in Pairs, NEW a, NEW b, NEW U, StackInv(s, p, a, U), Sound(b, p, U)
  PROVE  StackInv(s, NoPair, b, U)
<1>1. p # NoPair
  BY NoPairAssumption DEF NoPairAssumption, Pairs
<1>2. ASSUME s # << >> PROVE Reported(NoPair, b, {p}, U) /\ Explained(s[Len(s)], {p}, U)
  BY <1>1, <1>2 DEF StackInv, Reported
<1> QED  BY <1>2 DEF StackInv

\* match has got its answer, and decides.
LEMMA Decided ==
  ASSUME NEW s, NEW a, NEW U \in SUBSET Pairs, NEW p, NEW left, NEW d,
         s # << >>, StackInv(s, NoPair, a, U),
         p = s[Len(s)].pair, left = s[Len(s)].left,
         d = Verdict(Matching(p).mode, left, a), d # "none"
  PROVE  /\ p \in Pairs
         /\ \/ d = "nil" /\ Granted(Matching(p), U)
            \/ d = "error" /\ p \notin ReadablePairs
<1> DEFINE mode == Matching(p).mode
           f == s[Len(s)]
<1>1. f \in Frames /\ p \in Pairs /\ left \in Seq(Pairs \cup {Fail})
  BY LastFrame DEF StackInv
<1>2. PICK O \in SUBSET Pairs : Reported(NoPair, a, O, U) /\ Explained(f, O, U)
  BY DEF StackInv
<1> HIDE DEF f
<1>3. /\ Elements(left) \subseteq AskedAbout(p)
      /\ O \subseteq AskedAbout(p)
      /\ \A x \in AskedAbout(p) : x \in Elements(left) \/ x \in O \/ Settled(mode, x, U)
  BY <1>2 DEF Explained, f
<1>4. (a = "none" /\ O = {}) \/ \E b \in Pairs : O = {b} /\ Sound(a, b, U)
  BY <1>2 DEF Reported
<1>5. mode \in {"all", "any"}
  BY <1>1, MatchingIs DEF IsMatch
<1>6. Fail \notin ReadablePairs
  BY FailIsNoPair, ReadableIs
<1>7. p \in ReadablePairs <=> Granted(Matching(p), ReadablePairs)
  BY <1>1, ReadableExactly
<1> HIDE DEF mode
<1>8. CASE mode = "all"
  <2>1. CASE a = "error" \/ (left # << >> /\ left[1] = Fail)
    <3>1. d = "error"
      BY <1>8, <2>1 DEF Verdict, mode
    <3>2. \E b \in AskedAbout(p) : b \notin ReadablePairs
      <4>1. CASE a = "error"
        BY <1>3, <1>4, <4>1 DEF Sound
      <4>2. CASE left # << >> /\ left[1] = Fail
        <5>1. 1 \in DOMAIN left
          BY <1>1, <4>2
        <5>2. Fail \in Elements(left)
          BY <4>2, <5>1 DEF Elements
        <5> QED  BY <1>3, <1>6, <5>2
      <4> QED  BY <2>1, <4>1, <4>2
    <3>3. p \notin ReadablePairs
      BY <1>7, <1>8, <3>2 DEF Granted, AskedAbout, mode
    <3> QED  BY <1>1, <3>1, <3>3
  <2>2. CASE a # "error" /\ ~(left # << >> /\ left[1] = Fail)
    <3>1. d = "nil" /\ left = << >>
      BY <1>8, <2>2 DEF Verdict, mode
    <3>2. Elements(left) = {}
      BY <3>1 DEF Elements
    <3>3. O \subseteq U
      BY <1>4, <2>2 DEF Sound
    <3>4. AskedAbout(p) \subseteq U
      BY <1>3, <1>8, <3>2, <3>3 DEF Settled
    <3>5. Granted(Matching(p), U)
      BY <1>8, <3>4 DEF Granted, AskedAbout, mode
    <3> QED  BY <1>1, <3>1, <3>5
  <2> QED  BY <2>1, <2>2
<1>9. CASE mode = "any"
  <2>1. CASE a = "nil"
    <3>1. d = "nil"
      BY <1>9, <2>1 DEF Verdict, mode
    <3>2. \E b \in AskedAbout(p) : b \in U
      BY <1>3, <1>4, <2>1 DEF Sound
    <3>3. Granted(Matching(p), U)
      BY <1>9, <3>2 DEF Granted, AskedAbout, mode
    <3> QED  BY <1>1, <3>1, <3>3
  <2>2. CASE a # "nil"
    <3>1. d = "error" /\ left = << >>
      BY <1>9, <2>2 DEF Verdict, mode
    <3>2. Elements(left) = {}
      BY <3>1 DEF Elements
    <3>3. O \cap ReadablePairs = {}
      BY <1>4, <2>2 DEF Sound
    <3>4. AskedAbout(p) \cap ReadablePairs = {}
      BY <1>3, <1>9, <3>2, <3>3 DEF Settled
    <3>5. p \notin ReadablePairs
      BY <1>7, <1>9, <3>4 DEF Granted, AskedAbout, mode
    <3> QED  BY <1>1, <3>1, <3>5
  <2> QED  BY <2>1, <2>2
<1> QED  BY <1>5, <1>8, <1>9

\* The stack s with another frame on top.
WithTop(s, u) == [s EXCEPT ![Len(s)] = u]

\* Only the last frame differs.
LEMMA WithTopIs ==
  ASSUME NEW S, NEW s \in Seq(S), NEW u \in S, s # << >>
  PROVE  /\ WithTop(s, u) \in Seq(S) /\ Len(WithTop(s, u)) = Len(s)
         /\ WithTop(s, u)[Len(s)] = u /\ WithTop(s, u) # << >>
         /\ \A i \in 1 .. Len(s) : i # Len(s) => WithTop(s, u)[i] = s[i]
BY DEF WithTop

\* A stack without its last frame.
LEMMA WithoutLast ==
  ASSUME NEW S, NEW s \in Seq(S), NEW n \in 1 .. Len(s), NEW t, t = SubSeq(s, 1, n - 1)
  PROVE  t \in Seq(S) /\ Len(t) = n - 1 /\ \A i \in 1 .. n - 1 : t[i] = s[i]
OBVIOUS

\* A sequence is its head and its tail.
LEMMA HeadAndTail ==
  ASSUME NEW S, NEW s \in Seq(S), s # << >>
  PROVE  s[1] \in S /\ Tail(s) \in Seq(S) /\ Elements(s) = {s[1]} \cup Elements(Tail(s))
<1>1. Len(s) \in Nat \ {0} /\ DOMAIN s = 1 .. Len(s) /\ s[1] \in S
  OBVIOUS
<1>2. /\ Tail(s) \in Seq(S) /\ DOMAIN Tail(s) = 1 .. Len(s) - 1
      /\ \A i \in 1 .. Len(s) - 1 : Tail(s)[i] = s[i + 1]
  OBVIOUS
<1> DEFINE t == Tail(s)
<1> HIDE DEF t
<1>3. ASSUME NEW x \in Elements(s) PROVE x \in {s[1]} \cup Elements(t)
  <2>1. PICK i \in 1 .. Len(s) : x = s[i]
    BY <1>1 DEF Elements
  <2>2. i = 1 \/ (i - 1 \in 1 .. Len(s) - 1 /\ (i - 1) + 1 = i)
    BY <1>1
  <2> QED  BY <1>2, <2>1, <2>2 DEF Elements, t
<1>4. ASSUME NEW x \in {s[1]} \cup Elements(t) PROVE x \in Elements(s)
  <2>1. CASE x = s[1]
    <3>1. 1 \in DOMAIN s
      BY <1>1
    <3> QED  BY <2>1, <3>1 DEF Elements
  <2>2. CASE x \in Elements(t)
    <3>1. PICK i \in 1 .. Len(s) - 1 : x = s[i + 1]
      BY <1>2, <2>2 DEF Elements, t
    <3>2. i + 1 \in DOMAIN s
      BY <1>1
    <3> QED  BY <3>1, <3>2 DEF Elements
  <2> QED  BY <2>1, <2>2
<1> QED  BY <1>1, <1>2, <1>3, <1>4 DEF t

\* match asks about the next pair.
LEMMA Advanced ==
  ASSUME NEW s, NEW a, NEW U \in SUBSET Pairs, s # << >>, StackInv(s, NoPair, a, U),
         Verdict(Matching(s[Len(s)].pair).mode, s[Len(s)].left, a) = "none"
  PROVE  /\ s[Len(s)].left[1] \in Pairs
         /\ StackInv(WithTop(s, [s[Len(s)] EXCEPT !.left = Tail(s[Len(s)].left)]), s[Len(s)].left[1], a, U)
<1> DEFINE n == Len(s)
           f == s[n]
           p == f.pair
           left == f.left
           mode == Matching(p).mode
           q == left[1]
           u == [f EXCEPT !.left = Tail(left)]
           t == WithTop(s, u)
<1> SUFFICES q \in Pairs /\ StackInv(t, q, a, U)
  OBVIOUS
<1>1. f \in Frames /\ p \in Pairs /\ left \in Seq(Pairs \cup {Fail}) /\ n \in Nat \ {0} /\ DOMAIN s = 1 .. n
  BY LastFrame DEF StackInv
<1>2. PICK O \in SUBSET Pairs : Reported(NoPair, a, O, U) /\ Explained(f, O, U)
  BY DEF StackInv
<1>3. /\ Elements(left) \subseteq AskedAbout(p)
      /\ O \subseteq AskedAbout(p)
      /\ \A x \in AskedAbout(p) : x \in Elements(left) \/ x \in O \/ Settled(mode, x, U)
  BY <1>2 DEF Explained
<1>4. (a = "none" /\ O = {}) \/ \E b \in Pairs : O = {b} /\ Sound(a, b, U)
  BY <1>2 DEF Reported
<1>5. mode \in {"all", "any"} /\ (mode = "any" => Fail \notin AskedAbout(p))
  BY <1>1, MatchingIs DEF IsMatch, AskedAbout
<1>6. /\ left # << >>
      /\ mode = "all" => a # "error" /\ q # Fail
      /\ mode = "any" => a # "nil"
  BY <1>5 DEF Verdict
<1>7. \A x \in O : Settled(mode, x, U)
  BY <1>4, <1>5, <1>6 DEF Settled, Sound
<1>8. /\ q \in Pairs \cup {Fail} /\ Tail(left) \in Seq(Pairs \cup {Fail})
      /\ Elements(left) = {q} \cup Elements(Tail(left))
  BY <1>1, <1>6, HeadAndTail
<1>9. q \in Pairs /\ q # NoPair /\ q \in AskedAbout(p)
  BY <1>3, <1>5, <1>6, <1>8, NoPairAssumption DEF NoPairAssumption, Pairs
<1>10. u \in Frames /\ u.pair = p /\ u.left = Tail(left)
  BY <1>1, <1>8 DEF Frames
<1>11. s \in Seq(Frames)
  BY DEF StackInv
<1> HIDE DEF u
<1>12. t \in Seq(Frames) /\ Len(t) = n /\ t[n] = u /\ \A i \in 1 .. n : i # n => t[i] = s[i]
  BY <1>10, <1>11, WithTopIs
<1>13. t # << >>
  BY <1>10, <1>11, WithTopIs DEF t
<1> HIDE DEF t
<1>14. Explained(u, {q}, U)
  BY <1>3, <1>7, <1>8, <1>9, <1>10 DEF Explained
<1>15. ASSUME NEW i \in 1 .. n - 1 PROVE Explained(t[i], {t[i + 1].pair}, U)
  <2>1. i \in 1 .. n /\ i # n /\ i + 1 \in 1 .. n
    <3>1. n \in Nat
      BY <1>1
    <3> HIDE DEF n
    <3> QED  BY <3>1
  <2>2. t[i] = s[i] /\ t[i + 1].pair = s[i + 1].pair
    BY <1>10, <1>12, <2>1
  <2>3. Explained(s[i], {s[i + 1].pair}, U)
    BY DEF StackInv
  <2> QED  BY <2>2, <2>3
<1>16. {q} \in SUBSET Pairs /\ Reported(q, a, {q}, U)
  BY <1>9 DEF Reported
<1> HIDE DEF q
<1> QED  BY <1>9, <1>12, <1>13, <1>14, <1>15, <1>16 DEF StackInv

\* compatible returns the verdict on its pair to the match that asked.
LEMMA Popped ==
  ASSUME NEW s, NEW g, NEW a, NEW d, NEW U, s # << >>, StackInv(s, g, a, U),
         Sound(d, s[Len(s)].pair, U)
  PROVE  StackInv(SubSeq(s, 1, Len(s) - 1), NoPair, d, U)
<1> DEFINE n == Len(s)
           t == SubSeq(s, 1, n - 1)
<1> SUFFICES StackInv(t, NoPair, d, U)
  OBVIOUS
<1>1. s \in Seq(Frames) /\ n \in Nat \ {0} /\ s[n].pair \in Pairs
  BY LastFrame DEF StackInv
<1>2. t \in Seq(Frames) /\ Len(t) = n - 1 /\ \A i \in 1 .. n - 1 : t[i] = s[i]
  <2>1. s \in Seq(Frames) /\ n \in 1 .. Len(s)
    BY <1>1
  <2> HIDE DEF n, t
  <2> QED  BY <2>1, WithoutLast DEF t
<1>3. \A i \in 1 .. n - 1 : Explained(s[i], {s[i + 1].pair}, U)
  BY DEF StackInv
<1> HIDE DEF n, t
<1>4. ASSUME NEW i \in 1 .. (n - 1) - 1 PROVE Explained(t[i], {t[i + 1].pair}, U)
  <2>1. i \in 1 .. n - 1 /\ i + 1 \in 1 .. n - 1
    BY <1>1
  <2> QED  BY <1>2, <1>3, <2>1
<1>5. ASSUME t # << >>
      PROVE  \E O \in SUBSET Pairs : Reported(NoPair, d, O, U) /\ Explained(t[n - 1], O, U)
  <2>1. n - 1 \in 1 .. n - 1 /\ (n - 1) + 1 = n
    <3>1. Len(t) # 0
      BY <1>2, <1>5
    <3> QED  BY <1>1, <1>2, <3>1
  <2>2. Explained(t[n - 1], {s[n].pair}, U)
    BY <1>2, <1>3, <2>1
  <2>3. Reported(NoPair, d, {s[n].pair}, U)
    BY <1>1 DEF Reported, n
  <2> QED  BY <1>1, <2>2, <2>3
<1> QED  BY <1>2, <1>4, <1>5 DEF StackInv

\* A pair that is being decided further up the same stack is not flat.
LEMMA CycleIsNotFlat ==
  ASSUME NEW s, NEW q \in Pairs, NEW a, NEW U, StackInv(s, q, a, U),
         NEW j \in DOMAIN s, s[j].pair = q
  PROVE  q \notin FlatPairs
<1> DEFINE n == Len(s)
           C == {s[i].pair : i \in j .. n}
           Y == Pairs \ C
<1>1. s \in Seq(Frames) /\ n \in Nat /\ DOMAIN s = 1 .. n /\ j \in 1 .. n /\ s # << >>
  BY DEF StackInv
<1>2. q # NoPair
  BY NoPairAssumption DEF NoPairAssumption, Pairs
<1>3. q \in C
  <2>1. j \in j .. n
    BY <1>1
  <2> QED  BY <2>1
<1>4. Explained(s[n], {q}, U)
  BY <1>1, <1>2 DEF StackInv, Reported
<1>5. \A i \in 1 .. n : s[i].pair \in Pairs
  <2>1. \A i \in 1 .. n : s[i] \in Frames
    BY <1>1
  <2> QED  BY <2>1 DEF Frames
<1>6. ASSUME NEW i \in j .. n
      PROVE  \E b \in C : b \in Pairs /\ b \in AskedAbout(s[i].pair)
  <2>1. CASE i = n
    BY <1>3, <1>4, <2>1 DEF Explained
  <2>2. CASE i # n
    <3>1. i \in 1 .. n - 1 /\ i + 1 \in j .. n /\ i + 1 \in 1 .. n
      <4>1. n \in Nat /\ j \in 1 .. n
        BY <1>1
      <4> HIDE DEF n
      <4> QED  BY <2>2, <4>1
    <3>2. Explained(s[i], {s[i + 1].pair}, U)
      BY <3>1 DEF StackInv
    <3>3. s[i + 1].pair \in C
      BY <3>1
    <3> QED  BY <1>5, <3>1, <3>2, <3>3 DEF Explained
  <2> QED  BY <2>1, <2>2
<1>7. ASSUME NEW p \in Pairs, Asks(p) \subseteq Y PROVE p \in Y
  <2> SUFFICES ASSUME p \in C PROVE FALSE
    OBVIOUS
  <2>1. PICK i \in j .. n : p = s[i].pair
    OBVIOUS
  <2>2. PICK b \in C : b \in Pairs /\ b \in AskedAbout(p)
    BY <1>6, <2>1
  <2>3. b \in Asks(p)
    BY <2>2, AsksAre, FailIsNoPair
  <2> QED  BY <1>7, <2>3
<1> HIDE DEF Y
<1>8. FlatPairs \subseteq Y
  BY <1>7, FlatLeast
<1> QED  BY <1>3, <1>8 DEF Y

\* The pairs that are being decided on a stack.
PairsOn(s) == {s[i].pair : i \in DOMAIN s}

\* Entering a pair keeps those further up.
LEMMA PushedPairs ==
  ASSUME NEW s \in Seq(Frames), NEW f \in Frames
  PROVE  Append(s, f) \in Seq(Frames) /\ PairsOn(s) \subseteq PairsOn(Append(s, f))
<1>1. DOMAIN s \subseteq DOMAIN Append(s, f) /\ \A i \in DOMAIN s : Append(s, f)[i] = s[i]
  OBVIOUS
<1> QED  BY <1>1 DEF PairsOn

\* Asking about another pair keeps them all.
LEMMA ReplacedPairs ==
  ASSUME NEW s \in Seq(Frames), NEW u \in Frames, s # << >>, u.pair = s[Len(s)].pair
  PROVE  WithTop(s, u) \in Seq(Frames) /\ PairsOn(s) \subseteq PairsOn(WithTop(s, u))
<1> DEFINE t == WithTop(s, u)
<1>1. /\ t \in Seq(Frames) /\ Len(t) = Len(s) /\ t[Len(s)] = u
      /\ \A i \in 1 .. Len(s) : i # Len(s) => t[i] = s[i]
  BY WithTopIs
<1> HIDE DEF t
<1>2. DOMAIN t = 1 .. Len(s) /\ DOMAIN s = 1 .. Len(s)
  BY <1>1
<1>3. ASSUME NEW i \in DOMAIN s PROVE t[i].pair = s[i].pair
  <2>1. CASE i = Len(s)
    BY <1>1, <2>1
  <2>2. CASE i # Len(s)
    <3>1. i \in 1 .. Len(s)
      BY <1>2
    <3>2. t[i] = s[i]
      BY <1>1, <2>2, <3>1
    <3> QED  BY <3>2
  <2> QED  BY <2>1, <2>2
<1>4. PairsOn(s) \subseteq PairsOn(t)
  BY <1>2, <1>3 DEF PairsOn
<1> QED  BY <1>1, <1>4 DEF t

\* Returning removes the last one only.
LEMMA PoppedPairs ==
  ASSUME NEW s \in Seq(Frames), s # << >>
  PROVE  /\ SubSeq(s, 1, Len(s) - 1) \in Seq(Frames)
         /\ PairsOn(s) \subseteq PairsOn(SubSeq(s, 1, Len(s) - 1)) \cup {s[Len(s)].pair}
<1> DEFINE n == Len(s)
           t == SubSeq(s, 1, n - 1)
<1>1. n \in Nat \ {0} /\ DOMAIN s = 1 .. n
  BY LastFrame
<1>2. t \in Seq(Frames) /\ Len(t) = n - 1 /\ \A i \in 1 .. n - 1 : t[i] = s[i]
  <2>1. n \in 1 .. Len(s)
    BY <1>1
  <2> HIDE DEF n, t
  <2> QED  BY <2>1, WithoutLast DEF t
<1>3. DOMAIN t = 1 .. n - 1
  <2> HIDE DEF n, t
  <2> QED  BY <1>2
<1>4. ASSUME NEW i \in DOMAIN s PROVE s[i].pair \in PairsOn(t) \cup {s[n].pair}
  <2>1. i = n \/ i \in 1 .. n - 1
    <3> HIDE DEF n
    <3> QED  BY <1>1
  <2> HIDE DEF n, t
  <2>2. CASE i \in 1 .. n - 1
    BY <1>2, <1>3, <2>2 DEF PairsOn
  <2> QED  BY <2>1, <2>2
<1> HIDE DEF t
<1>5. PairsOn(s) \subseteq PairsOn(t) \cup {s[n].pair}
  BY <1>4 DEF PairsOn
<1> QED  BY <1>2, <1>5 DEF t
------------------------------------------------------------------------------
(* All calls. *)

\* The types of what belongs to a call.
CallTypes ==
  /\ goal \in [Callers -> Pairs \cup {NoPair}]
  /\ answer \in [Callers -> Verdicts \cup {"none"}]
  /\ query \in [Callers -> Asked \cup {NoPair}]
  /\ stack \in [Callers -> Seq(Frames)]

\* Between calls there is nothing to look up and nothing being decided.
IdleInv == \A c \in Callers : query[c] = NoPair => goal[c] = NoPair /\ stack[c] = << >>

\* What the cache says of a pair, where G are the pairs that were accepted.
CacheInv(G) ==
  /\ DOMAIN cache \subseteq Pairs
  /\ \A p \in DOMAIN cache : Sound(cache[p], p, G)

\* A pair was accepted because enough of what match asked about was accepted,
\* or assumed.
AcceptedInv(G) == \A p \in G : Granted(Matching(p), G \cup assumed)

\* A pair is assumed below itself only, and is decided in the end.
AssumedInv ==
  /\ assumed \subseteq Pairs
  /\ assumed \cap FlatPairs = {}
  /\ \A p \in assumed : p \in DOMAIN cache \/ \E c \in Callers : p \in PairsOn(stack[c])

\* Every call is sound, if what was accepted and assumed is taken for granted.
StacksInv(G) == \A c \in Callers : StackInv(stack[c], goal[c], answer[c], G \cup assumed)

\* The invariant, where G are the pairs that were ever accepted.
CompatInv(G) ==
  /\ G \in SUBSET Pairs
  /\ CallTypes /\ IdleInv /\ CacheInv(G) /\ AcceptedInv(G) /\ AssumedInv /\ StacksInv(G)

\* Nothing has been asked.
LEMMA InitCompat == Init => CompatInv({})
<1> SUFFICES ASSUME Init PROVE CompatInv({})
  OBVIOUS
<1>1. CallTypes /\ IdleInv
  BY DEF Init, CallTypes, IdleInv, Verdicts
<1>2. DOMAIN cache = {}
  BY DEF Init
<1>3. CacheInv({}) /\ AcceptedInv({}) /\ AssumedInv
  BY <1>2 DEF Init, CacheInv, AcceptedInv, AssumedInv
<1>4. StacksInv({})
  BY EmptyStack DEF Init, StacksInv
<1> QED  BY <1>1, <1>3, <1>4 DEF CompatInv

\* The stacks of the other callers stay as they are.
LEMMA OtherStacks ==
  ASSUME NEW G, NEW H, StacksInv(G), G \cup assumed \subseteq H \cup assumed',
         NEW c \in Callers,
         \A d \in Callers \ {c} : stack'[d] = stack[d] /\ goal'[d] = goal[d] /\ answer'[d] = answer[d],
         StackInv(stack'[c], goal'[c], answer'[c], H \cup assumed')
  PROVE  StacksInv(H)'
<1> SUFFICES ASSUME NEW d \in Callers
             PROVE  StackInv(stack'[d], goal'[d], answer'[d], H \cup assumed')
  BY DEF StacksInv
<1>1. CASE d = c
  BY <1>1
<1>2. CASE d # c
  <2>1. StackInv(stack[d], goal[d], answer[d], G \cup assumed)
    BY DEF StacksInv
  <2>2. StackInv(stack[d], goal[d], answer[d], H \cup assumed')
    BY <2>1, StackGrows
  <2> QED  BY <1>2, <2>2
<1> QED  BY <1>1, <1>2

\* A step that assumes nothing and decides nothing.
LEMMA KeptInv ==
  ASSUME NEW G, CompatInv(G), UNCHANGED << cache, assumed >>,
         \A c \in Callers : PairsOn(stack[c]) \subseteq PairsOn(stack'[c])
  PROVE  CacheInv(G)' /\ AcceptedInv(G)' /\ AssumedInv'
<1>1. CacheInv(G)' /\ AcceptedInv(G)'
  BY DEF CompatInv, CacheInv, AcceptedInv
<1>2. AssumedInv'
  BY DEF CompatInv, AssumedInv
<1> QED  BY <1>1, <1>2

\* The steps, one lemma for each action.
LEMMA CompatibleStep ==
  ASSUME NEW G, CompatInv(G), NEW c \in Callers, NEW p \in Asked, Compatible(c, p)
  PROVE  CompatInv(G)'
<1> USE DEF CompatInv
<1>1. p \in Pairs /\ p # NoPair
  BY GraphAssumption, NoPairAssumption DEF GraphAssumption, NoPairAssumption, Pairs
<1>2. CallTypes'
  BY <1>1 DEF Compatible, CallTypes
<1>3. stack' = stack /\ stack[c] = << >>
  BY DEF Compatible, IdleInv
<1>4. IdleInv'
  BY <1>1 DEF Compatible, IdleInv, CallTypes
<1>5. CacheInv(G)' /\ AcceptedInv(G)' /\ AssumedInv'
  BY <1>3, KeptInv DEF Compatible
<1>6. StacksInv(G)'
  <2>1. \A d \in Callers \ {c} : stack'[d] = stack[d] /\ goal'[d] = goal[d] /\ answer'[d] = answer[d]
    BY DEF Compatible, CallTypes
  <2>2. StackInv(stack'[c], goal'[c], answer'[c], G \cup assumed')
    BY <1>3, EmptyStack
  <2>3. assumed' = assumed
    BY DEF Compatible
  <2> QED  BY <2>1, <2>2, <2>3, OtherStacks
<1> QED  BY <1>2, <1>4, <1>5, <1>6

LEMMA LoadStep ==
  ASSUME NEW G, CompatInv(G), NEW c \in Callers, Load(c)
  PROVE  CompatInv(G)'
<1> USE DEF CompatInv
<1> DEFINE p == goal[c]
<1>1. p \in DOMAIN cache /\ p \in Pairs /\ p # NoPair /\ Sound(cache[p], p, G)
  BY NoPairAssumption DEF Load, NoPairAssumption, CacheInv, Pairs
<1>2. cache[p] \in Verdicts
  BY <1>1 DEF Sound, Verdicts
<1>3. CallTypes'
  BY <1>2 DEF Load, CallTypes
<1>4. IdleInv'
  BY DEF Load, IdleInv, CallTypes
<1>5. CacheInv(G)' /\ AcceptedInv(G)' /\ AssumedInv'
  BY KeptInv DEF Load
<1>6. StacksInv(G)'
  <2>1. \A d \in Callers \ {c} : stack'[d] = stack[d] /\ goal'[d] = goal[d] /\ answer'[d] = answer[d]
    BY DEF Load, CallTypes
  <2>2. stack'[c] = stack[c] /\ goal'[c] = NoPair /\ answer'[c] = cache[p] /\ assumed' = assumed
    BY DEF Load, CallTypes
  <2>3. StackInv(stack[c], p, answer[c], G \cup assumed)
    BY DEF StacksInv
  <2>4. Sound(cache[p], p, G \cup assumed)
    BY <1>1 DEF Sound
  <2> HIDE DEF p
  <2>5. StackInv(stack[c], NoPair, cache[p], G \cup assumed)
    BY <1>1, <2>3, <2>4, Answered
  <2> QED  BY <2>1, <2>2, <2>5, OtherStacks
<1> QED  BY <1>3, <1>4, <1>5, <1>6

LEMMA AssumeStep ==
  ASSUME NEW G, CompatInv(G), NEW c \in Callers, Assume(c)
  PROVE  CompatInv(G)'
<1> USE DEF CompatInv
<1> DEFINE p == goal[c]
<1>1. p \in Pairs /\ p # NoPair
  BY DEF Assume, CallTypes
<1>2. CallTypes'
  BY DEF Assume, CallTypes, Verdicts, Assumed
<1>3. IdleInv'
  BY DEF Assume, IdleInv, CallTypes
<1>4. assumed' = assumed \cup {p} /\ cache' = cache /\ stack' = stack
  BY DEF Assume
<1>5. CacheInv(G)'
  BY <1>4 DEF CacheInv
<1>6. AcceptedInv(G)'
  <2>1. G \cup assumed \subseteq G \cup assumed'
    BY <1>4
  <2> QED  BY <2>1, GrantedGrows DEF AcceptedInv
<1>7. StackInv(stack[c], p, answer[c], G \cup assumed)
  BY DEF StacksInv
<1>8. p \in PairsOn(stack[c])
  BY DEF Assume, Deciding, Active, PairsOn
<1>9. AssumedInv'
  <2>1. p \notin FlatPairs
    <3>1. PICK j \in DOMAIN stack[c] : stack[c][j].pair = p
      BY <1>8 DEF PairsOn
    <3> HIDE DEF p
    <3> QED  BY <1>1, <1>7, <3>1, CycleIsNotFlat
  <2> HIDE DEF p
  <2> QED  BY <1>1, <1>4, <1>8, <2>1 DEF AssumedInv
<1>10. StacksInv(G)'
  <2>1. \A d \in Callers \ {c} : stack'[d] = stack[d] /\ goal'[d] = goal[d] /\ answer'[d] = answer[d]
    BY DEF Assume, CallTypes
  <2>2. stack'[c] = stack[c] /\ goal'[c] = NoPair /\ answer'[c] = "nil"
    BY DEF Assume, CallTypes, Assumed
  <2>3. G \cup assumed \subseteq G \cup assumed' /\ Sound("nil", p, G \cup assumed')
    BY <1>4 DEF Sound
  <2> HIDE DEF p
  <2>4. StackInv(stack[c], p, answer[c], G \cup assumed')
    BY <1>7, <2>3, StackGrows
  <2>5. StackInv(stack[c], NoPair, "nil", G \cup assumed')
    BY <1>1, <2>3, <2>4, Answered
  <2> QED  BY <2>1, <2>2, <2>3, <2>5, OtherStacks
<1> QED  BY <1>2, <1>3, <1>5, <1>6, <1>9, <1>10

LEMMA EnterStep ==
  ASSUME NEW G, CompatInv(G), NEW c \in Callers, Enter(c)
  PROVE  CompatInv(G)'
<1> USE DEF CompatInv
<1> DEFINE p == goal[c]
           f == [pair |-> p, left |-> Matching(p).asks]
           t == Append(stack[c], f)
<1>1. p \in Pairs /\ p # NoPair
  BY DEF Enter, CallTypes
<1>2. f \in Frames
  <2>1. Matching(p).asks \in Seq(Pairs \cup {Fail})
    BY <1>1, MatchingIs DEF IsMatch
  <2> QED  BY <1>1, <2>1 DEF Frames
<1>3. /\ stack' = [stack EXCEPT ![c] = t] /\ goal' = [goal EXCEPT ![c] = NoPair]
      /\ answer' = [answer EXCEPT ![c] = "none"] /\ UNCHANGED << cache, query, assumed >>
  BY DEF Enter, Matching
<1>4. StackInv(stack[c], p, answer[c], G \cup assumed)
  BY DEF StacksInv
<1>5. StackInv(t, NoPair, "none", G \cup assumed)
  <2> HIDE DEF p
  <2> QED  BY <1>1, <1>4, Entered
<1> HIDE DEF f
<1>6. t \in Seq(Frames) /\ PairsOn(stack[c]) \subseteq PairsOn(t)
  BY <1>2, PushedPairs DEF CallTypes
<1> HIDE DEF t
<1>7. CallTypes'
  BY <1>3, <1>6 DEF CallTypes
<1>8. IdleInv'
  BY <1>1, <1>3 DEF IdleInv, CallTypes
<1>9. \A d \in Callers : PairsOn(stack[d]) \subseteq PairsOn(stack'[d])
  BY <1>3, <1>6 DEF CallTypes
<1>10. CacheInv(G)' /\ AcceptedInv(G)' /\ AssumedInv'
  BY <1>3, <1>9, KeptInv
<1>11. StacksInv(G)'
  <2>1. \A d \in Callers \ {c} : stack'[d] = stack[d] /\ goal'[d] = goal[d] /\ answer'[d] = answer[d]
    BY <1>3 DEF CallTypes
  <2>2. stack'[c] = t /\ goal'[c] = NoPair /\ answer'[c] = "none" /\ assumed' = assumed
    BY <1>3 DEF CallTypes
  <2> QED  BY <1>5, <2>1, <2>2, OtherStacks
<1> QED  BY <1>7, <1>8, <1>10, <1>11

LEMMA AskNextStep ==
  ASSUME NEW G, CompatInv(G), NEW c \in Callers, AskNext(c)
  PROVE  CompatInv(G)'
<1> USE DEF CompatInv
<1> DEFINE s == stack[c]
           f == s[Len(s)]
           u == [f EXCEPT !.left = Tail(f.left)]
           q == f.left[1]
           t == WithTop(s, u)
<1>1. s \in Seq(Frames) /\ s # << >> /\ goal[c] = NoPair
  BY DEF AskNext, Waiting, CallTypes
<1>2. /\ stack' = [stack EXCEPT ![c] = t] /\ goal' = [goal EXCEPT ![c] = q]
      /\ UNCHANGED << cache, answer, query, assumed >>
  BY DEF AskNext, Top, WithTop
<1>3. StackInv(s, NoPair, answer[c], G \cup assumed) /\ G \cup assumed \in SUBSET Pairs
  BY <1>1 DEF StacksInv, AssumedInv
<1>4. Verdict(Matching(f.pair).mode, f.left, answer[c]) = "none"
  BY DEF AskNext, Decision, Top, ModeOf, Matching
<1>5. q \in Pairs /\ StackInv(t, q, answer[c], G \cup assumed)
  <2> HIDE DEF s
  <2> QED  BY <1>1, <1>3, <1>4, Advanced
<1>6. t \in Seq(Frames) /\ PairsOn(s) \subseteq PairsOn(t)
  <2>1. u \in Frames /\ u.pair = f.pair
    <3>1. t \in Seq(Frames)
      BY <1>5 DEF StackInv
    <3>2. f \in Frames
      BY <1>1, LastFrame
    <3>3. f.left # << >>
      <4>1. Matching(f.pair).mode \in {"all", "any"}
        BY <1>1, LastFrame, MatchingIs DEF IsMatch
      <4> HIDE DEF f
      <4> QED  BY <1>4, <4>1 DEF Verdict
    <3>4. Tail(f.left) \in Seq(Pairs \cup {Fail})
      <4>1. f.left \in Seq(Pairs \cup {Fail})
        BY <3>2 DEF Frames
      <4> HIDE DEF f
      <4> QED  BY <3>3, <4>1, HeadAndTail
    <3> HIDE DEF f
    <3> QED  BY <3>2, <3>4 DEF Frames
  <2> HIDE DEF s, u
  <2> QED  BY <1>1, <2>1, ReplacedPairs
<1> HIDE DEF t, q
<1>7. CallTypes'
  BY <1>2, <1>5, <1>6 DEF CallTypes
<1>8. IdleInv'
  BY <1>1, <1>2 DEF IdleInv, CallTypes
<1>9. \A d \in Callers : PairsOn(stack[d]) \subseteq PairsOn(stack'[d])
  BY <1>2, <1>6 DEF CallTypes
<1>10. CacheInv(G)' /\ AcceptedInv(G)' /\ AssumedInv'
  BY <1>2, <1>9, KeptInv
<1>11. StacksInv(G)'
  <2>1. \A d \in Callers \ {c} : stack'[d] = stack[d] /\ goal'[d] = goal[d] /\ answer'[d] = answer[d]
    BY <1>2 DEF CallTypes
  <2>2. stack'[c] = t /\ goal'[c] = q /\ answer'[c] = answer[c] /\ assumed' = assumed
    BY <1>2 DEF CallTypes
  <2> QED  BY <1>5, <2>1, <2>2, OtherStacks
<1> QED  BY <1>7, <1>8, <1>10, <1>11

LEMMA StoreStep ==
  ASSUME NEW G, CompatInv(G), NEW c \in Callers, Store(c)
  PROVE  \E H : CompatInv(H)'
<1> USE DEF CompatInv
<1> DEFINE s == stack[c]
           f == s[Len(s)]
           p == f.pair
           d == Verdict(Matching(p).mode, f.left, answer[c])
           t == SubSeq(s, 1, Len(s) - 1)
<1> PICK H : H = IF d = "nil" THEN G \cup {p} ELSE G
  OBVIOUS
<1>1. s \in Seq(Frames) /\ s # << >> /\ goal[c] = NoPair
  BY DEF Store, Waiting, CallTypes
<1>2. d # "none"
  BY DEF Store, Decision, Top, ModeOf, Matching
<1>3. /\ stack' = [stack EXCEPT ![c] = t] /\ answer' = [answer EXCEPT ![c] = d]
      /\ cache' = [x \in DOMAIN cache \cup {p} |-> IF x = p THEN d ELSE cache[x]]
      /\ UNCHANGED << goal, query, assumed >>
  BY DEF Store, Decision, Top, Rest, ModeOf, Matching
<1>4. StackInv(s, NoPair, answer[c], G \cup assumed) /\ G \cup assumed \in SUBSET Pairs
  BY <1>1 DEF StacksInv, AssumedInv
<1>5. /\ p \in Pairs
      /\ \/ d = "nil" /\ Granted(Matching(p), G \cup assumed)
         \/ d = "error" /\ p \notin ReadablePairs
  <2> DEFINE left == f.left
  <2>1. p = s[Len(s)].pair /\ left = s[Len(s)].left /\ d = Verdict(Matching(p).mode, left, answer[c])
    OBVIOUS
  <2> HIDE DEF s, p, left, d
  <2> QED  BY <1>1, <1>2, <1>4, <2>1, Decided
<1>6. t \in Seq(Frames) /\ PairsOn(s) \subseteq PairsOn(t) \cup {p}
  <2> HIDE DEF s
  <2> QED  BY <1>1, PoppedPairs
<1> HIDE DEF d
<1>7. Sound(d, p, H) /\ G \subseteq H /\ H \in SUBSET Pairs
  BY <1>5 DEF Sound
<1>8. StackInv(t, NoPair, d, H \cup assumed)
  <2>1. StackInv(s, NoPair, answer[c], H \cup assumed)
    <3> HIDE DEF s
    <3> QED  BY <1>4, <1>7, StackGrows
  <2>2. Sound(d, s[Len(s)].pair, H \cup assumed)
    BY <1>7 DEF Sound
  <2> HIDE DEF s
  <2> QED  BY <1>1, <2>1, <2>2, Popped
<1>9. AcceptedInv(H)'
  <2> SUFFICES ASSUME NEW x \in H PROVE Granted(Matching(x), H \cup assumed)
    BY <1>3 DEF AcceptedInv
  <2>1. Granted(Matching(x), G \cup assumed)
    BY <1>5 DEF AcceptedInv
  <2>2. G \cup assumed \subseteq H \cup assumed
    BY <1>7
  <2> QED  BY <2>1, <2>2, GrantedGrows
<1> HIDE DEF t, p
<1>10. CallTypes'
  BY <1>3, <1>5, <1>6 DEF CallTypes, Verdicts
<1>11. IdleInv'
  BY <1>1, <1>3 DEF IdleInv, CallTypes
<1>12. CacheInv(H)'
  <2>1. DOMAIN cache' = DOMAIN cache \cup {p}
    BY <1>3
  <2>2. ASSUME NEW x \in DOMAIN cache \cup {p} PROVE Sound(cache'[x], x, H)
    <3>1. CASE x = p
      BY <1>3, <1>7, <3>1
    <3>2. CASE x # p
      <4>1. x \in DOMAIN cache /\ cache'[x] = cache[x]
        BY <1>3, <3>2
      <4>2. Sound(cache[x], x, G)
        BY <4>1 DEF CacheInv
      <4> QED  BY <1>7, <4>1, <4>2 DEF Sound
    <3> QED  BY <3>1, <3>2
  <2> QED  BY <1>5, <2>1, <2>2 DEF CacheInv
<1>13. AssumedInv'
  <2>1. DOMAIN cache' = DOMAIN cache \cup {p}
    BY <1>3
  <2>2. \A e \in Callers : PairsOn(stack[e]) \subseteq PairsOn(stack'[e]) \cup {p}
    BY <1>3, <1>6 DEF CallTypes
  <2> QED  BY <1>3, <2>1, <2>2 DEF AssumedInv
<1>14. StacksInv(H)'
  <2>1. \A e \in Callers \ {c} : stack'[e] = stack[e] /\ goal'[e] = goal[e] /\ answer'[e] = answer[e]
    BY <1>3 DEF CallTypes
  <2>2. stack'[c] = t /\ goal'[c] = NoPair /\ answer'[c] = d /\ assumed' = assumed
    BY <1>1, <1>3 DEF CallTypes
  <2>3. G \cup assumed \subseteq H \cup assumed'
    BY <1>7, <2>2
  <2> QED  BY <1>8, <2>1, <2>2, <2>3, OtherStacks
<1> QED  BY <1>7, <1>9, <1>10, <1>11, <1>12, <1>13, <1>14

LEMMA ReturnStep ==
  ASSUME NEW G, CompatInv(G), NEW c \in Callers, Return(c)
  PROVE  CompatInv(G)'
<1> USE DEF CompatInv
<1>1. CallTypes' /\ IdleInv'
  BY DEF Return, CallTypes, IdleInv
<1>2. CacheInv(G)' /\ AcceptedInv(G)' /\ AssumedInv'
  BY KeptInv DEF Return
<1>3. StacksInv(G)'
  BY DEF Return, StacksInv
<1> QED  BY <1>1, <1>2, <1>3

\* Every step keeps the invariant, if for more accepted pairs.
LEMMA NextCompat ==
  ASSUME NEW G, CompatInv(G), [Next]_vars
  PROVE  \E H : CompatInv(H)'
<1>1. ASSUME NEW c \in Callers, NEW p \in Asked, Compatible(c, p) PROVE CompatInv(G)'
  BY <1>1, CompatibleStep
<1>2. ASSUME NEW c \in Callers, Load(c) PROVE CompatInv(G)'
  BY <1>2, LoadStep
<1>3. ASSUME NEW c \in Callers, Assume(c) PROVE CompatInv(G)'
  BY <1>3, AssumeStep
<1>4. ASSUME NEW c \in Callers, Enter(c) PROVE CompatInv(G)'
  BY <1>4, EnterStep
<1>5. ASSUME NEW c \in Callers, AskNext(c) PROVE CompatInv(G)'
  BY <1>5, AskNextStep
<1>6. ASSUME NEW c \in Callers, Store(c) PROVE \E H : CompatInv(H)'
  BY <1>6, StoreStep
<1>7. ASSUME NEW c \in Callers, Return(c) PROVE CompatInv(G)'
  BY <1>7, ReturnStep
<1>8. CASE UNCHANGED vars
  BY <1>8 DEF vars, CompatInv, CallTypes, IdleInv, CacheInv, AcceptedInv, AssumedInv, StacksInv
<1> QED  BY <1>1, <1>2, <1>3, <1>4, <1>5, <1>6, <1>7, <1>8 DEF Next

\* The pairs that were ever accepted are not in the state: a later verdict on
\* the same pair, by a call that ran at the same time, may have replaced theirs.
Inv == \E G : CompatInv(G)

\* The invariant holds in every state.
LEMMA Invariance == Spec => []Inv
<1>1. Init => Inv
  BY InitCompat DEF Inv
<1>2. Inv /\ [Next]_vars => Inv'
  <2> SUFFICES ASSUME NEW G, CompatInv(G), [Next]_vars PROVE Inv'
    BY DEF Inv
  <2>1. \E H : CompatInv(H)'
    BY NextCompat
  <2> QED  BY <2>1 DEF Inv
<1> QED  BY <1>1, <1>2, PTL DEF Spec

\* Every variable keeps its type.
THEOREM TypesKept == Spec => []TypeOK
<1>1. Inv => TypeOK
  <2> SUFFICES ASSUME NEW G, CompatInv(G) PROVE TypeOK
    BY DEF Inv
  <2>1. /\ DOMAIN cache \subseteq Pairs /\ \A p \in DOMAIN cache : cache[p] \in Verdicts
        /\ assumed \subseteq Pairs
    BY DEF CompatInv, CacheInv, AssumedInv, Sound, Verdicts
  <2>2. ASSUME NEW c \in Callers, NEW i \in DOMAIN stack[c] PROVE stack[c][i].pair \in Pairs
    <3>1. stack[c] \in Seq(Frames)
      BY DEF CompatInv, CallTypes
    <3>2. stack[c][i] \in Frames
      BY <3>1
    <3> QED  BY <3>2 DEF Frames
  <2> QED  BY <2>1, <2>2 DEF TypeOK, CompatInv, CallTypes, Active
<1> QED  BY <1>1, Invariance, PTL

\* compatible never stores an error for a pair whose data can be read, for any
\* graph of schemas and any interleaving of calls that share the cache.
THEOREM RejectionsAreGenuine == Spec => []ErrorsAreGenuine
<1>1. Inv => ErrorsAreGenuine
  BY DEF Inv, CompatInv, CacheInv, Sound, ErrorsAreGenuine
<1> QED  BY <1>1, Invariance, PTL

\* Where match meets no recursion below a pair, compatible stores nil exactly
\* when the writer's data can be read: such a pair never rests on an assumption,
\* because a pair is only assumed below itself.
THEOREM FlatPairsAreExact == Spec => []ExactWithoutRecursion
<1>1. Inv => ExactWithoutRecursion
  <2> SUFFICES ASSUME NEW G, CompatInv(G), NEW p \in DOMAIN cache \cap FlatPairs
               PROVE  cache[p] = "nil" <=> p \in ReadablePairs
    BY DEF Inv, ExactWithoutRecursion
  <2>1. Sound(cache[p], p, G)
    BY DEF CompatInv, CacheInv
  <2>2. G \cap FlatPairs \subseteq ReadablePairs
    BY FlatAccepted DEF CompatInv, AcceptedInv, AssumedInv
  <2> QED  BY <2>1, <2>2 DEF Sound
<1> QED  BY <1>1, Invariance, PTL

\* Between calls, if every pair that compatible took for granted was accepted in
\* the end, then every pair it accepted is readable: a wrong verdict needs a
\* refuted assumption.
THEOREM ConfirmedMeansRight == Spec => []AssumptionsConfirmed
<1>1. Inv => AssumptionsConfirmed
  <2> SUFFICES ASSUME NEW G, CompatInv(G), \A c \in Callers : query[c] = NoPair,
                      \A p \in assumed : cache[p] = "nil",
                      NEW p \in DOMAIN cache, cache[p] = "nil"
               PROVE  p \in ReadablePairs
    BY DEF Inv, AssumptionsConfirmed
  <2>1. \A c \in Callers : PairsOn(stack[c]) = {}
    BY DEF CompatInv, IdleInv, PairsOn
  <2>2. assumed \subseteq DOMAIN cache
    BY <2>1 DEF CompatInv, AssumedInv
  <2>3. assumed \subseteq G
    BY <2>2 DEF CompatInv, CacheInv, Sound
  <2>4. G \cup assumed = G
    BY <2>3
  <2>5. G \subseteq ReadablePairs
    BY <2>4, ReadableGreatest DEF CompatInv, AcceptedInv
  <2> QED  BY <2>5 DEF CompatInv, CacheInv, Sound
<1> QED  BY <1>1, Invariance, PTL
==============================================================================
