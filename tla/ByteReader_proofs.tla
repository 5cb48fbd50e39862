----------------------------- MODULE ByteReader_proofs ------------------------
(***************************************************************************)
(* The Reader implements the stream of bytes it promises, for every width  *)
(* of bytes and numbers, every stream, every buffer and every cut of the   *)
(* stream into pieces; and what a Writer wrote is read back.               *)
(*                                                                         *)
(* Powers of two come first, then the numbers of a stream, the loop over   *)
(* the buffered bytes, the invariant, the steps as steps of the stream,    *)
(* and last the numbers that a Writer makes bytes of.                      *)
(***************************************************************************)
EXTENDS WrittenNumbers, FiniteSets, FiniteSetTheorems, SequenceTheorems, Induction

(***************************************************************************)
(* Powers of two.  The provers know nothing of exponents, but the library  *)
(* has counted the subsets of a finite set.                                *)
(***************************************************************************)

\* A set of n elements has 2^n subsets.
LEMMA PowerCounts ==
  ASSUME NEW n \in Nat
  PROVE  IsFiniteSet(SUBSET (1 .. n)) /\ Cardinality(SUBSET (1 .. n)) = 2 ^ n
<1>1. IsFiniteSet(1 .. n) /\ Cardinality(1 .. n) = n
  BY FS_Interval
<1> QED  BY <1>1, FS_SUBSET

\* A power of two is a positive number.
LEMMA PowerType ==
  ASSUME NEW n \in Nat
  PROVE  2 ^ n \in Nat /\ 2 ^ n > 0
<1>1. IsFiniteSet(SUBSET (1 .. n)) /\ Cardinality(SUBSET (1 .. n)) = 2 ^ n
  BY PowerCounts
<1>2. Cardinality(SUBSET (1 .. n)) \in Nat
  BY <1>1, FS_CardinalityType
<1>3. Cardinality(SUBSET (1 .. n)) # 0
  <2>1. SUBSET (1 .. n) # {}
    OBVIOUS
  <2> QED  BY <1>1, <2>1, FS_EmptySet
<1> QED  BY <1>1, <1>2, <1>3

\* Powers of two grow with the exponent.
LEMMA PowerMonotone ==
  ASSUME NEW m \in Nat, NEW n \in Nat, m <= n
  PROVE  2 ^ m <= 2 ^ n
<1>1. IsFiniteSet(SUBSET (1 .. n)) /\ Cardinality(SUBSET (1 .. n)) = 2 ^ n
      /\ Cardinality(SUBSET (1 .. m)) = 2 ^ m
  BY PowerCounts
<1>2. SUBSET (1 .. m) \subseteq SUBSET (1 .. n)
  <2>1. 1 .. m \subseteq 1 .. n
    OBVIOUS
  <2> QED  BY <2>1
<1> QED  BY <1>1, <1>2, FS_Subset

(***************************************************************************)
(* The widths: a full-length varint has a last group of 1 to GroupBits     *)
(* bits, so what fits there has no flag.                                   *)
(***************************************************************************)

\* The quotient of a division leaves a remainder less than the divisor.
LEMMA Quotient ==
  ASSUME NEW a \in Nat, NEW g \in Nat \ {0}
  PROVE  a \div g \in Nat /\ g * (a \div g) <= a /\ a < g * (a \div g) + g
  OBVIOUS

\* A group is a positive number.
LEMMA GroupType == Stream!Group \in Nat /\ Stream!Group > 0
  BY BitsAssumption, PowerType DEF Stream!Group

\* The size of a number of w bits, and what its last byte can hold.
LEMMA SizeType ==
  ASSUME NEW w \in Nat \ {0}
  PROVE  /\ Stream!Size(w) \in Nat /\ Stream!Size(w) > 0
         /\ Stream!LastMax(w) \in Nat /\ Stream!LastMax(w) < Stream!Group
<1> DEFINE n == Stream!Size(w)
           q == GroupBits * n
<1>1. GroupBits \in Nat \ {0}
  BY BitsAssumption
<1>2. n \in Nat /\ q <= w + GroupBits - 1 /\ w + GroupBits - 1 < q + GroupBits
  <2> DEFINE a == w + GroupBits - 1
  <2>1. a \in Nat
    BY <1>1
  <2> HIDE DEF a
  <2>2. a \div GroupBits \in Nat /\ GroupBits * (a \div GroupBits) <= a
        /\ a < GroupBits * (a \div GroupBits) + GroupBits
    BY <1>1, <2>1, Quotient
  <2> QED  BY <2>2 DEF a, Stream!Size
<1>3. q \in Nat
  BY <1>1, <1>2
<1>4. n # 0
  BY <1>1, <1>2, <1>3
<1>5. GroupBits * (n - 1) = q - GroupBits
  BY <1>1, <1>2
<1> DEFINE bits == w - GroupBits * (n - 1)
<1>6. bits \in Nat /\ bits <= GroupBits
  BY <1>1, <1>2, <1>3, <1>5
<1>7. Stream!LastMax(w) = 2 ^ bits - 1
  BY DEF Stream!LastMax
<1> HIDE DEF bits, n
<1>8. 2 ^ bits \in Nat /\ 2 ^ bits > 0 /\ 2 ^ bits <= 2 ^ GroupBits /\ 2 ^ GroupBits \in Nat
  BY <1>1, <1>6, PowerType, PowerMonotone
<1> QED  BY <1>2, <1>4, <1>7, <1>8 DEF Stream!Group, n

(***************************************************************************)
(* The value of a number.                                                  *)
(***************************************************************************)

\* What byte i after p adds to it.
GroupAt(s, p, i) == (s[p + i] % Stream!Group) * 2 ^ (GroupBits * (i - 1))

\* f[i] is the value of the first i groups.
AddsUp(f, s, p, k) ==
  /\ f \in [0 .. k -> Nat]
  /\ f[0] = 0
  /\ \A i \in 1 .. k : f[i] = f[i - 1] + GroupAt(s, p, i)

\* A group is a natural number.
LEMMA GroupAtType ==
  ASSUME NEW s \in Seq(Nat), NEW p \in Nat, NEW i \in Nat \ {0}, p + i <= Len(s)
  PROVE  GroupAt(s, p, i) \in Nat
<1>1. s[p + i] \in Nat
  OBVIOUS
<1>2. s[p + i] % Stream!Group \in Nat
  BY <1>1, GroupType
<1>3. GroupBits * (i - 1) \in Nat
  BY BitsAssumption
<1>4. 2 ^ (GroupBits * (i - 1)) \in Nat
  BY <1>3, PowerType
<1> DEFINE a == s[p + i] % Stream!Group
           b == 2 ^ (GroupBits * (i - 1))
<1>5. GroupAt(s, p, i) = a * b
  BY DEF GroupAt
<1> HIDE DEF a, b
<1> QED  BY <1>2, <1>4, <1>5 DEF a, b

\* The function that Groups defines by recursion exists.
LEMMA GroupsAddUp ==
  ASSUME NEW s \in Seq(Nat), NEW p \in Nat, NEW k \in Nat, p + k <= Len(s)
  PROVE  \E f : AddsUp(f, s, p, k) /\ Stream!Groups(s, p, k) = f[k]
<1> DEFINE more(v, i) == v + GroupAt(s, p, i)
           body(g, i) == IF i = 0 THEN 0
                         ELSE g[i - 1] + (s[p + i] % Stream!Group) * 2 ^ (GroupBits * (i - 1))
           sum == CHOOSE g : g = [i \in 0 .. k |-> body(g, i)]
           step == [i \in 1 .. k |-> [v \in Nat |-> more(v, i)]]
<1>1. Stream!Groups(s, p, k) = sum[k]
  BY DEF Stream!Groups
<1>2. \A i \in 1 .. k : \A v \in Nat : more(v, i) \in Nat
  <2>1. \A i \in 1 .. k : GroupAt(s, p, i) \in Nat
    BY GroupAtType
  <2> QED  BY <2>1
<1>3. \A g : \A i \in 0 .. k : body(g, i) = IF i = 0 THEN 0 ELSE more(g[i - 1], i)
  BY DEF GroupAt
<1> HIDE DEF more, body
<1>4. step \in [1 .. k -> [Nat -> Nat]] /\ \A i \in 1 .. k : \A v \in Nat : step[i][v] = more(v, i)
  BY <1>2
<1> HIDE DEF step
<1>5. PICK f : IsRecursive(f, k, Nat, 0, step)
  <2>1. 0 \in Nat /\ IsStep(step, k, Nat)
    BY <1>4 DEF IsStep
  <2> QED  BY <2>1, Recursion
<1>6. ASSUME NEW i \in 1 .. k PROVE f[i] = more(f[i - 1], i)
  <2>1. i - 1 \in 0 .. k
    OBVIOUS
  <2>2. f[i - 1] \in Nat /\ f[i] = step[i][f[i - 1]]
    BY <1>5, <2>1 DEF IsRecursive
  <2> QED  BY <1>4, <2>2
<1>7. f = [i \in 0 .. k |-> body(f, i)]
  <2>1. ASSUME NEW i \in 0 .. k PROVE f[i] = body(f, i)
    <3>1. i = 0 \/ i \in 1 .. k
      OBVIOUS
    <3> QED  BY <1>3, <1>5, <1>6, <3>1 DEF IsRecursive
  <2> QED  BY <1>5, <2>1 DEF IsRecursive
<1>8. sum = [i \in 0 .. k |-> body(sum, i)]
  BY <1>7
<1> HIDE DEF sum
<1>9. sum[0] = 0 /\ \A i \in 1 .. k : sum[i] = more(sum[i - 1], i)
  <2>1. \A i \in 0 .. k : sum[i] = body(sum, i)
    BY <1>8
  <2>2. 0 \in 0 .. k /\ \A i \in 1 .. k : i \in 0 .. k /\ i # 0
    OBVIOUS
  <2> QED  BY <1>3, <2>1, <2>2
<1>10. \A i \in 0 .. k : sum[i] \in Nat
  <2> DEFINE T == {i \in 0 .. k : sum[i] \in Nat}
  <2>1. 0 \in T
    BY <1>9
  <2>2. ASSUME NEW i \in 1 .. k, i - 1 \in T PROVE i \in T
    <3>1. sum[i - 1] \in Nat /\ i \in 0 .. k
      BY <2>2
    <3>2. sum[i] = more(sum[i - 1], i) /\ more(sum[i - 1], i) \in Nat
      BY <1>2, <1>9, <3>1
    <3> QED  BY <3>1, <3>2
  <2> HIDE DEF T
  <2>3. 0 .. k \subseteq T
    BY <2>1, <2>2, BoundedInduction
  <2> QED  BY <2>3 DEF T
<1>11. sum \in [0 .. k -> Nat]
  BY <1>8, <1>10
<1>12. AddsUp(sum, s, p, k)
  BY <1>9, <1>11 DEF AddsUp, more
<1> QED  BY <1>1, <1>12

\* What it is at a number does not depend on how far it goes.
LEMMA AddsUpOnce ==
  ASSUME NEW s, NEW p, NEW k \in Nat, NEW m \in 0 .. k, NEW f, NEW g,
         AddsUp(f, s, p, k), AddsUp(g, s, p, m)
  PROVE  f[m] = g[m]
<1> DEFINE T == {i \in 0 .. m : f[i] = g[i]}
<1>1. 0 \in T
  BY DEF AddsUp
<1>2. ASSUME NEW i \in 1 .. m, i - 1 \in T PROVE i \in T
  <2>1. f[i] = f[i - 1] + GroupAt(s, p, i) /\ g[i] = g[i - 1] + GroupAt(s, p, i)
    BY DEF AddsUp
  <2> QED  BY <1>2, <2>1
<1>3. m \in T
  <2> HIDE DEF T
  <2>1. 0 .. m \subseteq T
    BY <1>1, <1>2, BoundedInduction
  <2> QED  BY <2>1
<1> QED  BY <1>3

\* The value of no groups, and of one more.
LEMMA GroupsStep ==
  ASSUME NEW s \in Seq(Nat), NEW p \in Nat, NEW k \in Nat, p + k <= Len(s)
  PROVE  /\ Stream!Groups(s, p, k) \in Nat
         /\ k = 0 => Stream!Groups(s, p, k) = 0
         /\ k > 0 => Stream!Groups(s, p, k) = Stream!Groups(s, p, k - 1) + GroupAt(s, p, k)
<1>1. PICK f : AddsUp(f, s, p, k) /\ Stream!Groups(s, p, k) = f[k]
  BY GroupsAddUp
<1>2. CASE k = 0
  BY <1>1, <1>2 DEF AddsUp
<1>3. CASE k > 0
  <2> DEFINE m == k - 1
  <2>1. m \in 0 .. k /\ m \in Nat /\ p + m <= Len(s)
    BY <1>3
  <2> HIDE DEF m
  <2>2. PICK g : AddsUp(g, s, p, m) /\ Stream!Groups(s, p, m) = g[m]
    BY <2>1, GroupsAddUp
  <2>3. f[m] = g[m]
    BY <1>1, <2>1, <2>2, AddsUpOnce
  <2>4. k \in 1 .. k /\ k \in 0 .. k
    BY <1>3
  <2>5. f[k] = f[k - 1] + GroupAt(s, p, k) /\ f[k] \in Nat
    BY <1>1, <2>4 DEF AddsUp
  <2> QED  BY <1>1, <1>3, <2>2, <2>3, <2>5 DEF m
<1> QED  BY <1>2, <1>3

(***************************************************************************)
(* The outcome of reading a number, by what the bytes after p are.         *)
(***************************************************************************)

\* A byte that ends a number has no flag, and one that is not too large either.
LEMMA FlagOrEnd ==
  ASSUME NEW b \in Nat, NEW w \in Nat \ {0}
  PROVE  b <= Stream!LastMax(w) => ~Stream!More(b)
  BY GroupType, SizeType DEF Stream!More

\* A number ends at one byte.
LEMMA EndsOnce ==
  ASSUME NEW s \in Seq(Nat), NEW p \in Nat, NEW w \in Nat \ {0}, NEW i, NEW k,
         Stream!Ends(s, p, w, i), Stream!Ends(s, p, w, k)
  PROVE  i = k
<1>1. i \in 1 .. Stream!Size(w) /\ k \in 1 .. Stream!Size(w)
  BY DEF Stream!Ends
<1>2. ~(i < k)
  <2> SUFFICES ASSUME i < k PROVE FALSE
    OBVIOUS
  <2>1. i \in 1 .. k - 1
    BY <1>1
  <2> QED  BY <2>1 DEF Stream!Ends
<1>3. ~(k < i)
  <2> SUFFICES ASSUME k < i PROVE FALSE
    OBVIOUS
  <2>1. k \in 1 .. i - 1
    BY <1>1
  <2> QED  BY <2>1 DEF Stream!Ends
<1> QED  BY <1>1, <1>2, <1>3, SizeType

\* A number that ends within its width is read.
LEMMA VarintEnds ==
  ASSUME NEW s \in Seq(Nat), NEW e, NEW p \in Nat, NEW w \in Nat \ {0}, NEW eof, NEW k,
         Stream!Ends(s, p, w, k), k = Stream!Size(w) => s[p + k] <= Stream!LastMax(w)
  PROVE  Stream!Varint(s, e, p, w, eof) = Stream!Ok(<< Stream!ZigZag(Stream!Groups(s, p, k)) >>, k)
<1> DEFINE n == Stream!Size(w)
           c == CHOOSE i \in 1 .. n : Stream!Ends(s, p, w, i)
<1>1. n \in Nat /\ n > 0 /\ k \in 1 .. n /\ Stream!LastMax(w) \in Nat
  BY SizeType DEF Stream!Ends
<1>2. p + k \in 1 .. Len(s) /\ s[p + k] \in Nat /\ ~Stream!More(s[p + k])
  BY <1>1 DEF Stream!Ends
<1>3. ~Stream!TooLarge(s, p, w)
  <2> SUFFICES ASSUME Stream!TooLarge(s, p, w) PROVE FALSE
    OBVIOUS
  <2>1. CASE k = n
    <3>1. s[p + k] > Stream!LastMax(w)
      BY <2>1 DEF Stream!TooLarge
    <3> QED  BY <1>1, <1>2, <2>1, <3>1
  <2>2. CASE k # n
    <3>1. k \in 1 .. n - 1
      BY <1>1, <2>2
    <3> QED  BY <1>2, <3>1 DEF Stream!TooLarge
  <2> QED  BY <2>1, <2>2
<1>4. c \in 1 .. n /\ Stream!Ends(s, p, w, c)
  BY <1>1
<1>5. c = k
  <2> HIDE DEF c
  <2> QED  BY <1>4, EndsOnce
<1>6. Stream!Varint(s, e, p, w, eof) = Stream!Ok(<< Stream!ZigZag(Stream!Groups(s, p, c)) >>, c)
  BY <1>1, <1>3 DEF Stream!Varint
<1> HIDE DEF c
<1> QED  BY <1>5, <1>6

\* A number that is too large is reported.
LEMMA VarintOver ==
  ASSUME NEW s, NEW e, NEW p, NEW w, NEW eof, Stream!TooLarge(s, p, w)
  PROVE  Stream!Varint(s, e, p, w, eof) = Stream!Report
  BY DEF Stream!Varint

\* A number that is cut off is an error, as the operation names it.
LEMMA VarintCut ==
  ASSUME NEW s \in Seq(Nat), NEW e, NEW p \in Nat, NEW w \in Nat \ {0}, NEW eof,
         p <= Len(s), Len(s) < p + Stream!Size(w), \A i \in p + 1 .. Len(s) : Stream!More(s[i])
  PROVE  Stream!Varint(s, e, p, w, eof) = Stream!AtEnd(e, eof)
<1>1. Stream!Size(w) \in Nat
  BY SizeType
<1>2. ~Stream!TooLarge(s, p, w)
  BY <1>1 DEF Stream!TooLarge
<1>3. ASSUME NEW k \in 1 .. Stream!Size(w), Stream!Ends(s, p, w, k) PROVE FALSE
  <2>1. p + k \in p + 1 .. Len(s)
    BY <1>1, <1>3 DEF Stream!Ends
  <2> QED  BY <1>3, <2>1 DEF Stream!Ends
<1> QED  BY <1>2, <1>3 DEF Stream!Varint

\* What was read without error ended, and how far.
LEMMA VarintOk ==
  ASSUME NEW s \in Seq(Nat), NEW e \in {"eof", "err"}, NEW p \in Nat, NEW w \in Nat \ {0},
         NEW eof \in {"weof", "unexpected"}, Stream!Varint(s, e, p, w, eof).err = "nil"
  PROVE  LET r == Stream!Varint(s, e, p, w, eof) IN
         /\ r.len \in 1 .. Stream!Size(w) /\ p + r.len <= Len(s)
         /\ r = Stream!Ok(<< Stream!ZigZag(Stream!Groups(s, p, r.len)) >>, r.len)
         /\ Stream!ZigZag(Stream!Groups(s, p, r.len)) \in Int
<1> DEFINE r == Stream!Varint(s, e, p, w, eof)
           n == Stream!Size(w)
           k == CHOOSE i \in 1 .. n : Stream!Ends(s, p, w, i)
<1>1. n \in Nat
  BY SizeType
<1>2. ~Stream!TooLarge(s, p, w)
  BY DEF Stream!Varint, Stream!Report, Stream!Error
<1>3. \E i \in 1 .. n : Stream!Ends(s, p, w, i)
  BY <1>2 DEF Stream!Varint, Stream!AtEnd, Stream!Error
<1>4. k \in 1 .. n /\ Stream!Ends(s, p, w, k)
  BY <1>3
<1>5. r = Stream!Ok(<< Stream!ZigZag(Stream!Groups(s, p, k)) >>, k)
  BY <1>2, <1>3 DEF Stream!Varint
<1> HIDE DEF k, r
<1>6. r.len = k
  BY <1>5 DEF Stream!Ok
<1>7. p + k <= Len(s) /\ k \in Nat
  BY <1>1, <1>4 DEF Stream!Ends
<1>8. Stream!Groups(s, p, k) \in Nat
  BY <1>7, GroupsStep
<1>9. Stream!ZigZag(Stream!Groups(s, p, k)) \in Int
  BY <1>8 DEF Stream!ZigZag
<1> QED  BY <1>4, <1>5, <1>6, <1>7, <1>9 DEF r

(***************************************************************************)
(* The loop over the buffered bytes (reader.go:281).                       *)
(***************************************************************************)

Scanning == [at : {"more", "done", "over"}, v : Nat, k : Nat]

\* What the loop makes of byte b, byte i of the buffer and byte j of the number.
ScanByte(s, b, i, j) ==
  LET v == s.v + (b % Stream!Group) * 2 ^ (GroupBits * (j - 1)) IN
  CASE s.at # "more" -> s
    [] s.at = "more" /\ j = MaxSize /\ TooBig(b, Width) -> [at |-> "over", v |-> 0, k |-> 0]
    [] s.at = "more" /\ ~(j = MaxSize /\ TooBig(b, Width)) ->
         IF Stream!More(b) THEN [at |-> "more", v |-> v, k |-> i] ELSE [at |-> "done", v |-> v, k |-> i]

\* f[i] is where the loop is after i bytes.
Scans(f, bytes, used, value) ==
  /\ f \in [0 .. Len(bytes) -> Scanning]
  /\ f[0] = [at |-> "more", v |-> value, k |-> 0]
  /\ \A i \in 1 .. Len(bytes) : f[i] = ScanByte(f[i - 1], bytes[i], i, used + i)

\* A step of the loop keeps the types.
LEMMA ScanByteType ==
  ASSUME NEW s \in Scanning, NEW b \in Nat, NEW i \in Nat, NEW j \in Nat \ {0}
  PROVE  ScanByte(s, b, i, j) \in Scanning
<1> DEFINE a == b % Stream!Group
           c == 2 ^ (GroupBits * (j - 1))
           v == s.v + a * c
<1>1. a \in Nat
  BY GroupType
<1>2. GroupBits * (j - 1) \in Nat
  BY BitsAssumption
<1>3. c \in Nat
  BY <1>2, PowerType
<1>4. v \in Nat
  <2> HIDE DEF a, c
  <2> QED  BY <1>1, <1>3 DEF Scanning
<1>5. ScanByte(s, b, i, j) =
        CASE s.at # "more" -> s
          [] s.at = "more" /\ j = MaxSize /\ TooBig(b, Width) -> [at |-> "over", v |-> 0, k |-> 0]
          [] s.at = "more" /\ ~(j = MaxSize /\ TooBig(b, Width)) ->
               IF Stream!More(b) THEN [at |-> "more", v |-> v, k |-> i] ELSE [at |-> "done", v |-> v, k |-> i]
  BY DEF ScanByte
<1> HIDE DEF v
<1>6. CASE s.at # "more"
  BY <1>5, <1>6
<1>7. CASE s.at = "more" /\ j = MaxSize /\ TooBig(b, Width)
  BY <1>5, <1>7 DEF Scanning
<1>8. CASE s.at = "more" /\ ~(j = MaxSize /\ TooBig(b, Width))
  BY <1>4, <1>5, <1>8 DEF Scanning
<1> QED  BY <1>6, <1>7, <1>8

\* The function that Scan defines by recursion exists.
LEMMA ScanRuns ==
  ASSUME NEW bytes \in Seq(Nat), NEW used \in Nat, NEW value \in Nat
  PROVE  \E f : Scans(f, bytes, used, value) /\ Scan(bytes, used, value) = f[Len(bytes)]
<1> DEFINE n == Len(bytes)
           more(s, i) == ScanByte(s, bytes[i], i, used + i)
           start == [at |-> "more", v |-> value, k |-> 0]
           body(g, i) ==
             IF i = 0 THEN start
             ELSE CASE g[i - 1].at # "more" -> g[i - 1]
                    [] g[i - 1].at = "more" /\ used + i = MaxSize /\ TooBig(bytes[i], Width) ->
                         [at |-> "over", v |-> 0, k |-> 0]
                    [] g[i - 1].at = "more" /\ ~(used + i = MaxSize /\ TooBig(bytes[i], Width)) ->
                         IF Stream!More(bytes[i])
                         THEN [at |-> "more", k |-> i,
                               v |-> g[i - 1].v + (bytes[i] % Stream!Group) * 2 ^ (GroupBits * (used + i - 1))]
                         ELSE [at |-> "done", k |-> i,
                               v |-> g[i - 1].v + (bytes[i] % Stream!Group) * 2 ^ (GroupBits * (used + i - 1))]
           loop == CHOOSE g : g = [i \in 0 .. n |-> body(g, i)]
           step == [i \in 1 .. n |-> [s \in Scanning |-> more(s, i)]]
<1>1. Scan(bytes, used, value) = loop[n]
  BY DEF Scan
<1>2. ASSUME NEW i \in 1 .. n, NEW s \in Scanning PROVE more(s, i) \in Scanning
  <2>1. bytes[i] \in Nat /\ i \in Nat /\ used + i \in Nat \ {0}
    OBVIOUS
  <2> QED  BY <2>1, ScanByteType
<1>3. \A g : \A i \in 0 .. n : body(g, i) = IF i = 0 THEN start ELSE more(g[i - 1], i)
  BY DEF ScanByte
<1>4. start \in Scanning /\ n \in Nat
  BY DEF Scanning
<1> HIDE DEF more, body, start
<1>5. step \in [1 .. n -> [Scanning -> Scanning]]
      /\ \A i \in 1 .. n : \A s \in Scanning : step[i][s] = more(s, i)
  BY <1>2
<1> HIDE DEF step, n
<1>6. PICK f : IsRecursive(f, n, Scanning, start, step)
  <2>1. IsStep(step, n, Scanning)
    BY <1>5 DEF IsStep
  <2> QED  BY <1>4, <2>1, Recursion
<1>7. ASSUME NEW i \in 1 .. n PROVE f[i] = more(f[i - 1], i)
  <2>1. i - 1 \in 0 .. n
    BY <1>4
  <2>2. f[i - 1] \in Scanning /\ f[i] = step[i][f[i - 1]]
    BY <1>6, <2>1 DEF IsRecursive
  <2> QED  BY <1>5, <2>2
<1>8. f = [i \in 0 .. n |-> body(f, i)]
  <2>1. ASSUME NEW i \in 0 .. n PROVE f[i] = body(f, i)
    <3>1. i = 0 \/ i \in 1 .. n
      BY <1>4
    <3> QED  BY <1>3, <1>6, <1>7, <3>1 DEF IsRecursive
  <2> QED  BY <1>6, <2>1 DEF IsRecursive
<1>9. loop = [i \in 0 .. n |-> body(loop, i)]
  BY <1>8
<1> HIDE DEF loop
<1>10. loop[0] = start /\ \A i \in 1 .. n : loop[i] = more(loop[i - 1], i)
  <2>1. \A i \in 0 .. n : loop[i] = body(loop, i)
    BY <1>9
  <2>2. 0 \in 0 .. n /\ \A i \in 1 .. n : i \in 0 .. n /\ i # 0
    BY <1>4
  <2> QED  BY <1>3, <2>1, <2>2
<1>11. \A i \in 0 .. n : loop[i] \in Scanning
  <2> DEFINE T == {i \in 0 .. n : loop[i] \in Scanning}
  <2>1. 0 \in T
    BY <1>4, <1>10
  <2>2. ASSUME NEW i \in 1 .. n, i - 1 \in T PROVE i \in T
    BY <1>2, <1>4, <1>10, <2>2
  <2> HIDE DEF T
  <2>3. 0 .. n \subseteq T
    BY <1>4, <2>1, <2>2, BoundedInduction
  <2> QED  BY <2>3 DEF T
<1>12. loop \in [0 .. n -> Scanning]
  BY <1>9, <1>11
<1>13. Scans(loop, bytes, used, value)
  BY <1>10, <1>12 DEF Scans, more, n, start
<1> QED  BY <1>1, <1>13 DEF n

\* How far the loop is in the number that starts after p, after byte j of it,
\* i of them now: it has the value so far, or the number, or knows it too large.
Reached(s, i, used, p) ==
  \/ /\ s.at = "more" /\ s.k = i /\ used + i < MaxSize
     /\ s.v = Stream!Groups(stream, p, used + i)
     /\ \A l \in 1 .. used + i : Stream!More(stream[p + l])
  \/ /\ s.at = "done" /\ s.k \in 1 .. i
     /\ s.v = Stream!Groups(stream, p, used + s.k)
     /\ Stream!Ends(stream, p, Width, used + s.k)
     /\ used + s.k = MaxSize => stream[p + used + s.k] <= Stream!LastMax(Width)
  \/ s.at = "over" /\ Stream!TooLarge(stream, p, Width)

\* The width of an operation is one of the two.
LEMMA WidthType ==
  Width \in Nat \ {0} /\ MaxSize \in Nat \ {0} /\ Stream!LastMax(Width) \in Nat
<1>1. Width \in Nat \ {0}
  BY BitsAssumption DEF Width
<1> QED  BY <1>1, SizeType DEF MaxSize

\* One step of the loop follows the number.
LEMMA ScanByteReaches ==
  ASSUME NEW s \in Scanning, NEW i \in Nat \ {0}, NEW used \in Nat, NEW p \in Nat, NEW j \in Nat,
         stream \in Seq(Nat), j = used + i, j <= MaxSize, p + j <= Len(stream),
         Reached(s, i - 1, used, p)
  PROVE  Reached(ScanByte(s, stream[p + j], i, j), i, used, p)
<1> DEFINE b == stream[p + j]
           r == ScanByte(s, b, i, j)
           v == s.v + (b % Stream!Group) * 2 ^ (GroupBits * (j - 1))
<1>1. b \in Nat /\ j > 0 /\ used + (i - 1) = j - 1
  <2>1. p + j \in 1 .. Len(stream)
    OBVIOUS
  <2>2. b \in Nat
    BY <2>1
  <2> QED  BY <2>2
<1>2. CASE s.at = "done" \/ s.at = "over"
  <2>1. r = s
    BY <1>2 DEF ScanByte
  <2>2. Reached(s, i, used, p)
    BY <1>2 DEF Reached
  <2> QED  BY <2>1, <2>2
<1>3. CASE s.at = "more"
  <2>1. /\ s.v = Stream!Groups(stream, p, j - 1)
        /\ \A l \in 1 .. j - 1 : Stream!More(stream[p + l])
    BY <1>1, <1>3 DEF Reached
  <2>2. Stream!Groups(stream, p, j) = v
    BY <1>1, <2>1, GroupsStep DEF GroupAt
  <2>3. p + used + i = p + j
    OBVIOUS
  <2>4. r = CASE s.at # "more" -> s
              [] s.at = "more" /\ j = MaxSize /\ TooBig(b, Width) -> [at |-> "over", v |-> 0, k |-> 0]
              [] s.at = "more" /\ ~(j = MaxSize /\ TooBig(b, Width)) ->
                   IF Stream!More(b) THEN [at |-> "more", v |-> v, k |-> i] ELSE [at |-> "done", v |-> v, k |-> i]
    BY DEF ScanByte
  <2> HIDE DEF v, r, b
  <2>5. CASE j = MaxSize /\ TooBig(b, Width)
    <3>1. r = [at |-> "over", v |-> 0, k |-> 0]
      BY <1>3, <2>4, <2>5
    <3>2. Stream!TooLarge(stream, p, Width)
      BY <1>1, <2>1, <2>5 DEF Stream!TooLarge, MaxSize, TooBig, b
    <3> QED  BY <3>1, <3>2 DEF Reached, r, b
  <2>6. CASE ~(j = MaxSize /\ TooBig(b, Width)) /\ Stream!More(b)
    <3>1. r = [at |-> "more", v |-> v, k |-> i]
      BY <1>3, <2>4, <2>6
    <3>2. j # MaxSize
      <4>1. j = MaxSize => b <= Stream!LastMax(Width)
        BY <1>1, <2>6, WidthType DEF TooBig
      <4> QED  BY <1>1, <2>6, <4>1, WidthType, FlagOrEnd
    <3>3. \A l \in 1 .. j : Stream!More(stream[p + l])
      <4>1. ASSUME NEW l \in 1 .. j PROVE Stream!More(stream[p + l])
        <5>1. l = j \/ l \in 1 .. j - 1
          BY <1>1
        <5> QED  BY <2>1, <2>6, <5>1 DEF b
      <4> QED  BY <4>1
    <3>4. j < MaxSize
      BY <3>2, WidthType
    <3> QED  BY <2>2, <3>1, <3>3, <3>4 DEF Reached, r, b
  <2>7. CASE ~(j = MaxSize /\ TooBig(b, Width)) /\ ~Stream!More(b)
    <3>1. r = [at |-> "done", v |-> v, k |-> i]
      BY <1>3, <2>4, <2>7
    <3>2. Stream!Ends(stream, p, Width, j)
      <4>1. j \in 1 .. Stream!Size(Width)
        BY <1>1, WidthType DEF MaxSize
      <4> QED  BY <1>1, <2>1, <2>7, <4>1 DEF Stream!Ends, b
    <3>3. j = MaxSize => stream[p + j] <= Stream!LastMax(Width)
      BY <1>1, <2>7, WidthType DEF TooBig, b
    <3>4. r.at = "done" /\ r.k = i /\ r.v = v
      BY <3>1
    <3> DEFINE m == used + i
    <3>5. m = j /\ p + used + r.k = p + j /\ i \in 1 .. i
      BY <1>1, <2>3, <3>4
    <3>6. /\ r.v = Stream!Groups(stream, p, used + r.k)
          /\ Stream!Ends(stream, p, Width, used + r.k)
          /\ used + r.k = MaxSize => stream[p + used + r.k] <= Stream!LastMax(Width)
      <4> HIDE DEF m
      <4> QED  BY <2>2, <3>2, <3>3, <3>4, <3>5 DEF m
    <3>7. Reached(r, i, used, p)
      BY <3>4, <3>5, <3>6 DEF Reached
    <3> QED  BY <3>7 DEF r, b
  <2> QED  BY <2>5, <2>6, <2>7
<1> QED  BY <1>2, <1>3 DEF Scanning

\* The loop follows the number, wherever it starts in it.
LEMMA ScanReaches ==
  ASSUME NEW bytes \in Seq(Nat), NEW used \in Nat, NEW p \in Nat, stream \in Seq(Nat),
         used < MaxSize, used + Len(bytes) <= MaxSize, p + used + Len(bytes) <= Len(stream),
         \A i \in 1 .. Len(bytes) : bytes[i] = stream[p + used + i],
         \A l \in 1 .. used : Stream!More(stream[p + l])
  PROVE  Reached(Scan(bytes, used, Stream!Groups(stream, p, used)), Len(bytes), used, p)
<1> DEFINE n == Len(bytes)
           value == Stream!Groups(stream, p, used)
<1>1. n \in Nat /\ value \in Nat
  BY GroupsStep
<1>2. PICK f : Scans(f, bytes, used, value) /\ Scan(bytes, used, value) = f[n]
  BY <1>1, ScanRuns
<1> DEFINE T == {i \in 0 .. n : Reached(f[i], i, used, p)}
<1>3. 0 \in T
  <2>1. f[0] = [at |-> "more", v |-> value, k |-> 0] /\ used + 0 = used
    BY <1>2 DEF Scans
  <2>2. Reached(f[0], 0, used, p)
    BY <2>1 DEF Reached
  <2> QED  BY <1>1, <2>2
<1>4. ASSUME NEW i \in 1 .. n, i - 1 \in T PROVE i \in T
  <2> DEFINE s == f[i - 1]
             j == used + i
  <2>1. f[i] = ScanByte(s, bytes[i], i, j)
    BY <1>2 DEF Scans
  <2>2. j \in Nat /\ j <= MaxSize /\ p + j <= Len(stream) /\ i \in Nat \ {0} /\ p + j = p + used + i
    <3>1. i \in Nat /\ i > 0 /\ i <= n /\ Len(stream) \in Nat /\ MaxSize \in Nat
      BY <1>1, WidthType
    <3>2. used + n <= MaxSize /\ p + used + n <= Len(stream)
      OBVIOUS
    <3> HIDE DEF n, T
    <3> QED  BY <1>1, <3>1, <3>2
  <2>6. bytes[i] = stream[p + j]
    BY <2>2
  <2>3. s \in Scanning
    <3>1. i - 1 \in 0 .. n
      BY <1>1
    <3> QED  BY <1>2, <3>1 DEF Scans
  <2>4. Reached(s, i - 1, used, p)
    BY <1>4
  <2>5. Reached(f[i], i, used, p)
    <3> HIDE DEF s
    <3> QED  BY <2>1, <2>2, <2>3, <2>4, <2>6, ScanByteReaches
  <2> QED  BY <1>1, <2>5
<1>5. n \in T
  <2> HIDE DEF T, n
  <2>1. 0 .. n \subseteq T
    BY <1>1, <1>3, <1>4, BoundedInduction
  <2> QED  BY <1>1, <2>1
<1> QED  BY <1>2, <1>5

(***************************************************************************)
(* The invariant: the bytes that are buffered and those to come are the    *)
(* stream behind what was consumed, and the operation in progress has made *)
(* of the consumed bytes what the whole operation would.                   *)
(***************************************************************************)

Steps == {"none", "varint", "scan", "skip", "take", "peek", "got", "size"}
Numbered == {"Int", "Long", "Bytes", "SkipBytes", "BlockHeader"}
Skipped  == {"SkipInt", "SkipLong"}
Taken    == {"Bool", "Read", "Skip", "Bytes", "SkipBytes"}
Prefixed == {"Bytes", "SkipBytes"}

BufferInv ==
  /\ stream \in Seq(Nat) /\ rest \in Seq(Nat) /\ avail \in Seq(Nat)
  /\ streaming \in BOOLEAN /\ end \in {"eof", "err"}
  /\ Len(avail) + Len(rest) <= Len(stream)
  /\ \A i \in 1 .. Len(avail) : avail[i] = stream[Consumed + i]
  /\ \A i \in 1 .. Len(rest) : rest[i] = stream[Len(stream) - Len(rest) + i]
  /\ pending \in {"nil", end} /\ (pending # "nil" => rest = << >>)
  /\ ~streaming => rest = << >> /\ end = "eof"
  /\ empties \in 0 .. MaxEmptyReads

JobTypes ==
  /\ op \in Ops \cup {Idle}
  /\ pos \in 0 .. Consumed
  /\ job \in [do : Steps, used : Nat, v : Int, n : Nat, data : Seq(Nat)]
  /\ err \in {"nil", "eof", "weof", "err", "unexpected", "report", "noprogress"}
  /\ op = Idle <=> job.do = "none"
  /\ job.do \in {"varint", "scan", "got", "size"} => op.kind \in Numbered
  /\ job.do = "skip" => op.kind \in Skipped
  /\ job.do = "take" => op.kind \in Taken
  /\ job.do = "peek" => op.kind = "Peek"

\* The number at p, of the width the operation reads.
Number(p) == Stream!Varint(stream, end, p, Width, "weof")

Second == job.n # 0
Start  == IF Second THEN pos + Number(pos).len ELSE pos

CountRead ==
  Second => /\ op.kind = "BlockHeader" /\ Number(pos).err = "nil" /\ Number(pos).val = << -job.n >>
            /\ -job.n # Stream!MinLong

LengthRead ==
  op.kind \in Prefixed =>
    /\ Number(pos).err = "nil" /\ Number(pos).val[1] \in Nat
    /\ op.kind = "Bytes" => ~OverLimit(Number(pos).val[1])

Body  == IF op.kind \in Prefixed THEN pos + Number(pos).len ELSE pos
Total == IF op.kind \in Prefixed THEN Number(pos).val[1] ELSE IF op.kind = "Bool" THEN 1 ELSE op.n

Progress ==
  /\ job.do = "none" => Consumed = pos
  /\ job.do \in {"varint", "scan"} =>
       /\ CountRead
       /\ Consumed = Start + job.used /\ job.used < MaxSize
       /\ \A i \in 1 .. job.used : Stream!More(stream[Start + i])
       /\ job.v = Stream!Groups(stream, Start, job.used)
  /\ job.do = "varint" => job.used = 0
  /\ job.do = "got" => ~Second /\ Number(pos) = Stream!Ok(<< job.v >>, Consumed - pos)
  /\ job.do = "size" => Second /\ CountRead /\ Number(Start) = Stream!Ok(<< job.v >>, Consumed - Start)
  /\ job.do = "skip" => /\ Consumed = pos + job.used /\ job.used < MaxSize
                        /\ \A i \in 1 .. job.used : Stream!More(stream[pos + i])
  /\ job.do = "take" => /\ LengthRead
                        /\ Body \in 0 .. Consumed /\ job.data = SubSeq(stream, Body + 1, Consumed)
                        /\ Consumed + job.n = Body + Total
  /\ job.do = "peek" => Consumed = pos

Refused ==
  /\ job.do \in {"none", "got", "skip", "take", "peek"}
  /\ job.do = "got" => job.v = 0 /\ ~Second

ReaderInv ==
  /\ BufferInv
  /\ JobTypes
  /\ IF err = "nil" THEN Progress ELSE Refused

\* An operation is not the one of an idle reader, and has a kind and a number.
LEMMA OpTypes == \A o \in Ops : o # Idle /\ o.kind \in Kinds /\ o.n \in Nat
  BY OpsAssumption DEF Idle, Kinds

\* What is buffered is what the stream has behind what was consumed.
LEMMA BufferTypes ==
  ASSUME BufferInv
  PROVE  /\ Consumed \in Nat /\ Len(stream) \in Nat /\ Len(avail) \in Nat /\ Len(rest) \in Nat
         /\ Consumed + Len(avail) + Len(rest) = Len(stream)
         /\ avail # << >> => Len(avail) > 0
         /\ avail = << >> => Len(avail) = 0
         /\ rest = << >> => Len(rest) = 0
<1>1. stream \in Seq(Nat) /\ avail \in Seq(Nat) /\ rest \in Seq(Nat)
      /\ Len(avail) + Len(rest) <= Len(stream)
  BY DEF BufferInv
<1>2. Len(stream) \in Nat /\ Len(avail) \in Nat /\ Len(rest) \in Nat
  BY <1>1
<1>3. Consumed \in Nat /\ Consumed + Len(avail) + Len(rest) = Len(stream)
  BY <1>1, <1>2 DEF Consumed
<1>4. /\ avail # << >> => Len(avail) > 0
      /\ avail = << >> => Len(avail) = 0
      /\ rest = << >> => Len(rest) = 0
  BY <1>1, <1>2
<1> QED  BY <1>2, <1>3, <1>4

\* What is left of a sequence without its first k elements.
LEMMA DropProperties ==
  ASSUME NEW s \in Seq(Nat), NEW k \in 0 .. Len(s)
  PROVE  /\ Drop(s, k) \in Seq(Nat) /\ Len(Drop(s, k)) = Len(s) - k
         /\ \A i \in 1 .. Len(s) - k : Drop(s, k)[i] = s[k + i] /\ k + i \in 1 .. Len(s)
<1> DEFINE n == Len(s)
           m == k + 1
<1>1. n \in Nat /\ k \in Nat /\ k <= n /\ m \in 1 .. n + 1
  OBVIOUS
<1>2. SubSeq(s, m, n) \in Seq(Nat)
      /\ Len(SubSeq(s, m, n)) = (IF m <= n THEN n - m + 1 ELSE 0)
      /\ \A i \in 1 .. n - m + 1 : SubSeq(s, m, n)[i] = s[m + i - 1]
  <2>1. \A i \in m .. n : s[i] \in Nat
    BY <1>1
  <2> HIDE DEF m
  <2> QED  BY <1>1, <2>1, SubSeqProperties
<1>3. Drop(s, k) = SubSeq(s, m, n)
  BY DEF Drop
<1>4. \A i \in 1 .. n - k : m + i - 1 = k + i /\ k + i \in 1 .. n /\ i \in 1 .. n - m + 1
  BY <1>1
<1>5. Len(Drop(s, k)) = n - k
  BY <1>1, <1>2, <1>3
<1> HIDE DEF m, n
<1> QED  BY <1>2, <1>3, <1>4, <1>5 DEF n

\* An operation takes k bytes from the buffer.
LEMMA DropBuffer ==
  ASSUME BufferInv, NEW k \in 0 .. Len(avail), avail' = Drop(avail, k), Unloaded
  PROVE  BufferInv' /\ Consumed' = Consumed + k
<1>1. Len(avail) \in Nat /\ Len(rest) \in Nat /\ Len(stream) \in Nat /\ Consumed \in Nat
      /\ Consumed + Len(avail) + Len(rest) = Len(stream)
  BY BufferTypes
<1>2. avail' \in Seq(Nat) /\ Len(avail') = Len(avail) - k
  BY DropProperties DEF BufferInv
<1>3. \A i \in 1 .. Len(avail') : avail'[i] = avail[k + i] /\ k + i \in 1 .. Len(avail)
  <2>1. avail \in Seq(Nat)
    BY DEF BufferInv
  <2>2. \A i \in 1 .. Len(avail) - k : Drop(avail, k)[i] = avail[k + i] /\ k + i \in 1 .. Len(avail)
    BY <2>1, DropProperties
  <2> QED  BY <1>2, <2>2
<1>4. Consumed' = Consumed + k
  BY <1>1, <1>2 DEF Consumed, Unloaded
<1>5. \A i \in 1 .. Len(avail') : avail'[i] = stream[Consumed' + i]
  <2> SUFFICES ASSUME NEW i \in 1 .. Len(avail') PROVE avail'[i] = stream[Consumed' + i]
    OBVIOUS
  <2>1. avail'[i] = avail[k + i] /\ k + i \in 1 .. Len(avail)
    BY <1>3
  <2>2. avail[k + i] = stream[Consumed + (k + i)]
    BY <2>1 DEF BufferInv
  <2>3. Consumed + (k + i) = Consumed' + i
    BY <1>1, <1>2, <1>4
  <2> QED  BY <2>1, <2>2, <2>3
<1>6. Len(avail') + Len(rest') <= Len(stream')
  BY <1>1, <1>2 DEF Unloaded
<1> QED  BY <1>2, <1>4, <1>5, <1>6 DEF BufferInv, Unloaded

\* A piece of the stream arrives in the empty buffer.
LEMMA LoadBuffer ==
  ASSUME BufferInv, NEW k \in Nat, LoadPiece(k)
  PROVE  BufferInv' /\ Consumed' = Consumed
<1>1. Len(avail) = 0 /\ Len(rest) \in Nat /\ Len(stream) \in Nat /\ Consumed \in Nat /\ k \in 0 .. Len(rest)
      /\ Consumed + Len(rest) = Len(stream) /\ streaming
  BY BufferTypes DEF LoadPiece, WantsByte
<1>2. /\ avail' = SubSeq(rest, 1, k) /\ rest' = Drop(rest, k) /\ pending' \in PendingErr(k)
      /\ empties' = 0 /\ UNCHANGED << stream, streaming, end >>
  BY DEF LoadPiece, Working
<1>3. avail' \in Seq(Nat) /\ Len(avail') = k /\ \A i \in 1 .. k : avail'[i] = rest[i] /\ i \in 1 .. Len(rest)
  <2>1. rest \in Seq(Nat)
    BY DEF BufferInv
  <2>2. SubSeq(rest, 1, k) \in Seq(Nat) /\ Len(SubSeq(rest, 1, k)) = k
        /\ \A i \in 1 .. k : SubSeq(rest, 1, k)[i] = rest[i] /\ i \in 1 .. Len(rest)
    BY <1>1, <2>1
  <2> QED  BY <1>2, <2>2
<1>4. rest' \in Seq(Nat) /\ Len(rest') = Len(rest) - k
      /\ \A i \in 1 .. Len(rest') : rest'[i] = rest[k + i] /\ k + i \in 1 .. Len(rest)
  <2>1. rest \in Seq(Nat)
    BY DEF BufferInv
  <2>2. Drop(rest, k) \in Seq(Nat) /\ Len(Drop(rest, k)) = Len(rest) - k
        /\ \A i \in 1 .. Len(rest) - k : Drop(rest, k)[i] = rest[k + i] /\ k + i \in 1 .. Len(rest)
    BY <1>1, <2>1, DropProperties
  <2> QED  BY <1>2, <2>2
<1>5. Consumed' = Consumed
  BY <1>1, <1>2, <1>3, <1>4 DEF Consumed
<1>6. \A i \in 1 .. Len(avail') : avail'[i] = stream[Consumed' + i]
  <2> SUFFICES ASSUME NEW i \in 1 .. k PROVE avail'[i] = stream[Consumed' + i]
    BY <1>3
  <2>1. rest[i] = stream[Len(stream) - Len(rest) + i]
    BY <1>3 DEF BufferInv
  <2>2. Len(stream) - Len(rest) = Consumed
    BY <1>1
  <2> QED  BY <1>3, <1>5, <2>1, <2>2
<1>7. \A i \in 1 .. Len(rest') : rest'[i] = stream'[Len(stream') - Len(rest') + i]
  <2> SUFFICES ASSUME NEW i \in 1 .. Len(rest') PROVE rest'[i] = stream[Len(stream) - Len(rest') + i]
    BY <1>2
  <2>1. rest[k + i] = stream[Len(stream) - Len(rest) + (k + i)]
    BY <1>4 DEF BufferInv
  <2>2. Len(stream) - Len(rest) + (k + i) = Len(stream) - Len(rest') + i
    BY <1>1, <1>4
  <2> QED  BY <1>4, <2>1, <2>2
<1>8. pending' \in {"nil", end'} /\ (pending' # "nil" => rest' = << >>)
  <2>1. k = Len(rest) => rest' = << >>
    BY <1>4
  <2> QED  BY <1>2, <2>1 DEF PendingErr
<1>9. empties' \in 0 .. MaxEmptyReads
  BY <1>2, BufferAssumption
<1>10. Len(avail') + Len(rest') <= Len(stream')
  BY <1>1, <1>2, <1>3, <1>4
<1>11. \A i \in 1 .. Len(avail') : avail'[i] = stream'[Consumed' + i]
  BY <1>2, <1>6
<1> QED  BY <1>1, <1>2, <1>3, <1>4, <1>5, <1>7, <1>8, <1>9, <1>10, <1>11 DEF BufferInv

\* What returned is an operation, or none did.
RetTypes == ret.op \in Ops \cup {Idle}

\* The invariant looks at no more of the buffer than how much was consumed.
LEMMA Unchanged ==
  ASSUME ReaderInv, BufferInv', Consumed' = Consumed, UNCHANGED << stream, end, err, op, job, pos >>
  PROVE  ReaderInv'
<1>1. Width' = Width /\ MaxSize' = MaxSize
  BY DEF Width, MaxSize
<1>2. Number(pos)' = Number(pos)
  BY <1>1 DEF Number
<1>3. Second' = Second /\ Start' = Start
  BY <1>2 DEF Second, Start
<1>4. Number(Start)' = Number(Start)
  BY <1>1, <1>3 DEF Number
<1>5. CountRead' = CountRead /\ LengthRead' = LengthRead /\ Body' = Body /\ Total' = Total
  BY <1>2, <1>3 DEF CountRead, LengthRead, Body, Total
<1>6. JobTypes'
  BY DEF ReaderInv, JobTypes
<1>7. err = "nil" => Progress'
  <2> SUFFICES ASSUME err = "nil" PROVE Progress'
    OBVIOUS
  <2>1. Progress
    BY DEF ReaderInv
  <2> QED  BY <1>1, <1>2, <1>3, <1>4, <1>5, <2>1 DEF Progress
<1>8. err # "nil" => Refused'
  BY <1>3 DEF ReaderInv, Refused
<1> QED  BY <1>6, <1>7, <1>8 DEF ReaderInv

(***************************************************************************)
(* The end of an operation is a step of the stream.                        *)
(***************************************************************************)

Errors == {"nil", "eof", "weof", "err", "unexpected", "report", "noprogress"}

\* What the operation in progress makes of the stream.
Out == Stream!Outcome(op, stream, end, pos)

\* An idle reader has an idle job, and a job starts with nothing done.
LEMMA IdleJob ==
  /\ Job("none") \in [do : Steps, used : Nat, v : Int, n : Nat, data : Seq(Nat)]
  /\ \A d \in Steps, n \in Nat : [Job(d) EXCEPT !.n = n] \in [do : Steps, used : Nat, v : Int, n : Nat, data : Seq(Nat)]
  /\ \A d, n : LET j == [Job(d) EXCEPT !.n = n]
               IN  j.do = d /\ j.used = 0 /\ j.v = 0 /\ j.n = n /\ j.data = << >>
  /\ \A d : Job(d).do = d /\ Job(d).used = 0 /\ Job(d).v = 0 /\ Job(d).n = 0 /\ Job(d).data = << >>
<1>1. ASSUME NEW d, NEW n
      PROVE  [Job(d) EXCEPT !.n = n] = [do |-> d, used |-> 0, v |-> 0, n |-> n, data |-> << >>]
  BY DEF Job
<1>2. << >> \in Seq(Nat) /\ 0 \in Nat /\ 0 \in Int /\ "none" \in Steps
  BY DEF Steps
<1>3. ASSUME NEW d \in Steps, NEW n \in Nat
      PROVE  [do |-> d, used |-> 0, v |-> 0, n |-> n, data |-> << >>]
               \in [do : Steps, used : Nat, v : Int, n : Nat, data : Seq(Nat)]
  BY <1>2
<1>4. ASSUME NEW d \in Steps, NEW n \in Nat
      PROVE  [Job(d) EXCEPT !.n = n] \in [do : Steps, used : Nat, v : Int, n : Nat, data : Seq(Nat)]
  <2>1. [Job(d) EXCEPT !.n = n] = [do |-> d, used |-> 0, v |-> 0, n |-> n, data |-> << >>]
    BY <1>1
  <2>2. [do |-> d, used |-> 0, v |-> 0, n |-> n, data |-> << >>]
          \in [do : Steps, used : Nat, v : Int, n : Nat, data : Seq(Nat)]
    BY <1>3
  <2> QED  BY <2>1, <2>2
<1>5. Job("none") \in [do : Steps, used : Nat, v : Int, n : Nat, data : Seq(Nat)]
  <2>1. Job("none") = [do |-> "none", used |-> 0, v |-> 0, n |-> 0, data |-> << >>]
    BY DEF Job
  <2>2. [do |-> "none", used |-> 0, v |-> 0, n |-> 0, data |-> << >>]
          \in [do : Steps, used : Nat, v : Int, n : Nat, data : Seq(Nat)]
    BY <1>2, <1>3
  <2> QED  BY <2>1, <2>2
<1>6. ASSUME NEW d, NEW n
      PROVE  LET j == [Job(d) EXCEPT !.n = n]
             IN  j.do = d /\ j.used = 0 /\ j.v = 0 /\ j.n = n /\ j.data = << >>
  <2> DEFINE j == [Job(d) EXCEPT !.n = n]
  <2>1. j = [do |-> d, used |-> 0, v |-> 0, n |-> n, data |-> << >>]
    BY <1>1
  <2> HIDE DEF j
  <2>2. j.do = d /\ j.used = 0 /\ j.v = 0 /\ j.n = n /\ j.data = << >>
    BY <2>1
  <2> QED  BY <2>2 DEF j
<1>7. ASSUME NEW d
      PROVE  Job(d).do = d /\ Job(d).used = 0 /\ Job(d).v = 0 /\ Job(d).n = 0 /\ Job(d).data = << >>
  BY DEF Job
<1> QED  BY <1>4, <1>5, <1>6, <1>7

\* An operation that ends keeps the invariant, and is a step of the stream: a
\* failed reader stays failed, a healthy one made no progress, or has the outcome.
LEMMA FinishStep ==
  ASSUME ReaderInv, op \in Ops, NEW val, NEW e \in Errors, NEW a, Finish(val, e, a),
         UNCHANGED << stream, end, rest >>, BufferInv', Consumed' >= Consumed,
         \/ err # "nil" /\ e \in IF err \in Stream!EOFs THEN {err, "unexpected", "report"} ELSE {err}
         \/ err = "nil" /\ e = "noprogress"
         \/ err = "nil" /\ e # "nil" /\ Out = Stream!Error(e)
         \/ err = "nil" /\ e = "nil" /\ Out = Stream!Ok(val, Consumed' - pos)
  PROVE  ReaderInv' /\ Stream!Next
<1>1. /\ op' = Idle /\ job' = Job("none") /\ err' = e /\ avail' = a
      /\ ret' = [op |-> op, val |-> IF e = "nil" THEN val ELSE << >>]
      /\ pos' = IF e = "nil" THEN Len(stream) - Len(rest) - Len(a) ELSE pos
  BY DEF Finish
<1>2. pos \in 0 .. Consumed /\ Consumed \in Nat /\ Consumed' \in Nat
  <2>1. Consumed' \in Nat
    BY DEF BufferInv, Consumed
  <2> QED  BY <2>1, BufferTypes DEF ReaderInv, JobTypes
<1>3. Consumed' = Len(stream) - Len(rest) - Len(a)
  BY <1>1 DEF Consumed
<1>4. pos' = (IF e = "nil" THEN Consumed' ELSE pos) /\ pos' \in 0 .. Consumed'
  BY <1>1, <1>2, <1>3
<1>5. ReaderInv'
  <2>1. JobTypes'
    BY <1>1, <1>4, IdleJob DEF JobTypes, Errors, Idle
  <2>2. job'.do = "none"
    BY <1>1, IdleJob
  <2>3. err' = "nil" => Progress'
    BY <1>1, <1>4, <2>2 DEF Progress
  <2>4. err' # "nil" => Refused'
    BY <2>2 DEF Refused
  <2> QED  BY <2>1, <2>3, <2>4 DEF ReaderInv
<1>6. CASE err # "nil" /\ e \in IF err \in Stream!EOFs THEN {err, "unexpected", "report"} ELSE {err}
  <2>1. e # "nil"
    BY <1>6 DEF Stream!EOFs
  <2>2. Stream!StillFailed(op)
    BY <1>1, <1>6, <2>1 DEF Stream!StillFailed
  <2> QED  BY <1>5, <2>2 DEF Stream!Next
<1>7. CASE err = "nil" /\ e = "noprogress"
  <2>1. Stream!NoProgress(op)
    BY <1>1, <1>7 DEF Stream!NoProgress
  <2> QED  BY <1>5, <2>1 DEF Stream!Next
<1>8. CASE err = "nil" /\ e # "nil" /\ Out = Stream!Error(e)
  <2>1. Out.err = e /\ Out.val = << >> /\ Out.len = 0
    BY <1>8 DEF Stream!Error
  <2>2. pos' = pos + Out.len
    BY <1>1, <1>2, <1>8, <2>1
  <2>3. Stream!Do(op)
    BY <1>1, <1>8, <2>1, <2>2 DEF Stream!Do, Out
  <2> QED  BY <1>5, <2>3 DEF Stream!Next
<1>9. CASE err = "nil" /\ e = "nil" /\ Out = Stream!Ok(val, Consumed' - pos)
  <2>1. Out.err = e /\ Out.val = val /\ Out.len = Consumed' - pos
    BY <1>9 DEF Stream!Ok
  <2>2. pos' = pos + Out.len
    BY <1>2, <1>4, <1>9, <2>1
  <2>3. Stream!Do(op)
    BY <1>1, <1>9, <2>1, <2>2 DEF Stream!Do, Out
  <2> QED  BY <1>5, <2>3 DEF Stream!Next
<1> QED  BY <1>6, <1>7, <1>8, <1>9

(***************************************************************************)
(* The outcome of the operation, by how far it got.                        *)
(***************************************************************************)

\* The least long has a sign.
LEMMA MinLongType == Stream!MinLong \in Int /\ Stream!MinLong < 0
<1>1. LongBits - 1 \in Nat
  BY BitsAssumption
<1> QED  BY <1>1, PowerType DEF Stream!MinLong

\* An operation that fails in a number fails as that number does.
LEMMA NumberFails ==
  ASSUME op.kind \in Numbered, CountRead, job.n \in Nat, Number(Start).err # "nil"
  PROVE  Out = Number(Start)
<1>1. CASE ~Second
  <2>1. Number(pos).err # "nil" /\ Start = pos
    BY <1>1 DEF Start
  <2> QED  BY <2>1 DEF Out, Stream!Outcome, Number, Width, Numbered
<1>2. CASE Second
  <2>1. op.kind = "BlockHeader" /\ Number(pos).err = "nil" /\ Number(pos).val = << -job.n >> /\ -job.n # Stream!MinLong
    BY <1>2 DEF CountRead
  <2>2. Width = LongBits /\ Start = pos + Number(pos).len
    BY <1>2, <2>1 DEF Width, Start
  <2>3. Number(pos).val[1] < 0 /\ Number(pos).val[1] # Stream!MinLong
    BY <1>2, <2>1 DEF Second
  <2> QED  BY <2>1, <2>2, <2>3 DEF Out, Stream!Outcome, Number
<1> QED  BY <1>1, <1>2

\* Skipping a number ends where reading it would.
LEMMA SkipOutcome ==
  ASSUME op.kind \in Skipped
  PROVE  Out = Stream!NoValue(Stream!Varint(stream, end, pos, Width, "unexpected"))
  BY DEF Out, Stream!Outcome, Skipped, Width

\* The bytes of an operation that takes some.
TakeOutcome == Stream!Take(stream, end, Body, Total)

\* An operation that takes bytes returns them, or none if it skips.
LEMMA TakenOutcome ==
  ASSUME op \in Ops, op.kind \in Taken, LengthRead, pos \in Nat,
         op.kind \in Prefixed => Number(pos).len \in Nat
  PROVE  /\ op.kind \in {"Read", "Bytes"} /\ TakeOutcome.err = "nil"
              => Out = Stream!Ok(TakeOutcome.val, Body - pos + TakeOutcome.len)
         /\ op.kind \in {"Skip", "SkipBytes"} /\ TakeOutcome.err = "nil"
              => Out = Stream!Ok(<< >>, Body - pos + TakeOutcome.len)
         /\ op.kind = "Bool" /\ TakeOutcome.err = "nil"
              => Out = IF TakeOutcome.val[1] \notin {0, 1} THEN Stream!Report ELSE TakeOutcome
         /\ TakeOutcome.err # "nil" => Out = TakeOutcome
<1>1. CASE op.kind \in {"Read", "Skip"}
  <2>1. Body = pos /\ Total = op.n
    BY <1>1 DEF Body, Total, Prefixed
  <2>2. Out = IF op.kind = "Read" THEN TakeOutcome ELSE Stream!NoValue(TakeOutcome)
    BY <1>1, <2>1 DEF Out, Stream!Outcome, TakeOutcome
  <2>3. TakeOutcome.err = "nil" => TakeOutcome = Stream!Ok(TakeOutcome.val, TakeOutcome.len) /\ TakeOutcome.len = op.n
    BY <2>1 DEF TakeOutcome, Stream!Take, Stream!Ok, Stream!AtEnd, Stream!Error
  <2>4. op.kind # "Bool" /\ op.kind \notin Prefixed
    BY <1>1 DEF Prefixed
  <2>5. TakeOutcome.err = "nil" => Body - pos + TakeOutcome.len = TakeOutcome.len
    BY <2>1, <2>3, OpTypes
  <2> QED  BY <1>1, <2>2, <2>3, <2>4, <2>5 DEF Stream!NoValue
<1>2. CASE op.kind = "Bool"
  <2>1. Body = pos /\ Total = 1
    BY <1>2 DEF Body, Total, Prefixed
  <2>2. Out = IF TakeOutcome.err = "nil" /\ TakeOutcome.val[1] \notin {0, 1} THEN Stream!Report ELSE TakeOutcome
    BY <1>2, <2>1 DEF Out, Stream!Outcome, TakeOutcome
  <2> QED  BY <1>2, <2>2
<1>3. CASE op.kind \in Prefixed
  <2>1. /\ Number(pos) = Stream!Varint(stream, end, pos, LongBits, "weof")
        /\ Number(pos).err = "nil" /\ Number(pos).val[1] \in Nat
        /\ op.kind = "Bytes" => ~OverLimit(Number(pos).val[1])
    BY <1>3 DEF Number, Width, Prefixed, LengthRead
  <2>2. Body = pos + Number(pos).len /\ Total = Number(pos).val[1]
    BY <1>3 DEF Body, Total
  <2>3. Out = IF op.kind = "Bytes" THEN Stream!Then(Number(pos), TakeOutcome)
              ELSE Stream!NoValue(Stream!Then(Number(pos), TakeOutcome))
    <3>1. CASE op.kind = "Bytes"
      BY <2>1, <2>2, <3>1 DEF Out, Stream!Outcome, TakeOutcome, OverLimit
    <3>2. CASE op.kind = "SkipBytes"
      BY <2>1, <2>2, <3>2 DEF Out, Stream!Outcome, TakeOutcome
    <3> QED  BY <1>3, <3>1, <3>2 DEF Prefixed
  <2>4. Body - pos = Number(pos).len
    BY <1>3, <2>2
  <2>5. TakeOutcome.err # "nil" => Stream!Then(Number(pos), TakeOutcome) = TakeOutcome
        /\ Stream!NoValue(TakeOutcome) = TakeOutcome
    BY DEF Stream!Then, Stream!NoValue
  <2>6. TakeOutcome.err = "nil" => Stream!Then(Number(pos), TakeOutcome)
          = Stream!Ok(TakeOutcome.val, Body - pos + TakeOutcome.len)
    BY <2>4 DEF Stream!Then
  <2>7. TakeOutcome.err = "nil" => Stream!NoValue(Stream!Then(Number(pos), TakeOutcome))
          = Stream!Ok(<< >>, Body - pos + TakeOutcome.len)
    BY <2>6 DEF Stream!NoValue, Stream!Ok
  <2>8. op.kind \in {"Bytes", "SkipBytes"} /\ op.kind \notin {"Read", "Skip", "Bool"}
    BY <1>3 DEF Prefixed
  <2> QED  BY <2>3, <2>5, <2>6, <2>7, <2>8
<1> QED  BY <1>1, <1>2, <1>3 DEF Taken, Prefixed

\* The header of a block whose count was read.
LEMMA HeaderOutcome ==
  ASSUME op.kind = "BlockHeader", NEW long, NEW next, NEW l \in Int,
         long = Stream!Varint(stream, end, pos, LongBits, "weof"), long.err = "nil", long.val[1] = l,
         next = Stream!Varint(stream, end, pos + long.len, LongBits, "weof")
  PROVE  /\ l >= 0 => Out = Stream!Ok(<< l, 0 >>, long.len)
         /\ l < 0 /\ l = Stream!MinLong => Out = Stream!Report
         /\ l < 0 /\ l # Stream!MinLong /\ next.err = "nil" =>
              Out = IF next.val[1] < 0 THEN Stream!Report
                    ELSE Stream!Ok(<< -l, next.val[1] >>, long.len + next.len)
<1>1. Out = CASE long.err # "nil" -> long
              [] long.err = "nil" /\ long.val[1] >= 0 -> Stream!Ok(<< long.val[1], 0 >>, long.len)
              [] long.err = "nil" /\ long.val[1] = Stream!MinLong -> Stream!Report
              [] OTHER -> IF next.err # "nil" THEN next
                          ELSE IF next.val[1] < 0 THEN Stream!Report
                          ELSE Stream!Ok(<< -long.val[1], next.val[1] >>, long.len + next.len)
  BY DEF Out, Stream!Outcome
<1>2. l >= 0 => ~(l < 0)
  OBVIOUS
<1>3. CASE l >= 0
  <2>1. Out = Stream!Ok(<< l, 0 >>, long.len) \/ (l = Stream!MinLong /\ Out = Stream!Report)
    BY <1>1, <1>3
  <2>2. Stream!MinLong < 0
    BY MinLongType
  <2> QED  BY <1>2, <1>3, <2>1, <2>2
<1>4. CASE l < 0
  BY <1>1, <1>2, <1>4
<1> QED  BY <1>3, <1>4

(***************************************************************************)
(* The steps.                                                              *)
(***************************************************************************)

\* What every step needs of a reader that is working on an operation.
LEMMA WorkingTypes ==
  ASSUME ReaderInv, job.do # "none"
  PROVE  /\ op \in Ops /\ op # Idle /\ op.kind \in Kinds /\ op.n \in Nat
         /\ pos \in Nat /\ pos <= Consumed /\ Consumed \in Nat /\ Consumed <= Len(stream)
         /\ job.used \in Nat /\ job.v \in Int /\ job.n \in Nat /\ job.data \in Seq(Nat)
         /\ err \in Errors /\ stream \in Seq(Nat) /\ end \in {"eof", "err"}
<1>1. op \in Ops /\ op # Idle
  BY OpTypes DEF ReaderInv, JobTypes
<1> QED  BY <1>1, OpTypes, BufferTypes DEF ReaderInv, JobTypes, BufferInv, Errors

\* Where the number in progress starts.
LEMMA StartType ==
  ASSUME ReaderInv, job.do # "none", CountRead
  PROVE  Start \in Nat /\ Start <= Len(stream)
<1>1. CASE ~Second
  BY <1>1, WorkingTypes DEF Start
<1>2. CASE Second
  <2>1. Number(pos).len \in Nat /\ pos + Number(pos).len <= Len(stream)
    <3>1. Number(pos).err = "nil"
      BY <1>2 DEF CountRead
    <3>2. pos \in Nat /\ Width \in Nat \ {0} /\ stream \in Seq(Nat) /\ end \in {"eof", "err"}
      BY WorkingTypes, WidthType
    <3>3. Number(pos).len \in 1 .. Stream!Size(Width) /\ pos + Number(pos).len <= Len(stream)
      BY <3>1, <3>2, VarintOk DEF Number
    <3> QED  BY <3>3, WidthType DEF MaxSize
  <2> QED  BY <1>2, <2>1, WorkingTypes DEF Start
<1> QED  BY <1>1, <1>2

\* The loop over the buffered bytes keeps the invariant, and the number that it
\* finds too large is reported.
LEMMA ScannedStep ==
  ASSUME ReaderInv, job.do \in {"varint", "scan"}, NEW n \in Nat, n <= Len(avail), job.used + n <= MaxSize,
         Scanned(Scan(SubSeq(avail, 1, n), job.used, job.v)), Unloaded
  PROVE  ReaderInv' /\ (Stream!Next \/ UNCHANGED Stream!vars)
<1> DEFINE bytes == SubSeq(avail, 1, n)
           s == Scan(bytes, job.used, job.v)
<1>1. err = "nil" /\ Progress /\ BufferInv /\ JobTypes /\ job.do # "none"
  BY DEF ReaderInv, Refused
<1>2. /\ CountRead /\ Consumed = Start + job.used /\ job.used < MaxSize
      /\ \A i \in 1 .. job.used : Stream!More(stream[Start + i])
      /\ job.v = Stream!Groups(stream, Start, job.used)
  BY <1>1 DEF Progress
<1>3. Start \in Nat /\ job.used \in Nat /\ op.kind \in Numbered /\ stream \in Seq(Nat)
  BY <1>1, <1>2, StartType, WorkingTypes DEF JobTypes
<1>4. bytes \in Seq(Nat) /\ Len(bytes) = n /\ \A i \in 1 .. n : bytes[i] = avail[i]
  <2>1. avail \in Seq(Nat) /\ n \in 0 .. Len(avail)
    BY DEF BufferInv, ReaderInv
  <2> QED  BY <2>1
<1>5. \A i \in 1 .. n : bytes[i] = stream[Start + job.used + i]
  <2> SUFFICES ASSUME NEW i \in 1 .. n PROVE bytes[i] = stream[Start + job.used + i]
    OBVIOUS
  <2>1. i \in 1 .. Len(avail)
    BY <1>1, BufferTypes
  <2>2. avail[i] = stream[Consumed + i]
    BY <1>1, <2>1 DEF BufferInv
  <2> QED  BY <1>2, <1>4, <2>2
<1>6. Start + job.used + n <= Len(stream)
  BY <1>1, <1>2, BufferTypes
<1> HIDE DEF bytes
<1>7. Reached(s, n, job.used, Start)
  BY <1>2, <1>3, <1>4, <1>5, <1>6, ScanReaches
<1>8. Scanned(s)
  BY DEF bytes
<1> HIDE DEF s
<1>9. UNCHANGED << stream, streaming, end, rest, pending, empties >>
  BY DEF Unloaded
<1>10. CASE s.at = "over"
  <2>1. Finish(<< >>, "report", avail)
    BY <1>1, <1>8, <1>10 DEF Scanned, Reported
  <2>2. Stream!TooLarge(stream, Start, Width)
    BY <1>7, <1>10 DEF Reached
  <2>3. Number(Start) = Stream!Error("report")
    BY <2>2, VarintOver DEF Number, Stream!Report
  <2>4. Out = Stream!Error("report")
    BY <1>2, <1>3, <2>3, NumberFails, WorkingTypes, <1>1 DEF Stream!Error
  <2>5. BufferInv' /\ Consumed' = Consumed
    BY <1>1, <1>9, <2>1 DEF Finish, BufferInv, Consumed
  <2>6. op \in Ops /\ Consumed' >= Consumed /\ "report" \in Errors
    BY <1>1, <2>5, WorkingTypes DEF Errors
  <2> QED  BY <1>1, <1>9, <2>1, <2>4, <2>5, <2>6, FinishStep
<1>11. CASE s.at \in {"done", "more"}
  <2>1. s.k \in 0 .. n /\ s.v = Stream!Groups(stream, Start, job.used + s.k) /\ s.v \in Nat
    <3>1. s.k \in 0 .. n /\ s.v = Stream!Groups(stream, Start, job.used + s.k)
      BY <1>7, <1>11 DEF Reached
    <3>2. Start + (job.used + s.k) <= Len(stream) /\ job.used + s.k \in Nat
      BY <1>3, <1>6, <3>1
    <3> QED  BY <1>3, <3>1, <3>2, GroupsStep
  <2>2. avail' = Drop(avail, s.k) /\ UNCHANGED << err, op, ret, pos >>
    BY <1>8, <1>11 DEF Scanned
  <2>3. BufferInv' /\ Consumed' = Consumed + s.k
    <3>1. s.k \in 0 .. Len(avail)
      BY <1>1, <2>1, BufferTypes
    <3> QED  BY <1>1, <2>2, <3>1, DropBuffer
  <2>4. UNCHANGED Stream!vars
    BY <1>9, <2>2 DEF Stream!vars
  <2>10. pos' \in 0 .. Consumed' /\ Consumed \in Nat /\ s.k \in Nat
    <3>1. pos \in Nat /\ pos <= Consumed /\ Consumed \in Nat /\ s.k \in Nat
      BY <1>1, <2>1, WorkingTypes
    <3> QED  BY <2>2, <2>3, <3>1
  <2>5. Width' = Width /\ MaxSize' = MaxSize
    BY <2>2 DEF Width, MaxSize
  <2>7. Number(pos)' = Number(pos)
    BY <1>9, <2>2, <2>5 DEF Number
  <2>8. CASE s.at = "more"
    <3>1. job' = [job EXCEPT !.do = "scan", !.v = s.v, !.used = @ + s.k]
      BY <1>8, <2>8 DEF Scanned
    <3>2. /\ job'.do = "scan" /\ job'.v = s.v /\ job'.used = job.used + s.k /\ job'.n = job.n
          /\ job' \in [do : Steps, used : Nat, v : Int, n : Nat, data : Seq(Nat)]
      <4>1. job.used + s.k \in Nat /\ s.v \in Int /\ "scan" \in Steps
        BY <1>3, <2>1, <2>10 DEF Steps
      <4>2. job \in [do : Steps, used : Nat, v : Int, n : Nat, data : Seq(Nat)]
        BY <1>1 DEF JobTypes
      <4> QED  BY <3>1, <4>1, <4>2
    <3>3. Second' = Second /\ Start' = Start
      BY <2>2, <2>7, <3>2 DEF Second, Start
    <3>4. CountRead'
      BY <1>2, <2>2, <2>7, <3>2, <3>3 DEF CountRead
    <3>5. s.k = n /\ job.used + n < MaxSize /\ \A i \in 1 .. job.used + n : Stream!More(stream[Start + i])
      BY <1>7, <2>8 DEF Reached
    <3>6. Progress'
      <4>1. Consumed' = Start' + job'.used
        <5>1. Start \in Nat /\ job.used \in Nat /\ s.k \in Nat
          BY <1>3, <2>10
        <5>2. Consumed' = Start + job.used + s.k
          BY <1>2, <2>3
        <5>3. Start' = Start /\ job'.used = job.used + s.k
          BY <3>2, <3>3
        <5> QED  BY <5>1, <5>2, <5>3
      <4>2. job'.used < MaxSize' /\ \A i \in 1 .. job'.used : Stream!More(stream[Start' + i])
        BY <2>5, <3>2, <3>3, <3>5
      <4>3. job'.v = Stream!Groups(stream, Start', job'.used)
        BY <2>1, <3>2, <3>3
      <4> QED  BY <1>9, <3>2, <3>4, <4>1, <4>2, <4>3 DEF Progress
    <3>7. JobTypes'
      BY <1>1, <1>3, <2>2, <2>10, <3>2 DEF JobTypes
    <3> QED  BY <1>1, <2>2, <2>3, <2>4, <3>6, <3>7 DEF ReaderInv
  <2>9. CASE s.at = "done"
    <3> DEFINE d == IF Second /\ op.kind = "BlockHeader" THEN "size" ELSE "got"
               z == Stream!ZigZag(s.v)
    <3>1. job' = [job EXCEPT !.do = d, !.v = z, !.used = 0]
      BY <1>8, <2>9 DEF Scanned, Next2, Second
    <3>2. z \in Int
      BY <2>1 DEF Stream!ZigZag
    <3>3. /\ job'.do = d /\ job'.v = z /\ job'.used = 0 /\ job'.n = job.n
          /\ job' \in [do : Steps, used : Nat, v : Int, n : Nat, data : Seq(Nat)]
      BY <1>1, <3>1, <3>2 DEF JobTypes, Steps
    <3>4. Second' = Second /\ Start' = Start
      BY <2>2, <2>7, <3>3 DEF Second, Start
    <3>5. CountRead'
      BY <1>2, <2>2, <2>7, <3>3, <3>4 DEF CountRead
    <3>6. Number(Start) = Stream!Ok(<< z >>, job.used + s.k)
      <4>1. Stream!Ends(stream, Start, Width, job.used + s.k)
        BY <1>7, <2>9 DEF Reached
      <4>2. Start + (job.used + s.k) = Start + job.used + s.k
        BY <1>3, <2>1
      <4>3. job.used + s.k = Stream!Size(Width) => stream[Start + (job.used + s.k)] <= Stream!LastMax(Width)
        BY <1>7, <2>9, <4>2 DEF Reached, MaxSize
      <4> DEFINE m == job.used + s.k
                 v == Stream!ZigZag(Stream!Groups(stream, Start, m))
      <4>4. v = z /\ Start \in Nat /\ stream \in Seq(Nat)
        BY <1>3, <2>1
      <4> HIDE DEF m
      <4>5. Stream!Ends(stream, Start, Width, m) /\ (m = Stream!Size(Width) => stream[Start + m] <= Stream!LastMax(Width))
        BY <4>1, <4>3 DEF m
      <4>6. Number(Start) = Stream!Ok(<< v >>, m)
        BY <4>4, <4>5, VarintEnds, WidthType DEF Number
      <4> QED  BY <4>4, <4>6 DEF m
    <3>7. Consumed' - Start = job.used + s.k
      <4>1. Consumed = Start + job.used /\ Consumed' = Consumed + s.k
        BY <1>2, <2>3
      <4>2. Start \in Nat /\ job.used \in Nat /\ s.k \in Nat
        BY <1>3, <2>10
      <4> HIDE DEF d, z
      <4> QED  BY <4>1, <4>2
    <3>8. Number(Start)' = Stream!Ok(<< z >>, Consumed' - Start')
      BY <1>9, <2>5, <3>4, <3>6, <3>7 DEF Number
    <3>9. Progress'
      <4>1. CASE Second
        <5>1. d = "size"
          BY <1>2, <4>1 DEF CountRead
        <5> QED  BY <3>3, <3>4, <3>5, <3>8, <4>1, <5>1 DEF Progress
      <4>2. CASE ~Second
        <5>1. d = "got" /\ Start' = pos'
          BY <2>2, <3>4, <4>2 DEF Start
        <5>2. Number(pos)' = Stream!Ok(<< job'.v >>, Consumed' - pos')
          BY <3>3, <3>8, <5>1 DEF Number
        <5> QED  BY <3>3, <3>4, <4>2, <5>1, <5>2 DEF Progress
      <4> QED  BY <4>1, <4>2
    <3>10. JobTypes'
      BY <1>1, <1>3, <2>2, <2>10, <3>3 DEF JobTypes, Numbered
    <3> QED  BY <1>1, <2>2, <2>3, <2>4, <3>9, <3>10 DEF ReaderInv
  <2> QED  BY <1>11, <2>8, <2>9
<1> QED  BY <1>7, <1>10, <1>11 DEF Reached

\* A longer varint than the buffer has, or one that resumes.
LEMMA SlowStep ==
  ASSUME ReaderInv, SlowVarint
  PROVE  ReaderInv' /\ (Stream!Next \/ UNCHANGED Stream!vars)
<1> DEFINE n == Least(Len(avail), MaxSize - job.used)
<1>1. job.do \in {"varint", "scan"} /\ job.do # "none"
  BY DEF SlowVarint
<1>2. Progress
  BY <1>1 DEF ReaderInv, Refused
<1>3. job.used < MaxSize /\ job.used \in Nat
  BY <1>1, <1>2, WorkingTypes DEF Progress
<1>4. n \in Nat /\ n <= Len(avail) /\ job.used + n <= MaxSize
  BY <1>3, BufferTypes, WidthType DEF Least, ReaderInv
<1>5. Scanned(Scan(SubSeq(avail, 1, n), job.used, job.v)) /\ Unloaded
  BY DEF SlowVarint
<1> HIDE DEF n
<1> QED  BY <1>1, <1>4, <1>5, ScannedStep

\* A varint in a full buffer.
LEMMA FastStep ==
  ASSUME ReaderInv, FastVarint
  PROVE  ReaderInv' /\ (Stream!Next \/ UNCHANGED Stream!vars)
<1>1. job.do \in {"varint", "scan"} /\ job.do # "none" /\ job.do = "varint"
  BY DEF FastVarint
<1>2. Progress
  BY <1>1 DEF ReaderInv, Refused
<1>3. job.used = 0 /\ job.v = 0
  <2>1. job.used = 0 /\ CountRead /\ job.v = Stream!Groups(stream, Start, job.used)
    BY <1>1, <1>2 DEF Progress
  <2>2. Start \in Nat /\ Start <= Len(stream) /\ stream \in Seq(Nat)
    BY <1>1, <2>1, StartType, WorkingTypes
  <2>3. Stream!Groups(stream, Start, 0) = 0
    BY <2>2, GroupsStep
  <2> QED  BY <2>1, <2>3
<1>4. MaxSize \in Nat /\ MaxSize <= Len(avail) /\ job.used + MaxSize <= MaxSize
  BY <1>3, WidthType, BufferTypes DEF FastVarint, ReaderInv
<1>5. Scanned(Scan(SubSeq(avail, 1, MaxSize), job.used, job.v)) /\ Unloaded
  BY <1>3 DEF FastVarint
<1> QED  BY <1>1, <1>4, <1>5, ScannedStep

\* The next byte of the buffer is that of the stream.
LEMMA NextByte ==
  ASSUME BufferInv, avail # << >>
  PROVE  avail[1] = stream[Consumed + 1] /\ avail[1] \in Nat /\ Consumed + 1 <= Len(stream)
<1>1. Len(avail) > 0 /\ Consumed + 1 <= Len(stream) /\ Len(avail) \in Nat
  BY BufferTypes
<1>2. 1 \in 1 .. Len(avail) /\ avail \in Seq(Nat)
  BY <1>1 DEF BufferInv
<1>3. avail[1] \in Nat
  BY <1>2
<1>4. avail[1] = stream[Consumed + 1]
  BY <1>2 DEF BufferInv
<1> QED  BY <1>1, <1>3, <1>4

\* A byte of a varint is skipped (reader_skip.go:52).
LEMMA SkipStep ==
  ASSUME ReaderInv, SkipByte
  PROVE  ReaderInv' /\ (Stream!Next \/ UNCHANGED Stream!vars)
<1> DEFINE b == avail[1]
           j == job.used + 1
           eof == "unexpected"
           Skips(r) == Stream!NoValue(r)
<1>1. /\ job.do = "skip" /\ err = "nil" /\ avail # << >> /\ Progress /\ job.do # "none" /\ BufferInv /\ JobTypes
      /\ Unloaded
  BY DEF SkipByte, ReaderInv
<1>2. /\ op \in Ops /\ op.kind \in Skipped /\ pos \in Nat /\ job.used \in Nat /\ stream \in Seq(Nat)
      /\ end \in {"eof", "err"} /\ Consumed \in Nat /\ pos <= Consumed
  BY <1>1, WorkingTypes DEF JobTypes
<1>3. /\ Consumed = pos + job.used /\ job.used < MaxSize
      /\ \A i \in 1 .. job.used : Stream!More(stream[pos + i])
  BY <1>1 DEF Progress
<1>4. b = stream[pos + j] /\ b \in Nat /\ pos + j <= Len(stream) /\ j \in Nat /\ j <= MaxSize
  <2>1. b = stream[Consumed + 1] /\ b \in Nat /\ Consumed + 1 <= Len(stream)
    BY <1>1, NextByte
  <2>2. Consumed + 1 = pos + j
    BY <1>2, <1>3
  <2>3. j \in Nat /\ j <= MaxSize
    BY <1>2, <1>3, WidthType
  <2> HIDE DEF b, j
  <2> QED  BY <2>1, <2>2, <2>3
<1>5. avail' = Drop(avail, 1) => BufferInv' /\ Consumed' = Consumed + 1
  <2>1. 1 \in 0 .. Len(avail)
    BY <1>1, BufferTypes
  <2> QED  BY <1>1, <2>1, DropBuffer
<1>6. UNCHANGED << stream, streaming, end, rest, pending, empties >>
  BY <1>1 DEF Unloaded
<1>7. Out = Stream!NoValue(Stream!Varint(stream, end, pos, Width, "unexpected"))
  BY <1>2, SkipOutcome
<1>8. \A i \in 1 .. j - 1 : Stream!More(stream[pos + i])
  BY <1>2, <1>3
<1>9. /\ (j = MaxSize /\ TooBig(b, Width)) => Finish(<< >>, Reported(err), Drop(avail, 1))
      /\ ~(j = MaxSize /\ TooBig(b, Width)) /\ (~Stream!More(b) \/ j = MaxSize)
           => Finish(<< >>, err, Drop(avail, 1))
      /\ ~(j = MaxSize /\ TooBig(b, Width)) /\ ~(~Stream!More(b) \/ j = MaxSize)
           => avail' = Drop(avail, 1) /\ job' = [job EXCEPT !.used = @ + 1] /\ UNCHANGED << err, op, ret, pos >>
  BY DEF SkipByte
<1> HIDE DEF b, j
<1>10. CASE j = MaxSize /\ TooBig(b, Width)
  <2>1. Finish(<< >>, "report", Drop(avail, 1))
    BY <1>1, <1>9, <1>10 DEF Reported
  <2>2. BufferInv' /\ Consumed' = Consumed + 1
    BY <1>5, <2>1 DEF Finish
  <2>3. Stream!TooLarge(stream, pos, Width)
    BY <1>4, <1>8, <1>10 DEF Stream!TooLarge, MaxSize, TooBig
  <2>4. Out = Stream!Error("report")
    BY <1>7, <2>3, VarintOver DEF Stream!NoValue, Stream!Report, Stream!Error
  <2>5. Consumed' >= Consumed /\ "report" \in Errors
    BY <1>2, <2>2 DEF Errors
  <2> QED  BY <1>1, <1>2, <1>6, <2>1, <2>2, <2>4, <2>5, FinishStep
<1>11. CASE ~(j = MaxSize /\ TooBig(b, Width)) /\ (~Stream!More(b) \/ j = MaxSize)
  <2>1. Finish(<< >>, "nil", Drop(avail, 1))
    BY <1>1, <1>9, <1>11
  <2>2. BufferInv' /\ Consumed' = Consumed + 1
    BY <1>5, <2>1 DEF Finish
  <2>3. j = MaxSize => b <= Stream!LastMax(Width)
    BY <1>4, <1>11, WidthType DEF TooBig
  <2>4. ~Stream!More(b)
    BY <1>4, <1>11, <2>3, FlagOrEnd, WidthType
  <2>5. Stream!Ends(stream, pos, Width, j)
    <3>1. j \in 1 .. Stream!Size(Width)
      BY <1>2, <1>4, WidthType DEF MaxSize, j
    <3> QED  BY <1>4, <1>8, <2>4, <3>1 DEF Stream!Ends
  <2>6. Out = Stream!Ok(<< >>, j)
    <3>1. Stream!Varint(stream, end, pos, Width, "unexpected")
            = Stream!Ok(<< Stream!ZigZag(Stream!Groups(stream, pos, j)) >>, j)
      BY <1>2, <1>4, <2>3, <2>5, VarintEnds, WidthType DEF MaxSize
    <3> QED  BY <1>7, <3>1 DEF Stream!NoValue, Stream!Ok
  <2>7. Consumed' - pos = j /\ Consumed' >= Consumed /\ "nil" \in Errors
    BY <1>2, <1>3, <2>2 DEF Errors, j
  <2> QED  BY <1>1, <1>2, <1>6, <2>1, <2>2, <2>6, <2>7, FinishStep
<1>12. CASE ~(j = MaxSize /\ TooBig(b, Width)) /\ ~(~Stream!More(b) \/ j = MaxSize)
  <2>1. avail' = Drop(avail, 1) /\ job' = [job EXCEPT !.used = @ + 1] /\ UNCHANGED << err, op, ret, pos >>
    BY <1>9, <1>12
  <2>2. BufferInv' /\ Consumed' = Consumed + 1
    BY <1>5, <2>1
  <2>3. job \in [do : Steps, used : Nat, v : Int, n : Nat, data : Seq(Nat)]
    BY <1>1 DEF JobTypes
  <2>4. job'.do = "skip" /\ job'.used = j /\ job' \in [do : Steps, used : Nat, v : Int, n : Nat, data : Seq(Nat)]
    <3>1. job.used + 1 = j /\ j \in Nat
      BY <1>4 DEF j
    <3> QED  BY <1>1, <2>1, <2>3, <3>1
  <2>5. MaxSize' = MaxSize /\ j < MaxSize
    BY <1>4, <1>12, <2>1, WidthType DEF MaxSize, Width
  <2>6. \A i \in 1 .. j : Stream!More(stream[pos + i])
    <3>1. ASSUME NEW i \in 1 .. j PROVE Stream!More(stream[pos + i])
      <4>1. i = j \/ i \in 1 .. j - 1
        BY <1>4
      <4> QED  BY <1>4, <1>8, <1>12, <4>1
    <3> QED  BY <3>1
  <2>7. Consumed' = pos' + job'.used
    BY <1>2, <1>3, <2>1, <2>2, <2>4 DEF j
  <2>8. Progress'
    <3>1. job'.used < MaxSize' /\ \A i \in 1 .. job'.used : Stream!More(stream'[pos' + i])
      BY <1>6, <2>1, <2>4, <2>5, <2>6
    <3> QED  BY <2>4, <2>7, <3>1 DEF Progress
  <2>9. JobTypes'
    <3>1. pos' \in 0 .. Consumed'
      BY <1>2, <2>1, <2>2
    <3> QED  BY <1>1, <1>2, <2>1, <2>4, <3>1 DEF JobTypes
  <2>10. UNCHANGED Stream!vars
    BY <1>6, <2>1 DEF Stream!vars
  <2> QED  BY <1>1, <2>1, <2>2, <2>8, <2>9, <2>10 DEF ReaderInv
<1> QED  BY <1>10, <1>11, <1>12

\* What was taken, and the bytes next to it.
LEMMA TakenSoFar ==
  ASSUME BufferInv, NEW p \in Nat, p <= Consumed, NEW k \in 0 .. Len(avail)
  PROVE  SubSeq(stream, p + 1, Consumed) \o SubSeq(avail, 1, k) = SubSeq(stream, p + 1, Consumed + k)
<1> DEFINE c == Consumed
           m == p + 1
           n == c + k
<1>1. c \in Nat /\ Len(avail) \in Nat /\ Len(stream) \in Nat /\ c + Len(avail) <= Len(stream) /\ k \in Nat
      /\ k <= Len(avail) /\ avail \in Seq(Nat) /\ stream \in Seq(Nat)
  BY BufferTypes DEF BufferInv
<1>2. m \in 1 .. Len(stream) + 1 /\ c \in m - 1 .. Len(stream) /\ n \in c .. Len(stream)
  BY <1>1
<1>3. SubSeq(avail, 1, k) = SubSeq(stream, c + 1, n)
  <2>1. SubSeq(avail, 1, k) \in Seq(Nat) /\ Len(SubSeq(avail, 1, k)) = k
        /\ \A i \in 1 .. k : SubSeq(avail, 1, k)[i] = avail[i]
    BY <1>1
  <2>2. SubSeq(stream, c + 1, n) \in Seq(Nat) /\ Len(SubSeq(stream, c + 1, n)) = k
        /\ \A i \in 1 .. k : SubSeq(stream, c + 1, n)[i] = stream[c + i]
    <3> DEFINE d == c + 1
    <3>1. d \in Int /\ n \in Int /\ \A i \in d .. n : stream[i] \in Nat
      <4>1. c \in Nat /\ n \in Nat /\ n <= Len(stream) /\ Len(stream) \in Nat
        BY <1>1, <1>2
      <4> HIDE DEF n, c
      <4>2. \A i \in d .. n : i \in 1 .. Len(stream)
        BY <4>1
      <4>3. stream \in Seq(Nat)
        BY <1>1
      <4> QED  BY <4>1, <4>2, <4>3
    <3>2. n - d + 1 = k /\ (d <= n <=> k > 0) /\ \A i \in 1 .. k : d + i - 1 = c + i
      BY <1>1
    <3> HIDE DEF d, n
    <3>3. /\ SubSeq(stream, d, n) \in Seq(Nat)
          /\ Len(SubSeq(stream, d, n)) = (IF d <= n THEN n - d + 1 ELSE 0)
          /\ \A i \in 1 .. n - d + 1 : SubSeq(stream, d, n)[i] = stream[d + i - 1]
      BY <3>1, SubSeqProperties
    <3>4. Len(SubSeq(stream, d, n)) = k
      BY <1>1, <3>2, <3>3
    <3>5. \A i \in 1 .. k : SubSeq(stream, d, n)[i] = stream[c + i]
      BY <3>2, <3>3
    <3> QED  BY <3>3, <3>4, <3>5 DEF d
  <2>3. \A i \in 1 .. k : avail[i] = stream[c + i]
    BY <1>1 DEF BufferInv
  <2> DEFINE s == SubSeq(avail, 1, k)
             t == SubSeq(stream, c + 1, n)
  <2>4. s \in Seq(Nat) /\ t \in Seq(Nat) /\ Len(s) = Len(t) /\ \A i \in 1 .. Len(s) : s[i] = t[i]
    BY <2>1, <2>2, <2>3
  <2> HIDE DEF s, t
  <2>5. s = t
    BY <2>4, SeqEqual
  <2> QED  BY <2>5 DEF s, t
<1> HIDE DEF c, m, n
<1>4. SubSeq(stream, m, c) \o SubSeq(stream, c + 1, n) = SubSeq(stream, m, n)
  BY <1>1, <1>2, ConcatAdjacentSubSeq
<1> QED  BY <1>3, <1>4 DEF c, m, n

\* Some bytes are taken from the buffer.
LEMMA TakeStep ==
  ASSUME ReaderInv, TakeSome
  PROVE  ReaderInv' /\ (Stream!Next \/ UNCHANGED Stream!vars)
<1> DEFINE k == Least(job.n, Len(avail))
<1>1. /\ job.do = "take" /\ job.do # "none" /\ job.n > 0 /\ BufferInv /\ JobTypes
      /\ avail' = Drop(avail, k)
      /\ job' = [job EXCEPT !.n = @ - k, !.data = @ \o SubSeq(avail, 1, k)]
      /\ UNCHANGED << stream, streaming, end, rest, pending, empties, err, op, ret, pos >>
  BY DEF TakeSome, ReaderInv
<1>2. op \in Ops /\ pos \in Nat /\ pos <= Consumed /\ Consumed \in Nat /\ job.n \in Nat /\ job.data \in Seq(Nat)
      /\ avail \in Seq(Nat) /\ Len(avail) \in Nat
  BY <1>1, WorkingTypes DEF BufferInv
<1>3. k \in 0 .. Len(avail) /\ job.n - k \in Nat /\ k \in Nat
  BY <1>2 DEF Least
<1> HIDE DEF k
<1>4. SubSeq(avail, 1, k) \in Seq(Nat)
  BY <1>2, <1>3
<1>5. job \in [do : Steps, used : Nat, v : Int, n : Nat, data : Seq(Nat)]
  BY <1>1 DEF JobTypes
<1>6. job'.do = "take" /\ job'.n = job.n - k /\ job'.data = job.data \o SubSeq(avail, 1, k)
      /\ job' \in [do : Steps, used : Nat, v : Int, n : Nat, data : Seq(Nat)]
  <2>1. job.data \o SubSeq(avail, 1, k) \in Seq(Nat)
    BY <1>2, <1>4
  <2> QED  BY <1>1, <1>3, <1>5, <2>1
<1>7. BufferInv' /\ Consumed' = Consumed + k
  <2>1. Unloaded
    BY <1>1 DEF Unloaded
  <2> QED  BY <1>1, <1>3, <2>1, DropBuffer
<1>8. JobTypes'
  <2>1. pos' \in 0 .. Consumed'
    BY <1>1, <1>2, <1>3, <1>7
  <2> QED  BY <1>1, <1>6, <2>1 DEF JobTypes
<1>9. UNCHANGED Stream!vars
  BY <1>1 DEF Stream!vars
<1>10. CASE err # "nil"
  <2>1. Refused'
    BY <1>6 DEF Refused
  <2> QED  BY <1>1, <1>7, <1>8, <1>9, <1>10, <2>1 DEF ReaderInv
<1>11. CASE err = "nil"
  <2>1. /\ LengthRead
        /\ Body \in 0 .. Consumed /\ job.data = SubSeq(stream, Body + 1, Consumed)
        /\ Consumed + job.n = Body + Total
    BY <1>1, <1>11 DEF ReaderInv, Progress
  <2>2. Width' = Width
    BY <1>1 DEF Width
  <2>3. Number(pos)' = Number(pos)
    BY <1>1, <2>2 DEF Number
  <2>4. LengthRead' /\ Body' = Body /\ Total' = Total
    BY <1>1, <2>1, <2>3 DEF LengthRead, Body, Total
  <2>5. job'.data = SubSeq(stream, Body + 1, Consumed')
    <3>1. Body \in Nat /\ Body <= Consumed
      BY <1>2, <2>1
    <3>2. SubSeq(stream, Body + 1, Consumed) \o SubSeq(avail, 1, k) = SubSeq(stream, Body + 1, Consumed + k)
      BY <1>1, <1>3, <3>1, TakenSoFar
    <3> QED  BY <1>6, <1>7, <2>1, <3>2
  <2>6. Consumed' + job'.n = Body' + Total' /\ Body' \in 0 .. Consumed'
    <3>1. Consumed' + job'.n = Consumed + job.n
      BY <1>2, <1>3, <1>6, <1>7
    <3>2. Body \in 0 .. Consumed + k
      BY <1>2, <1>3, <2>1
    <3> QED  BY <1>7, <2>1, <2>4, <3>1, <3>2
  <2>7. job'.data = SubSeq(stream', Body' + 1, Consumed')
    BY <1>1, <2>4, <2>5
  <2>8. Progress'
    BY <1>6, <2>4, <2>6, <2>7 DEF Progress
  <2> QED  BY <1>1, <1>7, <1>8, <1>9, <1>11, <2>8 DEF ReaderInv
<1> QED  BY <1>10, <1>11

\* The length of a prefixed value is behind its number.
LEMMA PrefixLength ==
  ASSUME ReaderInv, job.do = "take", err = "nil"
  PROVE  op.kind \in Taken /\ LengthRead /\ (op.kind \in Prefixed => Number(pos).len \in Nat)
<1>1. op.kind \in Taken /\ LengthRead
  BY DEF ReaderInv, JobTypes, Progress
<1>2. ASSUME op.kind \in Prefixed PROVE Number(pos).len \in Nat
  <2>1. Number(pos).err = "nil" /\ Width \in Nat \ {0} /\ MaxSize \in Nat
    BY <1>1, <1>2, WidthType DEF LengthRead
  <2>2. pos \in Nat /\ stream \in Seq(Nat) /\ end \in {"eof", "err"}
    BY WorkingTypes
  <2>3. Number(pos).len \in 1 .. Stream!Size(Width)
    BY <2>1, <2>2, VarintOk DEF Number
  <2> QED  BY <2>1, <2>3 DEF MaxSize
<1> QED  BY <1>1, <1>2

\* All the bytes were taken.
LEMMA TakenStep ==
  ASSUME ReaderInv, TakeDone
  PROVE  ReaderInv' /\ (Stream!Next \/ UNCHANGED Stream!vars)
<1>1. /\ job.do = "take" /\ job.do # "none" /\ job.n = 0 /\ BufferInv /\ JobTypes /\ Unloaded
      /\ op.kind \in Taken
  BY DEF TakeDone, ReaderInv, JobTypes
<1>2. UNCHANGED << stream, streaming, end, rest, pending, empties >>
  BY <1>1 DEF Unloaded
<1> DEFINE val == IF op.kind \in {"Skip", "SkipBytes"} THEN << >> ELSE job.data
           e == IF op.kind = "Bool" /\ job.data[1] \notin {0, 1} THEN Reported(err) ELSE err
<1>3. Finish(val, e, avail)
  <2>1. CASE op.kind \in {"Skip", "SkipBytes"}
    BY <2>1 DEF TakeDone
  <2>2. CASE op.kind = "Bool"
    BY <2>2 DEF TakeDone
  <2>3. CASE op.kind \notin {"Skip", "SkipBytes", "Bool"}
    BY <2>3 DEF TakeDone
  <2> QED  BY <2>1, <2>2, <2>3
<1>4. op \in Ops /\ pos \in Nat /\ pos <= Consumed /\ Consumed \in Nat /\ err \in Errors /\ Consumed <= Len(stream)
      /\ Len(stream) \in Nat
  BY <1>1, WorkingTypes
<1>5. BufferInv' /\ Consumed' = Consumed
  BY <1>1, <1>2, <1>3 DEF Finish, BufferInv, Consumed
<1>6. e \in Errors
  BY <1>4 DEF Errors, Reported
<1>7. CASE err # "nil"
  <2>1. e \in IF err \in Stream!EOFs THEN {err, "unexpected", "report"} ELSE {err}
    BY <1>7 DEF Reported
  <2> HIDE DEF e, val
  <2> QED  BY <1>2, <1>3, <1>4, <1>5, <1>6, <1>7, <2>1, FinishStep
<1>8. CASE err = "nil"
  <2>1. /\ LengthRead
        /\ Body \in 0 .. Consumed /\ job.data = SubSeq(stream, Body + 1, Consumed)
        /\ Consumed + job.n = Body + Total
    BY <1>1, <1>8 DEF ReaderInv, Progress
  <2>2. op.kind \in Prefixed => Number(pos).len \in Nat
    BY <1>1, <1>8, PrefixLength
  <2>3. Body + Total = Consumed /\ Body + Total <= Len(stream) /\ Body \in Nat /\ Body <= Consumed
    BY <1>1, <1>4, <2>1
  <2>4. TakeOutcome = Stream!Ok(job.data, Total)
    BY <2>1, <2>3 DEF TakeOutcome, Stream!Take
  <2>5. TakeOutcome.err = "nil" /\ TakeOutcome.val = job.data /\ TakeOutcome.len = Total
    BY <2>4 DEF Stream!Ok
  <2>6. Body - pos + Total = Consumed' - pos
    <3>1. Total = Consumed - Body
      <4>1. Total \in Int
        <5>1. CASE op.kind \in Prefixed
          BY <2>1, <5>1 DEF Total, LengthRead
        <5>2. CASE op.kind \notin Prefixed
          BY <1>4, <5>2, OpTypes DEF Total
        <5> QED  BY <5>1, <5>2
      <4> QED  BY <1>4, <2>3, <4>1
    <3> QED  BY <1>4, <1>5, <2>3, <3>1
  <2>7. CASE op.kind = "Bool" /\ job.data[1] \notin {0, 1}
    <3>1. e = "report"
      BY <1>8, <2>7 DEF Reported
    <3>2. Out = Stream!Error("report")
      BY <1>1, <1>4, <2>1, <2>2, <2>5, <2>7, TakenOutcome DEF Stream!Report
    <3>3. Consumed' >= Consumed /\ e # "nil" /\ Out = Stream!Error(e)
      BY <1>4, <1>5, <3>1, <3>2
    <3> HIDE DEF e, val
    <3> QED  BY <1>2, <1>3, <1>4, <1>5, <1>6, <1>8, <3>3, FinishStep
  <2>8. CASE ~(op.kind = "Bool" /\ job.data[1] \notin {0, 1})
    <3>1. e = "nil"
      BY <1>8, <2>8
    <3>2. Out = Stream!Ok(val, Consumed' - pos)
      <4>1. CASE op.kind = "Bool"
        <5>1. Out = TakeOutcome
          BY <1>1, <1>4, <2>1, <2>2, <2>5, <2>8, <4>1, TakenOutcome
        <5>2. Body = pos
          BY <4>1 DEF Body, Prefixed
        <5>3. Total = Consumed' - pos
          BY <1>4, <2>6, <5>2, <4>1 DEF Total, Prefixed
        <5> QED  BY <2>4, <4>1, <5>1, <5>3
      <4>2. CASE op.kind \in {"Read", "Bytes"}
        BY <1>1, <1>4, <2>1, <2>2, <2>5, <2>6, <4>2, TakenOutcome
      <4>3. CASE op.kind \in {"Skip", "SkipBytes"}
        BY <1>1, <1>4, <2>1, <2>2, <2>5, <2>6, <4>3, TakenOutcome
      <4> QED  BY <1>1, <4>1, <4>2, <4>3 DEF Taken
    <3> HIDE DEF e, val
    <3> QED  BY <1>2, <1>3, <1>4, <1>5, <1>6, <1>8, <3>1, <3>2, FinishStep
  <2> QED  BY <2>7, <2>8
<1> QED  BY <1>7, <1>8

\* A failed reader skips no varint, and a byte is looked at where it is.
LEMMA RefusedStep ==
  ASSUME ReaderInv, SkipRefused \/ Peek
  PROVE  ReaderInv' /\ (Stream!Next \/ UNCHANGED Stream!vars)
<1> DEFINE val == IF job.do = "peek" THEN << avail[1] >> ELSE << >>
<1>1. /\ job.do # "none" /\ BufferInv /\ JobTypes /\ Unloaded /\ Finish(val, err, avail)
      /\ err = "nil" => job.do = "peek" /\ avail # << >> /\ op.kind = "Peek" /\ Consumed = pos
  <2>1. CASE SkipRefused
    BY <2>1 DEF SkipRefused, ReaderInv
  <2>2. CASE Peek
    BY <2>2 DEF Peek, ReaderInv, JobTypes, Progress
  <2> QED  BY <2>1, <2>2
<1>2. UNCHANGED << stream, streaming, end, rest, pending, empties >>
  BY <1>1 DEF Unloaded
<1>3. op \in Ops /\ Consumed \in Nat /\ err \in Errors
  BY <1>1, WorkingTypes
<1>4. BufferInv' /\ Consumed' = Consumed /\ Consumed' >= Consumed
  BY <1>1, <1>2, <1>3 DEF Finish, BufferInv, Consumed
<1>5. CASE err # "nil"
  <2>1. err \in IF err \in Stream!EOFs THEN {err, "unexpected", "report"} ELSE {err}
    OBVIOUS
  <2> HIDE DEF val
  <2> QED  BY <1>1, <1>2, <1>3, <1>4, <1>5, <2>1, FinishStep
<1>6. CASE err = "nil"
  <2>1. avail[1] = stream[pos + 1] /\ pos < Len(stream)
    BY <1>1, <1>3, <1>6, NextByte, BufferTypes
  <2>2. Out = Stream!Ok(<< stream[pos + 1] >>, 0)
    BY <1>1, <1>6, <2>1 DEF Out, Stream!Outcome
  <2>3. Out = Stream!Ok(val, Consumed' - pos)
    BY <1>1, <1>3, <1>4, <1>6, <2>1, <2>2
  <2> HIDE DEF val
  <2> QED  BY <1>1, <1>2, <1>3, <1>4, <1>6, <2>3, FinishStep
<1> QED  BY <1>5, <1>6

\* The limit does not keep an empty value out.
LEMMA EmptyFits == ~OverLimit(0)
  BY BufferAssumption DEF OverLimit

\* A number was read: it is the value, the length of one, or a count.
LEMMA GotStep ==
  ASSUME ReaderInv, Got
  PROVE  ReaderInv' /\ (Stream!Next \/ UNCHANGED Stream!vars)
<1> DEFINE v == job.v
           l == Consumed - pos
           bad == BadLength(v)
<1>1. job.do = "got" /\ job.do # "none" /\ BufferInv /\ JobTypes /\ Unloaded /\ op.kind \in Numbered
  BY DEF Got, ReaderInv, JobTypes
<1>2. UNCHANGED << stream, streaming, end, rest, pending, empties >>
  BY <1>1 DEF Unloaded
<1>3. /\ op \in Ops /\ pos \in Nat /\ pos <= Consumed /\ Consumed \in Nat /\ err \in Errors /\ Consumed <= Len(stream)
      /\ v \in Int /\ job.n \in Nat /\ stream \in Seq(Nat)
  BY <1>1, WorkingTypes
<1>4. ~Second /\ (err # "nil" => v = 0) /\ (err = "nil" => Number(pos) = Stream!Ok(<< v >>, l))
  BY <1>1 DEF ReaderInv, Progress, Refused
<1>5. err = "nil" => Number(pos).err = "nil" /\ Number(pos).val = << v >> /\ Number(pos).val[1] = v /\ Number(pos).len = l
  BY <1>4 DEF Stream!Ok
<1>6. avail' = avail => BufferInv' /\ Consumed' = Consumed /\ Consumed' >= Consumed
  BY <1>1, <1>2, <1>3 DEF BufferInv, Consumed
<1>7. op.kind \notin {"Int", "SkipInt"} => Number(pos) = Stream!Varint(stream, end, pos, LongBits, "weof")
  BY DEF Number, Width
<1>8. /\ op.kind \in {"Int", "Long"} => Finish(<< v >>, err, avail)
      /\ op.kind \in Prefixed /\ bad => Finish(<< >>, Reported(err), avail)
      /\ op.kind \in Prefixed /\ ~bad => job' = [Job("take") EXCEPT !.n = v] /\ UNCHANGED << avail, err, op, ret, pos >>
      /\ op.kind = "BlockHeader" /\ v >= 0 => Finish(<< v, 0 >>, err, avail)
      /\ op.kind = "BlockHeader" /\ v = Stream!MinLong /\ v < 0 => Finish(<< >>, Reported(err), avail)
      /\ op.kind = "BlockHeader" /\ v < 0 /\ v # Stream!MinLong
           => job' = [Job("varint") EXCEPT !.n = -v] /\ UNCHANGED << avail, err, op, ret, pos >>
  <2>1. Stream!MinLong < 0 /\ Stream!MinLong \in Int
    BY MinLongType
  <2>2. v >= 0 => v # Stream!MinLong /\ ~(v < 0)
    BY <1>3, <2>1
  <2> HIDE DEF bad
  <2> QED  BY <1>1, <2>2 DEF Got, Prefixed, bad
<1>9. ASSUME NEW val, Finish(val, err, avail), err = "nil" => Out = Stream!Ok(val, l)
      PROVE  ReaderInv' /\ Stream!Next
  <2>1. BufferInv' /\ Consumed' = Consumed /\ Consumed' >= Consumed
    BY <1>6, <1>9 DEF Finish
  <2>2. err # "nil" => err \in IF err \in Stream!EOFs THEN {err, "unexpected", "report"} ELSE {err}
    OBVIOUS
  <2>3. err = "nil" => Out = Stream!Ok(val, Consumed' - pos)
    BY <1>9, <2>1
  <2> QED  BY <1>2, <1>3, <1>9, <2>1, <2>2, <2>3, FinishStep
<1>10. ASSUME Finish(<< >>, Reported(err), avail), err = "nil", Out = Stream!Report
       PROVE  ReaderInv' /\ Stream!Next
  <2>1. BufferInv' /\ Consumed' = Consumed /\ Consumed' >= Consumed
    BY <1>6, <1>10 DEF Finish
  <2>2. Finish(<< >>, "report", avail) /\ "report" \in Errors /\ Out = Stream!Error("report")
    BY <1>10 DEF Reported, Stream!Report, Errors
  <2> QED  BY <1>2, <1>3, <1>10, <2>1, <2>2, FinishStep
<1>11. ASSUME UNCHANGED << avail, err, op, ret, pos >>
       PROVE  BufferInv' /\ Consumed' = Consumed /\ UNCHANGED Stream!vars /\ Number(pos)' = Number(pos)
  <2>1. Width' = Width
    BY <1>11 DEF Width
  <2> QED  BY <1>2, <1>6, <1>11, <2>1 DEF Stream!vars, Number
<1> HIDE DEF v, l
<1>12. CASE op.kind \in {"Int", "Long"}
  <2>1. Finish(<< v >>, err, avail)
    BY <1>8, <1>12
  <2>2. err = "nil" => Out = Stream!Ok(<< v >>, l)
    BY <1>4, <1>7, <1>12 DEF Out, Stream!Outcome, Number, Width
  <2> QED  BY <1>9, <2>1, <2>2
<1>13. CASE op.kind \in Prefixed /\ bad
  <2>1. err = "nil"
    BY <1>4, <1>13, EmptyFits DEF BadLength
  <2>2. Out = Stream!Report
    <3>1. op.kind \notin {"Int", "SkipInt"}
      BY <1>13 DEF Prefixed
    <3> QED  BY <1>5, <1>7, <1>13, <2>1, <3>1 DEF Out, Stream!Outcome, Prefixed, OverLimit, BadLength
  <2> QED  BY <1>8, <1>10, <1>13, <2>1, <2>2
<1>14. CASE op.kind \in Prefixed /\ ~bad
  <2>1. job' = [Job("take") EXCEPT !.n = v] /\ UNCHANGED << avail, err, op, ret, pos >>
    BY <1>8, <1>14
  <2>2. v \in Nat
    BY <1>3, <1>14 DEF v, BadLength
  <2>3. job'.do = "take" /\ job'.n = v /\ job'.data = << >>
        /\ job' \in [do : Steps, used : Nat, v : Int, n : Nat, data : Seq(Nat)]
    BY <2>1, <2>2, IdleJob DEF Steps
  <2>4. BufferInv' /\ Consumed' = Consumed /\ UNCHANGED Stream!vars /\ Number(pos)' = Number(pos)
    BY <1>11, <2>1
  <2>5. JobTypes'
    BY <1>1, <1>14, <2>1, <2>3, <2>4 DEF JobTypes, Prefixed, Taken
  <2>6. err' # "nil" => Refused'
    BY <2>3 DEF Refused
  <2>7. ASSUME err = "nil" PROVE Progress'
    <3>1. Body' = Consumed' /\ Total' = v
      BY <1>3, <1>5, <1>14, <2>1, <2>4, <2>7 DEF Body, Total, l
    <3>2. LengthRead'
      BY <1>5, <1>14, <2>1, <2>2, <2>4, <2>7 DEF LengthRead, BadLength
    <3>3. SubSeq(stream', Body' + 1, Consumed') = << >>
      BY <1>2, <1>3, <2>4, <3>1, SubSeqEmpty
    <3>4. Body' \in 0 .. Consumed' /\ Consumed' + job'.n = Body' + Total'
      BY <1>3, <2>3, <2>4, <3>1
    <3> QED  BY <2>3, <3>2, <3>3, <3>4 DEF Progress
  <2> QED  BY <2>1, <2>4, <2>5, <2>6, <2>7 DEF ReaderInv
<1>15. CASE op.kind = "BlockHeader" /\ v >= 0
  <2>1. Finish(<< v, 0 >>, err, avail)
    BY <1>8, <1>15
  <2>2. err = "nil" => Out = Stream!Ok(<< v, 0 >>, l)
    BY <1>3, <1>5, <1>7, <1>15, HeaderOutcome DEF v
  <2> QED  BY <1>9, <2>1, <2>2
<1>16. CASE op.kind = "BlockHeader" /\ v < 0 /\ v = Stream!MinLong
  <2>1. err = "nil"
    BY <1>4, <1>16
  <2>2. ~(v >= 0)
    BY <1>3, <1>16 DEF v
  <2>3. Out = Stream!Report
    BY <1>3, <1>5, <1>7, <1>16, <2>1, HeaderOutcome DEF v
  <2> QED  BY <1>8, <1>10, <1>16, <2>1, <2>3
<1>17. CASE op.kind = "BlockHeader" /\ v < 0 /\ v # Stream!MinLong
  <2>1. job' = [Job("varint") EXCEPT !.n = -v] /\ UNCHANGED << avail, err, op, ret, pos >>
    BY <1>8, <1>17
  <2>2. err = "nil"
    BY <1>4, <1>17
  <2>3. -v \in Nat /\ -v # 0 /\ -(-v) = v
    BY <1>3, <1>17 DEF v
  <2>4. job'.do = "varint" /\ job'.n = -v /\ job'.used = 0 /\ job'.v = 0
        /\ job' \in [do : Steps, used : Nat, v : Int, n : Nat, data : Seq(Nat)]
    BY <2>1, <2>3, IdleJob DEF Steps
  <2>5. BufferInv' /\ Consumed' = Consumed /\ UNCHANGED Stream!vars /\ Number(pos)' = Number(pos)
    BY <1>11, <2>1
  <2>6. JobTypes'
    BY <1>1, <1>17, <2>1, <2>4, <2>5 DEF JobTypes
  <2>7. CountRead'
    BY <1>5, <1>17, <2>1, <2>2, <2>3, <2>4, <2>5 DEF CountRead
  <2>8. Start' = Consumed'
    BY <1>3, <1>5, <2>1, <2>2, <2>3, <2>4, <2>5 DEF Start, Second, l
  <2>9. job'.v = Stream!Groups(stream', Start', job'.used)
    BY <1>2, <1>3, <2>4, <2>5, <2>8, GroupsStep
  <2>10. Consumed' = Start' + job'.used /\ job'.used < MaxSize'
    <3>1. MaxSize' = MaxSize
      BY <2>1 DEF MaxSize, Width
    <3> QED  BY <1>3, <2>4, <2>5, <2>8, <3>1, WidthType
  <2>11. Progress'
    BY <2>4, <2>7, <2>9, <2>10 DEF Progress
  <2> QED  BY <2>1, <2>2, <2>5, <2>6, <2>11 DEF ReaderInv
<1>18. v >= 0 \/ v < 0
  BY <1>3 DEF v
<1> QED  BY <1>1, <1>12, <1>13, <1>14, <1>15, <1>16, <1>17, <1>18 DEF Numbered, Prefixed

\* The size of a block was read.
LEMMA SizeStep ==
  ASSUME ReaderInv, GotSize
  PROVE  ReaderInv' /\ (Stream!Next \/ UNCHANGED Stream!vars)
<1>1. job.do = "size" /\ job.do # "none" /\ BufferInv /\ JobTypes /\ Unloaded
  BY DEF GotSize, ReaderInv
<1>2. UNCHANGED << stream, streaming, end, rest, pending, empties >>
  BY <1>1 DEF Unloaded
<1>3. /\ op \in Ops /\ pos \in Nat /\ pos <= Consumed /\ Consumed \in Nat /\ job.v \in Int /\ job.n \in Nat
      /\ end \in {"eof", "err"}
  BY <1>1, WorkingTypes
<1>4. err = "nil" /\ Second /\ CountRead /\ Number(Start) = Stream!Ok(<< job.v >>, Consumed - Start)
  BY <1>1 DEF ReaderInv, Progress, Refused
<1>5. op.kind = "BlockHeader" /\ Number(pos).err = "nil" /\ Number(pos).val = << -job.n >> /\ -job.n # Stream!MinLong
      /\ Start = pos + Number(pos).len
  BY <1>4 DEF CountRead, Start
<1>6. /\ Number(pos) = Stream!Varint(stream, end, pos, LongBits, "weof")
      /\ Number(Start) = Stream!Varint(stream, end, Start, LongBits, "weof")
  BY <1>5 DEF Number, Width
<1>7. /\ Number(Start).err = "nil" /\ Number(Start).val[1] = job.v /\ Number(Start).len = Consumed - Start
      /\ Number(pos).val[1] = -job.n /\ -job.n < 0 /\ -(-job.n) = job.n
  BY <1>3, <1>4, <1>5 DEF Stream!Ok, Second
<1>8. Start \in Nat /\ Number(pos).len + (Consumed - Start) = Consumed - pos
  <2>1. Start \in Nat
    BY <1>1, <1>4, StartType
  <2>2. Number(pos).len \in Nat
    <3>1. Width \in Nat \ {0} /\ stream \in Seq(Nat)
      BY <1>1, WidthType, WorkingTypes
    <3>2. Number(pos).len \in 1 .. Stream!Size(Width)
      BY <1>3, <1>5, <3>1, VarintOk DEF Number
    <3> QED  BY <3>1, <3>2, SizeType
  <2> QED  BY <1>3, <1>5, <2>1, <2>2
<1>9. Out = IF job.v < 0 THEN Stream!Report ELSE Stream!Ok(<< job.n, job.v >>, Consumed - pos)
  <2> DEFINE l == -job.n
  <2>1. l \in Int /\ l < 0 /\ l # Stream!MinLong /\ Number(pos).val[1] = l /\ -l = job.n
    BY <1>3, <1>5, <1>7
  <2> HIDE DEF l
  <2>2. Out = IF Number(Start).val[1] < 0 THEN Stream!Report
              ELSE Stream!Ok(<< -l, Number(Start).val[1] >>, Number(pos).len + Number(Start).len)
    BY <1>5, <1>6, <1>7, <2>1, HeaderOutcome
  <2> QED  BY <1>7, <1>8, <2>1, <2>2
<1>10. avail' = avail => BufferInv' /\ Consumed' = Consumed /\ Consumed' >= Consumed
  BY <1>1, <1>2, <1>3 DEF BufferInv, Consumed
<1>11. CASE job.v < 0
  <2>1. Finish(<< >>, "report", avail) /\ Out = Stream!Error("report") /\ "report" \in Errors
    BY <1>4, <1>9, <1>11 DEF GotSize, Reported, Stream!Report, Errors
  <2>2. BufferInv' /\ Consumed' >= Consumed
    BY <1>10, <2>1 DEF Finish
  <2> QED  BY <1>2, <1>3, <1>4, <2>1, <2>2, FinishStep
<1>12. CASE ~(job.v < 0)
  <2>1. Finish(<< job.n, job.v >>, "nil", avail) /\ "nil" \in Errors
    BY <1>4, <1>12 DEF GotSize, Errors
  <2>2. BufferInv' /\ Consumed' >= Consumed /\ Consumed' = Consumed
    BY <1>10, <2>1 DEF Finish
  <2>3. Out = Stream!Ok(<< job.n, job.v >>, Consumed' - pos)
    BY <1>9, <1>12, <2>2
  <2> QED  BY <1>2, <1>3, <1>4, <2>1, <2>2, <2>3, FinishStep
<1> QED  BY <1>11, <1>12

\* What an operation makes of the end of the source is what the stream says.
LEMMA EndOutcome ==
  ASSUME ReaderInv, WantsByte, err = "nil", rest = << >>
  PROVE  Out = Stream!Error(CASE job.do = "scan" -> Wrapped(end)
                              [] job.do = "peek" -> end
                              [] OTHER -> Unexpected(end))
<1>1. job.do # "none" /\ BufferInv /\ JobTypes /\ Progress
  BY DEF WantsByte, ReaderInv
<1>2. /\ op \in Ops /\ pos \in Nat /\ pos <= Consumed /\ Consumed \in Nat /\ job.used \in Nat /\ job.n \in Nat
      /\ stream \in Seq(Nat) /\ end \in {"eof", "err"}
  BY <1>1, WorkingTypes
<1>3. Consumed = Len(stream) /\ Len(stream) \in Nat
  BY <1>1, BufferTypes DEF WantsByte
<1>4. Width \in Nat \ {0} /\ MaxSize \in Nat /\ MaxSize = Stream!Size(Width)
  BY WidthType DEF MaxSize
<1>5. CASE job.do = "scan"
  <2>1. CountRead /\ Consumed = Start + job.used /\ job.used < MaxSize
        /\ \A i \in 1 .. job.used : Stream!More(stream[Start + i])
    BY <1>1, <1>5 DEF Progress
  <2>2. Start \in Nat
    BY <1>1, <2>1, StartType
  <2>3. Number(Start) = Stream!AtEnd(end, "weof")
    <3>1. Len(stream) = Start + job.used /\ job.used < Stream!Size(Width)
      BY <1>3, <1>4, <2>1
    <3>2. Start <= Len(stream) /\ Len(stream) < Start + Stream!Size(Width)
      BY <1>2, <1>4, <2>2, <3>1
    <3>3. ASSUME NEW i \in Start + 1 .. Len(stream) PROVE Stream!More(stream[i])
      <4>1. i - Start \in 1 .. job.used /\ Start + (i - Start) = i
        BY <1>2, <2>2, <3>1
      <4> QED  BY <2>1, <4>1
    <3> QED  BY <1>2, <1>4, <2>2, <3>2, <3>3, VarintCut DEF Number
  <2>4. Stream!AtEnd(end, "weof") = Stream!Error(Wrapped(end)) /\ Wrapped(end) # "nil"
    BY <1>2 DEF Stream!AtEnd, Wrapped
  <2>5. Number(Start).err # "nil"
    BY <2>3, <2>4 DEF Stream!Error
  <2>6. op.kind \in Numbered
    BY <1>1, <1>5 DEF JobTypes
  <2>7. Out = Number(Start)
    BY <1>2, <2>1, <2>5, <2>6, NumberFails
  <2> QED  BY <1>5, <2>3, <2>4, <2>7
<1>6. CASE job.do = "peek"
  <2>1. op.kind = "Peek" /\ ~(pos < Len(stream))
    BY <1>1, <1>3, <1>6 DEF JobTypes, Progress
  <2>2. Out = Stream!AtEnd(end, "eof")
    BY <2>1 DEF Out, Stream!Outcome
  <2>3. Stream!AtEnd(end, "eof") = Stream!Error(end)
    BY <1>2 DEF Stream!AtEnd
  <2> QED  BY <1>6, <2>2, <2>3
<1>7. Stream!AtEnd(end, "unexpected") = Stream!Error(Unexpected(end)) /\ Unexpected(end) # "nil"
  BY <1>2 DEF Stream!AtEnd, Unexpected, Stream!EOFs
<1>8. CASE job.do = "take"
  <2>1. job.n > 0
    BY <1>8 DEF WantsByte
  <2>2. /\ op.kind \in Taken /\ LengthRead /\ (op.kind \in Prefixed => Number(pos).len \in Nat)
        /\ Body \in 0 .. Consumed /\ Consumed + job.n = Body + Total
    BY <1>1, <1>8, PrefixLength DEF Progress
  <2>3. ~(Body + Total <= Len(stream))
    BY <1>2, <1>3, <2>1, <2>2
  <2>4. TakeOutcome = Stream!AtEnd(end, "unexpected")
    BY <2>3 DEF TakeOutcome, Stream!Take
  <2>5. TakeOutcome.err # "nil"
    BY <1>7, <2>4 DEF Stream!Error
  <2>6. Out = TakeOutcome
    BY <1>2, <2>2, <2>5, TakenOutcome
  <2> QED  BY <1>7, <1>8, <2>4, <2>6
<1>9. CASE job.do = "skip"
  <2>1. op.kind \in Skipped /\ Consumed = pos + job.used /\ job.used < MaxSize
        /\ \A i \in 1 .. job.used : Stream!More(stream[pos + i])
    BY <1>1, <1>9 DEF JobTypes, Progress
  <2>2. Stream!Varint(stream, end, pos, Width, "unexpected") = Stream!AtEnd(end, "unexpected")
    <3>1. Len(stream) = pos + job.used /\ job.used < Stream!Size(Width)
      BY <1>3, <1>4, <2>1
    <3>2. pos <= Len(stream) /\ Len(stream) < pos + Stream!Size(Width)
      BY <1>2, <1>4, <3>1
    <3>3. ASSUME NEW i \in pos + 1 .. Len(stream) PROVE Stream!More(stream[i])
      <4>1. i - pos \in 1 .. job.used /\ pos + (i - pos) = i
        BY <1>2, <3>1
      <4> QED  BY <2>1, <4>1
    <3> QED  BY <1>2, <1>4, <3>2, <3>3, VarintCut
  <2>3. Out = Stream!NoValue(Stream!AtEnd(end, "unexpected"))
    BY <2>1, <2>2, SkipOutcome
  <2> QED  BY <1>7, <1>9, <2>3 DEF Stream!NoValue, Stream!Error
<1> QED  BY <1>5, <1>6, <1>8, <1>9 DEF WantsByte

\* An operation gives up for want of a byte: the source is at its end, or it
\* keeps returning nothing, or the reader had failed before.
LEMMA LoadFails ==
  ASSUME ReaderInv, WantsByte, NEW e, LoadFailed(e), UNCHANGED << stream, streaming, end, rest >>,
         pending' \in {"nil", end},
         pending' # "nil" => rest = << >>,
         e = "noprogress" \/ (e = end /\ rest = << >>)
  PROVE  ReaderInv' /\ (Stream!Next \/ UNCHANGED Stream!vars)
<1> DEFINE e1 == IF err = "nil" THEN e ELSE err
           f  == CASE job.do = "scan" -> Wrapped(e1)
                   [] job.do = "peek" -> e1
                   [] OTHER -> Unexpected(e1)
<1>1. job.do # "none" /\ BufferInv /\ JobTypes /\ Finish(<< >>, f, avail) /\ empties' = 0
  BY DEF WantsByte, ReaderInv, LoadFailed
<1>2. op \in Ops /\ err \in Errors /\ Consumed \in Nat /\ end \in {"eof", "err"}
  BY <1>1, WorkingTypes
<1>3. BufferInv' /\ Consumed' = Consumed /\ Consumed' >= Consumed
  <2>1. 0 \in 0 .. MaxEmptyReads
    BY BufferAssumption
  <2>2. avail' = avail
    BY <1>1 DEF Finish
  <2> HIDE DEF f
  <2> QED  BY <1>1, <1>2, <2>1, <2>2 DEF BufferInv, Consumed
<1>4. CASE err # "nil"
  <2>1. job.do \in {"take", "peek"} /\ f = IF job.do = "peek" THEN err ELSE Unexpected(err)
    <3>1. job.do \in {"take", "peek"}
      BY <1>4 DEF WantsByte, ReaderInv, Refused
    <3> QED  BY <1>4, <3>1
  <2> HIDE DEF f
  <2>2. f \in (IF err \in Stream!EOFs THEN {err, "unexpected", "report"} ELSE {err}) /\ f \in Errors
    BY <1>2, <2>1 DEF Unexpected, Errors
  <2> QED  BY <1>1, <1>2, <1>3, <1>4, <2>2, FinishStep
<1>5. CASE err = "nil" /\ e = "noprogress"
  <2>1. f = "noprogress" /\ "noprogress" \in Errors
    BY <1>5 DEF Wrapped, Unexpected, Stream!EOFs, Errors
  <2> HIDE DEF f
  <2> QED  BY <1>1, <1>2, <1>3, <1>5, <2>1, FinishStep
<1>6. CASE err = "nil" /\ e = end /\ rest = << >>
  <2>1. Out = Stream!Error(f)
    BY <1>6, EndOutcome
  <2>2. f \in Errors /\ f # "nil"
    <3>1. f \in {Wrapped(end), end, Unexpected(end)}
      BY <1>6
    <3> HIDE DEF f
    <3> QED  BY <1>2, <3>1 DEF Wrapped, Unexpected, Errors
  <2> HIDE DEF f
  <2> QED  BY <1>1, <1>2, <1>3, <1>6, <2>1, <2>2, FinishStep
<1> QED  BY <1>4, <1>5, <1>6

\* More bytes are wanted, and there are none, or some.
LEMMA LoadStep ==
  ASSUME ReaderInv, LoadPending \/ LoadNothing \/ LoadEmpty \/ LoadEnd
  PROVE  ReaderInv' /\ (Stream!Next \/ UNCHANGED Stream!vars)
<1>1. BufferInv /\ pending \in {"nil", end} /\ (pending # "nil" => rest = << >>)
      /\ (~streaming => rest = << >> /\ end = "eof") /\ end \in {"eof", "err"}
  BY DEF ReaderInv, BufferInv
<1>2. CASE LoadPending
  BY <1>1, <1>2, LoadFails DEF LoadPending
<1>3. CASE LoadNothing
  BY <1>1, <1>3, LoadFails DEF LoadNothing
<1>4. CASE LoadEnd
  BY <1>1, <1>4, LoadFails DEF LoadEnd
<1>5. CASE LoadEmpty /\ empties < MaxEmptyReads
  <2>1. /\ empties' = empties + 1
        /\ UNCHANGED << stream, streaming, end, rest, avail, pending, err, op, job, ret, pos >>
    BY <1>5 DEF LoadEmpty, Working, Counted
  <2>2. empties' \in 0 .. MaxEmptyReads
    BY <1>1, <1>5, <2>1, BufferAssumption DEF BufferInv
  <2>3. Consumed' = Consumed
    BY <2>1 DEF Consumed
  <2>4. BufferInv'
    BY <1>1, <2>1, <2>2, <2>3 DEF BufferInv
  <2>5. ReaderInv'
    BY <2>1, <2>3, <2>4, Unchanged
  <2>6. UNCHANGED Stream!vars
    BY <2>1 DEF Stream!vars
  <2> QED  BY <2>5, <2>6
<1>6. CASE LoadEmpty /\ ~(empties < MaxEmptyReads)
  BY <1>1, <1>6, LoadFails DEF LoadEmpty
<1> QED  BY <1>2, <1>3, <1>4, <1>5, <1>6

\* A piece arrived.
LEMMA PieceStep ==
  ASSUME ReaderInv, NEW k \in 1 .. BufSize, LoadPiece(k)
  PROVE  ReaderInv' /\ (Stream!Next \/ UNCHANGED Stream!vars)
<1>1. UNCHANGED << stream, streaming, end, err, op, job, ret, pos >>
  BY DEF LoadPiece, Working
<1>2. BufferInv' /\ Consumed' = Consumed
  <2>1. k \in Nat
    BY BufferAssumption
  <2> QED  BY <2>1, LoadBuffer DEF ReaderInv
<1>3. ReaderInv'
  BY <1>1, <1>2, Unchanged
<1>4. UNCHANGED Stream!vars
  BY <1>1 DEF Stream!vars
<1> QED  BY <1>3, <1>4

\* An operation is called: a healthy reader starts at the position, and one
\* that failed reads no number.
LEMMA CallStep ==
  ASSUME ReaderInv, NEW o \in Ops, Call(o)
  PROVE  ReaderInv' /\ (Stream!Next \/ UNCHANGED Stream!vars)
<1>1. /\ op = Idle /\ op' = o /\ ret' = Stream!NoReturn
      /\ UNCHANGED << stream, streaming, end, rest, avail, pending, err, empties, pos >>
      /\ BufferInv /\ JobTypes /\ job.do = "none"
  BY DEF Call, ReaderInv, JobTypes
<1>2. o # Idle /\ o.kind \in Kinds /\ o.n \in Nat
  BY OpTypes
<1>3. Consumed' = Consumed /\ pos \in Nat /\ pos <= Consumed /\ Consumed \in Nat /\ Consumed <= Len(stream)
      /\ Len(stream) \in Nat /\ stream \in Seq(Nat)
  BY <1>1, BufferTypes DEF Consumed, JobTypes, BufferInv
<1>4. BufferInv'
  BY <1>1, <1>3 DEF BufferInv
<1>5. Stream!Next
  BY <1>1 DEF Stream!Next, Stream!Call
<1>6. err = "nil" => Consumed = pos
  BY <1>1 DEF ReaderInv, Progress
<1> DEFINE d == CASE o.kind \in Numbered -> IF err = "nil" THEN "varint" ELSE "got"
                  [] o.kind \in Skipped -> "skip"
                  [] o.kind \in {"Bool", "Read", "Skip"} -> "take"
                  [] o.kind = "Peek" -> "peek"
           n == IF o.kind = "Bool" THEN 1 ELSE IF o.kind \in {"Read", "Skip"} THEN o.n ELSE 0
<1>7. \/ o.kind \in Numbered /\ d = (IF err = "nil" THEN "varint" ELSE "got") /\ n = 0
      \/ o.kind \in Skipped /\ d = "skip" /\ n = 0
      \/ o.kind \in {"Bool", "Read", "Skip"} /\ d = "take" /\ n = (IF o.kind = "Bool" THEN 1 ELSE o.n)
      \/ o.kind = "Peek" /\ d = "peek" /\ n = 0
  BY <1>2 DEF Kinds, Numbered, Skipped
<1>8. job' = [do |-> d, used |-> 0, v |-> 0, n |-> n, data |-> << >>]
  <2>1. CASE o.kind \in Numbered
    BY <2>1 DEF Call, Numbered, Skipped, Job
  <2>2. CASE o.kind \in Skipped
    BY <2>2 DEF Call, Numbered, Skipped, Job
  <2>3. CASE o.kind = "Bool"
    BY <2>3 DEF Call, Numbered, Skipped, Job
  <2>4. CASE o.kind \in {"Read", "Skip"}
    BY <2>4 DEF Call, Numbered, Skipped, Job
  <2>5. CASE o.kind = "Peek"
    BY <2>5 DEF Call, Numbered, Skipped, Job
  <2> QED  BY <1>2, <2>1, <2>2, <2>3, <2>4, <2>5 DEF Kinds, Numbered, Skipped
<1> HIDE DEF d, n
<1>9. d \in Steps /\ n \in Nat /\ d # "none"
  BY <1>2, <1>7 DEF Steps
<1>10. /\ job'.do = d /\ job'.used = 0 /\ job'.v = 0 /\ job'.n = n /\ job'.data = << >>
       /\ job' \in [do : Steps, used : Nat, v : Int, n : Nat, data : Seq(Nat)]
  BY <1>8, <1>9
<1>11. JobTypes'
  <2>1. /\ d \in {"varint", "scan", "got", "size"} => o.kind \in Numbered
        /\ d = "skip" => o.kind \in Skipped
        /\ d = "take" => o.kind \in Taken
        /\ d = "peek" => o.kind = "Peek"
    BY <1>7 DEF Taken
  <2> QED  BY <1>1, <1>2, <1>3, <1>9, <1>10, <2>1 DEF JobTypes
<1>12. CASE err # "nil"
  <2>1. d \in {"got", "skip", "take", "peek"} /\ (d = "got" => n = 0)
    BY <1>7, <1>12
  <2>2. Refused'
    BY <1>10, <2>1 DEF Refused, Second
  <2> QED  BY <1>1, <1>4, <1>5, <1>11, <1>12, <2>2 DEF ReaderInv
<1>13. CASE err = "nil"
  <2>1. d \in {"varint", "skip", "take", "peek"} /\ (d = "varint" => n = 0)
    BY <1>7, <1>13
  <2>2. MaxSize' \in Nat /\ 0 < MaxSize'
    <3>1. Stream!Size(IntBits) \in Nat /\ Stream!Size(IntBits) > 0 /\ Stream!Size(LongBits) \in Nat /\ Stream!Size(LongBits) > 0
      BY BitsAssumption, SizeType
    <3> QED  BY <3>1 DEF MaxSize, Width
  <2>3. ASSUME d = "varint"
        PROVE  /\ CountRead' /\ Consumed' = Start' + job'.used
               /\ job'.v = Stream!Groups(stream', Start', job'.used)
    <3>1. ~Second' /\ Start' = pos'
      BY <1>10, <2>1, <2>3 DEF Second, Start
    <3>2. Stream!Groups(stream, pos, 0) = 0
      BY <1>3, <1>6, <1>13, GroupsStep
    <3>3. pos' = pos /\ stream' = stream /\ Consumed' = pos + 0
      BY <1>1, <1>3, <1>6, <1>13
    <3> QED  BY <1>1, <1>3, <1>10, <3>1, <3>2, <3>3 DEF CountRead
  <2>4. ASSUME d = "take"
        PROVE  /\ LengthRead'
               /\ Body' \in 0 .. Consumed' /\ job'.data = SubSeq(stream', Body' + 1, Consumed')
               /\ Consumed' + job'.n = Body' + Total'
    <3>1. o.kind \notin Prefixed /\ o.kind \in {"Bool", "Read", "Skip"}
      BY <1>7, <2>4 DEF Prefixed
    <3>2. Body' = pos /\ Total' = n
      BY <1>1, <1>7, <2>4, <3>1 DEF Body, Total
    <3>3. SubSeq(stream, pos + 1, pos) = << >>
      BY <1>3, SubSeqEmpty
    <3>4. Consumed' = pos
      BY <1>3, <1>6, <1>13
    <3>5. LengthRead'
      BY <1>1, <3>1 DEF LengthRead
    <3>6. pos \in 0 .. pos
      BY <1>3
    <3> QED  BY <1>1, <1>10, <3>2, <3>3, <3>4, <3>5, <3>6
  <2>5. Consumed' = pos' /\ Consumed' = pos' + job'.used /\ job'.used = 0
    BY <1>1, <1>3, <1>6, <1>10, <1>13
  <2>6. job'.used < MaxSize'
    BY <1>10, <2>2
  <2>7. \A p : \A i \in 1 .. job'.used : Stream!More(stream'[p + i])
    BY <2>5
  <2>8. Progress'
    BY <1>9, <1>10, <2>1, <2>3, <2>4, <2>5, <2>6, <2>7 DEF Progress
  <2> QED  BY <1>1, <1>4, <1>5, <1>11, <1>13, <2>8 DEF ReaderInv
<1> QED  BY <1>12, <1>13

(***************************************************************************)
(* The theorems.                                                           *)
(***************************************************************************)

\* A reader at the start.
LEMMA InitStep ==
  ASSUME Init
  PROVE  ReaderInv /\ Stream!Init
<1>1. stream \in Seq(Nat)
  <2> DEFINE S == 0 .. 2 * Stream!Group - 1
  <2>1. S \subseteq Nat
    BY GroupType
  <2>2. stream \in Seq(S)
    BY DEF Init
  <2> HIDE DEF S
  <2> QED  BY <2>1, <2>2, SeqMonotonic
<1>2. /\ streaming \in BOOLEAN /\ end \in {"eof", "err"} /\ (~streaming => end = "eof")
      /\ pending = "nil" /\ err = "nil" /\ empties = 0 /\ op = Idle /\ job = Job("none") /\ pos = 0
      /\ ret = Stream!NoReturn
  BY DEF Init
<1>3. \/ streaming /\ rest = stream /\ avail = << >>
      \/ ~streaming /\ rest = << >> /\ avail = stream
  BY <1>2 DEF Init
<1>4. Len(stream) \in Nat /\ Consumed = 0 /\ Len(<< >>) = 0
  BY <1>1, <1>3 DEF Consumed
<1>5. /\ rest \in Seq(Nat) /\ avail \in Seq(Nat)
      /\ Len(avail) + Len(rest) <= Len(stream)
      /\ \A i \in 1 .. Len(avail) : avail[i] = stream[Consumed + i]
      /\ \A i \in 1 .. Len(rest) : rest[i] = stream[Len(stream) - Len(rest) + i]
  <2>1. CASE streaming /\ rest = stream /\ avail = << >>
    BY <1>1, <1>4, <2>1
  <2>2. CASE ~streaming /\ rest = << >> /\ avail = stream
    BY <1>1, <1>4, <2>2
  <2> QED  BY <1>3, <2>1, <2>2
<1>6. BufferInv
  BY <1>1, <1>2, <1>3, <1>5, BufferAssumption DEF BufferInv
<1>7. JobTypes /\ job.do = "none"
  BY <1>2, <1>4, IdleJob DEF JobTypes
<1>8. Progress
  BY <1>2, <1>4, <1>7 DEF Progress
<1>9. Stream!Init
  BY <1>2 DEF Stream!Init
<1> QED  BY <1>2, <1>6, <1>7, <1>8, <1>9 DEF ReaderInv

\* Every step of the reader is one of the stream, or none.
LEMMA NextStep ==
  ASSUME ReaderInv, [Next]_vars
  PROVE  ReaderInv' /\ (Stream!Next \/ UNCHANGED Stream!vars)
<1>1. CASE FastVarint
  BY <1>1, FastStep
<1>2. CASE SlowVarint
  BY <1>2, SlowStep
<1>3. CASE SkipByte
  BY <1>3, SkipStep
<1>4. CASE SkipRefused \/ Peek
  BY <1>4, RefusedStep
<1>5. CASE TakeSome
  BY <1>5, TakeStep
<1>6. CASE TakeDone
  BY <1>6, TakenStep
<1>7. CASE Got
  BY <1>7, GotStep
<1>8. CASE GotSize
  BY <1>8, SizeStep
<1>9. CASE LoadPending \/ LoadNothing \/ LoadEmpty \/ LoadEnd
  BY <1>9, LoadStep
<1>10. CASE \E k \in 1 .. BufSize : LoadPiece(k)
  BY <1>10, PieceStep
<1>11. CASE \E o \in Ops : Call(o)
  BY <1>11, CallStep
<1>12. CASE UNCHANGED vars
  <2>1. UNCHANGED << stream, streaming, end, rest, avail, pending, err, empties, op, job, ret, pos >>
    BY <1>12 DEF vars
  <2>2. Consumed' = Consumed
    BY <2>1 DEF Consumed
  <2>3. BufferInv'
    BY <2>1, <2>2 DEF ReaderInv, BufferInv
  <2> QED  BY <2>1, <2>2, <2>3, Unchanged DEF Stream!vars
<1> QED  BY <1>1, <1>2, <1>3, <1>4, <1>5, <1>6, <1>7, <1>8, <1>9, <1>10, <1>11, <1>12 DEF Next, Run

\* The invariant holds in every state.
THEOREM ReaderInvHolds == Spec => []ReaderInv
<1>1. Init => ReaderInv
  BY InitStep
<1>2. ReaderInv /\ [Next]_vars => ReaderInv'
  BY NextStep
<1> QED  BY <1>1, <1>2, PTL DEF Spec

\* Every variable keeps its type: in particular the reader never holds more
\* bytes than the source gave it, and the end of the last operation that
\* succeeded is behind none that was consumed.
THEOREM ReaderTypes == Spec => []TypeOK
<1>1. ReaderInv /\ RetTypes => TypeOK
  <2> SUFFICES ASSUME ReaderInv, RetTypes PROVE TypeOK
    OBVIOUS
  <2>1. Consumed \in 0 .. Len(stream)
    BY BufferTypes DEF ReaderInv
  <2>2. {pending, err} \subseteq {"nil", "eof", "weof", "err", "unexpected", "report", "noprogress"}
    BY DEF ReaderInv, JobTypes, BufferInv
  <2> QED  BY <2>1, <2>2 DEF TypeOK, ReaderInv, JobTypes, BufferInv, RetTypes
<1>2. Init => RetTypes
  BY DEF Init, RetTypes, Stream!NoReturn, Idle
<1>3. ReaderInv /\ RetTypes /\ [Next]_vars => RetTypes'
  <2> SUFFICES ASSUME ReaderInv, RetTypes, [Next]_vars PROVE RetTypes'
    OBVIOUS
  <2>1. Stream!Next \/ UNCHANGED Stream!vars
    BY NextStep
  <2>2. CASE UNCHANGED Stream!vars
    BY <2>2 DEF Stream!vars, RetTypes
  <2>3. CASE Stream!Call
    BY <2>3 DEF Stream!Call, Stream!NoReturn, RetTypes, Idle
  <2>4. ASSUME NEW o \in Ops, Stream!Do(o) \/ Stream!NoProgress(o) \/ Stream!StillFailed(o) PROVE RetTypes'
    <3>1. ret'.op = o
      BY <2>4 DEF Stream!Do, Stream!NoProgress, Stream!StillFailed
    <3> QED  BY <3>1 DEF RetTypes
  <2> QED  BY <2>1, <2>2, <2>3, <2>4 DEF Stream!Next
<1> QED  BY <1>1, <1>2, <1>3, ReaderInvHolds, PTL DEF Spec

\* However the bytes arrive, every operation returns and fails as it would on
\* the whole stream.
THEOREM ReaderImplements == Spec => ImplementsByteStream
<1>1. Init => Stream!Init
  BY InitStep
<1>2. ReaderInv /\ [Next]_vars => [Stream!Next]_Stream!vars
  BY NextStep
<1> QED  BY <1>1, <1>2, ReaderInvHolds, PTL DEF Spec, ImplementsByteStream, Stream!Spec

(***************************************************************************)
(* What a Writer writes.  First the groups of a number.                    *)
(***************************************************************************)

\* The powers of two of a sum.
LEMMA PowerSum ==
  ASSUME NEW m \in Nat, NEW n \in Nat
  PROVE  2 ^ (m + n) = 2 ^ m * 2 ^ n
<1> DEFINE S == 1 .. m
           T == m + 1 .. m + n
           U == 1 .. m + n
           f == [x \in (SUBSET S) \X (SUBSET T) |-> x[1] \cup x[2]]
<1>1. /\ IsFiniteSet(S) /\ Cardinality(S) = m
      /\ IsFiniteSet(T) /\ Cardinality(T) = n
      /\ IsFiniteSet(U) /\ Cardinality(U) = m + n
  <2>1. m + n - (m + 1) + 1 = n /\ (m + 1 > m + n <=> n = 0)
    OBVIOUS
  <2>2. IsFiniteSet(T) /\ Cardinality(T) = n
    <3>1. m + 1 \in Int /\ m + n \in Int
      OBVIOUS
    <3>2. IsFiniteSet(T) /\ Cardinality(T) = IF m + 1 > m + n THEN 0 ELSE m + n - (m + 1) + 1
      BY <3>1, FS_Interval
    <3> HIDE DEF T
    <3> QED  BY <2>1, <3>2
  <2>3. m + n \in Nat /\ IsFiniteSet(S) /\ Cardinality(S) = m
    BY FS_Interval
  <2>4. IsFiniteSet(U) /\ Cardinality(U) = m + n
    BY <2>3, FS_Interval
  <2> QED  BY <2>2, <2>3, <2>4
<1>2. S \cap T = {} /\ S \cup T = U
  OBVIOUS
<1> HIDE DEF S, T, U
<1>3. f \in Bijection((SUBSET S) \X (SUBSET T), SUBSET U)
  <2>1. f \in [(SUBSET S) \X (SUBSET T) -> SUBSET U]
    BY <1>2
  <2>2. ASSUME NEW x \in (SUBSET S) \X (SUBSET T), NEW y \in (SUBSET S) \X (SUBSET T), f[x] = f[y] PROVE x = y
    <3>1. x[1] \cup x[2] = y[1] \cup y[2]
      BY <2>2
    <3>2. x[1] \subseteq S /\ y[1] \subseteq S /\ x[2] \subseteq T /\ y[2] \subseteq T
      OBVIOUS
    <3>3. x[1] = y[1]
      BY <1>2, <3>1, <3>2
    <3>4. x[2] = y[2]
      BY <1>2, <3>1, <3>2
    <3> QED  BY <3>3, <3>4
  <2>3. ASSUME NEW z \in SUBSET U PROVE \E x \in (SUBSET S) \X (SUBSET T) : f[x] = z
    <3> DEFINE x == << z \cap S, z \cap T >>
    <3>1. x \in (SUBSET S) \X (SUBSET T) /\ x[1] \cup x[2] = z
      BY <1>2
    <3> HIDE DEF x
    <3>2. f[x] = z
      BY <3>1
    <3> QED  BY <3>1, <3>2
  <2> HIDE DEF f
  <2> QED  BY <2>1, <2>2, <2>3 DEF Bijection, Injection, Surjection, IsInjective
<1>4. /\ IsFiniteSet(SUBSET S) /\ Cardinality(SUBSET S) = 2 ^ m
      /\ IsFiniteSet(SUBSET T) /\ Cardinality(SUBSET T) = 2 ^ n
      /\ Cardinality(SUBSET U) = 2 ^ (m + n)
  BY <1>1, FS_SUBSET
<1>5. IsFiniteSet((SUBSET S) \X (SUBSET T)) /\ Cardinality((SUBSET S) \X (SUBSET T)) = 2 ^ m * 2 ^ n
  BY <1>4, FS_Product
<1>6. Cardinality(SUBSET U) = Cardinality((SUBSET S) \X (SUBSET T))
  <2>1. ExistsBijection((SUBSET S) \X (SUBSET T), SUBSET U)
    BY <1>3 DEF ExistsBijection
  <2> QED  BY <1>5, <2>1, FS_Bijection
<1> QED  BY <1>4, <1>5, <1>6

\* The first powers of two.
LEMMA FirstPowers == 2 ^ 0 = 1 /\ 2 ^ 1 = 2
<1>1. 1 .. 0 = {} /\ 1 .. 1 = {1} /\ SUBSET {} = {{}} /\ SUBSET {1} = {{}} \cup {{1}}
  <2>1. ASSUME NEW x \in SUBSET {1} PROVE x \in {{}} \cup {{1}}
    <3>1. x = {} \/ x = {1}
      OBVIOUS
    <3> QED  BY <3>1
  <2>2. SUBSET {} = {{}}
    OBVIOUS
  <2>3. {} \in SUBSET {1} /\ {1} \in SUBSET {1}
    OBVIOUS
  <2>4. 1 .. 0 = {} /\ 1 .. 1 = {1}
    OBVIOUS
  <2>5. SUBSET {1} = {{}} \cup {{1}}
    BY <2>1, <2>3
  <2> QED  BY <2>2, <2>4, <2>5
<1>2. Cardinality(SUBSET (1 .. 0)) = 2 ^ 0 /\ Cardinality(SUBSET (1 .. 1)) = 2 ^ 1
  <2>1. 0 \in Nat /\ 1 \in Nat
    OBVIOUS
  <2> QED  BY <2>1, PowerCounts
<1> DEFINE A == {{}}
           B == {{1}}
<1>3. Cardinality(A) = 1 /\ IsFiniteSet(A) /\ Cardinality(B) = 1 /\ IsFiniteSet(B)
  BY FS_Singleton
<1>4. A \cap B = {}
  OBVIOUS
<1>5. Cardinality(A \cup B) = 2
  <2> HIDE DEF A, B
  <2>1. Cardinality(A \cup B) = Cardinality(A) + Cardinality(B) - Cardinality(A \cap B)
    BY <1>3, FS_Union
  <2>2. Cardinality({}) = 0
    BY FS_EmptySet
  <2> QED  BY <1>3, <1>4, <2>1, <2>2
<1> QED  BY <1>1, <1>2, <1>3, <1>5

\* There is a power of two above every number.
LEMMA PowerExceeds == \A n \in Nat : n < 2 ^ n
<1> DEFINE S == {n \in Nat : n < 2 ^ n}
<1>1. 0 \in S
  BY FirstPowers
<1>2. ASSUME NEW n \in Nat, n \in S PROVE n + 1 \in S
  <2>1. 2 ^ (n + 1) = 2 ^ n * 2 ^ 1 /\ 2 ^ 1 = 2 /\ 2 ^ n \in Nat /\ 2 ^ n > 0
    BY FirstPowers, PowerSum, PowerType
  <2>2. n < 2 ^ n
    BY <1>2
  <2> DEFINE p == 2 ^ n
             q == 2 ^ (n + 1)
  <2>3. p \in Nat /\ n < p /\ q = p * 2
    BY <2>1, <2>2
  <2> HIDE DEF p, q
  <2>4. n + 1 < q
    BY <2>3
  <2> QED  BY <2>4 DEF q
<1>3. Nat \subseteq S
  <2> HIDE DEF S
  <2> QED  BY <1>1, <1>2, NaturalInduction
<1> QED  BY <1>3

\* The place of a group: its weight.
Weight(k) == 2 ^ (GroupBits * k)

\* Each weight is a group times the one before.
LEMMA WeightStep ==
  /\ Weight(0) = 1 /\ Weight(1) = Stream!Group
  /\ \A k \in Nat : Weight(k) \in Nat /\ Weight(k) > 0 /\ Weight(k + 1) = Weight(k) * Stream!Group
<1>1. GroupBits \in Nat \ {0}
  BY BitsAssumption
<1>2. GroupBits * 0 = 0 /\ GroupBits * 1 = GroupBits
  BY <1>1
<1>3. ASSUME NEW k \in Nat
      PROVE  Weight(k) \in Nat /\ Weight(k) > 0 /\ Weight(k + 1) = Weight(k) * Stream!Group
  <2> DEFINE m == GroupBits * k
  <2>1. m \in Nat /\ GroupBits * (k + 1) = m + GroupBits
    BY <1>1
  <2>2. 2 ^ m \in Nat /\ 2 ^ m > 0
    BY <2>1, PowerType
  <2> HIDE DEF m
  <2>3. 2 ^ (m + GroupBits) = 2 ^ m * 2 ^ GroupBits
    BY <1>1, <2>1, PowerSum
  <2> QED  BY <2>1, <2>2, <2>3 DEF Weight, Stream!Group, m
<1> QED  BY <1>2, <1>3, FirstPowers DEF Weight, Stream!Group

\* Weights grow.
LEMMA WeightMonotone ==
  ASSUME NEW j \in Nat, NEW k \in Nat, j <= k
  PROVE  Weight(j) <= Weight(k)
<1>1. GroupBits \in Nat
  BY BitsAssumption
<1>2. GroupBits * j \in Nat /\ GroupBits * k \in Nat /\ GroupBits * j <= GroupBits * k
  <2>1. GroupBits * (k - j) \in Nat
    BY <1>1
  <2>2. GroupBits * k = GroupBits * j + GroupBits * (k - j) /\ GroupBits * j \in Nat
    BY <1>1
  <2> QED  BY <2>1, <2>2
<1> QED  BY <1>2, PowerMonotone DEF Weight

\* A quotient and its remainder.
LEMMA Remainder ==
  ASSUME NEW a \in Nat, NEW g \in Nat \ {0}
  PROVE  a = g * (a \div g) + (a % g)
OBVIOUS

\* Only one quotient fits.
LEMMA OneQuotient ==
  ASSUME NEW u \in Nat, NEW g \in Nat \ {0}, NEW q \in Nat, g * q <= u, u < g * q + g
  PROVE  u \div g = q
<1> DEFINE r == u \div g
<1>1. r \in Nat /\ g * r <= u /\ u < g * r + g
  BY Quotient
<1> HIDE DEF r
<1>2. ~(r < q)
  <2> SUFFICES ASSUME r < q PROVE FALSE
    OBVIOUS
  <2> DEFINE d == q - r - 1
  <2>1. d \in Nat /\ q = r + 1 + d
    BY <1>1
  <2> HIDE DEF d
  <2>2. g * q = g * r + g + g * d /\ g * d \in Nat
    BY <1>1, <2>1
  <2> QED  BY <1>1, <2>2
<1>3. ~(q < r)
  <2> SUFFICES ASSUME q < r PROVE FALSE
    OBVIOUS
  <2> DEFINE d == r - q - 1
  <2>1. d \in Nat /\ r = q + 1 + d
    BY <1>1
  <2> HIDE DEF d
  <2>2. g * r = g * q + g + g * d /\ g * d \in Nat
    BY <1>1, <2>1
  <2> QED  BY <1>1, <2>2
<1> QED  BY <1>1, <1>2, <1>3 DEF r

\* Dividing twice is dividing by the product.
LEMMA DivideTwice ==
  ASSUME NEW u \in Nat, NEW a \in Nat \ {0}, NEW b \in Nat \ {0}
  PROVE  u \div (a * b) = (u \div a) \div b
<1> DEFINE q == u \div a
           r == q \div b
           c == a * b
<1>1. q \in Nat /\ a * q <= u /\ u < a * q + a
  BY Quotient
<1>2. r \in Nat /\ b * r <= q /\ q < b * r + b
  BY <1>1, Quotient
<1>3. c \in Nat \ {0}
  BY DEF c
<1> HIDE DEF q, r
<1>4. c * r <= u
  <2> DEFINE d == q - b * r
  <2>1. d \in Nat /\ q = b * r + d
    BY <1>1, <1>2
  <2> HIDE DEF d
  <2>2. a * q = c * r + a * d /\ a * d \in Nat
    BY <1>2, <2>1
  <2>3. c * r \in Nat
    BY <1>2, <1>3
  <2> QED  BY <1>1, <2>2, <2>3
<1>5. u < c * r + c
  <2> DEFINE d == b * r + b - q - 1
  <2>1. d \in Nat /\ b * r + b = q + 1 + d
    BY <1>1, <1>2
  <2> HIDE DEF d
  <2>2. c * r + c = a * q + a + a * d /\ a * d \in Nat /\ a * q \in Nat
    <3>1. c * r + c = a * (b * r + b)
      BY <1>2
    <3>2. a * (q + 1 + d) = a * q + a + a * d
      BY <1>1, <2>1
    <3> QED  BY <1>1, <2>1, <3>1, <3>2
  <2> QED  BY <1>1, <2>2
<1> HIDE DEF c
<1>6. u \div c = r
  BY <1>2, <1>3, <1>4, <1>5, OneQuotient
<1> QED  BY <1>6 DEF c, q, r

\* A group of a number, and what is above it.
LEMMA DigitStep ==
  ASSUME NEW u \in Nat, NEW k \in Nat, NEW q, q = u \div Weight(k), NEW r, r = u \div Weight(k + 1)
  PROVE  /\ q \in Nat /\ r \in Nat
         /\ Writer!Digit(u, k + 1) = q % Stream!Group
         /\ Writer!Digit(u, k + 1) \in Nat /\ Writer!Digit(u, k + 1) < Stream!Group
         /\ q = Stream!Group * r + Writer!Digit(u, k + 1)
<1> DEFINE w == Weight(k)
           g == Stream!Group
           d == Writer!Digit(u, k + 1)
<1>1. w \in Nat \ {0} /\ g \in Nat \ {0} /\ Weight(k + 1) = w * g
  BY WeightStep, GroupType
<1>2. d = q % g
  <2>1. k + 1 - 1 = k
    OBVIOUS
  <2> QED  BY <2>1 DEF Writer!Digit, Writer!Group, Stream!Group, Weight
<1> HIDE DEF w, g, d
<1>3. q \in Nat
  BY <1>1 DEF w
<1>4. r = q \div g
  <2>1. u \div (w * g) = (u \div w) \div g
    BY <1>1, DivideTwice
  <2> QED  BY <1>1, <2>1 DEF w
<1>5. r \in Nat /\ q % g \in Nat /\ q % g < g /\ q = g * r + (q % g)
  <2>1. q % g \in Nat /\ q % g < g
    BY <1>1, <1>3
  <2>2. q \div g \in Nat
    BY <1>1, <1>3
  <2>3. q = g * (q \div g) + (q % g)
    BY <1>1, <1>3, Remainder
  <2> QED  BY <1>4, <2>1, <2>2, <2>3
<1> QED  BY <1>2, <1>3, <1>5 DEF g, d

\* Bytes with the groups of a number have its value, and what is above them.
LEMMA GroupsOfDigits ==
  ASSUME NEW s \in Seq(Nat), NEW p \in Nat, NEW u \in Nat, NEW n \in Nat, p + n <= Len(s),
         \A i \in 1 .. n : s[p + i] % Stream!Group = Writer!Digit(u, i)
  PROVE  Stream!Groups(s, p, n) + Weight(n) * (u \div Weight(n)) = u
<1> DEFINE T == {k \in 0 .. n : Stream!Groups(s, p, k) + Weight(k) * (u \div Weight(k)) = u}
<1>1. 0 \in T
  <2>1. Stream!Groups(s, p, 0) = 0
    BY GroupsStep
  <2>2. Weight(0) = 1 /\ u \div 1 = u
    BY WeightStep
  <2> QED  BY <2>1, <2>2
<1>2. ASSUME NEW k \in 1 .. n, k - 1 \in T PROVE k \in T
  <2> DEFINE j == k - 1
             w == Weight(j)
             g == Stream!Group
             q == u \div w
             r == u \div Weight(k)
             d == Writer!Digit(u, k)
             a == Stream!Groups(s, p, j)
  <2>1. j \in Nat /\ k = j + 1 /\ p + k <= Len(s) /\ k \in Nat /\ k > 0 /\ p + j <= Len(s)
    OBVIOUS
  <2>2. w \in Nat /\ g \in Nat /\ Weight(k) = w * g
    BY <2>1, WeightStep, GroupType
  <2>3. q \in Nat /\ d \in Nat /\ r \in Nat /\ q = g * r + d
    <3>1. q = u \div Weight(j) /\ r = u \div Weight(j + 1) /\ d = Writer!Digit(u, j + 1)
      BY <2>1
    <3> HIDE DEF q, r, d, j, g
    <3>2. q \in Nat /\ d \in Nat /\ r \in Nat /\ q = Stream!Group * r + d
      BY <2>1, <3>1, DigitStep
    <3> QED  BY <3>2 DEF g
  <2>5. Stream!Groups(s, p, k) = a + GroupAt(s, p, k) /\ a \in Nat
    BY <2>1, GroupsStep
  <2>6. GroupAt(s, p, k) = d * w
    <3>1. s[p + k] % Stream!Group = d
      OBVIOUS
    <3> QED  BY <3>1 DEF GroupAt, Weight
  <2>7. a + w * q = u
    BY <1>2
  <2> HIDE DEF T, w, g, q, r, d, a
  <2>8. w * q = w * g * r + d * w
    BY <2>2, <2>3
  <2>9. w * g * r \in Nat /\ d * w \in Nat /\ w * q \in Nat
    <3>1. w * g \in Nat
      BY <2>2
    <3> QED  BY <2>2, <2>3, <3>1
  <2>10. a + d * w + (w * g) * r = u
    BY <2>5, <2>7, <2>8, <2>9
  <2>11. Stream!Groups(s, p, k) + Weight(k) * r = u
    BY <2>2, <2>5, <2>6, <2>10
  <2> QED  BY <2>11 DEF T, r
<1>3. n \in T
  <2> HIDE DEF T
  <2>1. 0 .. n \subseteq T
    BY <1>1, <1>2, BoundedInduction
  <2> QED  BY <2>1
<1> QED  BY <1>3

\* The groups that matter: they hold the number, and fewer do not.
Encodes(u, n) == n \in Nat \ {0} /\ u < Weight(n) /\ \A k \in 1 .. n - 1 : u >= Weight(k)

\* There are so many.
LEMMA DigitsType ==
  ASSUME NEW u \in Nat
  PROVE  Encodes(u, Writer!Digits(u))
<1> DEFINE Enough == {k \in Nat \ {0} : u < Weight(k)}
           Fits(n) == Writer!Holds(u, n) /\ \A k \in 1 .. n - 1 : ~Writer!Holds(u, k)
<1>1. u + 1 \in Enough
  <2> DEFINE m == u + 1
             b == GroupBits * m
  <2>1. m \in Nat /\ b \in Nat /\ m <= b
    <3>1. GroupBits \in Nat /\ GroupBits >= 1
      BY BitsAssumption
    <3>2. GroupBits * m = m + (GroupBits - 1) * m /\ (GroupBits - 1) * m \in Nat
      BY <3>1
    <3> QED  BY <3>1, <3>2
  <2> HIDE DEF b
  <2>2. m < 2 ^ m /\ 2 ^ m <= 2 ^ b /\ 2 ^ m \in Nat /\ 2 ^ b \in Nat
    BY <2>1, PowerExceeds, PowerMonotone, PowerType
  <2>3. u < 2 ^ b
    BY <2>2
  <2> QED  BY <2>3 DEF Weight, b
<1>2. PICK n \in Enough : \A k \in Enough : n <= k
  <2>1. Enough \subseteq Nat /\ Enough # {}
    BY <1>1
  <2> HIDE DEF Enough
  <2> QED  BY <2>1, LeastNatural
<1>3. n \in 1 .. u + 1
  BY <1>1, <1>2
<1>4. \A k \in Nat : Writer!Holds(u, k) <=> u < Weight(k)
  BY DEF Writer!Holds, Weight
<1>5. Fits(n)
  <2>1. ASSUME NEW k \in 1 .. n - 1 PROVE ~(u < Weight(k))
    BY <1>2, <1>3
  <2>2. Writer!Holds(u, n)
    BY <1>2, <1>4
  <2> QED  BY <1>3, <1>4, <2>1, <2>2
<1> DEFINE c == CHOOSE k \in 1 .. u + 1 : Fits(k)
<1>6. c \in 1 .. u + 1 /\ Fits(c)
  <2> HIDE DEF Fits
  <2> QED  BY <1>3, <1>5
<1>7. c = Writer!Digits(u)
  BY DEF Writer!Digits
<1> HIDE DEF c
<1>8. \A k \in 1 .. c - 1 : u >= Weight(k)
  <2> SUFFICES ASSUME NEW k \in 1 .. c - 1 PROVE u >= Weight(k)
    OBVIOUS
  <2>1. k \in Nat /\ ~(u < Weight(k))
    BY <1>4, <1>6
  <2>2. Weight(k) \in Nat
    BY <2>1, WeightStep
  <2> QED  BY <2>1, <2>2
<1> QED  BY <1>4, <1>6, <1>7, <1>8 DEF Encodes

\* Bytes that are the groups of u, each but the last flagged.
IsVarint(b, u, n) ==
  /\ Encodes(u, n)
  /\ b \in Seq(Nat) /\ Len(b) = n
  /\ \A i \in 1 .. n : b[i] = Writer!Digit(u, i) + (IF i < n THEN Stream!Group ELSE 0)

\* All branches of AppendVarint write such bytes (writer.go:139).
LEMMA WritesVarint ==
  ASSUME NEW u \in Nat
  PROVE  \E n : IsVarint(Writer!AppendVarint(u), u, n)
<1> DEFINE g == Stream!Group
<1>1. /\ g \in Nat \ {0} /\ Writer!Group = g
      /\ Weight(0) = 1 /\ Weight(1) = g /\ Weight(2) = g * g
  BY WeightStep, GroupType DEF Writer!Group, Stream!Group
<1>2. 2 ^ (2 * GroupBits) = Weight(2)
  <2>1. 2 * GroupBits = GroupBits * 2
    BY BitsAssumption
  <2> QED  BY <2>1 DEF Weight
<1>3. Writer!Digit(u, 1) = u % g /\ Writer!Digit(u, 2) = (u \div g) % g
  <2>1. u \div 1 = u /\ 0 + 1 = 1 /\ 1 + 1 = 2 /\ 0 \in Nat /\ 1 \in Nat
    OBVIOUS
  <2> DEFINE a == u \div Weight(0)
             b == u \div Weight(1)
             c == u \div Weight(2)
  <2>2. a = u /\ b = u \div g
    BY <1>1, <2>1
  <2>3. b = u \div Weight(0 + 1) /\ c = u \div Weight(1 + 1)
    BY <2>1
  <2> HIDE DEF a, b, c
  <2>4. Writer!Digit(u, 0 + 1) = a % Stream!Group
    BY <2>1, <2>3, DigitStep DEF a
  <2>5. Writer!Digit(u, 1 + 1) = b % Stream!Group
    BY <2>1, <2>3, DigitStep DEF b
  <2> QED  BY <2>1, <2>2, <2>4, <2>5
<1> HIDE DEF g
<1>4. CASE u < g
  <2>1. u % g = u
    BY <1>1, <1>4
  <2>2. Writer!AppendVarint(u) = << u >>
    BY <1>1, <1>4 DEF Writer!AppendVarint
  <2>3. Encodes(u, 1)
    BY <1>1, <1>4 DEF Encodes
  <2>4. IsVarint(<< u >>, u, 1)
    BY <1>3, <2>1, <2>3 DEF IsVarint
  <2> QED  BY <2>2, <2>4
<1>5. CASE ~(u < g) /\ u < Weight(2)
  <2> DEFINE b == << (u % g) + g, u \div g >>
  <2>1. u % g \in Nat /\ u \div g \in Nat /\ u \div g < g
    <3> DEFINE q == u \div g
    <3>1. q \in Nat /\ g * q <= u /\ u < g * g
      BY <1>1, <1>5, Quotient
    <3> HIDE DEF q
    <3>2. q < g
      <4> SUFFICES ASSUME ~(q < g) PROVE FALSE
        OBVIOUS
      <4> DEFINE d == q - g
      <4>1. d \in Nat /\ q = g + d
        BY <1>1, <3>1
      <4> HIDE DEF d
      <4>2. g * q = g * g + g * d /\ g * d \in Nat /\ g * g \in Nat
        BY <1>1, <4>1
      <4> QED  BY <3>1, <4>2
    <3> QED  BY <1>1, <3>1, <3>2 DEF q
  <2>2. (u \div g) % g = u \div g /\ (u \div g) % (2 * g) = u \div g
    BY <1>1, <2>1
  <2>3. Writer!AppendVarint(u) = b
    BY <1>1, <1>2, <1>5, <2>2 DEF Writer!AppendVarint, Writer!Flagged
  <2>4. Encodes(u, 2)
    BY <1>1, <1>5 DEF Encodes
  <2>5. IsVarint(b, u, 2)
    <3>1. b \in Seq(Nat) /\ Len(b) = 2 /\ b[1] = (u % g) + g /\ b[2] = u \div g
      BY <1>1, <2>1
    <3> HIDE DEF b
    <3>2. ASSUME NEW i \in 1 .. 2 PROVE b[i] = Writer!Digit(u, i) + (IF i < 2 THEN Stream!Group ELSE 0)
      <4>1. i = 1 \/ i = 2
        OBVIOUS
      <4> QED  BY <1>3, <2>1, <2>2, <3>1, <4>1 DEF g
    <3> QED  BY <2>4, <3>1, <3>2 DEF IsVarint
  <2> QED  BY <2>3, <2>5
<1>6. CASE ~(u < g) /\ ~(u < Weight(2))
  <2> DEFINE n == Writer!Digits(u)
             b == [i \in 1 .. n |-> Writer!Digit(u, i) + (IF i < n THEN Stream!Group ELSE 0)]
  <2>1. Writer!AppendVarint(u) = b
    BY <1>1, <1>2, <1>6 DEF Writer!AppendVarint, Writer!Uvarint, g
  <2>2. Encodes(u, n) /\ n \in Nat
    BY DigitsType DEF Encodes
  <2> HIDE DEF n
  <2>3. ASSUME NEW i \in 1 .. n PROVE Writer!Digit(u, i) + (IF i < n THEN Stream!Group ELSE 0) \in Nat
    <3>1. i - 1 \in Nat /\ i - 1 + 1 = i
      BY <2>2
    <3>2. Writer!Digit(u, i) \in Nat
      BY <3>1, DigitStep
    <3> QED  BY <3>2, GroupType
  <2>4. b \in Seq(Nat) /\ Len(b) = n /\ \A i \in 1 .. n : b[i] = Writer!Digit(u, i) + (IF i < n THEN Stream!Group ELSE 0)
    BY <2>2, <2>3
  <2> HIDE DEF b
  <2> QED  BY <2>1, <2>2, <2>4 DEF IsVarint
<1> QED  BY <1>4, <1>5, <1>6

\* A smaller product has a smaller factor.
LEMMA Cancel ==
  ASSUME NEW w \in Nat \ {0}, NEW a \in Nat, NEW b \in Nat, w * a < w * b
  PROVE  a < b
<1> SUFFICES ASSUME ~(a < b) PROVE FALSE
  OBVIOUS
<1> DEFINE d == a - b
<1>1. d \in Nat /\ a = b + d
  OBVIOUS
<1> HIDE DEF d
<1>2. w * a = w * b + w * d /\ w * d \in Nat /\ w * b \in Nat
  BY <1>1
<1> QED  BY <1>2

\* A width is that of its groups, and the last one may have fewer bits.
LEMMA SizeHolds ==
  ASSUME NEW w \in Nat \ {0}
  PROVE  \E c \in Nat : /\ Stream!Size(w) \in Nat \ {0}
                        /\ 2 ^ w <= Weight(Stream!Size(w)) /\ 2 ^ w \in Nat
                        /\ 2 ^ w = Weight(Stream!Size(w) - 1) * c
                        /\ Stream!LastMax(w) = c - 1
<1> DEFINE n == Stream!Size(w)
           q == GroupBits * n
           a == w + GroupBits - 1
           r == GroupBits * (n - 1)
           bits == w - r
<1>1. GroupBits \in Nat \ {0} /\ n \in Nat /\ n > 0
  BY BitsAssumption, SizeType
<1>2. n \in Nat /\ q <= a /\ a < q + GroupBits /\ a \in Nat
  <2>1. a \in Nat
    BY <1>1
  <2>2. n = a \div GroupBits
    BY DEF Stream!Size
  <2> HIDE DEF a, n
  <2>3. n \in Nat /\ GroupBits * n <= a /\ a < GroupBits * n + GroupBits
    BY <1>1, <2>1, <2>2, Quotient
  <2> QED  BY <2>1, <2>3
<1>3. q \in Nat /\ r \in Nat /\ r = q - GroupBits
  BY <1>1
<1>4. bits \in Nat /\ w = r + bits /\ w <= q
  BY <1>1, <1>2, <1>3
<1>5. Weight(n) = 2 ^ q /\ Weight(n - 1) = 2 ^ r /\ Stream!LastMax(w) = 2 ^ bits - 1
  BY DEF Weight, Stream!LastMax
<1> HIDE DEF n, q, r, bits
<1>6. 2 ^ w = 2 ^ r * 2 ^ bits
  BY <1>3, <1>4, PowerSum
<1>7. 2 ^ w <= 2 ^ q
  BY <1>3, <1>4, PowerMonotone
<1>8. 2 ^ bits \in Nat /\ 2 ^ w \in Nat
  BY <1>4, PowerType
<1> DEFINE c == 2 ^ bits
<1>9. c \in Nat /\ n \in Nat \ {0} /\ 2 ^ w <= Weight(n) /\ 2 ^ w \in Nat
      /\ 2 ^ w = Weight(n - 1) * c /\ Stream!LastMax(w) = c - 1
  BY <1>1, <1>5, <1>6, <1>7, <1>8
<1> HIDE DEF c
<1> QED  BY <1>9 DEF n

\* The bytes of a number of w bits are no more than its width has, and the last one is
\* within what that allows.
LEMMA VarintFits ==
  ASSUME NEW w \in Nat \ {0}, NEW u \in Nat, u < 2 ^ w, NEW b, NEW n, IsVarint(b, u, n)
  PROVE  /\ n \in 1 .. Stream!Size(w) /\ b \in Seq(Nat) /\ Len(b) = n
         /\ n = Stream!Size(w) => b[n] <= Stream!LastMax(w)
         /\ \A i \in 1 .. n - 1 : Stream!More(b[i])
         /\ ~Stream!More(b[n])
         /\ \A i \in 1 .. n : b[i] % Stream!Group = Writer!Digit(u, i)
         /\ u \div Weight(n) = 0
<1> DEFINE g == Stream!Group
           m == Stream!Size(w)
<1>1. PICK c \in Nat : m \in Nat \ {0} /\ 2 ^ w <= Weight(m) /\ 2 ^ w \in Nat
                       /\ 2 ^ w = Weight(m - 1) * c /\ Stream!LastMax(w) = c - 1
  BY SizeHolds
<1>2. /\ n \in Nat \ {0} /\ u < Weight(n) /\ \A k \in 1 .. n - 1 : u >= Weight(k)
      /\ b \in Seq(Nat) /\ Len(b) = n
      /\ \A i \in 1 .. n : b[i] = Writer!Digit(u, i) + (IF i < n THEN g ELSE 0)
  BY DEF IsVarint, Encodes
<1>3. \A k \in Nat : Weight(k) \in Nat /\ Weight(k) > 0
  BY WeightStep
<1>4. \A i \in 1 .. n : Writer!Digit(u, i) \in Nat /\ Writer!Digit(u, i) < g
  <2> SUFFICES ASSUME NEW i \in 1 .. n PROVE Writer!Digit(u, i) \in Nat /\ Writer!Digit(u, i) < g
    OBVIOUS
  <2>1. i - 1 \in Nat /\ i - 1 + 1 = i
    BY <1>2
  <2> QED  BY <2>1, DigitStep
<1>5. g \in Nat \ {0}
  BY GroupType
<1> HIDE DEF g, m
<1>6. n <= m
  <2> SUFFICES ASSUME ~(n <= m) PROVE FALSE
    OBVIOUS
  <2>1. m \in 1 .. n - 1
    BY <1>1, <1>2
  <2>2. u >= Weight(m) /\ Weight(m) \in Nat
    BY <1>1, <1>2, <1>3, <2>1
  <2> QED  BY <1>1, <2>2
<1>7. ASSUME n = m PROVE b[n] <= Stream!LastMax(w)
  <2> DEFINE j == n - 1
             v == Weight(j)
             q == u \div v
  <2>1. j \in Nat /\ j + 1 = n /\ v \in Nat \ {0}
    <3>1. j \in Nat /\ j + 1 = n
      BY <1>2
    <3> HIDE DEF j
    <3>2. Weight(j) \in Nat /\ Weight(j) > 0
      BY <1>3, <3>1
    <3> QED  BY <3>1, <3>2
  <2>2. b[n] = Writer!Digit(u, n)
    <3>1. n \in 1 .. n /\ ~(n < n)
      BY <1>2
    <3>2. Writer!Digit(u, n) \in Nat
      BY <1>4, <3>1
    <3> QED  BY <1>2, <3>1, <3>2
  <2>3. q \in Nat /\ Writer!Digit(u, n) = q % Stream!Group
    <3>1. Writer!Digit(u, j + 1) = q % Stream!Group /\ q \in Nat
      <4> HIDE DEF j, v
      <4> QED  BY <2>1, DigitStep DEF v
    <3> QED  BY <2>1, <3>1
  <2> HIDE DEF q
  <2>4. q % Stream!Group <= q
    BY <2>3, GroupType
  <2>5. v * q <= u
    <3> HIDE DEF v
    <3> QED  BY <2>1, Quotient DEF q
  <2>6. 2 ^ w = v * c
    BY <1>1, <1>7
  <2>7. q < c
    <3> HIDE DEF v
    <3>1. v * q < v * c
      <4>1. v * q \in Nat
        BY <2>1, <2>3
      <4> QED  BY <1>1, <2>5, <2>6, <4>1
    <3> QED  BY <2>1, <2>3, <3>1, Cancel
  <2>8. q <= c - 1
    BY <2>3, <2>7
  <2>9. q % Stream!Group \in Nat
    BY <2>3, GroupType
  <2> QED  BY <1>1, <2>2, <2>3, <2>4, <2>8, <2>9
<1>8. ASSUME NEW i \in 1 .. n - 1 PROVE Stream!More(b[i])
  <2>1. i \in 1 .. n /\ i < n
    BY <1>2
  <2>2. b[i] = Writer!Digit(u, i) + g /\ Writer!Digit(u, i) \in Nat
    BY <1>2, <1>4, <2>1
  <2>3. b[i] >= g
    BY <1>5, <2>2
  <2> QED  BY <2>3 DEF Stream!More, g
<1>9. ~Stream!More(b[n])
  <2>1. n \in 1 .. n /\ ~(n < n)
    BY <1>2
  <2>2. b[n] = Writer!Digit(u, n) + 0 /\ Writer!Digit(u, n) \in Nat /\ Writer!Digit(u, n) < g
    BY <1>2, <1>4, <2>1
  <2>3. ~(b[n] >= g)
    BY <1>5, <2>2
  <2> QED  BY <2>3 DEF Stream!More, g
<1>10. ASSUME NEW i \in 1 .. n PROVE b[i] % g = Writer!Digit(u, i)
  <2> DEFINE d == Writer!Digit(u, i)
  <2>1. d \in Nat /\ d < g /\ (b[i] = d \/ b[i] = d + g)
    BY <1>2, <1>4
  <2> HIDE DEF d
  <2>2. d % g = d /\ (d + g) % g = d
    BY <1>5, <2>1
  <2> QED  BY <2>1, <2>2 DEF d
<1>11. u \div Weight(n) = 0
  <2> DEFINE v == Weight(n)
  <2>1. v \in Nat \ {0} /\ u < v
    BY <1>2, <1>3
  <2> HIDE DEF v
  <2>2. 0 \in Nat /\ v * 0 <= u /\ u < v * 0 + v
    BY <2>1
  <2>3. u \div v = 0
    BY <2>1, <2>2, OneQuotient
  <2> QED  BY <2>3 DEF v
<1>12. n \in 1 .. m
  BY <1>1, <1>2, <1>6
<1> QED  BY <1>2, <1>7, <1>8, <1>9, <1>10, <1>11, <1>12 DEF g, m

\* Zigzag and back.
LEMMA ZigZagBack ==
  ASSUME NEW w \in Nat \ {0}, NEW n \in Signed(w)
  PROVE  /\ n \in Int /\ Writer!ZigZagged(n) \in Nat /\ Writer!ZigZagged(n) < 2 ^ w
         /\ Stream!ZigZag(Writer!ZigZagged(n)) = n
<1> DEFINE h == 2 ^ (w - 1)
<1>1. h \in Nat /\ 2 ^ w = h * 2
  <2>1. w - 1 \in Nat /\ w - 1 + 1 = w
    OBVIOUS
  <2>2. 2 ^ (w - 1 + 1) = 2 ^ (w - 1) * 2 ^ 1
    BY <2>1, PowerSum
  <2> QED  BY <2>1, <2>2, PowerType, FirstPowers
<1> HIDE DEF h
<1>2. n \in -h .. h - 1
  BY DEF Signed, h
<1>3. n \in Int /\ -h <= n /\ n < h
  BY <1>1, <1>2
<1>4. CASE n >= 0
  <2>1. Writer!ZigZagged(n) = 2 * n
    BY <1>4 DEF Writer!ZigZagged
  <2>2. 2 * n \in Nat /\ 2 * n < h * 2 /\ (2 * n) % 2 = 0 /\ (2 * n) \div 2 = n
    BY <1>1, <1>3, <1>4
  <2> QED  BY <1>1, <1>3, <2>1, <2>2 DEF Stream!ZigZag
<1>5. CASE ~(n >= 0)
  <2>1. Writer!ZigZagged(n) = -2 * n - 1
    BY <1>5 DEF Writer!ZigZagged
  <2> DEFINE u == -2 * n - 1
  <2>2. u \in Nat /\ u < h * 2 /\ u % 2 = 1 /\ (u + 1) \div 2 = -n /\ -(-n) = n
    BY <1>1, <1>3, <1>5
  <2> HIDE DEF u
  <2>3. Stream!ZigZag(u) = n
    BY <2>2 DEF Stream!ZigZag
  <2> QED  BY <1>1, <1>3, <2>1, <2>2, <2>3 DEF u
<1> QED  BY <1>4, <1>5

\* A number that was written is bytes, and where they are in a stream it is read.
LEMMA NumberReadsBack ==
  ASSUME NEW w \in Nat \ {0}, NEW n \in Signed(w)
  PROVE  /\ Writer!WriteNumber(n) \in Seq(Nat) /\ Len(Writer!WriteNumber(n)) \in Nat \ {0}
         /\ \A s \in Seq(Nat), p \in Nat : \A e, eof :
              /\ p + Len(Writer!WriteNumber(n)) <= Len(s)
              /\ \A i \in 1 .. Len(Writer!WriteNumber(n)) : s[p + i] = Writer!WriteNumber(n)[i]
              => Stream!Varint(s, e, p, w, eof) = Stream!Ok(<< n >>, Len(Writer!WriteNumber(n)))
<1> DEFINE u == Writer!ZigZagged(n)
           b == Writer!WriteNumber(n)
<1>1. u \in Nat /\ u < 2 ^ w /\ Stream!ZigZag(u) = n
  BY ZigZagBack
<1>2. b = Writer!AppendVarint(u)
  BY DEF Writer!WriteNumber
<1> HIDE DEF u, b
<1>3. PICK k : IsVarint(b, u, k)
  BY <1>1, <1>2, WritesVarint
<1>4. /\ k \in 1 .. Stream!Size(w) /\ b \in Seq(Nat) /\ Len(b) = k
      /\ k = Stream!Size(w) => b[k] <= Stream!LastMax(w)
      /\ \A i \in 1 .. k - 1 : Stream!More(b[i])
      /\ ~Stream!More(b[k])
      /\ \A i \in 1 .. k : b[i] % Stream!Group = Writer!Digit(u, i)
      /\ u \div Weight(k) = 0
  BY <1>1, <1>3, VarintFits
<1>5. k \in Nat \ {0} /\ Stream!Size(w) \in Nat
  BY <1>4, SizeType
<1>6. ASSUME NEW s \in Seq(Nat), NEW p \in Nat, NEW e, NEW eof,
             p + k <= Len(s), \A i \in 1 .. k : s[p + i] = b[i]
      PROVE  Stream!Varint(s, e, p, w, eof) = Stream!Ok(<< n >>, k)
  <2>1. Stream!Ends(s, p, w, k)
    <3>1. k \in 1 .. k /\ \A i \in 1 .. k - 1 : i \in 1 .. k
      BY <1>5
    <3>2. \A i \in 1 .. k - 1 : Stream!More(s[p + i])
      BY <1>4, <1>6, <3>1
    <3> QED  BY <1>4, <1>6, <3>1, <3>2 DEF Stream!Ends
  <2>2. k = Stream!Size(w) => s[p + k] <= Stream!LastMax(w)
    <3>1. k \in 1 .. k
      BY <1>5
    <3> QED  BY <1>4, <1>6, <3>1
  <2>3. Stream!Groups(s, p, k) = u
    <3>1. \A i \in 1 .. k : s[p + i] % Stream!Group = Writer!Digit(u, i)
      BY <1>4, <1>6
    <3>2. Stream!Groups(s, p, k) + Weight(k) * (u \div Weight(k)) = u
      BY <1>1, <1>5, <1>6, <3>1, GroupsOfDigits
    <3>3. Weight(k) \in Nat /\ Stream!Groups(s, p, k) \in Nat
      BY <1>5, <1>6, WeightStep, GroupsStep
    <3> QED  BY <1>4, <3>2, <3>3
  <2> QED  BY <1>1, <2>1, <2>2, <2>3, VarintEnds
<1> QED  BY <1>4, <1>5, <1>6 DEF b

(***************************************************************************)
(* What it writes one after the other.                                     *)
(***************************************************************************)

Written(numbers, i) == Writer!WriteNumber(numbers[i].n)

\* The width a number was written with.
BitsOf(x) == IF x.as = "Int" THEN IntBits ELSE LongBits

\* A number fits its width.
LEMMA NumberFits ==
  ASSUME NEW x \in Numbers
  PROVE  BitsOf(x) \in Nat \ {0} /\ x.n \in Signed(BitsOf(x)) /\ x.as \in {"Int", "Long"}
<1>1. CASE x \in [as : {"Int"}, n : Signed(IntBits)]
  BY <1>1, BitsAssumption DEF BitsOf
<1>2. CASE x \in [as : {"Long"}, n : Signed(LongBits)]
  BY <1>2, BitsAssumption DEF BitsOf
<1> QED  BY <1>1, <1>2 DEF Numbers

\* Each number is some bytes.
LEMMA WrittenType ==
  ASSUME NEW numbers \in Seq(Numbers), NEW i \in 1 .. Len(numbers)
  PROVE  Written(numbers, i) \in Seq(Nat) /\ Len(Written(numbers, i)) \in Nat \ {0}
<1>1. numbers[i] \in Numbers
  OBVIOUS
<1>2. BitsOf(numbers[i]) \in Nat \ {0} /\ numbers[i].n \in Signed(BitsOf(numbers[i]))
  BY <1>1, NumberFits
<1> QED  BY <1>2, NumberReadsBack DEF Written

\* f appends the numbers, up to the k-th.
Appends(f, numbers, k) ==
  /\ f \in [0 .. k -> Seq(Nat)]
  /\ f[0] = << >>
  /\ \A i \in 1 .. k : f[i] = f[i - 1] \o Written(numbers, i)

\* The function that Encoded defines by recursion exists.
LEMMA EncodedAppends ==
  ASSUME NEW numbers \in Seq(Numbers), NEW k \in 0 .. Len(numbers)
  PROVE  \E f : Appends(f, numbers, k) /\ Encoded(numbers, k) = f[k]
<1> DEFINE S == Seq(Nat)
           more(v, i) == v \o Written(numbers, i)
           body(g, i) == IF i = 0 THEN << >> ELSE g[i - 1] \o Writer!WriteNumber(numbers[i].n)
           buf == CHOOSE g : g = [i \in 0 .. k |-> body(g, i)]
           step == [i \in 1 .. k |-> [v \in S |-> more(v, i)]]
<1>1. Encoded(numbers, k) = buf[k]
  BY DEF Encoded
<1>2. \A i \in 1 .. k : \A v \in S : more(v, i) \in S
  <2> SUFFICES ASSUME NEW i \in 1 .. k, NEW v \in S PROVE more(v, i) \in S
    OBVIOUS
  <2>1. Written(numbers, i) \in Seq(Nat)
    BY WrittenType
  <2> QED  BY <2>1
<1>3. \A g : \A i \in 0 .. k : body(g, i) = IF i = 0 THEN << >> ELSE more(g[i - 1], i)
  BY DEF Written
<1>4. << >> \in S /\ k \in Nat
  OBVIOUS
<1> HIDE DEF more, body, S
<1>5. step \in [1 .. k -> [S -> S]] /\ \A i \in 1 .. k : \A v \in S : step[i][v] = more(v, i)
  BY <1>2
<1> HIDE DEF step
<1>6. PICK f : IsRecursive(f, k, S, << >>, step)
  <2>1. IsStep(step, k, S)
    BY <1>5 DEF IsStep
  <2> QED  BY <1>4, <2>1, Recursion
<1>7. ASSUME NEW i \in 1 .. k PROVE f[i] = more(f[i - 1], i)
  <2>1. i - 1 \in 0 .. k
    BY <1>4
  <2>2. f[i - 1] \in S /\ f[i] = step[i][f[i - 1]]
    BY <1>6, <2>1 DEF IsRecursive
  <2> QED  BY <1>5, <2>2
<1>8. f = [i \in 0 .. k |-> body(f, i)]
  <2>1. ASSUME NEW i \in 0 .. k PROVE f[i] = body(f, i)
    <3>1. i = 0 \/ i \in 1 .. k
      BY <1>4
    <3> QED  BY <1>3, <1>6, <1>7, <3>1 DEF IsRecursive
  <2> QED  BY <1>6, <2>1 DEF IsRecursive
<1>9. buf = [i \in 0 .. k |-> body(buf, i)]
  BY <1>8
<1> HIDE DEF buf
<1>10. buf[0] = << >> /\ \A i \in 1 .. k : buf[i] = more(buf[i - 1], i)
  <2>1. \A i \in 0 .. k : buf[i] = body(buf, i)
    BY <1>9
  <2>2. 0 \in 0 .. k /\ \A i \in 1 .. k : i \in 0 .. k /\ i # 0
    BY <1>4
  <2> QED  BY <1>3, <2>1, <2>2
<1>11. \A i \in 0 .. k : buf[i] \in S
  <2> DEFINE T == {i \in 0 .. k : buf[i] \in S}
  <2>1. 0 \in T
    BY <1>4, <1>10
  <2>2. ASSUME NEW i \in 1 .. k, i - 1 \in T PROVE i \in T
    <3>1. buf[i - 1] \in S /\ i \in 0 .. k
      BY <2>2
    <3>2. buf[i] = more(buf[i - 1], i) /\ more(buf[i - 1], i) \in S
      BY <1>2, <1>10, <3>1
    <3> QED  BY <3>1, <3>2
  <2> HIDE DEF T
  <2>3. 0 .. k \subseteq T
    BY <1>4, <2>1, <2>2, BoundedInduction
  <2> QED  BY <2>3 DEF T
<1>12. buf \in [0 .. k -> S]
  BY <1>9, <1>11
<1>13. Appends(buf, numbers, k)
  BY <1>10, <1>12 DEF Appends, more, S
<1> QED  BY <1>1, <1>13

\* What the buffer holds after no numbers, and after one more.
LEMMA EncodedStep ==
  ASSUME NEW numbers \in Seq(Numbers), NEW k \in 0 .. Len(numbers)
  PROVE  /\ Encoded(numbers, k) \in Seq(Nat)
         /\ k = 0 => Encoded(numbers, k) = << >>
         /\ k > 0 => Encoded(numbers, k) = Encoded(numbers, k - 1) \o Written(numbers, k)
<1>1. PICK f : Appends(f, numbers, k) /\ Encoded(numbers, k) = f[k]
  BY EncodedAppends
<1>2. k \in Nat /\ k \in 0 .. k
  OBVIOUS
<1>3. ASSUME k > 0 PROVE Encoded(numbers, k) = Encoded(numbers, k - 1) \o Written(numbers, k)
  <2> DEFINE m == k - 1
  <2>1. m \in 0 .. Len(numbers) /\ m \in Nat /\ k \in 1 .. k
    BY <1>2, <1>3
  <2>2. PICK g : Appends(g, numbers, m) /\ Encoded(numbers, m) = g[m]
    BY <2>1, EncodedAppends
  <2> DEFINE T == {i \in 0 .. m : f[i] = g[i]}
  <2>3. 0 \in T
    BY <1>1, <2>1, <2>2 DEF Appends
  <2>4. ASSUME NEW i \in 1 .. m, i - 1 \in T PROVE i \in T
    <3>1. i \in 1 .. k /\ i \in 0 .. m
      BY <2>1
    <3>2. f[i] = f[i - 1] \o Written(numbers, i) /\ g[i] = g[i - 1] \o Written(numbers, i)
      BY <1>1, <2>2, <3>1 DEF Appends
    <3> QED  BY <2>4, <3>1, <3>2
  <2>5. m \in T
    <3> HIDE DEF T, m
    <3>1. 0 .. m \subseteq T
      BY <2>1, <2>3, <2>4, BoundedInduction
    <3> QED  BY <2>1, <3>1
  <2>6. f[m] = g[m]
    BY <2>5
  <2>7. f[k] = f[m] \o Written(numbers, k)
    BY <1>1, <2>1 DEF Appends
  <2> QED  BY <1>1, <2>2, <2>6, <2>7
<1>4. k = 0 => Encoded(numbers, k) = << >>
  BY <1>1 DEF Appends
<1>5. Encoded(numbers, k) \in Seq(Nat)
  BY <1>1, <1>2 DEF Appends
<1> QED  BY <1>3, <1>4, <1>5

\* What comes later stands behind it.
LEMMA EncodedPrefix ==
  ASSUME NEW numbers \in Seq(Numbers), NEW k \in 0 .. Len(numbers), NEW n \in k .. Len(numbers)
  PROVE  /\ Len(Encoded(numbers, k)) \in Nat /\ Len(Encoded(numbers, n)) \in Nat
         /\ Len(Encoded(numbers, k)) <= Len(Encoded(numbers, n))
         /\ \A i \in 1 .. Len(Encoded(numbers, k)) : Encoded(numbers, n)[i] = Encoded(numbers, k)[i]
<1> DEFINE e(m) == Encoded(numbers, m)
           P(m) == Len(e(k)) <= Len(e(m)) /\ \A i \in 1 .. Len(e(k)) : e(m)[i] = e(k)[i]
           T == {m \in 0 .. n : m >= k => P(m)}
<1>1. k \in Nat /\ n \in Nat /\ k <= n /\ n <= Len(numbers) /\ Len(numbers) \in Nat
  OBVIOUS
<1>2. \A m \in 0 .. Len(numbers) : e(m) \in Seq(Nat)
  BY EncodedStep
<1>3. \A m \in 1 .. n : e(m) = e(m - 1) \o Written(numbers, m) /\ Written(numbers, m) \in Seq(Nat)
  <2> SUFFICES ASSUME NEW m \in 1 .. n
               PROVE  e(m) = e(m - 1) \o Written(numbers, m) /\ Written(numbers, m) \in Seq(Nat)
    OBVIOUS
  <2>1. m \in 0 .. Len(numbers) /\ m > 0 /\ m \in 1 .. Len(numbers)
    BY <1>1
  <2> QED  BY <2>1, EncodedStep, WrittenType
<1> HIDE DEF e
<1>4. \A m \in 0 .. Len(numbers) : Len(e(m)) \in Nat
  BY <1>2
<1>5. P(k)
  <2>1. Len(e(k)) \in Nat
    BY <1>4
  <2> QED  BY <2>1
<1>6. 0 \in T
  <2>1. 0 >= k => k = 0
    BY <1>1
  <2> QED  BY <1>1, <1>5, <2>1
<1>7. ASSUME NEW m \in 1 .. n, m - 1 \in T PROVE m \in T
  <2> SUFFICES ASSUME m >= k, m # k PROVE P(m)
    <3>1. m \in 0 .. n
      BY <1>1
    <3> QED  BY <1>5, <3>1
  <2> DEFINE j == m - 1
             w == Written(numbers, m)
  <2>1. j \in 0 .. Len(numbers) /\ j >= k
    BY <1>1
  <2>2. P(j)
    BY <1>7, <2>1
  <2>3. e(m) = e(j) \o w /\ w \in Seq(Nat)
    BY <1>3
  <2>4. e(j) \in Seq(Nat) /\ e(k) \in Seq(Nat)
    BY <1>2, <2>1
  <2> HIDE DEF j, w
  <2>5. Len(e(m)) = Len(e(j)) + Len(w) /\ \A i \in 1 .. Len(e(j)) : e(m)[i] = e(j)[i]
    BY <2>3, <2>4
  <2>6. Len(e(j)) \in Nat /\ Len(e(k)) \in Nat /\ Len(w) \in Nat
    BY <2>3, <2>4
  <2>7. \A i \in 1 .. Len(e(k)) : i \in 1 .. Len(e(j)) /\ e(j)[i] = e(k)[i]
    BY <2>2, <2>6
  <2>8. Len(e(k)) <= Len(e(m))
    BY <2>2, <2>5, <2>6
  <2> QED  BY <2>5, <2>7, <2>8
<1>8. n \in T
  <2> HIDE DEF T
  <2>1. 0 .. n \subseteq T
    BY <1>1, <1>6, <1>7, BoundedInduction
  <2> QED  BY <1>1, <2>1
<1>9. P(n)
  BY <1>1, <1>8
<1>10. Len(e(k)) \in Nat /\ Len(e(n)) \in Nat
  BY <1>1, <1>4
<1> QED  BY <1>9, <1>10 DEF e

\* What is appended stands behind what was there.
LEMMA Appended ==
  ASSUME NEW v \in Seq(Nat), NEW b \in Seq(Nat), NEW w, w = v \o b
  PROVE  /\ Len(v) \in Nat /\ Len(w) = Len(v) + Len(b)
         /\ \A i \in 1 .. Len(b) : w[Len(v) + i] = b[i] /\ Len(v) + i \in 1 .. Len(w)
OBVIOUS

\* Where k numbers were read the next one is read back, with its width.
LEMMA NextReadsBack ==
  ASSUME sent \in Seq(Numbers), stream = Encoded(sent, Len(sent)),
         NEW k \in 0 .. Len(sent) - 1, NEW j, j = k + 1
  PROVE  /\ End(k) \in Nat /\ End(j) \in Nat /\ End(k) < End(j)
         /\ \A eof : Stream!Varint(stream, end, End(k), BitsOf(sent[j]), eof)
                       = Stream!Ok(<< sent[j].n >>, End(j) - End(k))
<1> DEFINE n == Len(sent)
           x == sent[j]
           b == Written(sent, j)
           p == End(k)
           q == End(j)
<1>1. /\ k \in 0 .. n /\ j \in 0 .. n /\ j > 0 /\ j - 1 = k /\ n \in 0 .. n /\ n \in j .. n
      /\ j \in 1 .. n
  OBVIOUS
<1>2. x \in Numbers
  BY <1>1
<1>3. b \in Seq(Nat) /\ Len(b) \in Nat \ {0}
  BY <1>1, WrittenType
<1>4. Encoded(sent, j) = Encoded(sent, k) \o b /\ Encoded(sent, k) \in Seq(Nat)
  BY <1>1, EncodedStep
<1>5. p \in Nat /\ q = p + Len(b) /\ \A i \in 1 .. Len(b) : Encoded(sent, j)[p + i] = b[i] /\ p + i \in 1 .. q
  <2> DEFINE v == Encoded(sent, k)
             w == Encoded(sent, j)
  <2>1. v \in Seq(Nat) /\ w = v \o b /\ p = Len(v) /\ q = Len(w)
    BY <1>4 DEF End
  <2> HIDE DEF b, v, w, p, q
  <2>2. /\ Len(v) \in Nat /\ Len(w) = Len(v) + Len(b)
        /\ \A i \in 1 .. Len(b) : w[Len(v) + i] = b[i] /\ Len(v) + i \in 1 .. Len(w)
    BY <1>3, <2>1, Appended
  <2> QED  BY <2>1, <2>2 DEF w
<1>6. stream \in Seq(Nat)
  BY <1>1, EncodedStep
<1>7. q <= Len(stream) /\ \A i \in 1 .. q : stream[i] = Encoded(sent, j)[i]
  BY <1>1, EncodedPrefix DEF End
<1>8. BitsOf(x) \in Nat \ {0} /\ x.n \in Signed(BitsOf(x))
  BY <1>2, NumberFits
<1>9. b = Writer!WriteNumber(x.n)
  BY DEF Written
<1> HIDE DEF x, b, q, p, n
<1>10. \A i \in 1 .. Len(b) : stream[p + i] = b[i]
  BY <1>5, <1>7
<1>11. ASSUME NEW eof PROVE Stream!Varint(stream, end, p, BitsOf(x), eof) = Stream!Ok(<< x.n >>, Len(b))
  <2> DEFINE c == Writer!WriteNumber(x.n)
  <2>1. c = b
    BY <1>9
  <2>2. \A t \in Seq(Nat), r \in Nat : \A f, g :
          r + Len(c) <= Len(t) /\ (\A i \in 1 .. Len(c) : t[r + i] = c[i])
          => Stream!Varint(t, f, r, BitsOf(x), g) = Stream!Ok(<< x.n >>, Len(c))
    BY <1>8, NumberReadsBack
  <2> HIDE DEF c
  <2>3. p + Len(c) <= Len(stream) /\ \A i \in 1 .. Len(c) : stream[p + i] = c[i]
    BY <1>5, <1>7, <1>10, <2>1
  <2>4. Stream!Varint(stream, end, p, BitsOf(x), eof) = Stream!Ok(<< x.n >>, Len(c))
    BY <1>5, <1>6, <2>2, <2>3
  <2> QED  BY <2>1, <2>4
<1>12. q \in Nat /\ p < q /\ Len(b) = q - p
  BY <1>3, <1>5
<1> QED  BY <1>5, <1>11, <1>12 DEF x, p, q

\* Only one of the numbers ends at a position.
LEMMA EndsApart ==
  ASSUME sent \in Seq(Numbers), stream = Encoded(sent, Len(sent)),
         NEW j \in 0 .. Len(sent), NEW k \in 0 .. Len(sent), End(j) = End(k)
  PROVE  j = k
<1>1. ASSUME NEW a \in 0 .. Len(sent), NEW b \in 0 .. Len(sent), a < b
      PROVE  End(a) < End(b)
  <2> DEFINE c == a + 1
  <2>1. a \in 0 .. Len(sent) - 1 /\ c \in 0 .. Len(sent) /\ b \in c .. Len(sent) /\ c = a + 1
    BY <1>1
  <2> HIDE DEF c
  <2>2. End(a) \in Nat /\ End(c) \in Nat /\ End(a) < End(c)
    BY <2>1, NextReadsBack
  <2>3. End(c) <= End(b) /\ End(b) \in Nat
    BY <2>1, EncodedPrefix DEF End
  <2> QED  BY <2>2, <2>3
<1>2. ~(End(j) < End(k)) /\ ~(End(k) < End(j))
  <2>1. End(j) \in Nat
    BY EncodedStep DEF End
  <2> QED  BY <2>1
<1>3. ~(j < k) /\ ~(k < j)
  BY <1>1, <1>2
<1>4. j \in Int /\ k \in Int
  OBVIOUS
<1> QED  BY <1>3, <1>4

(***************************************************************************)
(* What was written is read back.                                          *)
(***************************************************************************)

\* A step leaves the operation in progress, or ends it.
Goes == UNCHANGED << stream, end, op, ret, pos, err >>
Ends == op' = Idle /\ ret'.op = op /\ UNCHANGED << stream, end >>

\* An operation ends by returning.
LEMMA FinishEnds ==
  ASSUME NEW val, NEW e, NEW a, Finish(val, e, a), UNCHANGED << stream, end >>
  PROVE  Ends
<1>1. ret' = [op |-> op, val |-> IF e = "nil" THEN val ELSE << >>] /\ op' = Idle
  BY DEF Finish
<1> QED  BY <1>1 DEF Ends

\* So does every step of a reader that is working.
LEMMA RunEnds ==
  ASSUME Run
  PROVE  Goes \/ Ends
<1>1. ASSUME NEW s, Scanned(s), Unloaded PROVE Goes \/ Ends
  <2>1. UNCHANGED << stream, end >>
    BY <1>1 DEF Unloaded
  <2>2. UNCHANGED << err, op, ret, pos >> \/ Finish(<< >>, Reported(err), avail)
    BY <1>1 DEF Scanned
  <2> QED  BY <2>1, <2>2, FinishEnds DEF Goes
<1>2. CASE FastVarint
  BY <1>1, <1>2 DEF FastVarint
<1>3. CASE SlowVarint
  BY <1>1, <1>3 DEF SlowVarint
<1>4. CASE SkipByte
  <2> DEFINE a == Drop(avail, 1)
  <2>1. UNCHANGED << err, op, ret, pos >> \/ Finish(<< >>, Reported(err), a) \/ Finish(<< >>, err, a)
    BY <1>4 DEF SkipByte
  <2>2. UNCHANGED << stream, end >>
    BY <1>4 DEF SkipByte, Unloaded
  <2> HIDE DEF a
  <2> QED  BY <2>1, <2>2, FinishEnds DEF Goes
<1>5. CASE SkipRefused
  <2>1. Finish(<< >>, err, avail) /\ UNCHANGED << stream, end >>
    BY <1>5 DEF SkipRefused, Unloaded
  <2> QED  BY <2>1, FinishEnds
<1>6. CASE TakeSome
  BY <1>6 DEF TakeSome, Goes
<1>7. CASE TakeDone
  <2>1. \/ Finish(<< >>, err, avail) \/ Finish(job.data, err, avail)
        \/ Finish(job.data, Reported(err), avail)
    <3>1. CASE op.kind \in {"Skip", "SkipBytes"}
      BY <1>7, <3>1 DEF TakeDone
    <3>2. CASE op.kind = "Bool"
      BY <1>7, <3>2 DEF TakeDone
    <3>3. CASE op.kind \notin {"Skip", "SkipBytes"} /\ op.kind # "Bool"
      BY <1>7, <3>3 DEF TakeDone
    <3> QED  BY <3>1, <3>2, <3>3
  <2>2. UNCHANGED << stream, end >>
    BY <1>7 DEF TakeDone, Unloaded
  <2> QED  BY <2>1, <2>2, FinishEnds
<1>8. CASE Peek
  <2>1. Finish(<< avail[1] >>, err, avail) /\ UNCHANGED << stream, end >>
    BY <1>8 DEF Peek, Unloaded
  <2> QED  BY <2>1, FinishEnds
<1>9. CASE Got
  <2>1. \/ UNCHANGED << err, op, ret, pos >>
        \/ Finish(<< job.v >>, err, avail)
        \/ Finish(<< >>, Reported(err), avail)
        \/ Finish(<< job.v, 0 >>, err, avail)
    BY <1>9 DEF Got
  <2>2. UNCHANGED << stream, end >>
    BY <1>9 DEF Got, Unloaded
  <2> QED  BY <2>1, <2>2, FinishEnds DEF Goes
<1>10. CASE GotSize
  <2>1. Finish(<< >>, Reported(err), avail) \/ Finish(<< job.n, job.v >>, err, avail)
    BY <1>10 DEF GotSize
  <2>2. UNCHANGED << stream, end >>
    BY <1>10 DEF GotSize, Unloaded
  <2> QED  BY <2>1, <2>2, FinishEnds
<1>11. ASSUME NEW e, LoadFailed(e), UNCHANGED << stream, end >> PROVE Ends
  <2>1. \E x : Finish(<< >>, x, avail)
    BY <1>11 DEF LoadFailed
  <2> QED  BY <1>11, <2>1, FinishEnds
<1>12. CASE LoadPending
  <2>1. LoadFailed(pending) /\ UNCHANGED << stream, end >>
    BY <1>12 DEF LoadPending
  <2> QED  BY <1>11, <2>1
<1>13. CASE LoadNothing
  <2>1. LoadFailed("eof") /\ UNCHANGED << stream, end >>
    BY <1>13 DEF LoadNothing
  <2> QED  BY <1>11, <2>1
<1>14. CASE LoadEmpty
  <2>1. Working \/ (LoadFailed("noprogress") /\ UNCHANGED << stream, end >>)
    BY <1>14 DEF LoadEmpty
  <2>2. CASE Working
    BY <2>2 DEF Working, Goes
  <2> QED  BY <1>11, <2>1, <2>2
<1>15. CASE LoadEnd
  <2>1. LoadFailed(end) /\ UNCHANGED << stream, end >>
    BY <1>15 DEF LoadEnd
  <2> QED  BY <1>11, <2>1
<1>16. CASE \E k \in 1 .. BufSize : LoadPiece(k)
  BY <1>16 DEF LoadPiece, Working, Goes
<1> QED  BY <1>2, <1>3, <1>4, <1>5, <1>6, <1>7, <1>8, <1>9, <1>10, <1>12, <1>13, <1>14, <1>15, <1>16 DEF Run

\* The operations that read the next number, or look for a byte behind the last.
Fits(o, k) ==
  IF k = Len(sent) THEN o.kind = "Peek"
  ELSE o.kind \in (IF sent[k + 1].as = "Int" THEN {"Int", "SkipInt"} ELSE {"Long", "SkipLong"})

\* The operation in progress fits the number at the position and returned nothing
\* yet, and a reader that failed is behind the last one or was given nothing.
WrittenInv ==
  /\ ReaderInv
  /\ sent \in Seq(Numbers) /\ stream = Encoded(sent, Len(sent))
  /\ \E k \in 0 .. Len(sent) :
       /\ ReadAt(k)
       /\ err # "nil" => k = Len(sent) \/ err = "noprogress"
       /\ op # Idle => Fits(op, k) /\ ret = Stream!NoReturn
       /\ (op = Idle /\ err = "nil" /\ ret.op.kind \in {"Int", "Long"}) => k > 0 /\ ret.val = << sent[k].n >>

\* At the start nothing was read.
LEMMA WrittenInitStep ==
  ASSUME WrittenInit
  PROVE  WrittenInv
<1>1. /\ sent \in Seq(Numbers) /\ stream = Encoded(sent, Len(sent)) /\ Init
  BY DEF WrittenInit
<1>2. ReaderInv
  BY <1>1, InitStep
<1>3. pos = 0 /\ op = Idle /\ err = "nil" /\ ret.op.kind = "none"
  BY <1>1 DEF Init, Stream!NoReturn
<1>4. 0 \in 0 .. Len(sent)
  BY <1>1
<1>5. ReadAt(0)
  <2>1. Encoded(sent, 0) = << >>
    BY <1>1, <1>4, EncodedStep
  <2> QED  BY <1>3, <1>4, <2>1 DEF ReadAt, End
<1> QED  BY <1>1, <1>2, <1>3, <1>4, <1>5 DEF WrittenInv

\* The outcome of an operation that fits: the next number, or the end.
LEMMA FitsOutcome ==
  ASSUME sent \in Seq(Numbers), stream = Encoded(sent, Len(sent)), NEW k \in 0 .. Len(sent),
         pos = End(k), NEW o, Fits(o, k)
  PROVE  /\ k = Len(sent) => Stream!Outcome(o, stream, end, pos).err # "nil"
                             /\ Stream!Outcome(o, stream, end, pos).len = 0
         /\ k # Len(sent) =>
              /\ o.kind \in {"Int", "SkipInt", "Long", "SkipLong"} /\ End(k) \in Nat /\ End(k + 1) \in Nat
              /\ Stream!Outcome(o, stream, end, pos).err = "nil"
              /\ Stream!Outcome(o, stream, end, pos).len = End(k + 1) - End(k)
              /\ o.kind \in {"Int", "Long"} =>
                   Stream!Outcome(o, stream, end, pos).val = << sent[k + 1].n >>
<1> DEFINE out == Stream!Outcome(o, stream, end, pos)
<1>1. CASE k = Len(sent)
  <2>1. pos = Len(stream) /\ Len(stream) \in Nat /\ o.kind = "Peek"
    <3>1. Len(sent) \in 0 .. Len(sent)
      OBVIOUS
    <3>2. stream \in Seq(Nat)
      BY <3>1, EncodedStep
    <3> QED  BY <1>1, <3>2 DEF End, Fits
  <2>2. out = Stream!AtEnd(end, "eof")
    BY <2>1 DEF Stream!Outcome
  <2> HIDE DEF out
  <2>3. out.err # "nil" /\ out.len = 0
    BY <2>2 DEF Stream!AtEnd, Stream!Error
  <2> QED  BY <1>1, <2>3 DEF out
<1>2. CASE k # Len(sent)
  <2> DEFINE x == sent[k + 1]
             q == End(k + 1)
             p == End(k)
  <2>1. k \in 0 .. Len(sent) - 1
    BY <1>2
  <2>2. x.as \in {"Int", "Long"}
    <3>1. x \in Numbers
      BY <2>1
    <3> HIDE DEF x
    <3> QED  BY <3>1, NumberFits
  <2>3. p \in Nat /\ q \in Nat /\ \A eof : Stream!Varint(stream, end, p, BitsOf(x), eof) = Stream!Ok(<< x.n >>, q - p)
    <3> DEFINE j == k + 1
    <3>1. j = k + 1
      OBVIOUS
    <3> HIDE DEF j
    <3>2. /\ End(k) \in Nat /\ End(j) \in Nat
          /\ \A eof : Stream!Varint(stream, end, End(k), BitsOf(sent[j]), eof)
                        = Stream!Ok(<< sent[j].n >>, End(j) - End(k))
      BY <2>1, <3>1, NextReadsBack
    <3> QED  BY <3>2 DEF j
  <2>4. o.kind \in (IF x.as = "Int" THEN {"Int", "SkipInt"} ELSE {"Long", "SkipLong"})
    BY <1>2 DEF Fits
  <2>5. BitsOf(x) = IF x.as = "Int" THEN IntBits ELSE LongBits
    BY DEF BitsOf
  <2> HIDE DEF x, q, p
  <2>6. CASE o.kind = "Int"
    <3>1. out = Stream!Varint(stream, end, p, IntBits, "weof")
      BY <2>6 DEF Stream!Outcome, p
    <3>2. out = Stream!Ok(<< x.n >>, q - p)
      BY <2>2, <2>3, <2>4, <2>5, <2>6, <3>1
    <3> HIDE DEF out
    <3>3. out.err = "nil" /\ out.len = q - p /\ out.val = << x.n >>
      BY <3>2 DEF Stream!Ok
    <3> QED  BY <1>2, <2>3, <2>6, <3>3 DEF out, p, q, x
  <2>7. CASE o.kind = "Long"
    <3>1. out = Stream!Varint(stream, end, p, LongBits, "weof")
      BY <2>7 DEF Stream!Outcome, p
    <3>2. out = Stream!Ok(<< x.n >>, q - p)
      BY <2>2, <2>3, <2>4, <2>5, <2>7, <3>1
    <3> HIDE DEF out
    <3>3. out.err = "nil" /\ out.len = q - p /\ out.val = << x.n >>
      BY <3>2 DEF Stream!Ok
    <3> QED  BY <1>2, <2>3, <2>7, <3>3 DEF out, p, q, x
  <2>8. CASE o.kind = "SkipInt"
    <3>1. out = Stream!NoValue(Stream!Varint(stream, end, p, IntBits, "unexpected"))
      BY <2>8 DEF Stream!Outcome, p
    <3>2. out = Stream!NoValue(Stream!Ok(<< x.n >>, q - p))
      BY <2>2, <2>3, <2>4, <2>5, <2>8, <3>1
    <3> HIDE DEF out
    <3>3. out.err = "nil" /\ out.len = q - p
      BY <3>2 DEF Stream!Ok, Stream!NoValue
    <3> QED  BY <1>2, <2>3, <2>8, <3>3 DEF out, p, q
  <2>9. CASE o.kind = "SkipLong"
    <3>1. out = Stream!NoValue(Stream!Varint(stream, end, p, LongBits, "unexpected"))
      BY <2>9 DEF Stream!Outcome, p
    <3>2. out = Stream!NoValue(Stream!Ok(<< x.n >>, q - p))
      BY <2>2, <2>3, <2>4, <2>5, <2>9, <3>1
    <3> HIDE DEF out
    <3>3. out.err = "nil" /\ out.len = q - p
      BY <3>2 DEF Stream!Ok, Stream!NoValue
    <3> QED  BY <1>2, <2>3, <2>9, <3>3 DEF out, p, q
  <2> QED  BY <2>2, <2>4, <2>6, <2>7, <2>8, <2>9
<1> QED  BY <1>1, <1>2

\* A step of a stream that what was written is read from keeps the invariant.
LEMMA WrittenNextStep ==
  ASSUME WrittenInv, [WrittenNext]_<< vars, sent >>
  PROVE  WrittenInv'
<1>1. ReaderInv /\ sent \in Seq(Numbers) /\ stream = Encoded(sent, Len(sent))
  BY DEF WrittenInv
<1>2. PICK k \in 0 .. Len(sent) :
        /\ ReadAt(k)
        /\ err # "nil" => k = Len(sent) \/ err = "noprogress"
        /\ op # Idle => Fits(op, k) /\ ret = Stream!NoReturn
        /\ (op = Idle /\ err = "nil" /\ ret.op.kind \in {"Int", "Long"}) => k > 0 /\ ret.val = << sent[k].n >>
  BY DEF WrittenInv
<1>3. sent' = sent /\ [Next]_vars
  BY DEF WrittenNext, Next, vars
<1>4. ReaderInv' /\ (Stream!Next \/ UNCHANGED Stream!vars)
  BY <1>1, <1>3, NextStep
<1>5. pos = End(k)
  BY <1>2 DEF ReadAt
<1>6. ASSUME stream' = stream, NEW n \in 0 .. Len(sent), pos' = End(n),
             err' # "nil" => n = Len(sent) \/ err' = "noprogress",
             op' # Idle => Fits(op', n) /\ ret' = Stream!NoReturn,
             (op' = Idle /\ err' = "nil" /\ ret'.op.kind \in {"Int", "Long"}) => n > 0 /\ ret'.val = << sent[n].n >>
      PROVE  WrittenInv'
  <2>1. sent' \in Seq(Numbers) /\ stream' = Encoded(sent', Len(sent')) /\ n \in 0 .. Len(sent')
    BY <1>1, <1>3, <1>6
  <2>2. ReadAt(n)'
    BY <1>3, <1>6 DEF ReadAt, End
  <2>3. op' # Idle => Fits(op, n)' /\ ret' = Stream!NoReturn
    BY <1>3, <1>6 DEF Fits
  <2>4. (op' = Idle /\ err' = "nil" /\ ret'.op.kind \in {"Int", "Long"}) => n > 0 /\ ret'.val = << sent'[n].n >>
    BY <1>3, <1>6
  <2>5. err' # "nil" => n = Len(sent') \/ err' = "noprogress"
    BY <1>3, <1>6
  <2> QED  BY <1>4, <2>1, <2>2, <2>3, <2>4, <2>5 DEF WrittenInv
<1>7. CASE UNCHANGED << stream, end, op, ret, pos, err >>
  BY <1>2, <1>5, <1>6, <1>7
<1>8. ASSUME NEW o \in Ops, Matching(o), Call(o) PROVE WrittenInv'
  <2>1. PICK j \in 0 .. Len(sent) : ReadAt(j) /\ Fits(o, j)
    BY <1>8 DEF Matching, Fits
  <2>2. j = k
    BY <1>1, <1>5, <2>1, EndsApart DEF ReadAt
  <2>3. op' = o /\ UNCHANGED << stream, pos, err >> /\ o # Idle
    BY <1>8, OpTypes DEF Call
  <2>4. stream' = stream /\ pos' = End(k) /\ op' # Idle /\ Fits(o, k) /\ op' = o
    BY <1>5, <2>1, <2>2, <2>3
  <2>5. err' # "nil" => k = Len(sent) \/ err' = "noprogress"
    BY <1>2, <2>3
  <2>6. Fits(op', k) /\ ret' = Stream!NoReturn
    BY <1>8, <2>4 DEF Call
  <2> QED  BY <1>6, <2>4, <2>5, <2>6
<1>9. CASE Run /\ Ends
  <2>1. op' = Idle /\ ret'.op = op /\ UNCHANGED << stream, end >>
    BY <1>9 DEF Ends
  <2>2. CASE op = Idle
    <3>1. job.do = "none"
      BY <1>1, <2>2 DEF ReaderInv, JobTypes
    <3>2. ~Run
      BY <3>1 DEF Run, FastVarint, SlowVarint, SkipByte, SkipRefused, TakeSome, TakeDone, Peek, Got,
                  GotSize, LoadPending, LoadNothing, LoadEmpty, LoadEnd, LoadPiece, WantsByte
    <3> QED  BY <1>9, <3>2
  <2>3. CASE op # Idle /\ UNCHANGED Stream!vars
    <3>1. ret.op = Idle
      BY <1>2, <2>3 DEF Stream!NoReturn, Idle
    <3>2. ret'.op = ret.op
      BY <2>3 DEF Stream!vars
    <3> QED  BY <2>1, <2>3, <3>1, <3>2
  <2>4. CASE op # Idle /\ Stream!Call
    <3>1. ret'.op = Idle
      BY <2>4 DEF Stream!Call, Stream!NoReturn, Idle
    <3> QED  BY <2>1, <2>4, <3>1
  <2>5. ASSUME op # Idle, NEW o \in Ops, Stream!NoProgress(o) \/ Stream!StillFailed(o) PROVE WrittenInv'
    <3>1. pos' = pos /\ err' # "nil" /\ (err = "nil" \/ err = "noprogress" => err' = "noprogress")
      BY <2>5 DEF Stream!NoProgress, Stream!StillFailed, Stream!EOFs
    <3> QED  BY <1>2, <1>5, <1>6, <2>1, <3>1
  <2>6. ASSUME op # Idle, NEW o \in Ops, Stream!Do(o) PROVE WrittenInv'
    <3> DEFINE out == Stream!Outcome(o, stream, end, pos)
    <3>1. err' = out.err /\ pos' = pos + out.len /\ ret' = [op |-> o, val |-> out.val]
      BY <2>6 DEF Stream!Do
    <3>2. o = op /\ ret'.val = out.val /\ ret'.op = op
      BY <2>1, <3>1
    <3>3. Fits(o, k)
      BY <1>2, <2>6, <3>2
    <3>4. /\ k = Len(sent) => out.err # "nil" /\ out.len = 0
          /\ k # Len(sent) =>
               /\ o.kind \in {"Int", "SkipInt", "Long", "SkipLong"} /\ End(k) \in Nat /\ End(k + 1) \in Nat
               /\ out.err = "nil" /\ out.len = End(k + 1) - End(k)
               /\ o.kind \in {"Int", "Long"} => out.val = << sent[k + 1].n >>
      BY <1>1, <1>5, <3>3, FitsOutcome
    <3> HIDE DEF out
    <3>5. CASE k = Len(sent)
      <4>1. pos' = pos /\ err' # "nil"
        <5>1. pos \in Nat
          BY <1>1, BufferTypes DEF ReaderInv, JobTypes
        <5> QED  BY <3>1, <3>4, <3>5, <5>1
      <4> QED  BY <1>5, <1>6, <2>1, <3>5, <4>1
    <3>6. CASE k # Len(sent)
      <4>1. pos' = End(k + 1) /\ err' = "nil"
        BY <1>5, <3>1, <3>4, <3>6
      <4>2. k + 1 \in 0 .. Len(sent) /\ k + 1 > 0
        BY <3>6
      <4> QED  BY <1>6, <2>1, <3>2, <3>4, <3>6, <4>1, <4>2
    <3> QED  BY <3>5, <3>6
  <2> QED  BY <1>4, <2>2, <2>3, <2>4, <2>5, <2>6 DEF Stream!Next
<1>10. CASE Run /\ Goes
  BY <1>7, <1>10 DEF Goes
<1>11. CASE UNCHANGED << vars, sent >>
  <2>1. UNCHANGED << stream, end, op, ret, pos, err >>
    BY <1>11 DEF vars
  <2> QED  BY <1>7, <2>1
<1>12. Run => Goes \/ Ends
  BY RunEnds
<1> QED  BY <1>8, <1>9, <1>10, <1>11, <1>12 DEF WrittenNext

\* Ints and longs of every width and any number of them, written one after the
\* other and cut into any pieces, are read back as they were or skipped, and
\* nothing but a source that stops delivering fails before the last of them.
THEOREM WrittenNumbersReadBack == WrittenSpec => []WrittenReadsBack
<1>1. WrittenInit => WrittenInv
  BY WrittenInitStep
<1>2. WrittenInv /\ [WrittenNext]_<< vars, sent >> => WrittenInv'
  BY WrittenNextStep
<1>3. WrittenInv => WrittenReadsBack
  BY DEF WrittenInv, WrittenReadsBack
<1> QED  BY <1>1, <1>2, <1>3, PTL DEF WrittenSpec
====
