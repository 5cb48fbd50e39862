---------------------------- MODULE MCNativeCodec ----------------------------
(***************************************************************************)
(* The instance of NativeCodec TLC checks: every primitive and fixed schema  *)
(* with every logical type, against every Go type the dispatch names.        *)
(***************************************************************************)
EXTENDS NativeCodec

MCWidth == [int8 |-> 2, uint8 |-> 2, int16 |-> 3, uint16 |-> 3, int32 |-> 5, uint32 |-> 5,
            int64 |-> 10, uint64 |-> 10]
MCMantissa == [float32 |-> 3, float64 |-> 6]
MCNanos == [second |-> 30, milli |-> 10, micro |-> 3]  \* neither 3 nor 10 divides 2^9, as in Go

Schema(type, logical, enc) ==
  [type |-> type, logical |-> logical, enc |-> enc, prec |-> 0, scale |-> 0, size |-> 0]

Numbers ==
  { Schema("int", l, "") : l \in {"", "date", "time-millis"} } \cup
  { Schema("long", l, e) : e \in {"", "int"},
      l \in {"", "time-micros", "timestamp-millis", "timestamp-micros",
             "local-timestamp-millis", "local-timestamp-micros"} } \cup
  { Schema("float", "", e) : e \in {"", "int", "long"} } \cup
  { Schema("double", "", e) : e \in {"", "int", "long", "float"} }

Decimal(type, size) ==
  { [Schema(type, "decimal", "") EXCEPT !.prec = p, !.scale = s, !.size = size] :
      p \in {1, 3}, s \in {0, 1, 3} }

Fixed(size, logical) == [Schema("fixed", logical, "") EXCEPT !.size = size]

NumberKinds == {"int", "int8", "uint8", "int16", "uint16", "int32", "uint32", "int64",
                "Duration", "uint64", "float32", "float64", "Time"}

Case(s, g, len, limit, bits) ==
  [schema |-> s, go |-> g, len |-> len, limit |-> limit, bits |-> bits]

MCCases ==
  { Case(s, g, 0, 0, b) : s \in Numbers, g \in NumberKinds, b \in {64} } \cup
  { Case(s, "int", 0, 0, 32) : s \in Numbers } \cup
  { Case(Schema("boolean", "", ""), g, 0, 0, 64) : g \in {"bool", "int"} } \cup
  { Case(Schema("string", "", ""), g, 0, 0, 64) : g \in {"string", "bytes"} } \cup
  { Case(s, g, 0, limit, 64) : g \in {"bytes", "Rat", "*Rat"}, limit \in {-1, 0, 1, 2},
      s \in {Schema("bytes", "", "")} \cup Decimal("bytes", -1) } \cup
  { Case(s, g, len, limit, 64) : g \in {"[n]byte", "uint64", "*Rat"}, len \in {1, 2},
      limit \in {0, 1, 2},
      s \in {Fixed(2, "")} \cup Decimal("fixed", 1) \cup Decimal("fixed", 2) } \cup
  { Case(s, "LogicalDuration", 0, limit, 64) : limit \in {0, 2},
      s \in {Fixed(DurationBytes, "duration"), Fixed(DurationBytes, ""), Fixed(2, "duration")} }

Bytes == {0, 1, 9, 10, 99, 100, 127, 128, 156, 157, 247, 255}

\* Around 999 and -999, and one longer than every small limit.
EdgeBytes == {<<3, 231>>, <<3, 232>>, <<252, 25>>, <<252, 24>>, <<0, 3, 231>>, <<255, 252, 25>>}

Upto(n) == UNION {[1 .. k -> Bytes] : k \in 0 .. n}

Sized(n) == IF n <= 2 THEN [1 .. n -> Bytes] \cup {b \in EdgeBytes : Len(b) = n}
            ELSE {<<0, 0, 0, 1, 2, 255>>, <<1, 2, 3, 4, 5, 6>>}

Whole(S) == {[wire |-> w, cut |-> FALSE] : w \in S}
Cut(S)   == {[wire |-> w, cut |-> TRUE] : w \in S}

FloatValues(kind) == {ToFloat(n, kind) : n \in RangeOf("int64")}
WireType(s) == IF s.enc = "" THEN s.type ELSE s.enc

\* A pair no codec supports is refused whatever the value: one value is enough.
MCWires(c) ==
  LET t == WireType(c.schema)
  IN CASE DecoderOf(c) = "none" -> Whole({0})
       [] t = "int"     -> Whole(RangeOf("int32")) \cup Cut({0})
       [] t = "long"    -> Whole(RangeOf("int64")) \cup Cut({0})
       [] t = "float"   -> Whole(FloatValues("float32")) \cup Cut({0})
       [] t = "double"  -> Whole(FloatValues("float64")) \cup Cut({0})
       [] t = "boolean" -> Whole({0, 1, 2}) \cup Cut({0})
       [] t = "string"  -> Whole({"", "text", "not utf-8"}) \cup Cut({""})
       [] t = "bytes"   -> Whole(Upto(2) \cup EdgeBytes) \cup Cut({<<>>})
       [] t = "fixed"   -> Whole(Sized(c.schema.size))
                             \cup Cut({<<>>, [i \in 1 .. (c.schema.size - 1) |-> 1]})

Times == [sec : -300 .. 300, nsec : {0, 2, 3, 9, 10, 29}, zone : {-3, 0, 2}]

Nums == {-1001, -1000, -999, -129, -128, -127, -101, -100, -10, -9, -1, 0, 1, 5, 9, 10, 99,
         127, 128, 129, 255, 256, 999, 1000, 1001}
Rats == {Rat(n, d) : n \in Nums, d \in {1, 2, 3, 8, 10, 100, 1000}}

MCZero(c) ==
  CASE c.go = "Time"   -> [sec |-> -290, nsec |-> 3, zone |-> 2]
    [] c.go = "bool"   -> TRUE
    [] c.go = "string" -> "old"
    [] c.go = "bytes"  -> <<9>>
    [] c.go = "[n]byte" -> [i \in 1 .. c.len |-> 9]
    [] c.go = "Rat"    -> <<7, 9>>
    [] c.go = "*Rat"   -> <<>>
    [] c.go = "LogicalDuration" -> <<1, 2, 3>>
    [] c.go \in {"float32", "float64"} -> 1
    [] OTHER           -> 1

MCGoValues(c) ==
  CASE EncoderOf(c) = "none" -> {MCZero(c)}
    [] c.go \in {"float32", "float64"} -> FloatValues(c.go)
    [] c.go = "Time"   -> Times
    [] c.go = "bool"   -> BOOLEAN
    [] c.go = "string" -> {"", "text", "not utf-8"}
    [] c.go = "bytes"  -> Upto(2) \cup EdgeBytes
    [] c.go = "[n]byte" -> Sized(c.len)
    [] c.go = "uint64" -> {0, 1, 9, 255, 256, 999, 1000, 32767, 32768, 64536, 64537, 65535}
    [] c.go = "Rat"    -> Rats
    [] c.go = "*Rat"   -> Rats \cup {<<>>}
    [] c.go = "LogicalDuration" -> [1 .. 3 -> {0, 1, 256, 65535}]
    [] OTHER           -> RangeOf(Kind(c))
=============================================================================
