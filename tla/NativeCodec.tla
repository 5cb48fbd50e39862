----------------------------- MODULE NativeCodec -----------------------------
(***************************************************************************)
(* The codecs of primitive and fixed schemas (codec_native.go,              *)
(* codec_fixed.go, converter.go): which codec a schema and a Go type get,   *)
(* and what that codec does to the Go variable, to the wire and to the      *)
(* error of the Reader or the Writer.                                       *)
(*                                                                         *)
(* A behaviour takes one schema, one Go type and one configuration.  Either *)
(* a value arrives on the wire, is decoded into a Go variable that already  *)
(* holds something, and is encoded again; or a Go value is encoded and what *)
(* was written is decoded.  The wire holds a number for an int, a long or a *)
(* float, a sequence of bytes for bytes (without the length) and fixed.      *)
(***************************************************************************)
EXTENDS GoNumbers, Decimals

CONSTANTS
  Cases,          \* the schemas, Go types and configurations looked at
  Wires(_),       \* what may be on the wire for a case
  GoValues(_),    \* what a Go variable of a case may hold
  Zero(_)         \* what it holds before anything is decoded

VARIABLES
  case,     \* [schema, go, len, limit, bits]: constant in a behaviour; a Go
            \* array is "[n]byte" with its length, bits are the platform's
  wire,     \* what is on the wire
  cut,      \* the input ends before the value does
  var,      \* the Go variable
  rerr,     \* Reader.Error is set
  werr,     \* Writer.Error is set
  given,    \* the wire or the Go value the behaviour started from
  pc        \* "start", then "received", "decoded", "reencoded" from the wire
            \* or "assigned", "encoded", "redecoded" from a Go value

vars == <<case, wire, cut, var, rerr, werr, given, pc>>

-----------------------------------------------------------------------------
(* Which codec: the schema is [type, logical, enc, prec, scale, size], where *)
(* enc is the writer's type of a promoted schema ("" otherwise).             *)

SmallKinds   == {"int", "int8", "uint8", "int16", "uint16", "int32"}
StampMillis  == {"timestamp-millis", "local-timestamp-millis"}
StampMicros  == {"timestamp-micros", "local-timestamp-micros"}
IsLocal(l)   == l \in {"local-timestamp-millis", "local-timestamp-micros"}

ValidDecimal(s) ==
  /\ s.type \in {"bytes", "fixed"}
  /\ s.logical = "decimal"
  /\ ValidDecimalLogicalType(IF s.type = "fixed" THEN s.size ELSE -1, s.prec, s.scale)

\* What decoding and encoding agree on, as <<condition, codec>> rows.
SharedRows(s, g) ==
  { <<g = "bool" /\ s.type = "boolean", "bool">>,
    <<g \in SmallKinds /\ s.type = "int", "int">>,
    <<g \in {"int64", "Duration"} /\ s.type = "int" /\ s.logical = "time-millis", "timeMillis">>,
    <<g \in {"int64", "Duration"} /\ s.type = "long" /\ s.logical = "time-micros", "timeMicros">>,
    <<g = "string" /\ s.type = "string", "string">>,
    <<g = "bytes" /\ s.type = "bytes", "bytes">>,
    <<g = "Time" /\ s.type = "int" /\ s.logical = "date", "date">>,
    <<g = "Time" /\ s.type = "long" /\ s.logical \in StampMillis, "stampMillis">>,
    <<g = "Time" /\ s.type = "long" /\ s.logical \in StampMicros, "stampMicros">>,
    <<g \in {"Rat", "*Rat"} /\ s.type = "bytes" /\ ValidDecimal(s), "bytesDecimal">> }

\* The plain int64 cases; time.Duration is no timestamp of an instant.
PlainLong(s, g) ==
  /\ s.type = "long" /\ s.logical # "time-micros"
  /\ \/ g = "int64"
     \/ g = "Duration" /\ s.logical \notin {"timestamp-millis", "timestamp-micros"}

DecoderRows(s, g, bits) ==
  SharedRows(s, g) \cup
  { <<g = "int" /\ s.type = "long" /\ bits = 64, "long">>,
    <<g = "uint32" /\ s.type = "long", IF s.enc = "" THEN "long" ELSE "longConv">>,
    <<PlainLong(s, g), IF s.enc = "" THEN "long" ELSE "longConv">>,
    <<g = "float32" /\ s.type = "float", IF s.enc = "" THEN "float" ELSE "floatConv">>,
    <<g = "float64" /\ s.type = "double", IF s.enc = "" THEN "double" ELSE "doubleConv">> }

EncoderRows(s, g) ==
  SharedRows(s, g) \cup
  { <<g \in {"int", "int32", "uint32"} /\ s.type = "long", "long">>,
    <<PlainLong(s, g), "long">>,
    <<g = "float32" /\ s.type = "double", "floatDouble">>,
    <<g = "float32" /\ s.type = "float", "float">>,
    <<g = "float64" /\ s.type = "double", "double">> }

CheckFixedSize(size, limit) == size <= MaxAlloc /\ (limit > 0 => size <= limit)

\* The bytes of a uint64, and of one of the three words of a duration.
WordBytes     == 2
DurationBytes == 3 * WordBytes

FixedRows(c) ==
  { <<c.go = "[n]byte" /\ c.len = c.schema.size, "fixed">>,
    <<c.go = "uint64" /\ c.schema.size = WordBytes, "fixedUint64">>,
    <<c.go = "*Rat" /\ ValidDecimal(c.schema), "fixedDecimal">>,
    <<c.go = "LogicalDuration" /\ c.schema.logical = "duration"
        /\ c.schema.size = DurationBytes, "fixedDuration">> }

Limit(c) == GetMaxByteSliceSize(c.limit)

\* "none" is errorDecoder or errorEncoder.
Pick(rows) == IF \E r \in rows : r[1] THEN (CHOOSE r \in rows : r[1])[2] ELSE "none"

CodecOfFixed(c) ==
  IF CheckFixedSize(c.schema.size, Limit(c)) THEN Pick(FixedRows(c)) ELSE "none"

DecoderOf(c) == IF c.schema.type = "fixed" THEN CodecOfFixed(c)
                ELSE Pick(DecoderRows(c.schema, c.go, c.bits))

EncoderOf(c) == IF c.schema.type = "fixed" THEN CodecOfFixed(c)
                ELSE Pick(EncoderRows(c.schema, c.go))

-----------------------------------------------------------------------------
(* Decoding.                                                                *)

\* The width of the variable: int is as wide as the platform.
Kind(c) == IF c.go = "int" THEN (IF c.bits = 64 THEN "int64" ELSE "int32")
           ELSE IF c.go = "Duration" THEN "int64" ELSE c.go

TimeOfDay(c) == c.schema.logical \in {"time-millis", "time-micros"}
UnitOf(c) == IF c.schema.logical \in {"time-millis"} \cup StampMillis THEN "milli" ELSE "micro"

\* Mutant: the plain conversion.
SetIntegerWraps(value, kind) == Units(Wrap(value, kind))

\* setInteger: narrowing and sign changes are refused before publishing.
SetInteger(value, kind) ==
  LET converted == Wrap(value, kind)
  IN IF Wrap(converted, "int64") # value \/ (value < 0 /\ converted > 0)
       THEN Refused ELSE Units(converted)

\* ReadInt or ReadLong, by the codec's convert function: a number as it is.
ReadNumber == wire

Publish(v) == var' = v /\ rerr' = rerr
Fail       == var' = var /\ rerr' = TRUE

Reading == /\ pc = "received" \/ (pc = "encoded" /\ ~werr)
           /\ pc' = (IF pc = "received" THEN "decoded" ELSE "redecoded")
           /\ UNCHANGED <<case, wire, cut, werr, given>>

DecodeUnsupported == /\ Reading /\ DecoderOf(case) = "none" /\ Fail

DecodeInteger ==
  /\ Reading /\ DecoderOf(case) \in {"int", "long", "longConv"}
  /\ LET set == SetInteger(ReadNumber, Kind(case))
     IN IF \/ cut
           \/ TimeOfDay(case) /\ ~ValidTimeUnits(ReadNumber, UnitOf(case))
           \/ ~set.ok
          THEN Fail ELSE Publish(set.n)

\* Mutant: publishes before it looks at the range.
DecodeTimeOfDayFirst ==
  /\ Reading /\ DecoderOf(case) \in {"timeMillis", "timeMicros"}
  /\ var' = Wrap(ReadNumber * Nanos[UnitOf(case)], "int64")
  /\ rerr' = (cut \/ ~ValidTimeUnits(ReadNumber, UnitOf(case)))

DecodeTimeOfDay ==
  /\ Reading /\ DecoderOf(case) \in {"timeMillis", "timeMicros"}
  /\ IF cut \/ ~ValidTimeUnits(ReadNumber, UnitOf(case)) THEN Fail
     ELSE Publish(Wrap(ReadNumber * Nanos[UnitOf(case)], "int64"))

DecodeTimestamp ==
  /\ Reading /\ DecoderOf(case) \in {"stampMillis", "stampMicros"}
  /\ IF cut THEN Fail ELSE Publish(TimestampFromUnits(ReadNumber, UnitOf(case)))

\* These write the variable also when reading failed: with what a failed read
\* returns, the zero value (a string may be what was there, zero-filled).
DecodeThrough ==
  /\ Reading
  /\ DecoderOf(case) \in {"bool", "string", "date", "float", "floatConv", "double", "doubleConv"}
  /\ CASE DecoderOf(case) = "bool" ->
            /\ var' = (~cut /\ wire = 1)
            /\ rerr' = (cut \/ wire \notin {0, 1})
       [] DecoderOf(case) = "string" ->
            /\ var' \in IF cut THEN {"", "zero-filled"}
                        ELSE IF wire = "not utf-8" THEN {""} ELSE {wire}
            /\ rerr' = (cut \/ wire = "not utf-8")
       [] DecoderOf(case) = "date" ->
            var' = DateFromDays(IF cut THEN 0 ELSE ReadNumber) /\ rerr' = cut
       [] OTHER ->
            /\ var' = (IF cut THEN 0 ELSE ToFloat(ReadNumber, case.go))
            /\ rerr' = cut

\* ReadBytes refuses a length above the limit before it reads.
ReadBytesOk(c) == ~cut /\ (Limit(c) > 0 => Len(wire) <= Limit(c)) /\ Len(wire) <= MaxAlloc

\* checkRawDecimal, for bytes and fixed that are read as bytes.
RawDecimalOk(c, b) == ValidDecimal(c.schema) => RawOk(b, c.schema.prec, Limit(c))

DecodeBytes ==
  /\ Reading /\ DecoderOf(case) = "bytes"
  /\ IF ReadBytesOk(case) /\ RawDecimalOk(case, wire) THEN Publish(wire) ELSE Fail

DecodeDecimal ==
  /\ Reading /\ DecoderOf(case) \in {"bytesDecimal", "fixedDecimal"}
  /\ LET value == ReadDecimal(wire, case.schema.prec, case.schema.scale, Limit(case))
         read  == IF DecoderOf(case) = "fixedDecimal" THEN ~cut ELSE ReadBytesOk(case)
     IN IF read /\ value.ok THEN Publish(value.v) ELSE Fail

BigEndian(b)    == FoldLeft(LAMBDA acc, x : 256 * acc + x, 0, b)
LittleEndian(b) == BigEndian(Reverse(b))
ZeroFilled(b, size) == [i \in 1 .. size |-> IF i <= Len(b) THEN b[i] ELSE 0]
Words(b) == [k \in 1 .. 3 |-> LittleEndian(SubSeq(b, WordBytes * (k - 1) + 1, WordBytes * k))]

\* Raw fixed arrays and durations are written while or after a failed read.
DecodeFixed ==
  /\ Reading /\ DecoderOf(case) \in {"fixed", "fixedUint64", "fixedDuration"}
  /\ LET b == ZeroFilled(wire, case.schema.size)
     IN CASE DecoderOf(case) = "fixedDuration" -> var' = Words(b) /\ rerr' = cut
          [] DecoderOf(case) = "fixed" /\ ~ValidDecimal(case.schema) ->
               var' = b /\ rerr' = cut
          [] OTHER ->
               IF cut \/ ~RawDecimalOk(case, b) THEN Fail
               ELSE Publish(IF DecoderOf(case) = "fixed" THEN b ELSE BigEndian(b))

Decode == \/ DecodeUnsupported \/ DecodeInteger \/ DecodeTimeOfDay \/ DecodeTimestamp
          \/ DecodeThrough \/ DecodeBytes \/ DecodeDecimal \/ DecodeFixed

-----------------------------------------------------------------------------
(* Encoding.                                                                *)

Write(w)  == wire' = w /\ werr' = werr
FailWrite == wire' = wire /\ werr' = TRUE

Writing == /\ pc = "assigned" \/ (pc = "decoded" /\ ~rerr)
           /\ pc' = (IF pc = "assigned" THEN "encoded" ELSE "reencoded")
           /\ UNCHANGED <<case, cut, var, rerr, given>>

EncodeUnsupported == Writing /\ EncoderOf(case) = "none" /\ FailWrite

IntEncodes(value, kind) ==
  LET encoded == Wrap(value, "int32")
  IN ~(Wrap(encoded, kind) # value \/ (encoded < 0 /\ value > 0))

EncodeInteger ==
  /\ Writing /\ EncoderOf(case) \in {"int", "long"}
  /\ LET encoded == IF EncoderOf(case) = "int" THEN Wrap(var, "int32") ELSE Wrap(var, "int64")
     IN IF \/ EncoderOf(case) = "int" /\ ~IntEncodes(var, Kind(case))
           \/ TimeOfDay(case) /\ ~ValidTimeUnits(encoded, UnitOf(case))
          THEN FailWrite ELSE Write(encoded)

EncodeTimeOfDay ==
  /\ Writing /\ EncoderOf(case) \in {"timeMillis", "timeMicros"}
  /\ IF var < 0 \/ var >= DayNanos THEN FailWrite
     ELSE LET units == Quo(var, Nanos[UnitOf(case)])
          IN Write(IF EncoderOf(case) = "timeMillis" THEN Wrap(units, "int32") ELSE units)

EncodeTime ==
  /\ Writing /\ EncoderOf(case) \in {"date", "stampMillis", "stampMicros"}
  /\ LET value == IF EncoderOf(case) = "date" THEN DateValue(var)
                  ELSE TimestampValue(var, UnitOf(case), IsLocal(case.schema.logical))
     IN IF value.ok THEN Write(value.n) ELSE FailWrite

EncodeThrough ==
  /\ Writing
  /\ EncoderOf(case) \in {"bool", "string", "float", "double", "floatDouble"}
  /\ Write(IF EncoderOf(case) = "bool" THEN (IF var THEN 1 ELSE 0) ELSE var)

EncodeDecimal ==
  /\ Writing /\ EncoderOf(case) \in {"bytesDecimal", "fixedDecimal"}
  /\ LET s == case.schema
         b == IF EncoderOf(case) = "bytesDecimal"
                THEN BytesDecimal(var, s.prec, s.scale, Limit(case))
                ELSE FixedDecimal(var, s.prec, s.scale, Limit(case), s.size)
     IN IF b.ok THEN Write(b.v) ELSE FailWrite

BigEndianBytes(n, size)    == [i \in 1 .. size |-> (n \div 256 ^ (size - i)) % 256]
LittleEndianBytes(n, size) == Reverse(BigEndianBytes(n, size))

EncodeRaw ==
  /\ Writing /\ EncoderOf(case) \in {"bytes", "fixed", "fixedUint64"}
  /\ LET b == IF EncoderOf(case) = "fixedUint64" THEN BigEndianBytes(var, WordBytes) ELSE var
     IN IF RawDecimalOk(case, b) THEN Write(b) ELSE FailWrite

EncodeDuration ==
  /\ Writing /\ EncoderOf(case) = "fixedDuration"
  /\ Write(LittleEndianBytes(var[1], WordBytes) \o LittleEndianBytes(var[2], WordBytes)
             \o LittleEndianBytes(var[3], WordBytes))

Encode == \/ EncodeUnsupported \/ EncodeInteger \/ EncodeTimeOfDay \/ EncodeTime
          \/ EncodeThrough \/ EncodeDecimal \/ EncodeRaw \/ EncodeDuration

-----------------------------------------------------------------------------
(* The application: a fresh Reader and Writer for a value of either side.   *)

Init ==
  /\ case \in Cases
  /\ wire = 0 /\ cut = FALSE /\ given = 0
  /\ var = Zero(case)
  /\ rerr = FALSE /\ werr = FALSE /\ pc = "start"

\* A value, or the beginning of one, reaches the Reader.
Receive ==
  /\ pc = "start"
  /\ \E w \in Wires(case) : wire' = w.wire /\ cut' = w.cut /\ given' = w.wire
  /\ pc' = "received"
  /\ UNCHANGED <<case, var, rerr, werr>>

Assign ==
  /\ pc = "start"
  /\ \E v \in GoValues(case) : var' = v /\ given' = v
  /\ pc' = "assigned"
  /\ UNCHANGED <<case, wire, cut, rerr, werr>>

Next == Receive \/ Assign \/ Decode \/ Encode

Spec == Init /\ [][Next]_vars

-----------------------------------------------------------------------------
(* Properties.                                                              *)

Codec == DecoderOf(case)
Instant(t) == t.sec * Nanos["second"] + t.nsec

\* What a decoded value means, in exact arithmetic.
Means(value, encoded) ==
  CASE Codec \in {"int", "long", "longConv"} -> value = encoded
    [] Codec \in {"timeMillis", "timeMicros"} ->
         value = encoded * Nanos[UnitOf(case)] /\ value \in 0 .. (DayNanos - 1)
    [] Codec \in {"stampMillis", "stampMicros"} -> Instant(value) = encoded * Nanos[UnitOf(case)]
    [] Codec = "date" -> Instant(value) = encoded * DayNanos
    [] Codec \in {"bytesDecimal", "fixedDecimal"} ->
         /\ value[1] * 10 ^ case.schema.scale = Unscaled(encoded) * value[2]
         /\ Abs(Unscaled(encoded)) < 10 ^ case.schema.prec
    [] Codec \in {"float", "floatConv", "double", "doubleConv"} ->
         \A n \in RangeOf("int64") :
           n = ToFloat(n, case.go) => Abs(encoded - value) <= Abs(encoded - n)
    [] Codec = "bool" -> value <=> encoded = 1
    [] OTHER -> TRUE

\* What is decoded without an error is exactly what the wire says: an integer is
\* never wrapped or reinterpreted, a duration or an instant never overflows, a
\* decimal has its precision, a promoted float is the nearest one. For integers
\* this is what src/README.md:361-362 promises, against the older note at lines
\* 119-122, by which an int of -100 is read into a uint16 as 65,436.
DecodedIsExact == pc = "decoded" /\ ~rerr => ~cut /\ Means(var, given)

\* A value that is refused (out of range, not a time of day, too precise) does
\* not touch the Go variable; only a value whose bytes are missing or which is
\* malformed may, and only where the codec assigns what the read returned.
RefusalsLeaveVariable ==
  pc = "decoded" /\ rerr /\ var # Zero(case) =>
    \/ cut /\ Codec \in {"bool", "string", "date", "float", "floatConv", "double",
                          "doubleConv", "fixed", "fixedDuration"}
    \/ Codec = "bool" /\ given \notin {0, 1}
    \/ Codec = "string" /\ given = "not utf-8"

\* Whatever decodes can be encoded again, if the Go type is encodable at all,
\* and the wire holds the same value: for a timestamp over all of int64, the
\* partial second at its lower end included (timestampValue).
WireSurvives ==
  pc = "reencoded" /\ case.schema.enc = "" =>
    /\ werr => EncoderOf(case) = "none"
    /\ ~werr => IF Codec = "bytesDecimal"
                  THEN Unscaled(wire) = Unscaled(given) /\ Len(wire) <= Len(given) + 1
                  ELSE wire = given

\* The Go value a trip over the wire gives back: durations and instants lose
\* what is below the unit, a local timestamp keeps the clock and not the zone.
Kept(value) ==
  CASE Codec \in {"timeMillis", "timeMicros"} ->
         value - (value % Nanos[UnitOf(case)])
    [] Codec = "date" -> [sec |-> CivilDay(value) * DaySeconds, nsec |-> 0, zone |-> 0]
    [] Codec \in {"stampMillis", "stampMicros"} ->
         [sec  |-> IF IsLocal(case.schema.logical) THEN Clock(value) ELSE value.sec,
          nsec |-> value.nsec - (value.nsec % Nanos[UnitOf(case)]), zone |-> 0]
    [] OTHER -> value

\* What is encoded decodes to the value that was given. Two encoders write what
\* the decoder of the same configuration refuses: bytes above the size limit and
\* strings that are not UTF-8.
ValueSurvives ==
  pc = "redecoded" =>
    IF rerr THEN \/ Codec = "none"
                 \/ Codec = "bytes" /\ Limit(case) > 0 /\ Len(given) > Limit(case)
                 \/ Codec = "string" /\ given = "not utf-8"
    ELSE var = Kept(given)

\* Both trips preserve the value: wire to Go to wire, and Go to wire to Go.
TripsPreserve == WireSurvives /\ ValueSurvives

FloorUnits(t, unit, local) ==
  ((IF local THEN Clock(t) ELSE t.sec) * Nanos["second"] + t.nsec) \div Nanos[unit]

\* What the schema can hold, in exact arithmetic.
Representable(value) ==
  LET s == case.schema
      e == EncoderOf(case)
  IN CASE e = "none" -> FALSE
       [] e = "int" -> value \in RangeOf("int32") /\ (TimeOfDay(case) => ValidTimeUnits(value, "milli"))
       [] e = "long" -> TimeOfDay(case) => ValidTimeUnits(value, "micro")
       [] e \in {"timeMillis", "timeMicros"} -> value \in 0 .. (DayNanos - 1)
       [] e = "date" -> CivilDay(value) \in RangeOf("int32")
       [] e \in {"stampMillis", "stampMicros"} ->
            FloorUnits(value, UnitOf(case), IsLocal(s.logical)) \in RangeOf("int64")
       [] e \in {"bytesDecimal", "fixedDecimal"} ->
            /\ value # <<>>
            /\ (Abs(value[1]) * 10 ^ s.scale) % value[2] = 0
            /\ (Abs(value[1]) * 10 ^ s.scale) \div value[2] < 10 ^ s.prec
       [] OTHER -> RawDecimalOk(case, IF e = "fixedUint64" THEN BigEndianBytes(value, WordBytes)
                                      ELSE value)

\* Encoding refuses exactly the values the schema cannot hold: the year bounds
\* and the overflow tests of dates and timestamps, and the bounds on decimal
\* work, neither let a wrong value through nor stop one that fits. Only a
\* configured byte limit may refuse a decimal that fits the schema.
\* For integers this is src/README.md:361-362, against the older note at lines
\* 115-117, by which a Go int can overflow an Avro int.
EncodesTheRepresentable ==
  pc = "encoded" =>
    /\ ~werr => Representable(given)
    /\ werr /\ Representable(given) => EncoderOf(case) \in {"bytesDecimal", "fixedDecimal"}
                                        /\ case.limit > 0
=============================================================================
