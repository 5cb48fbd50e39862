----------------------------- MODULE GoNumbers -----------------------------
(***************************************************************************)
(* Fixed-width integers, floating point and clock values as codec_native.go *)
(* computes with them.  The widths and the lengths of a second and a day    *)
(* are parameters: what matters is their order (a day of milliseconds fits  *)
(* an int but no 16-bit type, a day of microseconds fits no 32-bit type,    *)
(* the year bounds enclose every encodable value), so that every overflow   *)
(* and every bound of the code is inside a range TLC enumerates.            *)
(***************************************************************************)
EXTENDS Integers

CONSTANTS
  Width,          \* bits of each Go integer kind and of Avro's int and long
  Mantissa,       \* bits of precision of float32 and float64
  Nanos,          \* nanoseconds of a "second", a "milli" and a "micro"
  DaySeconds,     \* seconds of a day
  YearSeconds,    \* seconds of a year
  DateYears,      \* dateCodec's bound on years, relative to the epoch
  StampYears      \* timestampValue's bound on years, relative to the epoch

GoNumbersAssumption ==
  /\ Nanos["second"] % Nanos["milli"] = 0
  /\ Nanos["second"] % Nanos["micro"] = 0
  /\ YearSeconds % DaySeconds = 0
  \* the comments at codec_native.go:545 and 633: the years enclose every value
  /\ 2 ^ (Width["int32"] - 1) * DaySeconds < DateYears * YearSeconds
  /\ \A u \in {"milli", "micro"} :
       2 ^ (Width["int64"] - 1)
         < (Nanos["second"] \div Nanos[u]) * StampYears * YearSeconds
  /\ DaySeconds * (Nanos["second"] \div Nanos["milli"])
       < 2 ^ (Width["int32"] - 1)

Unsigned == {"uint", "uint8", "uint16", "uint32", "uint64"}

LowestOf(kind)  == IF kind \in Unsigned THEN 0 ELSE -(2 ^ (Width[kind] - 1))
HighestOf(kind) == LowestOf(kind) + 2 ^ Width[kind] - 1
RangeOf(kind)   == LowestOf(kind) .. HighestOf(kind)

\* The Go conversion T(n), and the value of an overflowing T operation.
Wrap(n, kind) == LowestOf(kind) + ((n - LowestOf(kind)) % (2 ^ Width[kind]))

\* Go's / and % on integers truncate towards zero.
Quo(a, b) == IF a >= 0 THEN a \div b ELSE -((-a) \div b)
Rem(a, b) == a - b * Quo(a, b)

\* The conversion of an integer to a float: nearest, ties to even.
ToFloat(n, kind) ==
  LET size == IF n < 0 THEN -n ELSE n
      exp  == CHOOSE e \in 0 .. Width["int64"] :
                /\ size < 2 ^ (Mantissa[kind] + e)
                /\ e > 0 => size >= 2 ^ (Mantissa[kind] + e - 1)
      ulp  == 2 ^ exp
      low  == size \div ulp
      over == 2 * (size % ulp)
      near == IF over > ulp \/ (over = ulp /\ low % 2 = 1) THEN low + 1 ELSE low
  IN (IF n < 0 THEN -1 ELSE 1) * near * ulp

-----------------------------------------------------------------------------
(* time.Time as sec since the epoch, nsec in the second, and its zone's      *)
(* offset in seconds; the calendar is replaced by years of equal length.     *)

PerSecond(unit) == Nanos["second"] \div Nanos[unit]
DayUnits(unit)  == DaySeconds * PerSecond(unit)
DayNanos        == DaySeconds * Nanos["second"]

\* time.Unix(sec, nsec).UTC(): nsec may be negative or above a second.
UnixUTC(sec, nsec) == [sec  |-> sec + (nsec \div Nanos["second"]),
                       nsec |-> nsec % Nanos["second"], zone |-> 0]

UTC(t)        == [t EXCEPT !.zone = 0]
Clock(t)      == t.sec + t.zone             \* the civil clock t shows
Year(t)       == Clock(t) \div YearSeconds
CivilDay(t)   == Clock(t) \div DaySeconds

\* time.Date of t's civil clock in UTC: the same reading, another instant.
CivilUTC(t) == [sec |-> Clock(t), nsec |-> t.nsec, zone |-> 0]

ValidTimeUnits(value, unit) == value >= 0 /\ value < DayUnits(unit)

TimestampFromUnits(value, unit) ==
  UnixUTC(Quo(value, PerSecond(unit)),
          Wrap(Rem(value, PerSecond(unit)) * Nanos[unit], "int64"))

Refused == [ok |-> FALSE, n |-> 0]
Units(n) == [ok |-> TRUE, n |-> n]

\* Mutant: one form for both signs, which cannot reach the lowest values.
TimestampOneForm(t, unit, local) ==
  LET z    == IF local THEN t ELSE UTC(t)
      sec  == IF local THEN Clock(t) ELSE t.sec
      per  == PerSecond(unit)
      frac == t.nsec \div Nanos[unit]
  IN IF \/ Year(z) < -StampYears \/ Year(z) > StampYears
        \/ sec > Quo(HighestOf("int64") - frac, per) \/ sec < Quo(LowestOf("int64"), per)
       THEN Refused ELSE Units(Wrap(sec * per + frac, "int64"))

\* Every product and sum of the code is an int64 operation.
TimestampValue(t, unit, local) ==
  LET z    == IF local THEN t ELSE UTC(t)
      sec  == IF local THEN Clock(t) ELSE t.sec
      per  == PerSecond(unit)
      frac == t.nsec \div Nanos[unit]
      min  == LowestOf("int64")
      max  == HighestOf("int64")
      whole == Wrap((sec + 1) * per, "int64")
      rest  == per - frac
  IN IF Year(z) < -StampYears \/ Year(z) > StampYears THEN Refused
     ELSE IF sec >= 0
       THEN IF sec > Quo(max - frac, per) THEN Refused
            ELSE Units(Wrap(sec * per + frac, "int64"))
       ELSE IF sec + 1 < Quo(min, per) \/ whole < Wrap(min + rest, "int64") THEN Refused
            ELSE Units(Wrap(whole - rest, "int64"))

\* Mutant: without the test of the day range.
DateYearsOnly(t) ==
  IF Year(t) < -DateYears \/ Year(t) > DateYears THEN Refused
  ELSE Units(Wrap(CivilDay(t), "int32"))

DateValue(t) ==
  LET days == Quo(CivilDay(t) * DaySeconds, DaySeconds)
  IN IF \/ Year(t) < -DateYears \/ Year(t) > DateYears
        \/ days \notin RangeOf("int32")
       THEN Refused ELSE Units(Wrap(days, "int32"))

DateFromDays(days) == UnixUTC(Wrap(days * DaySeconds, "int64"), 0)
=============================================================================
