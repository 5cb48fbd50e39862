------------------------------ MODULE Decimals ------------------------------
(***************************************************************************)
(* decimal.go: decimals between rationals and two's complement bytes, with  *)
(* precision, scale and the work limit taken from Config.MaxByteSliceSize.   *)
(* A rational is <<num, den>> in lowest terms with den > 0, a nil *big.Rat   *)
(* is <<>>; bytes are eight bits wide.                                       *)
(***************************************************************************)
EXTENDS Integers, SequencesExt

CONSTANTS MaxAlloc,       \* maxAllocSize, in bytes
          DefaultBytes    \* defaultMaxByteSliceSize

Abs(n) == IF n < 0 THEN -n ELSE n

BitLen(n) == CHOOSE k \in 0 .. 31 : /\ Abs(n) \div 2 ^ k = 0
                                    /\ k > 0 => Abs(n) \div 2 ^ (k - 1) > 0

GetMaxByteSliceSize(size) == IF size = 0 THEN DefaultBytes ELSE size

LimitBytes(limit) == IF limit < 0 \/ limit > MaxAlloc THEN MaxAlloc ELSE limit
DecimalBitLimit(limit) == 8 * LimitBytes(limit)

PrecisionOk(u, prec) == Abs(u) < 10 ^ prec

\* decimalPower refuses before it computes, and again by the result's length.
PowerOk(scale, limit) ==
  /\ scale <= DecimalBitLimit(limit) \div 3
  /\ BitLen(10 ^ scale) <= DecimalBitLimit(limit)

Good(v) == [ok |-> TRUE, v |-> v]
Bad     == [ok |-> FALSE, v |-> 0]

ScaledDecimal(rat, prec, scale, limit) ==
  IF rat = <<>> THEN Bad
  ELSE IF rat[1] = 0 THEN Good(0)
  ELSE LET bits == DecimalBitLimit(limit)
           numerator == rat[1] * 10 ^ scale
           unscaled  == (IF numerator < 0 THEN -1 ELSE 1) * (Abs(numerator) \div rat[2])
       IN IF /\ BitLen(rat[1]) <= bits /\ BitLen(rat[2]) <= bits
             /\ PowerOk(scale, limit)
             /\ Abs(numerator) % rat[2] = 0
             /\ BitLen(unscaled) <= bits
             /\ PrecisionOk(unscaled, prec)
            THEN Good(unscaled) ELSE Bad

Unscaled(b) ==
  LET num == FoldLeft(LAMBDA acc, x : 256 * acc + x, 0, b)
  IN IF b # <<>> /\ b[1] >= 128 THEN num - 256 ^ Len(b) ELSE num

\* The rational num / den in lowest terms, as big.Rat normalises it.
Rat(num, den) ==
  LET g == CHOOSE d \in 1 .. den :
             /\ den % d = 0 /\ Abs(num) % d = 0
             /\ \A e \in (d + 1) .. den : ~(den % e = 0 /\ Abs(num) % e = 0)
  IN <<(IF num < 0 THEN -1 ELSE 1) * (Abs(num) \div g), den \div g>>

\* decimalUnscaled's own checks, also all of checkRawDecimal.
RawOk(b, prec, limit) ==
  /\ Len(b) <= DecimalBitLimit(limit) \div 8
  /\ PrecisionOk(Unscaled(b), prec)

ReadDecimal(b, prec, scale, limit) ==
  IF ~RawOk(b, prec, limit) THEN Bad
  ELSE IF Unscaled(b) = 0 THEN Good(<<0, 1>>)
  ELSE IF ~PowerOk(scale, limit) THEN Bad
  ELSE Good(Rat(Unscaled(b), 10 ^ scale))

TwosComplement(u, size) ==
  [i \in 1 .. size |-> ((u + 256 ^ size) \div 256 ^ (size - i)) % 256]

\* The shortest two's complement, one byte for zero.
DecimalBytes(u) ==
  LET magnitude == IF u < 0 THEN -u - 1 ELSE u
  IN TwosComplement(u, 1 + (BitLen(magnitude) \div 8))

\* writeBytesDecimal's result: the bytes of a length-prefixed value.
BytesDecimal(rat, prec, scale, limit) ==
  LET u == ScaledDecimal(rat, prec, scale, limit)
  IN IF ~u.ok \/ (limit > 0 /\ Len(DecimalBytes(u.v)) > limit)
       THEN Bad ELSE Good(DecimalBytes(u.v))

\* fixedDecimalCodec.Encode pads with the sign on the left.
FixedDecimal(rat, prec, scale, limit, size) ==
  LET u == ScaledDecimal(rat, prec, scale, limit)
      pad == IF u.v < 0 THEN 255 ELSE 0
      b == DecimalBytes(u.v)
  IN IF ~u.ok \/ Len(b) > size
       THEN Bad ELSE Good([i \in 1 .. (size - Len(b)) |-> pad] \o b)

\* A size of -1 is the bytes type; the precision must fit the fixed's bits.
ValidDecimalLogicalType(size, prec, scale) ==
  /\ prec > 0 /\ size # 0 /\ scale \in 0 .. prec
  /\ size > 0 => 10 ^ prec <= 2 ^ (8 * size - 1)
=============================================================================
