------------------------------- MODULE VexOps -------------------------------
(***************************************************************************)
(* How libasmir translates the operators of VEX (irtoir.cpp): the Vine     *)
(* expression that stands for each, evaluated.  Vine has no values of 128  *)
(* bits, so these are pairs of 64 bits and what VEX does to them is spelt  *)
(* out.                                                                    *)
(*                                                                         *)
(* Sizes are in bytes of BYTE bits; size 0 is Vine's REG_1.  Lanes are in  *)
(* sequences, the lowest first.  Floating point is any function of two     *)
(* operands: which lanes it is applied to is what is modelled.             *)
(***************************************************************************)
EXTENDS Integers, Sequences, Bitwise

CONSTANTS
  BYTE,                  \* bits of a byte
  FBinOp(_, _, _, _)     \* operation, size, operands: Vine's floating point

ASSUME ByteAssumption == BYTE \in Nat \ {0}

----------------------------------------------------------------------------
\* Vine's arithmetic, on values of n bytes.

Full(n) == 2^(BYTE * n)
Bits(n) == IF n = 0 THEN 1 ELSE BYTE * n
Lo(n, x) == x % Full(n)                       \* CAST_LOW
Hi(m, n, x) == x \div Full(m - n)             \* CAST_HIGH, of m bytes
Shl(x, k, n) == (x % Full(n - k)) * Full(k)   \* by k bytes
Mask(x, k, n) == x - ((x \div Full(k)) % Full(n)) * Full(k)   \* bytes k .. k + n - 1 cleared

Signed(n, x) == IF 2 * x >= 2^Bits(n) THEN x - 2^Bits(n) ELSE x
SignCast(from, to, x) == Signed(from, x) % 2^Bits(to)

\* x * y, a byte of y at a time: no intermediate result is wider than
\* TLC's integers.
Times(n, x, y) ==
  LET T[k \in 0..n] == IF k = n THEN 0
                       ELSE (T[k + 1] * Full(1) + x * ((y \div Full(k)) % Full(1))) % Full(n)
  IN  T[0]

\* Division that rounds to zero.
Truncate(x, y) ==
  LET abs(i) == IF i < 0 THEN -i ELSE i
  IN  IF (x < 0) = (y < 0) THEN abs(x) \div abs(y) ELSE -(abs(x) \div abs(y))

Flag(b) == IF b THEN 1 ELSE 0
NOT(n, x) == 2^Bits(n) - 1 - x

BinOp(op, n, x, y) ==
  CASE op = "PLUS"    -> (x + y) % Full(n)
    [] op = "MINUS"   -> (x - y) % Full(n)
    [] op = "TIMES"   -> Times(n, x, y)
    [] op = "DIVIDE"  -> x \div y
    [] op = "MOD"     -> x % y
    [] op = "SDIVIDE" -> Truncate(Signed(n, x), Signed(n, y)) % Full(n)
    [] op = "SMOD"    -> (Signed(n, x) - Truncate(Signed(n, x), Signed(n, y)) * Signed(n, y)) % Full(n)
    [] op = "BITOR"   -> x | y
    [] op = "BITAND"  -> x & y
    [] op = "XOR"     -> x ^^ y
    [] op = "LSHIFT"  -> IF y < Bits(n) THEN (x % 2^(Bits(n) - y)) * 2^y ELSE 0
    [] op = "RSHIFT"  -> IF y < Bits(n) THEN x \div 2^y ELSE 0
    [] op = "ARSHIFT" -> (Signed(n, x) \div 2^(IF y < Bits(n) THEN y ELSE Bits(n) - 1)) % Full(n)
    [] op = "EQ"      -> Flag(x = y)
    [] op = "NEQ"     -> Flag(x # y)
    [] op = "LT"      -> Flag(x < y)
    [] op = "LE"      -> Flag(x =< y)
    [] op = "SLT"     -> Flag(Signed(n, x) < Signed(n, y))

----------------------------------------------------------------------------
\* Taking apart and putting together.

translate_16HLto32(high, low) == Shl(high, 2, 4) + low
translate_32HLto64(high, low) == Shl(high, 4, 8) + low
translate_64HLto128(high, low) == [high |-> high, low |-> low]
translate_64HLto64(high, low) == translate_32HLto64(Lo(4, high), Lo(4, low))

assemble2x8(high, low) == Shl(high, 1, 2) + low
assemble4x8(b) == translate_16HLto32(assemble2x8(b[4], b[3]), assemble2x8(b[2], b[1]))
assemble4x16(w) == translate_32HLto64(translate_16HLto32(w[4], w[3]), translate_16HLto32(w[2], w[1]))
assemble8x8(b) == translate_32HLto64(assemble4x8(SubSeq(b, 5, 8)), assemble4x8(SubSeq(b, 1, 4)))
assemble4x32(w) == translate_64HLto128(translate_32HLto64(w[4], w[3]), translate_32HLto64(w[2], w[1]))

split2x8(x) == <<Lo(1, x), Hi(2, 1, x)>>
split4x8(x) == split2x8(Lo(2, x)) \o split2x8(Hi(4, 2, x))
split8x8(x) == split4x8(Lo(4, x)) \o split4x8(Hi(8, 4, x))
split2x16(x) == <<Lo(2, x), Hi(4, 2, x)>>
split4x16(x) == split2x16(Lo(4, x)) \o split2x16(Hi(8, 4, x))
split2x32(x) == <<Lo(4, x), Hi(8, 4, x)>>

\* Both halves of a 128-bit value treated alike.
distribute_unop128(v) == translate_64HLto128(NOT(8, v.high), NOT(8, v.low))
distribute_binop128(op, v, w) ==
  translate_64HLto128(BinOp(op, 8, v.high, w.high), BinOp(op, 8, v.low, w.low))

----------------------------------------------------------------------------
\* Products and quotients.

translate_MullU(n, x, y) == BinOp("TIMES", 2 * n, x, y)
translate_MullS(n, x, y) == BinOp("TIMES", 2 * n, SignCast(n, 2 * n, x), SignCast(n, 2 * n, y))

\* Four products of 32 by 32 bits, and the carries between them.
SumOfProducts(p11, p10, p01, p00) ==
  LET s0_a == BinOp("PLUS", 8, p00, Shl(p01, 4, 8))
      s0_b == BinOp("PLUS", 8, s0_a, Shl(p10, 4, 8))
  IN  translate_64HLto128((p11 + Flag(s0_a < p00) + Flag(s0_b < s0_a)
                            + Hi(8, 4, p01) + Hi(8, 4, p10)) % Full(8),
                          s0_b)

translate_MullU64(x, y) ==
  LET x1 == Hi(8, 4, x)   x0 == Lo(4, x)   y1 == Hi(8, 4, y)   y0 == Lo(4, y)
  IN  SumOfProducts(x1 * y1, x1 * y0, x0 * y1, x0 * y0)

translate_Neg128(v) ==
  LET inc_low == BinOp("PLUS", 8, NOT(8, v.low), 1)
  IN  translate_64HLto128(BinOp("PLUS", 8, NOT(8, v.high), Flag(inc_low = 0)), inc_low)

vec_ite(cond, t, f) ==
  translate_64HLto128(IF cond THEN t.high ELSE f.high, IF cond THEN t.low ELSE f.low)

\* The signs are tested with the unsigned comparison.
translate_MullS64(x, y) ==
  LET neg(a) == BinOp("LT", 8, a, 0) = 1
      abs(a) == IF neg(a) THEN BinOp("MINUS", 8, 0, a) ELSE a
      absprod == translate_MullU64(abs(x), abs(y))
  IN  vec_ite(neg(x) # neg(y), translate_Neg128(absprod), absprod)

translate_DivModU64to32(x, y) == translate_64HLto64(BinOp("MOD", 8, x, y), BinOp("DIVIDE", 8, x, y))

DivModS(x, y) == <<BinOp("SMOD", 8, x, y), BinOp("SDIVIDE", 8, x, y)>>
translate_DivModS64to32(x, y) ==
  LET r == DivModS(x, SignCast(4, 8, y)) IN translate_64HLto64(r[1], r[2])

\* The high half of the dividend is not used.
translate_DivModS128to64(v, y) ==
  LET r == DivModS(v.low, y) IN translate_64HLto128(r[1], r[2])

\* A digit q of the quotient was estimated from the upper half of denom: at
\* most two corrections, then the product m is subtracted.
Correct(q, r, denom, adjust) ==
  IF adjust THEN <<BinOp("MINUS", 8, q, 1), BinOp("PLUS", 8, r, denom)>> ELSE <<q, r>>
Subtract(d, m) == [digit |-> d[1], rem |-> BinOp("MINUS", 8, d[2], m)]
AdjustAgain(d, m, denom, adjust) ==
  Subtract(Correct(d[1], d[2], denom, adjust /\ d[2] >= denom /\ d[2] < m), m)
AdjustDigit(q, r, m, denom) ==
  AdjustAgain(Correct(q, r, denom, r < m), m, denom, r < m)

\* One round of the long division: the next 32 bits of the dividend.
DivisionRound(n, next, denom) ==
  LET d_lh == Hi(8, 4, denom)
      q == BinOp("DIVIDE", 8, n, d_lh)
  IN  AdjustDigit(q, translate_32HLto64(Lo(4, BinOp("MOD", 8, n, d_lh)), next),
                  BinOp("TIMES", 8, q, Lo(4, denom)), denom)

\* For a denom with its highest bit set and greater than the high half.
TwoDigits(r1, r2) == translate_64HLto128(r2.rem, translate_32HLto64(Lo(4, r1.digit), Lo(4, r2.digit)))
SecondRound(r1, low, denom) == TwoDigits(r1, DivisionRound(r1.rem, Lo(4, low), denom))
divmod_u128_restricted(v, denom) ==
  SecondRound(DivisionRound(v.high, Hi(8, 4, v.low), denom), v.low, denom)

\* Leading zeros by halves.  Within a byte (lead4, lead2 and low) it is their
\* number.
ByteZeros(x) == BYTE - (CHOOSE k \in 0..BYTE : x < 2^k /\ (k = 0 \/ x >= 2^(k - 1)))
HalfOf(n, x) == IF x < Full(n) THEN Lo(n, x) ELSE Hi(2 * n, n, x)
Leads(n, x) == IF x < Full(n) THEN Bits(n) ELSE 0
clz16(x) == Leads(1, x) + ByteZeros(HalfOf(1, x))
clz32(x) == Leads(2, x) + clz16(HalfOf(2, x))
clz64_ite(x) == Leads(4, x) + clz32(HalfOf(4, x))

Normalised(v, denom, bm) ==
  LET up(x) == BinOp("LSHIFT", 8, x, bm)
      over == IF bm # 0 THEN BinOp("RSHIFT", 8, v.low, Bits(8) - bm) ELSE 0
  IN  divmod_u128_restricted(translate_64HLto128(up(v.high) | over, up(v.low)), up(denom))

NormalisedCase(r, bm) == translate_64HLto128(BinOp("RSHIFT", 8, r.high, bm), r.low)

\* All ones when the quotient does not fit.
divmod_u128_ciscish(v, denom) ==
  IF v.high = 0
  THEN translate_64HLto128(BinOp("MOD", 8, v.low, denom), BinOp("DIVIDE", 8, v.low, denom))
  ELSE IF v.high >= denom THEN translate_64HLto128(Full(8) - 1, Full(8) - 1)
  ELSE LET bm == clz64_ite(denom) IN NormalisedCase(Normalised(v, denom, bm), bm)

translate_DivModU128to64(v, y) == divmod_u128_ciscish(v, y)

\* An unrolled loop: the argument is shifted until nothing is left.
Shifts(n, op, x) ==
  LET Count[k \in 0..(Bits(n) + 1), t \in 0..(Full(n) - 1)] ==
        IF k > Bits(n) \/ t = 0 THEN Bits(n) - k ELSE Count[k + 1, BinOp(op, n, t, 1)]
  IN  Count[0, x]
translate_Clz(n, x) == Shifts(n, "RSHIFT", x)
translate_Ctz(n, x) == Shifts(n, "LSHIFT", x)

----------------------------------------------------------------------------
\* Lanes, of 64 bits and then of 128.

translate_par4x8_binop(op, x, y) ==
  LET a == split4x8(x)   b == split4x8(y)
  IN  assemble4x8([k \in 1..4 |-> BinOp(op, 1, a[k], b[k])])
translate_par8x8_binop(op, x, y) ==
  LET a == split8x8(x)   b == split8x8(y)
  IN  assemble8x8([k \in 1..8 |-> BinOp(op, 1, a[k], b[k])])
translate_par2x32_binop(op, x, y) ==
  LET a == split2x32(x)   b == split2x32(y)
  IN  translate_32HLto64(BinOp(op, 4, a[2], b[2]), BinOp(op, 4, a[1], b[1]))
translate_par16x8_binop(op, v, w) ==
  translate_64HLto128(translate_par8x8_binop(op, v.high, w.high), translate_par8x8_binop(op, v.low, w.low))
translate_par4x32_binop(op, v, w) ==
  translate_64HLto128(translate_par2x32_binop(op, v.high, w.high), translate_par2x32_binop(op, v.low, w.low))
translate_par2x64_binop(op, v, w) == distribute_binop128(op, v, w)

\* A lane of ones where the comparison holds.
CmpByte(op, x, y) == SignCast(0, 1, BinOp(op, 1, x, y))
Cmp8x8(op, x, y) ==
  LET a == split8x8(x)   b == split8x8(y)
  IN  assemble8x8([k \in 1..8 |-> CmpByte(op, a[k], b[k])])
Cmp32x2(op, x, y) ==
  LET a == split2x32(x)   b == split2x32(y)
      r(k) == SignCast(0, 4, BinOp(op, 4, a[k], b[k]))
  IN  translate_32HLto64(r(2), r(1))
translate_CmpEQ8x16(v, w) ==
  translate_64HLto128(Cmp8x8("EQ", v.high, w.high), Cmp8x8("EQ", v.low, w.low))
translate_CmpEQ32x4(v, w) ==
  translate_64HLto128(Cmp32x2("EQ", v.high, w.high), Cmp32x2("EQ", v.low, w.low))
translate_CmpGT8Sx16(v, w) ==
  translate_64HLto128(Cmp8x8("SLT", w.high, v.high), Cmp8x8("SLT", w.low, v.low))
translate_CmpGT32Sx4(v, w) ==
  translate_64HLto128(Cmp32x2("SLT", w.high, v.high), Cmp32x2("SLT", w.low, v.low))

MinMaxByte(op, is_max, x, y) ==
  IF (IF is_max THEN BinOp(op, 1, y, x) ELSE BinOp(op, 1, x, y)) = 1 THEN x ELSE y
translate_minmax8x8(op, is_max, x, y) ==
  LET a == split8x8(x)   b == split8x8(y)
  IN  assemble8x8([k \in 1..8 |-> MinMaxByte(op, is_max, a[k], b[k])])
translate_minmax16x8(op, is_max, v, w) ==
  translate_64HLto128(translate_minmax8x8(op, is_max, v.high, w.high),
                      translate_minmax8x8(op, is_max, v.low, w.low))

Widen(is_signed, x) == IF is_signed THEN SignCast(1, 2, x) ELSE x
halving_binop8(op, is_signed, x, y) ==
  Lo(1, BinOp("RSHIFT", 2, BinOp(op, 2, Widen(is_signed, x), Widen(is_signed, y)), 1))
translate_halving4x8_binop(op, is_signed, x, y) ==
  LET a == split4x8(x)   b == split4x8(y)
  IN  assemble4x8([k \in 1..4 |-> halving_binop8(op, is_signed, a[k], b[k])])

\* The limits are compared as unsigned numbers.
Clamp(min_val, max_val, r) == IF r < min_val THEN min_val ELSE IF r > max_val THEN max_val ELSE r
saturating_binop8(op, is_signed, x, y) ==
  LET r == BinOp(op, 2, Widen(is_signed, x), Widen(is_signed, y))
      half == Full(1) \div 2
  IN  Lo(1, IF is_signed THEN Clamp((-half) % Full(2), half - 1, r) ELSE Clamp(0, Full(1) - 1, r))
translate_saturating4x8_binop(op, is_signed, x, y) ==
  LET a == split4x8(x)   b == split4x8(y)
  IN  assemble4x8([k \in 1..4 |-> saturating_binop8(op, is_signed, a[k], b[k])])

translate_vs2x32_shift(op, x, c) ==
  LET a == split2x32(x) IN translate_32HLto64(BinOp(op, 4, a[2], c), BinOp(op, 4, a[1], c))
translate_vs4x32_shift(op, v, c) ==
  translate_64HLto128(translate_vs2x32_shift(op, v.high, c), translate_vs2x32_shift(op, v.low, c))
translate_vs2x64_shift(op, v, c) ==
  translate_64HLto128(BinOp(op, 8, v.high, c), BinOp(op, 8, v.low, c))

translate_QNarrow16Sto8U(x) ==
  IF BinOp("SLT", 2, x, 0) = 1 THEN 0
  ELSE IF BinOp("SLT", 2, Full(1) - 1, x) = 1 THEN Full(1) - 1 ELSE Lo(1, x)
translate_QNarrow16Sto8Ux8(v) ==
  LET w == split4x16(v.low) \o split4x16(v.high)
  IN  assemble8x8([k \in 1..8 |-> translate_QNarrow16Sto8U(w[k])])
translate_QNarrowBin16Sto8Ux16(v, w) ==
  translate_64HLto128(translate_QNarrow16Sto8Ux8(v), translate_QNarrow16Sto8Ux8(w))

\* The lanes of two halves in turn, those of y lower.
interleave2_2x32(x, y) ==
  LET a == split2x32(x)   b == split2x32(y) IN assemble4x32(<<b[1], a[1], b[2], a[2]>>)
interleave2_4x16(x, y) ==
  LET a == split4x16(x)   b == split4x16(y)
  IN  translate_64HLto128(assemble4x16(<<b[3], a[3], b[4], a[4]>>), assemble4x16(<<b[1], a[1], b[2], a[2]>>))
interleave2_8x8(x, y) ==
  LET a == split8x8(x)   b == split8x8(y)
      four(k) == assemble8x8(<<b[k], a[k], b[k + 1], a[k + 1], b[k + 2], a[k + 2], b[k + 3], a[k + 3]>>)
  IN  translate_64HLto128(four(5), four(1))
Interleave(lane, x, y) ==
  CASE lane = 1 -> interleave2_8x8(x, y)
    [] lane = 2 -> interleave2_4x16(x, y)
    [] lane = 4 -> interleave2_2x32(x, y)
    [] lane = 8 -> translate_64HLto128(x, y)
translate_InterleaveLO(lane, v, w) == Interleave(lane, v.low, w.low)
translate_InterleaveHI(lane, v, w) == Interleave(lane, v.high, w.high)

\* Floating point in the lowest lane, the others being those of v; and in all.
translate_low32fp_128_binop(op, v, w) ==
  translate_64HLto128(v.high,
    translate_32HLto64(Hi(8, 4, v.low), FBinOp(op, 4, Lo(4, v.low), Lo(4, w.low))))
translate_low64fp_128_binop(op, v, w) == translate_64HLto128(v.high, FBinOp(op, 8, v.low, w.low))
translate_par32fp_128_binop(op, v, w) ==
  LET a == split2x32(v.low) \o split2x32(v.high)
      b == split2x32(w.low) \o split2x32(w.high)
  IN  assemble4x32([k \in 1..4 |-> FBinOp(op, 4, a[k], b[k])])
translate_par64fp_128_binop(op, v, w) ==
  translate_64HLto128(FBinOp(op, 8, v.high, w.high), FBinOp(op, 8, v.low, w.low))

\* A 128-bit constant has one bit for each of its bytes.
expand_lane_const(bits) ==
  LET X[k \in 0..8] == IF k = 0 THEN 0
                       ELSE X[k - 1] + ((bits \div 2^(k - 1)) % 2) * (Full(1) - 1) * Full(k - 1)
  IN  X[8]
translate_const(bits) ==
  translate_64HLto128(expand_lane_const(bits \div 256), expand_lane_const(bits % 256))
=============================================================================
