----------------------------- MODULE VexMeaning -----------------------------
(***************************************************************************)
(* What the operators of VEX mean, for values of any width: a value is a   *)
(* sequence of bytes, the lowest first, a result is a number that fits its *)
(* lane, or it is described by its bits or by the equation it solves.      *)
(* VexExprs is the program's version.                                      *)
(***************************************************************************)
EXTENDS Integers, Sequences

CONSTANTS
  W,                  \* bits of a byte
  FOp(_, _, _, _)     \* floating point operation of a size

B == 2^W

Num(b) ==
  LET N[k \in 0..Len(b)] == IF k = 0 THEN 0 ELSE N[k - 1] + b[k] * B^(k - 1) IN N[Len(b)]
Negative(b) == 2 * b[Len(b)] >= B
SNum(b) == IF Negative(b) THEN Num(b) - B^Len(b) ELSE Num(b)
Bit(b, i) == (b[(i \div W) + 1] \div 2^(i % W)) % 2
Positions(b) == 0..(W * Len(b) - 1)
Filled(d, n) == [k \in 1..n |-> d]
Ext(b, n, d) == b \o Filled(d, n - Len(b))
SignExt(b, n) == Ext(b, n, IF Negative(b) THEN B - 1 ELSE 0)

Lane(b, w, k) == SubSeq(b, (k - 1) * w + 1, k * w)
LaneNos(b, w) == 1..(Len(b) \div w)
Low(b) == SubSeq(b, 1, Len(b) \div 2)
High(b) == SubSeq(b, Len(b) \div 2 + 1, Len(b))

\* The n lowest digits of x * y + z, by long multiplication.
MultiplyAdd(x, y, z, n) ==
  LET Column(k) == LET S[i \in 0..Len(x)] ==
                         IF i = 0 THEN IF k \in DOMAIN z THEN z[k] ELSE 0
                         ELSE S[i - 1] + (IF k + 1 - i \in DOMAIN y THEN x[i] * y[k + 1 - i] ELSE 0)
                   IN  S[Len(x)]
      Total[k \in 0..n] == IF k = 0 THEN 0 ELSE Column(k) + Total[k - 1] \div B
  IN  [k \in 1..n |-> Total[k] % B]

\* x is y * q + r, a division that rounds to zero.
Abs(i) == IF i < 0 THEN -i ELSE i
Divides(x, y, q, r) == x = q * y + r /\ Abs(r) < Abs(y) /\ (r # 0 => (r < 0) = (x < 0))
Quotient(x, y) == IF (x < 0) = (y < 0) THEN Abs(x) \div Abs(y) ELSE -(Abs(x) \div Abs(y))

----------------------------------------------------------------------------
Least(i, j) == IF i < j THEN i ELSE j
Clamped(i, lowest, highest) == IF i < lowest THEN lowest ELSE Least(i, highest)
Limits(w, i) == Clamped(i, -(B^w \div 2), B^w \div 2 - 1)

FloatName(op) ==
  CASE op \in {"AddF", "AddF0", "AddFx"} -> "FPLUS"
    [] op \in {"SubF", "SubF0", "SubFx"} -> "FMINUS"
    [] op \in {"MulF", "MulF0", "MulFx"} -> "FTIMES"
    [] op \in {"DivF", "DivF0", "DivFx"} -> "FDIVIDE"
LowFloats == {"AddF0", "SubF0", "MulF0", "DivF0"}
Floats == {"AddF", "SubF", "MulF", "DivF", "AddFx", "SubFx", "MulFx", "DivFx"} \cup LowFloats

LaneOps == {"Add", "Addx", "Sub", "Subx", "HAddU", "HAddS", "HSubU", "HSubS",
            "QAddU", "QAddS", "QSubU", "QSubS", "MinU", "MinS", "MaxU", "MaxS", "CmpEQx", "CmpGTSx"}
           \cup (Floats \ LowFloats)

\* The number that a lane of the result represents.
LaneResult(op, x, y) ==
  CASE op \in {"Add", "Addx"} -> Num(x) + Num(y)
    [] op \in {"Sub", "Subx"} -> Num(x) - Num(y)
    [] op = "HAddU" -> (Num(x) + Num(y)) \div 2
    [] op = "HAddS" -> (SNum(x) + SNum(y)) \div 2
    [] op = "HSubU" -> (Num(x) - Num(y)) \div 2
    [] op = "HSubS" -> (SNum(x) - SNum(y)) \div 2
    [] op = "QAddU" -> Clamped(Num(x) + Num(y), 0, B^Len(x) - 1)
    [] op = "QSubU" -> Clamped(Num(x) - Num(y), 0, B^Len(x) - 1)
    [] op = "QAddS" -> Limits(Len(x), SNum(x) + SNum(y))
    [] op = "QSubS" -> Limits(Len(x), SNum(x) - SNum(y))
    [] op = "MinU" -> Least(Num(x), Num(y))
    [] op = "MinS" -> Least(SNum(x), SNum(y))
    [] op = "MaxU" -> -Least(-Num(x), -Num(y))
    [] op = "MaxS" -> -Least(-SNum(x), -SNum(y))
    [] op = "CmpEQx" -> IF x = y THEN -1 ELSE 0
    [] op = "CmpGTSx" -> IF SNum(x) > SNum(y) THEN -1 ELSE 0
    [] op \in Floats -> FOp(FloatName(op), Len(x), Num(x), Num(y))

BitResult(op, i, j) ==
  CASE op = "And" -> i * j [] op = "Or" -> i + j - i * j [] op = "Xor" -> (i + j) % 2

\* Bit i of x shifted by c.
ShiftedBit(op, x, c, i) ==
  CASE op \in {"Shl", "ShlN"} -> IF i >= c THEN Bit(x, i - c) ELSE 0
    [] op \in {"Shr", "ShrN"} -> IF i + c \in Positions(x) THEN Bit(x, i + c) ELSE 0
    [] op \in {"Sar", "SarN"} -> IF i + c \in Positions(x) THEN Bit(x, i + c) ELSE Bit(x, W * Len(x) - 1)
Shifts == {"Shl", "Shr", "Sar", "ShlN", "ShrN", "SarN"}

Truth(op, x, y) ==
  CASE op = "CmpEQ" -> x = y [] op = "CmpNE" -> x # y
    [] op = "CmpLTU" -> Num(x) < Num(y) [] op = "CmpLEU" -> Num(x) =< Num(y)
Compares == {"CmpEQ", "CmpNE", "CmpLTU", "CmpLEU"}

\* The number c of zeros on one side of the highest or lowest one.
Zeros(op, x, c) ==
  LET n == W * Len(x)
      At(i) == IF op = "Clz" THEN Bit(x, n - 1 - i) ELSE Bit(x, i)
  IN  c \in 0..n /\ (\A i \in 0..(c - 1) : At(i) = 0) /\ (c < n => At(c) = 1)

\* Where the translation is not what VEX means, or VEX does not say what it
\* means: a division whose quotient does not fit, or with a dividend of 128
\* bits that is not the extension of 64; a signed product of 128 bits with a
\* negative factor; signed saturation, and unsigned below zero.
Undefined(o, x, y) ==
  CASE o.op = "DivModU" -> Num(High(x)) >= Num(y)
    [] o.op = "DivModS" /\ o.lane = 4 -> Limits(4, Quotient(SNum(x), SNum(y))) # Quotient(SNum(x), SNum(y))
    [] o.op = "DivModS" /\ o.lane = 8 ->
         \/ x # SignExt(Low(x), 16)
         \/ Limits(8, Quotient(SNum(Low(x)), SNum(y))) # Quotient(SNum(Low(x)), SNum(y))
    [] o.op = "DivS" -> Limits(o.lane, Quotient(SNum(x), SNum(y))) # Quotient(SNum(x), SNum(y))
    [] o.op = "MullS" /\ o.lane = 8 -> Negative(x) \/ Negative(y)
    [] o.op \in {"QAddS", "QSubS"} -> TRUE
    [] o.op = "QSubU" -> \E k \in DOMAIN x : x[k] < y[k]
    [] OTHER -> FALSE

\* r is the result of the binary operator o.
BinaryMeans(o, x, y, r) ==
  CASE o.op \in LaneOps ->
         \A k \in LaneNos(r, o.lane) :
            Num(Lane(r, o.lane, k)) = LaneResult(o.op, Lane(x, o.lane, k), Lane(y, o.lane, k)) % B^o.lane
    [] o.op \in LowFloats ->
         /\ Num(Lane(r, o.lane, 1)) = LaneResult(o.op, Lane(x, o.lane, 1), Lane(y, o.lane, 1))
         /\ SubSeq(r, o.lane + 1, 16) = SubSeq(x, o.lane + 1, 16)
    [] o.op \in {"Mul", "Mulx"} ->
         \A k \in LaneNos(r, o.lane) :
            Lane(r, o.lane, k) = MultiplyAdd(Lane(x, o.lane, k), Lane(y, o.lane, k), <<>>, o.lane)
    [] o.op \in {"And", "Or", "Xor"} ->
         \A i \in Positions(r) : Bit(r, i) = BitResult(o.op, Bit(x, i), Bit(y, i))
    [] o.op \in Shifts ->
         \A k \in LaneNos(r, o.lane) : \A i \in Positions(Lane(r, o.lane, k)) :
            Bit(Lane(r, o.lane, k), i) = ShiftedBit(o.op, Lane(x, o.lane, k), y[1], i)
    [] o.op \in Compares -> (r = <<1>>) = Truth(o.op, x, y)
    [] o.op = "HLto" -> r = y \o x
    [] o.op = "MullU" -> r = MultiplyAdd(x, y, <<>>, Len(r))
    [] o.op = "MullS" -> r = MultiplyAdd(SignExt(x, Len(r)), SignExt(y, Len(r)), <<>>, Len(r))
    [] o.op = "DivModU" -> Num(High(r)) < Num(y) /\ x = MultiplyAdd(Low(r), y, High(r), Len(x))
    [] o.op = "DivModS" ->
         Divides(SNum(IF o.lane = 8 THEN Low(x) ELSE x), SNum(y), SNum(Low(r)), SNum(High(r)))
    [] o.op = "DivU" -> Num(r) = Num(x) \div Num(y)
    [] o.op = "DivS" -> SNum(r) = Quotient(SNum(x), SNum(y))
    [] o.op \in {"InterleaveLO", "InterleaveHI"} ->
         \A k \in LaneNos(Low(x), o.lane) :
            LET half(v) == IF o.op = "InterleaveLO" THEN Low(v) ELSE High(v)
            IN  Lane(r, o.lane, 2 * k - 1) \o Lane(r, o.lane, 2 * k)
                  = Lane(half(y), o.lane, k) \o Lane(half(x), o.lane, k)
    [] o.op = "QNarrowBin16Sto8U" -> \A k \in 1..16 : r[k] = Clamped(SNum(Lane(y \o x, 2, k)), 0, B - 1)

\* r is the result of the unary operator o.
UnaryMeans(o, x, r) ==
  CASE o.op \in {"Uto", "UtoV128"} -> r = Ext(x, o.res, 0)
    [] o.op = "Reinterp" -> r = x
    [] o.op = "Sto" /\ o.lane > 0 -> r = SignExt(x, o.res)
    [] o.op = "Sto" /\ o.lane = 0 -> r = Filled((B - 1) * x[1], o.res)
    [] o.op \in {"to", "V128to"} /\ o.res > 0 -> r = SubSeq(x, 1, o.res)
    [] o.op = "to" /\ o.res = 0 -> r = <<Bit(x, 0)>>
    [] o.op \in {"HIto", "V128HIto"} -> r = High(x)
    [] o.op \in {"Not", "NotV128"} /\ o.lane > 0 -> \A i \in Positions(r) : Bit(r, i) = 1 - Bit(x, i)
    [] o.op = "Not" /\ o.lane = 0 -> r = <<1 - x[1]>>
    [] o.op \in {"Clz", "Ctz"} -> Zeros(o.op, x, Num(r))
    [] o.op = "V128" -> r = [k \in 1..16 |-> (B - 1) * ((x[1] \div 2^(k - 1)) % 2)]

Means(o, a, r) ==
  CASE Len(a) = 1 -> UnaryMeans(o, a[1], r)
    [] Len(a) = 2 -> Undefined(o, a[1], a[2]) \/ BinaryMeans(o, a[1], a[2], r)
    [] Len(a) = 3 -> r = IF Num(a[1]) # 0 THEN a[2] ELSE a[3]
=============================================================================
