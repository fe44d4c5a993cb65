------------------------------ MODULE VexExprs ------------------------------
(***************************************************************************)
(* The operators of VEX that irtoir.cpp translates, and the translation    *)
(* each is given.  An operator is a name, the size of its lanes, and the   *)
(* sizes of its arguments and of its result.  Size 0 is a single number:   *)
(* a bit, a shift count, the mask of a constant.                           *)
(***************************************************************************)
EXTENDS VexOps, TLC

Operator(name, lane, args, res) == [op |-> name, lane |-> lane, args |-> args, res |-> res]
Scalars == {1, 2, 4, 8}

----------------------------------------------------------------------------
\* Unary operators.

Cast(name, pairs) == {Operator(name, p[1], <<p[1]>>, p[2]) : p \in pairs}
Widenings == {1} \X {2, 4, 8} \cup {2} \X {4, 8} \cup {<<4, 8>>}
Unops ==
  Cast("Uto", Widenings \cup {0} \X {1, 4, 8}) \cup Cast("Sto", Widenings \cup {0} \X {1, 2, 4, 8})
  \cup Cast("to", {<<w[2], w[1]>> : w \in Widenings} \cup {4, 8} \X {0})
  \cup Cast("HIto", {<<2, 1>>, <<4, 2>>, <<8, 4>>})
  \cup Cast("UtoV128", {4, 8} \X {16}) \cup Cast("V128to", {16} \X {4, 8})
  \cup Cast("V128HIto", {<<16, 8>>})
  \cup Cast("Not", {<<n, n>> : n \in Scalars \cup {0}}) \cup Cast("NotV128", {<<16, 16>>})
  \cup Cast("Clz", {<<4, 4>>, <<8, 8>>}) \cup Cast("Ctz", {<<4, 4>>, <<8, 8>>})
  \cup Cast("V128", {<<0, 16>>}) \cup Cast("Reinterp", {<<4, 4>>, <<8, 8>>})

translate_simple_unop(o, x) ==
  LET from == o.args[1]
  IN  CASE o.op \in {"Uto", "Reinterp"} -> x
        [] o.op = "Sto"      -> SignCast(from, o.res, x)
        [] o.op = "to"       -> x % 2^Bits(o.res)
        [] o.op = "HIto"     -> Hi(from, o.res, x)
        [] o.op = "UtoV128"  -> translate_64HLto128(0, x)
        [] o.op = "V128to"   -> Lo(o.res, x.low)
        [] o.op = "V128HIto" -> x.high
        [] o.op = "Not"      -> NOT(from, x)
        [] o.op = "NotV128"  -> distribute_unop128(x)

translate_unop(o, x) ==
  CASE o.op = "Clz"  -> translate_Clz(o.lane, x)
    [] o.op = "Ctz"  -> translate_Ctz(o.lane, x)
    [] o.op = "V128" -> translate_const(x)
    [] o.op \notin {"Clz", "Ctz", "V128"} -> translate_simple_unop(o, x)

----------------------------------------------------------------------------
\* Binary operators, and what is one operation of Vine.

Same(name, sizes) == {Operator(name, n, <<n, n>>, n) : n \in sizes}
Doubling(name, sizes) == {Operator(name, n, <<n, n>>, 2 * n) : n \in sizes}
Lanes(name, lane, sizes) == {Operator(name, lane, <<n, n>>, n) : n \in sizes}

Arithmetic == [Add |-> "PLUS", Sub |-> "MINUS", Mul |-> "TIMES",
               Or |-> "BITOR", And |-> "BITAND", Xor |-> "XOR"]
Shift == [Shl |-> "LSHIFT", Shr |-> "RSHIFT", Sar |-> "ARSHIFT"]
Compare == [CmpEQ |-> "EQ", CmpNE |-> "NEQ", CmpLTU |-> "LT", CmpLEU |-> "LE"]
Divide == [DivU |-> "DIVIDE", DivS |-> "SDIVIDE"]
Parallel == [Addx |-> "PLUS", Subx |-> "MINUS", Mulx |-> "TIMES"]
Halving == [HAddU |-> "PLUS", HAddS |-> "PLUS", HSubU |-> "MINUS", HSubS |-> "MINUS"]
Saturating == [QAddU |-> "PLUS", QAddS |-> "PLUS", QSubU |-> "MINUS", QSubS |-> "MINUS"]
MinMax == [MinU |-> "LT", MinS |-> "SLT", MaxU |-> "LT", MaxS |-> "SLT"]
ShiftN == [ShlN |-> "LSHIFT", ShrN |-> "RSHIFT", SarN |-> "ARSHIFT"]
LowFloat == [AddF0 |-> "FPLUS", SubF0 |-> "FMINUS", MulF0 |-> "FTIMES", DivF0 |-> "FDIVIDE"]
ParFloat == [AddFx |-> "FPLUS", SubFx |-> "FMINUS", MulFx |-> "FTIMES", DivFx |-> "FDIVIDE"]
Float == [AddF |-> "FPLUS", SubF |-> "FMINUS", MulF |-> "FTIMES", DivF |-> "FDIVIDE"]

Binops ==
  UNION {Same(f, Scalars) : f \in DOMAIN Arithmetic}
  \cup UNION {Same(f, {16}) : f \in {"Or", "And", "Xor"}}
  \cup {Operator(f, n, <<n, 0>>, n) : f \in DOMAIN Shift, n \in Scalars}
  \cup {Operator(f, n, <<n, n>>, 0) : f \in {"CmpEQ", "CmpNE"}, n \in Scalars}
  \cup {Operator(f, 4, <<4, 4>>, 0) : f \in {"CmpLTU", "CmpLEU"}}
  \cup Doubling("HLto", {2, 4, 8}) \cup Doubling("MullU", Scalars) \cup Doubling("MullS", Scalars)
  \cup {Operator(f, n, <<2 * n, n>>, 2 * n) : f \in {"DivModU", "DivModS"}, n \in {4, 8}}
  \cup Same("DivU", {4, 8}) \cup Same("DivS", {4, 8})
  \cup {Operator(f, l, <<16, 16>>, 16) : f \in DOMAIN LowFloat \cup DOMAIN ParFloat, l \in {4, 8}}
  \cup UNION {Same(f, {4, 8}) : f \in DOMAIN Float}
  \cup {Operator(f, l, <<16, 16>>, 16) : f \in {"InterleaveLO", "InterleaveHI"}, l \in Scalars}
  \cup {Operator(f, l, <<16, 16>>, 16) : f \in {"CmpEQx", "CmpGTSx"}, l \in {1, 4}}
  \cup Lanes("Addx", 1, {4, 8, 16}) \cup Lanes("Subx", 1, {4, 8, 16}) \cup Lanes("Mulx", 1, {8, 16})
  \cup UNION {Lanes(f, 4, {8, 16}) : f \in DOMAIN Parallel}
  \cup Lanes("Addx", 8, {16}) \cup Lanes("Subx", 8, {16})
  \cup UNION {Lanes(f, 1, {4}) : f \in DOMAIN Halving \cup DOMAIN Saturating}
  \cup UNION {Lanes(f, 1, {8, 16}) : f \in DOMAIN MinMax}
  \cup {Operator(f, l, <<16, 0>>, 16) : f \in DOMAIN ShiftN, l \in {4, 8}}
  \cup Lanes("QNarrowBin16Sto8U", 1, {16})

translate_HLto(n, x, y) ==
  CASE n = 2 -> translate_16HLto32(x, y)
    [] n = 4 -> translate_32HLto64(x, y)
    [] n = 8 -> translate_64HLto128(x, y)

translate_parallel(op, lane, n, x, y) ==
  CASE lane = 1 /\ n = 4  -> translate_par4x8_binop(op, x, y)
    [] lane = 1 /\ n = 8  -> translate_par8x8_binop(op, x, y)
    [] lane = 1 /\ n = 16 -> translate_par16x8_binop(op, x, y)
    [] lane = 4 /\ n = 8  -> translate_par2x32_binop(op, x, y)
    [] lane = 4 /\ n = 16 -> translate_par4x32_binop(op, x, y)
    [] lane = 8 /\ n = 16 -> translate_par2x64_binop(op, x, y)

translate_vector(o, x, y) ==
  CASE o.op = "InterleaveLO" -> translate_InterleaveLO(o.lane, x, y)
    [] o.op = "InterleaveHI" -> translate_InterleaveHI(o.lane, x, y)
    [] o.op = "CmpEQx" -> IF o.lane = 1 THEN translate_CmpEQ8x16(x, y) ELSE translate_CmpEQ32x4(x, y)
    [] o.op = "CmpGTSx" -> IF o.lane = 1 THEN translate_CmpGT8Sx16(x, y) ELSE translate_CmpGT32Sx4(x, y)
    [] o.op \in DOMAIN Parallel -> translate_parallel(Parallel[o.op], o.lane, o.res, x, y)
    [] o.op \in DOMAIN Halving -> translate_halving4x8_binop(Halving[o.op], o.op \in {"HAddS", "HSubS"}, x, y)
    [] o.op \in DOMAIN Saturating ->
         translate_saturating4x8_binop(Saturating[o.op], o.op \in {"QAddS", "QSubS"}, x, y)
    [] o.op \in DOMAIN MinMax /\ o.res = 8 ->
         translate_minmax8x8(MinMax[o.op], o.op \in {"MaxU", "MaxS"}, x, y)
    [] o.op \in DOMAIN MinMax /\ o.res = 16 ->
         translate_minmax16x8(MinMax[o.op], o.op \in {"MaxU", "MaxS"}, x, y)
    [] o.op \in DOMAIN ShiftN -> IF o.lane = 4 THEN translate_vs4x32_shift(ShiftN[o.op], x, y)
                                 ELSE translate_vs2x64_shift(ShiftN[o.op], x, y)
    [] o.op = "QNarrowBin16Sto8U" -> translate_QNarrowBin16Sto8Ux16(x, y)

\* The rounding mode of a scalar operation (a ternary one) is ignored.
translate_float(o, x, y) ==
  CASE o.op \in DOMAIN Float -> FBinOp(Float[o.op], o.lane, x, y)
    [] o.op \in DOMAIN LowFloat -> IF o.lane = 4 THEN translate_low32fp_128_binop(LowFloat[o.op], x, y)
                                   ELSE translate_low64fp_128_binop(LowFloat[o.op], x, y)
    [] o.op \in DOMAIN ParFloat -> IF o.lane = 4 THEN translate_par32fp_128_binop(ParFloat[o.op], x, y)
                                   ELSE translate_par64fp_128_binop(ParFloat[o.op], x, y)

OneOperation == Arithmetic @@ Shift @@ Compare @@ Divide
FloatNames == DOMAIN Float \cup DOMAIN LowFloat \cup DOMAIN ParFloat

translate_binop(o, x, y) ==
  CASE o.op \in DOMAIN OneOperation /\ o.lane < 16 -> BinOp(OneOperation[o.op], o.lane, x, y)
    [] o.op \in DOMAIN Arithmetic /\ o.lane = 16 -> distribute_binop128(Arithmetic[o.op], x, y)
    [] o.op = "HLto" -> translate_HLto(o.lane, x, y)
    [] o.op = "MullU" -> IF o.lane = 8 THEN translate_MullU64(x, y) ELSE translate_MullU(o.lane, x, y)
    [] o.op = "MullS" -> IF o.lane = 8 THEN translate_MullS64(x, y) ELSE translate_MullS(o.lane, x, y)
    [] o.op = "DivModU" -> IF o.lane = 8 THEN translate_DivModU128to64(x, y)
                        ELSE translate_DivModU64to32(x, y)
    [] o.op = "DivModS" -> IF o.lane = 8 THEN translate_DivModS128to64(x, y)
                        ELSE translate_DivModS64to32(x, y)
    [] o.op \in FloatNames -> translate_float(o, x, y)
    [] OTHER -> translate_vector(o, x, y)

----------------------------------------------------------------------------
\* Mux0X or ITE: a condition wider than a bit is compared with zero.
Muxes == {Operator("ITE", n, <<c, n, n>>, n) : c \in {0, 1}, n \in Scalars}
emit_ite(cond, t, f) == IF cond = 1 THEN t ELSE f
translate_mux0x(o, cond, t, f) ==
  emit_ite(IF o.args[1] = 0 THEN cond ELSE BinOp("NEQ", o.args[1], cond, 0), t, f)

Operators == Unops \cup Binops \cup Muxes

translate_expr(o, a) ==
  CASE Len(a) = 1 -> translate_unop(o, a[1])
    [] Len(a) = 2 -> translate_binop(o, a[1], a[2])
    [] Len(a) = 3 -> translate_mux0x(o, a[1], a[2], a[3])
=============================================================================
