--------------------------- MODULE FpuStackProofs ---------------------------
(***************************************************************************)
(* Theorems about the x87 emulator, for every word size, exponent width,   *)
(* number of registers and sequence of instructions: the summary bit fits  *)
(* the flags and the masks, flagged exceptions stay flagged, frstor of     *)
(* what fsave wrote gives the state back, and the instructions use the     *)
(* registers as the stack of RegisterStack.                                *)
(***************************************************************************)
EXTENDS FpuRoutineProofs

\* Some register is empty.
Missing(s) == Regs \ Occupied(s) # {}

\* The tag of a register, made precise.
LEMMA PTagFacts ==
  ASSUME NEW s, Shape(s), NEW i \in Regs
  PROVE  /\ PTag(s, i) \in Kinds \cup {"Empty"}
         /\ PTag(s, i) = "Empty" <=> ~ Holds(s, i)
         /\ PTag(s, i) = "Empty" => Missing(s)
         /\ FPU_empty_i(s, i) <=> ~ Holds(s, i)
<1>1. FPU_empty_i(s, i) <=> ~ Holds(s, i)
  BY DEF Holds
<1>2. PTag(s, i) = "Empty" <=> ~ Holds(s, i)
  BY <1>1, PreciseTags DEF PTag, FPU_empty_i
<1>3. Holds(s, i) => PTag(s, i) \in Kinds
  BY HeldTags, PreciseTags DEF PTag
<1>4. ~ Holds(s, i) => Missing(s)
  BY HeldRegisters, Registers DEF Missing
<1> QED  BY <1>1, <1>2, <1>3, <1>4

\* The routines that instructions call last.
LEMMA ThenCalculates ==
  ASSUME NEW s, Shape(s), NEW t, Calculates(s, t)
  PROVE  /\ Calculates(s, clear_C1(t))
         /\ Calculates(s, set_precision_flag_up(t)) /\ Calculates(s, set_precision_flag_down(t))
         /\ Calculates(s, FPU_internal(t))
         /\ Calculates(s, denormal_operand(t).st)
         /\ Calculates(s, Reduced(t)) /\ Calculates(s, Incomplete(t))
         /\ \A a : Calculates(s, to_exp16_check(t, a))
         /\ \A a, b : Calculates(s, DenormalPair(t, a, b))
         /\ \A cc : cc \subseteq {"C0", "C1", "C2", "C3"} => Calculates(s, setcc(t, cc))
         /\ \A n : "SF" \notin n /\ "ES" \notin n => Calculates(s, FPU_exception(t, n))
<1>1. Shape(t)
  BY DEF Calculates
<1>2. Calculates(t, Reduced(t)) /\ Calculates(t, Incomplete(t))
  <2>1. Calculates(t, [t EXCEPT !.sw = t.sw \ {"C2"}])
    BY <1>1, ChangedStatus DEF Fits, CW_Exceptions, Lasting
  <2> DEFINE sw == t.sw \cup {"C2"}
  <2>2. /\ t.sw \cap Lasting \subseteq sw /\ ("SF" \in sw <=> "SF" \in t.sw)
        /\ ("ES" \in sw <=> "ES" \in t.sw) /\ sw \cap CW_Exceptions = t.sw \cap CW_Exceptions
    BY DEF Lasting, CW_Exceptions
  <2> HIDE DEF sw
  <2>3. Calculates(t, [t EXCEPT !.sw = sw])
    BY <1>1, <2>2, ChangedStatus DEF Fits
  <2> QED  BY <2>1, <2>3 DEF Reduced, Incomplete, sw
<1> QED
  BY <1>1, <1>2, CalculatesAll, ClearCalculates, PrecisionCalculates, InternalCalculates,
     DenormalCalculates, CheckCalculates, CodesCalculates, ExceptionCalculates

\* The same of the routines that write a full register.
LEMMA ThenWrites ==
  ASSUME NEW s, Shape(s), NEW t, Calculates(s, t), NEW i, Holds(s, i)
  PROVE  /\ \A r : Calculates(s, SetReg(t, i, r))
         /\ \A r : \A tag \in Answers : Calculates(s, FPU_copy_to_regi(t, r, tag, i))
         /\ \A ret : Makes(t, ret) => Calculates(s, Put(ret, i).st)
         /\ Calculates(s, arith_invalid(t, i).st)
         /\ \A a, sign : Calculates(s, RoundPoly(t, a, sign, i))
<1>1. Shape(t) /\ Holds(t, i) /\ i \in Regs
  BY CalculatesKeeps DEF Holds
<1>2. \A ret : Makes(t, ret) => Calculates(t, Put(ret, i).st)
  BY <1>1, PutCalculates
<1>3. \A a, sign : Calculates(t, RoundPoly(t, a, sign, i))
  BY <1>1, <1>2, RoundMakes DEF RoundPoly
<1> QED
  BY <1>1, <1>2, <1>3, CalculatesAll, SetRegCalculates, CopyCalculates, InvalidCalculates

\* A denormal operand is reported or not; and what is done unless it traps.
LEMMA IfDenormalCalculates ==
  ASSUME NEW s, Shape(s), NEW t, Calculates(s, t), NEW any
  PROVE  Calculates(s, IfDenormal(any, t).st)
BY ThenCalculates DEF IfDenormal, Ret

\* Either way of the test for a trap behaves.
LEMMA UnlessBehaves ==
  ASSUME NEW s, NEW ret, Calculates(s, ret.st), NEW t, Behaves(s, t)
  PROVE  Behaves(s, Unless(ret, t))
BY CalculationBehaves DEF Unless

----------------------------------------------------------------------------
\* fpu_trig.c: errors of one operand.

\* single_arg_error of an operand that is empty, a NaN, or neither.
LEMMA SingleArgBehaves ==
  ASSUME NEW s, Shape(s), NEW t, Calculates(s, t), NEW tag, tag = "Empty" => Missing(s)
  PROVE  Behaves(s, single_arg_error(t, tag))
<1>1. Missing(s) => Missing(t)
  BY DEF Calculates, Missing
<1>2. Shape(t)
  BY DEF Calculates
<1>3. Calculates(t, FPU_internal(t))
  BY <1>2, InternalCalculates
<1>4. ASSUME NEW n, Calculates(t, n)
      PROVE  Calculates(t, SetReg(n, 0, real_1op_NaN(t, St0(t)).r))
  BY <1>2, <1>4, SetRegCalculates, CalculatesAll, Registers DEF Calculates
<1>5. Calculates(t, real_1op_NaN(t, St0(t)).st)
  BY <1>2, OneNaNCalculates
<1>6. tag = "Empty" => Behaves(t, FPU_stack_underflow(t))
  BY <1>1, <1>2, UnderflowBehaves DEF Missing
<1>7. Behaves(t, single_arg_error(t, tag))
  BY <1>3, <1>4, <1>5, <1>6, CalculationBehaves DEF single_arg_error
<1> QED  BY <1>7, BehavesAfter

\* Two of a NaN: the second is pushed.
LEMMA TwiceBehaves ==
  ASSUME NEW s, Shape(s), Holds(s, 0), ~ STACK_OVERFLOW(s), NEW t, Calculates(s, t), NEW r
  PROVE  Behaves(s, FPU_copy_to_regi(Push(SetReg(t, 0, r)), r, "Special", 0))
BY ThenWrites, PushedBehaves DEF Answers

\* single_arg_2_error.
LEMMA SingleArg2Behaves ==
  ASSUME NEW s, Shape(s), Holds(s, 0), ~ STACK_OVERFLOW(s)
  PROVE  Behaves(s, single_arg_2_error(s))
<1>1. Calculates(s, s) /\ Calculates(s, FPU_exception(s, {"IE"}))
  BY CalculatesNothing, ExceptionCalculates
<1>2. Calculates(s, FPU_copy_to_regi(FPU_exception(s, {"IE"}), CONST_QNaN, "Special", 0))
  BY <1>1, ThenWrites DEF Answers
<1>3. ASSUME NEW t, Calculates(s, t), NEW r
      PROVE  Behaves(s, FPU_copy_to_regi(Push(SetReg(t, 0, r)), r, "Special", 0))
  BY <1>3, TwiceBehaves
<1> QED  BY <1>1, <1>2, <1>3, CalculationBehaves DEF single_arg_2_error

----------------------------------------------------------------------------
\* One operand.

\* f2xm1.
LEMMA F2xm1Behaves ==
  ASSUME NEW s, Shape(s), NEW a
  PROVE  Behaves(s, f2xm1(s, a))
<1> DEFINE t == PTag(s, 0)
           c == clear_C1(s)
           d == IfDenormal(t = "Denormal", c)
<1>1. t \in Kinds \cup {"Empty"} /\ (t = "Empty" => Missing(s)) /\ (t # "Empty" => Holds(s, 0))
  BY PTagFacts, Registers
<1>2. Calculates(s, c) /\ Calculates(s, d.st)
  BY ClearCalculates, IfDenormalCalculates
<1> HIDE DEF c, d, t
<1>3. Calculates(s, set_precision_flag_up(c))
  BY <1>2, ThenCalculates
<1>4. ASSUME Holds(s, 0)
      PROVE  /\ \A sign : Calculates(s, set_precision_flag_up(poly_2xm1(d.st, a, sign)))
             /\ Calculates(s, SetAnswer(c, CONST_1, 1, "Valid", 0))
  BY <1>2, <1>4, ThenWrites, ThenCalculates DEF poly_2xm1, SetAnswer, Answers
<1>5. Behaves(s, single_arg_error(c, t))
  BY <1>1, <1>2, SingleArgBehaves
<1>6. Holds(s, 0) => \A sign : Behaves(s, Unless(d, set_precision_flag_up(poly_2xm1(d.st, a, sign))))
  BY <1>2, <1>4, UnlessBehaves, CalculationBehaves
<1> QED
  BY <1>1, <1>2, <1>3, <1>4, <1>5, <1>6, CalculationBehaves DEF f2xm1, c, d, t

\* A push of a constant one.
LEMMA PushOneBehaves ==
  ASSUME NEW s, Shape(s), ~ STACK_OVERFLOW(s), NEW t, Calculates(s, t)
  PROVE  Behaves(s, PushOne(t))
BY PushedBehaves DEF PushOne, Answers

\* An argument that is the answer, rounded.
LEMMA RoundArgCalculates ==
  ASSUME NEW s, Shape(s), Holds(s, 0), NEW t, Calculates(s, t), NEW x, NEW y
  PROVE  Calculates(s, RoundArg(t, x, y))
<1>1. Calculates(s, to_exp16_check(t, x))
  BY ThenCalculates
<1>2. Shape(to_exp16_check(t, x))
  BY <1>1 DEF Calculates
<1> QED  BY <1>1, <1>2, RoundMakes, ThenWrites DEF RoundArg

\* Two answers of an invalid operation.
LEMMA InvalidAgainBehaves ==
  ASSUME NEW s, Shape(s), Holds(s, 0), ~ STACK_OVERFLOW(s)
  PROVE  Behaves(s, InvalidAgain(arith_invalid(s, 0)))
<1> DEFINE inv == arith_invalid(s, 0)
           p == Push(inv.st)
<1>1. Calculates(s, inv.st)
  BY InvalidCalculates
<1>2. Shape(inv.st) /\ ~ STACK_OVERFLOW(inv.st)
  <2>1. Shape(inv.st) /\ Below(inv.st) = Below(s) /\ Occupied(inv.st) = Occupied(s)
    BY <1>1 DEF Calculates, Below, Phys
  <2> QED  BY <2>1, HeldRegisters
<1>3. CASE inv.exc
  BY <1>1, <1>3, CalculationBehaves DEF InvalidAgain, Unless
<1>4. CASE ~ inv.exc
  <2>1. Masked(s, "IE")
    BY <1>4 DEF arith_invalid, Ret
  <2>2. Shape(p) /\ SameStatus(inv.st, p)
    BY <1>2, PushEffect
  <2>3. Masked(p, "IE")
    BY <1>1, <2>1, <2>2, CalculatesKeeps DEF SameStatus, Masked
  <2>4. Calculates(p, FPU_exception(p, {"IE"}))
    BY <2>2, ExceptionCalculates
  <2>5. Behaves(inv.st, FPU_copy_to_regi(FPU_exception(p, {"IE"}), CONST_QNaN, "Special", 0))
    BY <1>2, <2>4, PushBehaves DEF Answers
  <2>6. arith_invalid(p, 0).st = FPU_copy_to_regi(FPU_exception(p, {"IE"}), CONST_QNaN, "Special", 0)
    BY <2>3 DEF arith_invalid, Ret
  <2>7. Behaves(s, arith_invalid(p, 0).st)
    BY <1>1, <2>5, <2>6, BehavesAfter
  <2> QED  BY <1>4, <2>7 DEF InvalidAgain, Unless
<1> QED  BY <1>3, <1>4

\* The exponent of a denormal is below those that trig_arg reduces.
LEMMA DenormalIsSmall ==
  ASSUME NEW s, Shape(s), PTag(s, 0) = "Denormal"
  PROVE  SmallArg(St0(s))
<1>1. exponent(St0(s)) = EXP_UNDER
  <2>1. FPU_gettagi(s, 0) # "Denormal"
    BY PTagFacts, Registers, HeldTags DEF Answers
  <2>2. FPU_Special(St(s, 0)) = "Denormal"
    BY <2>1 DEF PTag, Precise
  <2> QED  BY <2>2, Zenon DEF FPU_Special, St0
<1>2. 2^(E - 1) = 2 * 2^(E - 2) /\ 2^(E - 2) \in Nat /\ 2^(E - 2) > W + 1 /\ W \in Nat
  BY PowerAssumption, FormatAssumption DEF W
<1>3. EXP_UNDER = 1 - 2 * 2^(E - 2)
  BY <1>2 DEF EXP_UNDER, EBias
<1>4. (5 * W) \div 8 <= W
  BY <1>2
<1>5. EXP_UNDER <= 0 - (5 * W) \div 8
  BY <1>2, <1>3, <1>4
<1> QED  BY <1>1, <1>5 DEF SmallArg

\* fptan.
LEMMA FptanBehaves ==
  ASSUME NEW s, Shape(s), NEW a, NEW sign
  PROVE  Behaves(s, fptan(s, a, sign))
<1> DEFINE t == PTag(s, 0)
           x == St0(s)
           d == IfDenormal(t = "Denormal", s)
<1>1. t \in Kinds \cup {"Empty"} /\ (t = "Empty" => Missing(s)) /\ (t # "Empty" => Holds(s, 0))
  BY PTagFacts, Registers
<1>2. Calculates(s, s) /\ Calculates(s, d.st)
  BY CalculatesNothing, IfDenormalCalculates
<1> HIDE DEF d, t
<1>3. CASE t = "Empty"
  BY <1>1, <1>3, UnderflowsBehave DEF fptan, Missing, t
<1>4. CASE t # "Empty" /\ STACK_OVERFLOW(s)
  BY <1>4, OverflowBehaves DEF fptan, t
<1>5. CASE t # "Empty" /\ ~ STACK_OVERFLOW(s)
  <2>1. Holds(s, 0)
    BY <1>1, <1>5
  <2>2. Behaves(s, Unless(d, PushOne(RoundArg(d.st, x, FPU_to_exp16(x)))))
    BY <1>2, <1>5, <2>1, RoundArgCalculates, PushOneBehaves, UnlessBehaves
  <2>3. Behaves(s, Incomplete(s))
    BY <1>2, ThenCalculates, CalculationBehaves
  <2>4. Calculates(s, set_precision_flag_up(poly_tan(Reduced(s), a, sign)))
    BY <1>2, <2>1, ThenCalculates, ThenWrites DEF poly_tan, PolyAnswer, Answers
  <2>5. Behaves(s, PushOne(set_precision_flag_up(poly_tan(Reduced(s), a, sign))))
    BY <1>5, <2>4, PushOneBehaves
  <2>6. Behaves(s, setcc(PushOne(s), {}))
    <3>1. Behaves(s, PushOne(s))
      BY <1>2, <1>5, PushOneBehaves
    <3>2. Shape(PushOne(s))
      BY <3>1 DEF Behaves
    <3> QED  BY <3>1, <3>2, CodesCalculates, BehavesBefore
  <2>7. Behaves(s, InvalidAgain(arith_invalid(s, 0))) /\ Behaves(s, single_arg_2_error(s))
    BY <1>5, <2>1, InvalidAgainBehaves, SingleArg2Behaves
  <2>8. t \in {"Valid", "Denormal", "Zero", "Infinity", "NaN"}
    BY <1>1, <1>5 DEF Kinds
  <2>9. t = "Denormal" => SmallArg(x)
    BY DenormalIsSmall DEF t
  <2> QED
    BY <1>5, <2>2, <2>3, <2>5, <2>6, <2>7, <2>8, <2>9 DEF fptan, d, t
<1> QED  BY <1>3, <1>4, <1>5

\* single_arg_error of an operand that is there.
LEMMA SingleArgCalculates ==
  ASSUME NEW s, Shape(s), NEW t, Calculates(s, t), NEW tag, tag # "Empty"
  PROVE  Calculates(s, single_arg_error(t, tag))
<1>1. Shape(t)
  BY DEF Calculates
<1>2. Calculates(t, real_1op_NaN(t, St0(t)).st) /\ Shape(real_1op_NaN(t, St0(t)).st)
  BY <1>1, OneNaNCalculates DEF Calculates
<1>3. Calculates(t, SetReg(real_1op_NaN(t, St0(t)).st, 0, real_1op_NaN(t, St0(t)).r))
  BY <1>2, SetRegCalculates, CalculatesAll, Registers
<1>4. Calculates(t, FPU_internal(t))
  BY <1>1, InternalCalculates
<1> QED  BY <1>3, <1>4, CalculatesAll DEF single_arg_error

\* A small integer in a full register.
LEMMA ConvertCalculates ==
  ASSUME NEW s, Shape(s), NEW num, NEW i, Holds(s, i)
  PROVE  Calculates(s, convert_l2reg(s, num, i))
<1>1. \A e, sig : Makes(s, FPU_normalize(s, e, sig))
  BY NormalizeCalculates DEF Makes
<1>2. \A n, sign : Makes(s, n) => Calculates(s, LoadLong(n, sign, i))
  BY CopiesCalculate DEF LoadLong, Makes
<1>3. Calculates(s, FPU_copy_to_regi(s, CONST_Z, "Zero", i))
  BY CopyCalculates DEF Answers
<1> QED  BY <1>1, <1>2, <1>3 DEF convert_l2reg

\* fxtract's two answers: the first is written below the new top.
LEMMA SplitBehaves ==
  ASSUME NEW s, Shape(s), Holds(s, 0), ~ STACK_OVERFLOW(s), NEW t, Calculates(s, t), NEW x, NEW y
  PROVE  Behaves(s, Split(t, x, y))
<1>1. Shape(t) /\ Holds(t, 0)
  BY CalculatesKeeps
<1>2. ~ STACK_OVERFLOW(t)
  <2>1. Below(t) = Below(s) /\ Occupied(t) = Occupied(s)
    BY DEF Calculates, Below, Phys
  <2> QED  BY <1>1, <2>1, HeldRegisters
<1>3. Shape(Push(t)) /\ Holds(Push(t), 1)
  BY <1>1, PushEffect, HeldRegisters, Registers
<1>4. Calculates(Push(t), convert_l2reg(Push(t), y.exp, 1))
  BY <1>3, ConvertCalculates
<1>5. Behaves(t, Split(t, x, y))
  BY <1>1, <1>2, <1>4, PushBehaves DEF Split, Answers
<1> QED  BY <1>5, BehavesAfter

\* fxtract.
LEMMA FxtractBehaves ==
  ASSUME NEW s, Shape(s)
  PROVE  Behaves(s, fxtract(s))
<1> DEFINE t == PTag(s, 0)
           x == St0(s)
           c == clear_C1(s)
           d == IfDenormal(t = "Denormal", c)
           zd == FPU_divide_by_zero(c, 0, 1)
<1>1. t \in Kinds \cup {"Empty"} /\ (t = "Empty" => Missing(s)) /\ (t # "Empty" => Holds(s, 0))
  BY PTagFacts, Registers
<1>2. Calculates(s, c) /\ Calculates(s, d.st) /\ Shape(c)
  BY ClearCalculates, IfDenormalCalculates DEF Calculates
<1> HIDE DEF c, d, t
<1>3. CASE STACK_OVERFLOW(s)
  BY <1>3, OverflowBehaves DEF fxtract
<1>4. CASE ~ STACK_OVERFLOW(s) /\ t = "Empty"
  <2>1. Missing(c)
    BY <1>1, <1>2, <1>4 DEF Calculates, Missing
  <2>2. Behaves(s, Underflows(c))
    BY <1>2, <2>1, UnderflowsBehave, BehavesAfter DEF Missing
  <2> QED  BY <1>4, <2>2 DEF fxtract, t, c
<1>5. CASE ~ STACK_OVERFLOW(s) /\ t # "Empty"
  <2>1. Holds(s, 0) /\ Holds(c, 0)
    BY <1>1, <1>2, <1>5, CalculatesKeeps
  <2>2. Behaves(s, Unless(d, Split(d.st, x, Operand16(s, 0))))
    BY <1>2, <1>5, <2>1, SplitBehaves, UnlessBehaves
  <2>3. Calculates(s, zd.st)
    BY <1>2, <2>1, InvalidCalculates, CalculatesAll
  <2> HIDE DEF zd
  <2>4. Behaves(s, Unless(zd, SetAnswer(Push(zd.st), CONST_Z, x.sign, "Zero", 0)))
    BY <1>5, <2>3, PushedBehaves, UnlessBehaves DEF SetAnswer, Answers
  <2>5. Calculates(s, SetReg(c, 0, SetSign(x, 0)))
    BY <1>2, <2>1, ThenWrites
  <2>6. Behaves(s, SetAnswer(Push(SetReg(c, 0, SetSign(x, 0))), CONST_INF, x.sign, "Special", 0))
    BY <1>5, <2>5, PushedBehaves DEF SetAnswer, Answers
  <2>7. Behaves(s, TwoNaNs(real_1op_NaN(c, x)))
    <3> DEFINE n == real_1op_NaN(c, x)
    <3>1. Calculates(s, n.st)
      BY <1>2, OneNaNCalculates, CalculatesAll
    <3> HIDE DEF n
    <3>2. Behaves(s, TwoNaNs(n))
      BY <1>5, <2>1, <3>1, TwiceBehaves, UnlessBehaves DEF TwoNaNs
    <3> QED  BY <3>2 DEF n
  <2>8. t \in {"Valid", "Denormal", "Zero", "Infinity", "NaN"}
    BY <1>1, <1>5 DEF Kinds
  <2> QED  BY <1>5, <2>2, <2>4, <2>6, <2>7, <2>8 DEF fxtract, d, t, zd, c
<1> QED  BY <1>3, <1>4, <1>5

\* fsqrt_.
LEMMA FsqrtBehaves ==
  ASSUME NEW s, Shape(s)
  PROVE  Behaves(s, fsqrt_(s))
<1> DEFINE t == PTag(s, 0)
           c == clear_C1(s)
           d == IfDenormal(t = "Denormal", c)
<1>1. t \in Kinds \cup {"Empty"} /\ (t = "Empty" => Missing(s)) /\ (t # "Empty" => Holds(s, 0))
  BY PTagFacts, Registers
<1>2. Calculates(s, c) /\ Calculates(s, d.st) /\ Shape(d.st)
  BY ClearCalculates, IfDenormalCalculates DEF Calculates
<1> HIDE DEF c, d, t
<1>3. ASSUME NEW sig, NEW odd
      PROVE  Makes(d.st, wm_sqrt(d.st, sig, odd))
  BY <1>2, RoundMakes DEF wm_sqrt, RoundRoot
<1>4. ASSUME Holds(s, 0), NEW y
      PROVE  Calculates(s, Sqrt(d.st, y))
  <2> DEFINE q == wm_sqrt(d.st, y.sig, y.exp % 2)
  <2>1. Calculates(d.st, q.st) /\ q.tag \in Answers
    BY <1>3 DEF Makes
  <2> HIDE DEF q
  <2>2. Calculates(s, PutRoot(q, y.exp \div 2))
    BY <1>2, <1>4, <2>1, CalculatesAll, CopiesCalculate DEF PutRoot
  <2> QED  BY <2>2 DEF Sqrt, q
<1>5. Holds(s, 0) => /\ \A y : Behaves(s, Unless(d, Sqrt(d.st, y)))
                     /\ Behaves(s, arith_invalid(c, 0).st)
  BY <1>2, <1>4, UnlessBehaves, CalculationBehaves, ThenWrites
<1>6. Behaves(s, single_arg_error(c, t)) /\ Behaves(s, c)
  BY <1>1, <1>2, SingleArgBehaves, CalculationBehaves
<1> QED  BY <1>1, <1>5, <1>6 DEF fsqrt_, c, d, t

\* The flags of a rounding to an integer.
LEMMA IntFlagsCalculates ==
  ASSUME NEW s, Shape(s), NEW rc, NEW sign, NEW e, NEW sig, NEW tag
  PROVE  Calculates(s, IntFlags(s, FPU_round_to_int(rc, sign, e, sig, tag)))
<1>1. \A y : RoundShifted(rc, sign, y).loss \in {{}, PRECISION_LOST_UP, PRECISION_LOST_DOWN}
  BY DEF RoundShifted
<1>2. FPU_round_to_int(rc, sign, e, sig, tag).loss \in {{}, PRECISION_LOST_UP, PRECISION_LOST_DOWN}
  BY <1>1 DEF FPU_round_to_int
<1> QED  BY <1>2, PrecisionCalculates, CalculatesNothing DEF IntFlags

\* frndint_.
LEMMA FrndintBehaves ==
  ASSUME NEW s, Shape(s)
  PROVE  Behaves(s, frndint_(s))
<1> DEFINE t == PTag(s, 0)
           x == St0(s)
           d == IfDenormal(t = "Denormal", s)
           i == AsInt(s, x, Tag0(s))
           f == IntFlags(d.st, i)
<1>1. t \in Kinds \cup {"Empty"} /\ (t = "Empty" => Missing(s)) /\ (t # "Empty" => Holds(s, 0))
  BY PTagFacts, Registers
<1>2. Calculates(s, s) /\ Calculates(s, d.st) /\ Shape(d.st)
  BY CalculatesNothing, IfDenormalCalculates DEF Calculates
<1> HIDE DEF d, t
<1>3. Calculates(s, f) /\ Shape(f)
  BY <1>2, IntFlagsCalculates, CalculatesAll DEF AsInt, Calculates
<1>4. Calculates(s, FPU_normalize(f, W - 1, i.sig).st) /\ FPU_normalize(f, W - 1, i.sig).tag \in Answers
  BY <1>3, NormalizeCalculates, CalculatesAll
<1>5. Holds(s, 0) => Behaves(s, Unless(d, PutInt(d.st, i, x.sign)))
  BY <1>2, <1>4, CopiesCalculate, CalculationBehaves, UnlessBehaves DEF PutInt, PutSigned, SetAnswer
<1>6. Behaves(s, single_arg_error(s, t)) /\ Behaves(s, s)
  BY <1>1, <1>2, SingleArgBehaves, CalculationBehaves
<1> QED  BY <1>1, <1>5, <1>6 DEF frndint_, d, t

\* A sine or a cosine goes to st(0), with the test that it is at most 1.
LEMMA PolyCalculates ==
  ASSUME NEW s, Shape(s), Holds(s, 0), NEW t, Calculates(s, t), NEW a, NEW sign
  PROVE  Calculates(s, poly_sine(t, a, sign)) /\ Calculates(s, poly_cos(t, a, sign))
<1>1. Calculates(s, PolyAnswer(t, a, sign))
  BY ThenWrites DEF PolyAnswer, Answers
<1> QED  BY <1>1, ThenCalculates DEF poly_sine, poly_cos, Above1Check

\* fsin and f_cos of a full register.
LEMMA SineCalculates ==
  ASSUME NEW s, Shape(s), Holds(s, 0), NEW a, NEW sign
  PROVE  /\ Calculates(s, fsin(s, a, sign).st)
         /\ Calculates(s, f_cos(s, a, sign))
<1> DEFINE t == PTag(s, 0)
           x == St0(s)
           den == denormal_operand(s)
           d == IfDenormal(t = "Denormal", s)
<1>1. t \in Kinds
  BY PTagFacts, Registers
<1>2. Calculates(s, s) /\ Calculates(s, den.st) /\ Calculates(s, d.st)
  BY CalculatesNothing, DenormalCalculates, IfDenormalCalculates
<1> HIDE DEF t, den, d
<1>3. /\ Calculates(s, set_precision_flag_up(s)) /\ Calculates(s, Incomplete(s))
      /\ Calculates(s, Reduced(s)) /\ Calculates(s, setcc(s, {}))
      /\ Calculates(s, arith_invalid(s, 0).st)
  BY <1>2, ThenCalculates, InvalidCalculates
<1>4. /\ Calculates(s, set_precision_flag_up(poly_sine(Reduced(s), a, sign)))
      /\ \A y : Calculates(s, RoundArg(den.st, x, y))
      /\ Calculates(s, single_arg_error(s, t))
  BY <1>1, <1>2, <1>3, PolyCalculates, ThenCalculates, RoundArgCalculates, SingleArgCalculates DEF Kinds
<1>5. Calculates(s, fsin(s, a, sign).st)
  BY <1>1, <1>2, <1>3, <1>4 DEF fsin, t, den
<1>6. Calculates(s, set_precision_flag_down(FPU_copy_to_regi(setcc(d.st, {}), CONST_1, "Valid", 0)))
  BY <1>2, ThenCalculates, ThenWrites DEF Answers
<1>7. /\ \A z : Calculates(s, set_precision_flag_down(poly_cos(s, a, z)))
      /\ \A z : Calculates(s, set_precision_flag_down(poly_cos(Reduced(s), a, z)))
      /\ Calculates(s, setcc(FPU_copy_to_regi(s, CONST_1, "Valid", 0), {}))
  BY <1>2, <1>3, PolyCalculates, ThenCalculates, ThenWrites DEF Answers
<1>8. d.exc => Calculates(s, d.st)
  BY <1>2
<1>9. Calculates(s, f_cos(s, a, sign))
  BY <1>2, <1>3, <1>4, <1>6, <1>7 DEF f_cos, Unless, t, d
<1> QED  BY <1>5, <1>9

\* fsin and f_cos of any.
LEMMA FsinBehaves ==
  ASSUME NEW s, Shape(s), NEW a, NEW sign
  PROVE  Behaves(s, fsin(s, a, sign).st) /\ Behaves(s, f_cos(s, a, sign))
<1>1. CASE Holds(s, 0)
  BY <1>1, SineCalculates, CalculationBehaves
<1>2. CASE ~ Holds(s, 0)
  <2>1. PTag(s, 0) = "Empty" /\ Missing(s)
    BY <1>2, PTagFacts, Registers
  <2>2. Behaves(s, single_arg_error(s, PTag(s, 0)))
    BY <2>1, SingleArgBehaves, CalculatesNothing
  <2>3. fsin(s, a, sign).st = single_arg_error(s, PTag(s, 0))
    BY <2>1 DEF fsin
  <2>4. f_cos(s, a, sign) = single_arg_error(s, PTag(s, 0))
    BY <2>1 DEF f_cos
  <2> QED  BY <2>2, <2>3, <2>4
<1> QED  BY <1>1, <1>2

\* fsincos: the cosine is calculated on the pushed operand.
LEMMA FsincosBehaves ==
  ASSUME NEW s, Shape(s), NEW a, NEW sign, NEW b, NEW c
  PROVE  Behaves(s, fsincos(s, a, sign, b, c))
<1>1. PTag(s, 0) = "Empty" => Missing(s)
  BY PTagFacts, Registers
<1>2. PTag(s, 0) = "Empty" => Behaves(s, Underflows(s))
  BY <1>1, UnderflowsBehave DEF Missing
<1>3. STACK_OVERFLOW(s) => Behaves(s, FPU_stack_overflow(s))
  BY OverflowBehaves
<1>4. ASSUME PTag(s, 0) # "Empty", ~ STACK_OVERFLOW(s)
      PROVE  /\ Behaves(s, single_arg_2_error(s)) /\ Behaves(s, InvalidAgain(arith_invalid(s, 0)))
             /\ Behaves(s, ThenCos(fsin(s, a, sign), St0(s), Tag0(s), b, c))
  <2>1. Holds(s, 0) /\ Tag0(s) \in Answers
    BY <1>4, PTagFacts, Registers, HeldTags DEF Tag0
  <2>2. Behaves(s, single_arg_2_error(s)) /\ Behaves(s, InvalidAgain(arith_invalid(s, 0)))
    BY <1>4, <2>1, SingleArg2Behaves, InvalidAgainBehaves
  <2> DEFINE sine == fsin(s, a, sign)
             u == FPU_copy_to_regi(Push(sine.st), St0(s), Tag0(s), 0)
  <2>3. Calculates(s, sine.st)
    BY <2>1, SineCalculates
  <2> HIDE DEF sine
  <2>4. Behaves(s, FPU_copy_to_regi(sine.st, St0(s), Tag0(s), 0))
    BY <2>1, <2>3, ThenWrites, CalculationBehaves
  <2>5. Behaves(s, u)
    BY <1>4, <2>1, <2>3, PushedBehaves
  <2>6. Shape(u) /\ Holds(u, 0)
    <3>1. Shape(sine.st)
      BY <2>3 DEF Calculates
    <3>2. Shape(Push(sine.st)) /\ Phys(Push(sine.st), 0) = Push(sine.st).top
      BY <3>1, PushEffect, AroundTop
    <3>3. Shape(u) /\ Moves(u, Occupied(Push(sine.st)) \cup {Push(sine.st).top}, Push(sine.st).top)
      BY <2>1, <3>2, CopyEffect, Registers
    <3> QED  BY <3>3, HeldRegisters DEF Moves
  <2>7. Behaves(s, f_cos(u, b, c))
    BY <2>5, <2>6, SineCalculates, BehavesBefore
  <2>8. Behaves(s, ThenCos(sine, St0(s), Tag0(s), b, c))
    BY <2>4, <2>7 DEF ThenCos
  <2> QED  BY <2>2, <2>8 DEF sine
<1> QED  BY <1>2, <1>3, <1>4 DEF fsincos

----------------------------------------------------------------------------
\* Remainders.

\* The remainder goes to st(0).
LEMMA RemainderCalculates ==
  ASSUME NEW s, Shape(s), Holds(s, 0), NEW x, NEW y, NEW sign, NEW round
  PROVE  Calculates(s, RemainderOf(s, x, y, sign, round))
<1>1. ASSUME NEW t, Calculates(s, t), NEW cc, cc \subseteq {"C0", "C1", "C2", "C3"}
      PROVE  Calculates(s, setcc(t, cc))
  BY <1>1, ThenCalculates
<1>2. ASSUME NEW n, n.tag \in Answers, NEW sg, NEW cc, cc \subseteq {"C0", "C1", "C2", "C3"}
      PROVE  Calculates(s, PutRemainder(s, n, sg, cc))
  <2>1. Calculates(s, SetAnswer(s, CONST_Z, sg, "Zero", 0))
    BY CopyCalculates DEF SetAnswer, Answers
  <2>2. Calculates(s, FPU_copy_to_regi(s, [sign |-> sg, exp |-> n.exp + EBias, sig |-> n.sig],
                                       n.tag, 0))
    BY <1>2, CopyCalculates
  <2>3. Calculates(s, setcc(s, cc)) /\ Shape(setcc(s, cc))
    BY <1>2, CodesCalculates DEF Calculates
  <2>4. Calculates(s, PutSigned(arith_underflow(setcc(s, cc), n.exp, n.sig), sg, 0))
    BY <2>3, RangeCalculates, CalculatesAll, CopiesCalculate DEF PutSigned, SetAnswer
  <2>5. Calculates(s, Put(FPU_round(s, n.exp, n.sig, 0, FULL_PRECISION, sg), 0).st)
    BY RoundMakes, PutCalculates
  <2> QED  BY <1>1, <1>2, <2>1, <2>2, <2>4, <2>5 DEF PutRemainder
<1>3. \A e, sig : FPU_normalize_nuo(e, sig).tag \in Answers
  BY DEF FPU_normalize_nuo, Answers
<1>4. ASSUME NEW r, NEW sg, NEW cc, cc \subseteq {"C0", "C1", "C2", "C3"}
      PROVE  Calculates(s, StoreRemainder(s, r, sg, cc))
  BY <1>2, <1>3, <1>4 DEF StoreRemainder
<1>5. \A q : QuotientBits(q) \subseteq {"C0", "C1", "C2", "C3"}
  BY DEF QuotientBits
<1>6. \A near : Calculates(s, StoreNear(s, near, sign))
  BY <1>4, <1>5 DEF StoreNear
<1>7. \A far : Calculates(s, StoreFar(s, far, sign))
  <2>1. Calculates(s, setcc(FPU_copy_to_regi(s, CONST_Z, "Zero", 0), {"C2"}))
    BY <1>1, CopyCalculates DEF Answers
  <2> QED  BY <1>4, <2>1 DEF StoreFar
<1>8. Calculates(s, setcc(s, {}))
  BY CodesCalculates
<1> QED  BY <1>6, <1>7, <1>8 DEF RemainderOf

\* do_fprem.
LEMMA FpremBehaves ==
  ASSUME NEW s, Shape(s), NEW round
  PROVE  Behaves(s, do_fprem(s, round))
<1> DEFINE t0 == PTag(s, 0)
           t1 == PTag(s, 1)
           d == IfDenormal("Denormal" \in {t0, t1}, s)
           p == DenormalPair(d.st, St0(s), St(s, 1))
<1>1. (t0 = "Empty" \/ t1 = "Empty" => Missing(s)) /\ (t0 # "Empty" => Holds(s, 0))
  BY PTagFacts, Registers
<1>2. Calculates(s, d.st)
  BY CalculatesNothing, IfDenormalCalculates
<1>3. t0 = "Empty" \/ t1 = "Empty" => Behaves(s, FPU_stack_underflow(s))
  BY <1>1, UnderflowBehaves DEF Missing
<1>4. ASSUME Holds(s, 0)
      PROVE  /\ Behaves(s, real_2op_NaN(s, St(s, 1), t1, 0, St(s, 1)).st)
             /\ Behaves(s, arith_invalid(s, 0).st)
             /\ Behaves(s, Unless(d, setcc(d.st, {})))
             /\ Behaves(s, Unless(d, ValidRemainder(p, round)))
  <2>1. /\ Behaves(s, real_2op_NaN(s, St(s, 1), t1, 0, St(s, 1)).st)
        /\ Behaves(s, arith_invalid(s, 0).st)
    BY <1>4, TwoNaNsCalculates, InvalidCalculates, CalculationBehaves
  <2>2. Behaves(s, Unless(d, setcc(d.st, {})))
    BY <1>2, ThenCalculates, CalculationBehaves, UnlessBehaves
  <2>3. Calculates(s, p) /\ Shape(p) /\ Holds(p, 0)
    BY <1>2, <1>4, ThenCalculates, CalculatesKeeps
  <2> HIDE DEF p
  <2>4. Calculates(s, ValidRemainder(p, round))
    BY <2>3, RemainderCalculates, CalculatesAll DEF ValidRemainder
  <2> QED  BY <1>2, <2>1, <2>2, <2>4, CalculationBehaves, UnlessBehaves
<1> QED  BY <1>1, <1>3, <1>4 DEF do_fprem

----------------------------------------------------------------------------
\* Logarithms, the arctangent and the scaling.

\* An operation that pops unless it trapped.
LEMMA PopUnlessBehaves ==
  ASSUME NEW s, Shape(s), Holds(s, 0), NEW ret, Calculates(s, ret.st)
  PROVE  Behaves(s, PopUnless(ret))
BY PopBehaves, CalculationBehaves DEF PopUnless

\* The form with a 16 bit exponent is written back.
LEMMA AsExp16Calculates ==
  ASSUME NEW s, Shape(s), NEW t, Calculates(s, t), NEW i, Holds(s, i)
  PROVE  Calculates(s, AsExp16(t, i))
BY ThenWrites DEF AsExp16

\* both_valid of fyl2x.
LEMMA LogBehaves ==
  ASSUME NEW s, Shape(s), Holds(s, 0), Holds(s, 1), NEW a, NEW sign, NEW zero
  PROVE  Behaves(s, ValidLog(s, a, sign, zero))
<1>1. Calculates(s, s)
  BY CalculatesNothing
<1>2. Behaves(s, PopUnless(arith_invalid(s, 1)))
  BY InvalidCalculates, PopUnlessBehaves
<1>3. \A e, sig, sg : normalize_no_excep(e, sig, sg).tag \in Answers
  BY DEF normalize_no_excep, Normalised, FPU_normalize_nuo, Answers
<1>4. ASSUME NEW n, n.tag \in Answers
      PROVE  Behaves(s, LogOfPower(AsExp16(s, 0), n))
  <2> DEFINE t == AsExp16(s, 0)
  <2>1. Calculates(s, t) /\ Shape(t) /\ Holds(t, 1)
    BY <1>1, AsExp16Calculates, CalculatesKeeps
  <2> HIDE DEF t
  <2>2. Calculates(s, FPU_mul(t, n.r, n.tag, 1, FULL_PRECISION).st)
    BY <1>4, <2>1, MulCalculates, CalculatesAll
  <2>3. Behaves(s, LogOfPower(t, n))
    BY <2>2, PopBehaves DEF LogOfPower
  <2> QED  BY <2>3 DEF t
<1>5. Behaves(s, FPU_pop(poly_l2(AsExp16(AsExp16(s, 0), 1), a, sign, zero)))
  <2> DEFINE t == AsExp16(AsExp16(s, 0), 1)
  <2>1. Calculates(s, t)
    BY <1>1, AsExp16Calculates
  <2> HIDE DEF t
  <2>2. Calculates(s, poly_l2(t, a, sign, zero))
    BY <2>1, ThenWrites, ThenCalculates DEF poly_l2, Answers
  <2>3. Behaves(s, FPU_pop(poly_l2(t, a, sign, zero)))
    BY <2>2, PopBehaves
  <2> QED  BY <2>3 DEF t
<1> QED  BY <1>2, <1>3, <1>4, <1>5 DEF ValidLog, LogOf

\* fyl2x.
LEMMA Fyl2xBehaves ==
  ASSUME NEW s, Shape(s), NEW a, NEW sign, NEW zero
  PROVE  Behaves(s, fyl2x(s, a, sign, zero))
<1> DEFINE c == clear_C1(s)
           x == St(c, 0)
           y == St(c, 1)
           t0 == PTag(c, 0)
           t1 == PTag(c, 1)
           d == IfDenormal("Denormal" \in {t0, t1}, c)
<1>1. Calculates(s, c) /\ Shape(c)
  BY ClearCalculates DEF Calculates
<1> HIDE DEF c
<1>2. /\ t0 = "Empty" \/ t1 = "Empty" => Missing(c)
      /\ t0 # "Empty" /\ t1 # "Empty" => Holds(c, 0) /\ Holds(c, 1)
  BY <1>1, PTagFacts, Registers
<1>3. Calculates(c, c) /\ Calculates(c, d.st)
  BY <1>1, CalculatesNothing, IfDenormalCalculates
<1>4. t0 = "Empty" \/ t1 = "Empty" => Behaves(c, FPU_stack_underflow_pop(c, 1))
  BY <1>1, <1>2, UnderflowPopBehaves, Registers DEF Missing
<1> HIDE DEF t0, t1, d
<1>5. ASSUME Holds(c, 0), Holds(c, 1)
      PROVE  /\ Behaves(c, PopUnless(real_2op_NaN(c, x, t0, 1, x)))
             /\ Behaves(c, PopUnless(arith_invalid(c, 1)))
             /\ \A z : Behaves(c, PopUnless(FPU_divide_by_zero(c, 1, z)))
             /\ \A r, z, tag : tag \in Answers =>
                  Behaves(c, Unless(d, FPU_pop(SetAnswer(d.st, r, z, tag, 1))))
             /\ Behaves(c, Unless(d, ValidLog(d.st, a, sign, zero)))
             /\ Behaves(c, FPU_pop(c))
             /\ Behaves(c, FPU_pop(SetReg(c, 1, ChangeSign(y))))
             /\ Behaves(c, Unless(d, FPU_pop(SetReg(d.st, 1, ChangeSign(y)))))
  <2>1. /\ Behaves(c, PopUnless(real_2op_NaN(c, x, t0, 1, x)))
        /\ Behaves(c, PopUnless(arith_invalid(c, 1)))
        /\ \A z : Behaves(c, PopUnless(FPU_divide_by_zero(c, 1, z)))
    BY <1>1, <1>5, TwoNaNsCalculates, InvalidCalculates, PopUnlessBehaves
  <2>2. ASSUME NEW r, NEW z, NEW tag \in Answers
        PROVE  Behaves(c, Unless(d, FPU_pop(SetAnswer(d.st, r, z, tag, 1))))
    BY <1>1, <1>3, <1>5, <2>2, ThenWrites, PopBehaves, UnlessBehaves DEF SetAnswer
  <2>3. Behaves(c, ValidLog(d.st, a, sign, zero))
    BY <1>1, <1>3, <1>5, CalculatesKeeps, LogBehaves, BehavesAfter
  <2>4. /\ Behaves(c, FPU_pop(c))
        /\ Behaves(c, FPU_pop(SetReg(c, 1, ChangeSign(y))))
        /\ Behaves(c, FPU_pop(SetReg(d.st, 1, ChangeSign(y))))
    BY <1>1, <1>3, <1>5, ThenWrites, PopBehaves
  <2> QED  BY <1>3, <2>1, <2>2, <2>3, <2>4, UnlessBehaves
<1>6. Behaves(c, fyl2x(s, a, sign, zero))
  <2>1. CASE t0 = "Empty" \/ t1 = "Empty"
    BY <1>4, <2>1 DEF fyl2x, c, t0, t1
  <2>2. CASE t0 # "Empty" /\ t1 # "Empty"
    <3>1. Holds(c, 0) /\ Holds(c, 1)
      BY <1>2, <2>2
    <3> QED  BY <1>5, <2>2, <3>1 DEF fyl2x, c, t0, t1, d, Answers
  <2> QED  BY <2>1, <2>2
<1> QED  BY <1>1, <1>6, BehavesAfter

\* fpatan.
LEMMA FpatanBehaves ==
  ASSUME NEW s, Shape(s), NEW a
  PROVE  Behaves(s, fpatan(s, a))
<1> DEFINE c == clear_C1(s)
           x == St(c, 0)
           y == St(c, 1)
           t0 == PTag(c, 0)
           t1 == PTag(c, 1)
           d == IfDenormal("Denormal" \in {t0, t1}, c)
           pi34 == FPU_u_add(c, Plain(CONST_PI4), Plain(CONST_PI2), FULL_PRECISION, 0)
<1>1. Calculates(s, c) /\ Shape(c)
  BY ClearCalculates DEF Calculates
<1> HIDE DEF c
<1>2. /\ t0 = "Empty" \/ t1 = "Empty" => Missing(c)
      /\ t0 # "Empty" /\ t1 # "Empty" => Holds(c, 0) /\ Holds(c, 1)
  BY <1>1, PTagFacts, Registers
<1>3. Calculates(c, c) /\ Calculates(c, d.st)
  BY <1>1, CalculatesNothing, IfDenormalCalculates
<1>4. t0 = "Empty" \/ t1 = "Empty" => Behaves(c, FPU_stack_underflow_pop(c, 1))
  BY <1>1, <1>2, UnderflowPopBehaves, Registers DEF Missing
<1>5. Makes(c, pi34)
  BY <1>1, UnsignedMakes
<1> HIDE DEF t0, t1, d, pi34
<1>6. ASSUME Holds(c, 0), Holds(c, 1)
      PROVE  /\ Behaves(c, PopUnless(real_2op_NaN(c, x, t0, 1, x)))
             /\ \A r, z : /\ Behaves(c, set_precision_flag_up(FPU_pop(SetAnswer(c, r, z, "Valid", 1))))
                          /\ Behaves(c, set_precision_flag_up(FPU_pop(SetAnswer(d.st, r, z, "Valid", 1))))
                          /\ Behaves(c, FPU_pop(SetAnswer(d.st, r, z, "Zero", 1)))
             /\ \A z : Behaves(c, set_precision_flag_up(FPU_pop(PutSigned(pi34, z, 1))))
             /\ \A z : Behaves(c, FPU_pop(poly_atan(d.st, t0, a, z)))
             /\ Behaves(c, FPU_pop(d.st))
  <2>1. Behaves(c, PopUnless(real_2op_NaN(c, x, t0, 1, x))) /\ Behaves(c, FPU_pop(d.st))
    BY <1>1, <1>3, <1>6, TwoNaNsCalculates, PopUnlessBehaves, PopBehaves
  <2>2. ASSUME NEW t, Calculates(c, t)
        PROVE  Behaves(c, FPU_pop(t)) /\ Behaves(c, set_precision_flag_up(FPU_pop(t)))
    <3>1. Behaves(c, FPU_pop(t))
      BY <1>1, <1>6, <2>2, PopBehaves
    <3>2. Shape(FPU_pop(t))
      BY <3>1 DEF Behaves
    <3> QED  BY <3>1, <3>2, PrecisionCalculates, BehavesBefore
  <2>3. \A t, r, z : \A tag \in Answers : Calculates(c, t) => Calculates(c, SetAnswer(t, r, z, tag, 1))
    BY <1>1, <1>6, ThenWrites DEF SetAnswer
  <2>4. \A z : Calculates(c, PutSigned(pi34, z, 1))
    BY <1>5, <2>3 DEF PutSigned, Makes
  <2>5. \A z : Calculates(c, poly_atan(d.st, t0, a, z))
    <3>1. Calculates(c, IF t0 = "Denormal" THEN AsExp16(d.st, 0) ELSE d.st)
      BY <1>1, <1>3, <1>6, AsExp16Calculates
    <3> QED  BY <1>1, <1>6, <3>1, ThenWrites, ThenCalculates DEF poly_atan
  <2> QED  BY <1>3, <2>1, <2>2, <2>3, <2>4, <2>5 DEF Answers
<1>7. Behaves(c, fpatan(s, a))
  <2>1. CASE t0 = "Empty" \/ t1 = "Empty"
    BY <1>4, <2>1 DEF fpatan, c, t0, t1
  <2>2. CASE t0 # "Empty" /\ t1 # "Empty"
    <3>1. Holds(c, 0) /\ Holds(c, 1)
      BY <1>2, <2>2
    <3> QED  BY <1>3, <1>6, <2>2, <3>1, UnlessBehaves DEF fpatan, c, t0, t1, d, pi34
  <2> QED  BY <2>1, <2>2
<1> QED  BY <1>1, <1>7, BehavesAfter

\* poly_l2p1.
LEMMA L2p1Calculates ==
  ASSUME NEW s, Shape(s), Holds(s, 1), NEW t, Calculates(s, t), NEW a
  PROVE  Calculates(s, poly_l2p1(t, a))
<1>1. Shape(t)
  BY DEF Calculates
<1>2. \A r : Makes(t, r) => Calculates(s, L2p1Answer(r))
  BY ThenWrites, ThenCalculates DEF L2p1Answer
<1>3. \A e, sign : Makes(t, FPU_round(t, e, a.sig, 1, FULL_PRECISION, sign))
  BY <1>1, RoundMakes
<1>4. \A u : Calculates(s, u) => Calculates(s, L2p1Flags(u))
  BY ThenCalculates DEF L2p1Flags
<1>5. Calculates(s, set_precision_flag_up(t)) /\ Calculates(s, set_precision_flag_down(t))
  BY ThenCalculates
<1> QED  BY <1>2, <1>3, <1>4, <1>5 DEF poly_l2p1

\* fyl2xp1.
LEMMA Fyl2xp1Behaves ==
  ASSUME NEW s, Shape(s), NEW a
  PROVE  Behaves(s, fyl2xp1(s, a))
<1> DEFINE c == clear_C1(s)
           x == St(c, 0)
           y == St(c, 1)
           t0 == PTag(c, 0)
           t1 == PTag(c, 1)
           d == IfDenormal("Denormal" \in {t0, t1}, c)
<1>1. Calculates(s, c) /\ Shape(c)
  BY ClearCalculates DEF Calculates
<1> HIDE DEF c
<1>2. /\ t0 = "Empty" \/ t1 = "Empty" => Missing(c)
      /\ t0 # "Empty" /\ t1 # "Empty" => Holds(c, 0) /\ Holds(c, 1)
  BY <1>1, PTagFacts, Registers
<1>3. Calculates(c, c) /\ Calculates(c, d.st)
  BY <1>1, CalculatesNothing, IfDenormalCalculates
<1>4. t0 = "Empty" \/ t1 = "Empty" => Behaves(c, FPU_stack_underflow_pop(c, 1))
  BY <1>1, <1>2, UnderflowPopBehaves, Registers DEF Missing
<1> HIDE DEF t0, t1, d
<1>5. ASSUME Holds(c, 0), Holds(c, 1)
      PROVE  /\ Behaves(c, PopUnless(real_2op_NaN(c, x, t0, 1, x)))
             /\ Behaves(c, FPU_pop(poly_l2p1(d.st, a)))
             /\ Behaves(c, PopUnless(arith_invalid(d.st, 1)))
             /\ \A r : Behaves(c, FPU_pop(FPU_copy_to_regi(SetReg(d.st, 0, r), r, "Zero", 1)))
             /\ \A r, z : Behaves(c, FPU_pop(SetAnswer(d.st, r, z, "Special", 1)))
             /\ Behaves(c, FPU_pop(SetReg(d.st, 1, ChangeSign(y)))) /\ Behaves(c, FPU_pop(d.st))
  <2>1. /\ Behaves(c, PopUnless(real_2op_NaN(c, x, t0, 1, x)))
        /\ Behaves(c, FPU_pop(poly_l2p1(d.st, a))) /\ Behaves(c, FPU_pop(d.st))
    BY <1>1, <1>3, <1>5, TwoNaNsCalculates, L2p1Calculates, PopUnlessBehaves, PopBehaves
  <2>2. Behaves(c, PopUnless(arith_invalid(d.st, 1)))
    BY <1>1, <1>3, <1>5, ThenWrites, PopUnlessBehaves
  <2>3. \A r : Behaves(c, FPU_pop(FPU_copy_to_regi(SetReg(d.st, 0, r), r, "Zero", 1)))
    BY <1>1, <1>3, <1>5, ThenWrites, PopBehaves DEF Answers
  <2>4. /\ \A r, z : Behaves(c, FPU_pop(SetAnswer(d.st, r, z, "Special", 1)))
        /\ Behaves(c, FPU_pop(SetReg(d.st, 1, ChangeSign(y))))
    BY <1>1, <1>3, <1>5, ThenWrites, PopBehaves DEF Answers, SetAnswer
  <2> QED  BY <2>1, <2>2, <2>3, <2>4
<1>6. Behaves(c, fyl2xp1(s, a))
  <2>1. CASE t0 = "Empty" \/ t1 = "Empty"
    BY <1>4, <2>1 DEF fyl2xp1, c, t0, t1
  <2>2. CASE t0 # "Empty" /\ t1 # "Empty"
    <3>1. Holds(c, 0) /\ Holds(c, 1)
      BY <1>2, <2>2
    <3> QED  BY <1>3, <1>5, <2>2, <3>1, UnlessBehaves DEF fyl2xp1, c, t0, t1, d
  <2> QED  BY <2>1, <2>2
<1> QED  BY <1>1, <1>6, BehavesAfter

\* fscale.
LEMMA FscaleBehaves ==
  ASSUME NEW s, Shape(s)
  PROVE  Behaves(s, fscale(s))
<1> DEFINE c == clear_C1(s)
           x == St(c, 0)
           y == St(c, 1)
           t0 == PTag(c, 0)
           t1 == PTag(c, 1)
           d == IfDenormal(t0 = "Denormal", c)
<1>1. Calculates(s, c) /\ Shape(c)
  BY ClearCalculates DEF Calculates
<1> HIDE DEF c
<1>2. /\ t0 = "Empty" \/ t1 = "Empty" => Missing(c)
      /\ t0 # "Empty" => Holds(c, 0)
  BY <1>1, PTagFacts, Registers
<1>3. Calculates(c, c) /\ Calculates(c, d.st) /\ Calculates(c, denormal_operand(c).st)
  BY <1>1, CalculatesNothing, IfDenormalCalculates, DenormalCalculates
<1>4. t0 = "Empty" \/ t1 = "Empty" => Behaves(c, FPU_stack_underflow(c))
  BY <1>1, <1>2, UnderflowBehaves DEF Missing
<1> HIDE DEF t0, t1, d
<1>5. ASSUME Holds(c, 0)
      PROVE  /\ Calculates(c, real_2op_NaN(c, y, t1, 0, x).st) /\ Calculates(c, arith_invalid(c, 0).st)
             /\ \A t : Calculates(c, t) => Calculates(c, ValidScale(t))
             /\ \A r, z, tag : tag \in Answers => Calculates(c, SetAnswer(d.st, r, z, tag, 0))
  <2>1. /\ Calculates(c, real_2op_NaN(c, y, t1, 0, x).st) /\ Calculates(c, arith_invalid(c, 0).st)
        /\ \A r, z, tag : tag \in Answers => Calculates(c, SetAnswer(d.st, r, z, tag, 0))
    BY <1>1, <1>3, <1>5, TwoNaNsCalculates, InvalidCalculates, ThenWrites DEF SetAnswer
  <2>2. ASSUME NEW t, Calculates(c, t)
        PROVE  Calculates(c, ValidScale(t))
    <3>1. Shape(t)
      BY <2>2 DEF Calculates
    <3>2. \A e, sig, sg : Calculates(c, PutScaled(FPU_round(t, e, sig, 0, t.cw, sg)))
      BY <1>1, <1>5, <2>2, <3>1, RoundMakes, CalculatesAll, ThenWrites DEF PutScaled, Makes
    <3>3. \A z, n : Calculates(c, ScaleBy(t, Operand16(t, 0), z, n))
      BY <3>2 DEF ScaleBy
    <3>4. /\ Calculates(c, FPU_exception(t, {"OE"})) /\ Calculates(c, FPU_exception(t, {"UE"}))
      BY <1>1, <2>2, ThenCalculates
    <3>5. \A z : /\ Calculates(c, SetAnswer(FPU_exception(t, {"OE"}), CONST_INF, z, "Special", 0))
                 /\ Calculates(c, SetAnswer(FPU_exception(t, {"UE"}), CONST_Z, z, "Zero", 0))
      BY <1>1, <1>5, <3>4, ThenWrites DEF SetAnswer, Answers
    <3> QED  BY <3>3, <3>5 DEF ValidScale
  <2> QED  BY <2>1, <2>2
<1>6. Calculates(c, IF t0 = "Denormal" THEN to_exp16_check(d.st, x) ELSE c)
  BY <1>1, <1>3, ThenCalculates
<1>7. Behaves(c, fscale(s))
  <2>1. CASE t0 = "Empty" \/ t1 = "Empty"
    BY <1>4, <2>1 DEF fscale, c, t0, t1
  <2>2. CASE t0 # "Empty" /\ t1 # "Empty"
    <3>1. Holds(c, 0)
      BY <1>2, <2>2
    <3>2. Behaves(c, Unless(d, ValidScale(IF t0 = "Denormal" THEN to_exp16_check(d.st, x) ELSE c)))
      BY <1>3, <1>5, <1>6, <3>1, CalculationBehaves, UnlessBehaves
    <3>3. \A z : /\ Behaves(c, Unless(d, SetAnswer(d.st, CONST_INF, z, "Special", 0)))
                 /\ Behaves(c, Unless(d, SetAnswer(d.st, CONST_Z, z, "Zero", 0)))
      BY <1>3, <1>5, <3>1, CalculationBehaves, UnlessBehaves DEF Answers
    <3>4. /\ Behaves(c, real_2op_NaN(c, y, t1, 0, x).st) /\ Behaves(c, arith_invalid(c, 0).st)
          /\ Behaves(c, denormal_operand(c).st) /\ Behaves(c, c)
      BY <1>3, <1>5, <3>1, CalculationBehaves
    <3> QED  BY <2>2, <3>2, <3>3, <3>4 DEF fscale, c, t0, t1, d
  <2> QED  BY <2>1, <2>2
<1> QED  BY <1>1, <1>7, BehavesAfter

----------------------------------------------------------------------------
\* Arithmetic between registers.

\* The operations with both operands present.
LEMMA ArithCalculates ==
  ASSUME NEW s, Shape(s), Holds(s, 0), NEW i, Holds(s, i), NEW op \in ArithOps
  PROVE  Calculates(s, ToSt0(op, s, i).st) /\ Calculates(s, ToSti(op, s, i).st)
<1>1. FPU_gettagi(s, i) \in Answers /\ FPU_gettagi(s, 0) \in Answers
  BY HeldTags
<1>2. /\ Calculates(s, FPU_add(s, St(s, i), FPU_gettagi(s, i), 0, s.cw).st)
      /\ Calculates(s, FPU_add(s, St(s, i), FPU_gettagi(s, i), i, s.cw).st)
      /\ Calculates(s, FPU_mul(s, St(s, i), FPU_gettagi(s, i), 0, s.cw).st)
      /\ Calculates(s, FPU_mul(s, St(s, 0), FPU_gettagi(s, 0), i, s.cw).st)
  BY <1>1, AddCalculates, MulCalculates
<1>3. \A flags : "LOADED" \notin flags => Calculates(s, FPU_sub(s, flags, i, NoData, s.cw).st)
  BY SubCalculates
<1>4. \A flags : Calculates(s, FPU_div(s, flags, i, NoData, s.cw).st)
  BY DivCalculates
<1>5. op \in {"add", "mul", "sub", "subr", "div", "divr"}
  BY DEF ArithOps
<1>6. Calculates(s, ToSt0(op, s, i).st)
  <2> DEFINE rev == IF op \in {"subr", "divr"} THEN {"REV"} ELSE {}
  <2>1. "LOADED" \notin rev
    OBVIOUS
  <2> HIDE DEF rev
  <2> QED  BY <1>2, <1>3, <1>4, <1>5, <2>1 DEF ToSt0, rev
<1>7. Calculates(s, ToSti(op, s, i).st)
  <2> DEFINE rev == IF op \in {"sub", "div"} THEN {"REV", "DEST_RM"} ELSE {"DEST_RM"}
  <2>1. "LOADED" \notin rev
    OBVIOUS
  <2> HIDE DEF rev
  <2> QED  BY <1>2, <1>3, <1>4, <1>5, <2>1 DEF ToSti, rev
<1> QED  BY <1>6, <1>7

\* The tests of type_table before an instruction on registers.
LEMMA TableBehaves ==
  ASSUME Shape(fpu), NEW i \in Regs, NEW t
  PROVE  /\ (Holds(fpu, 0) => Behaves(fpu, t)) => Behaves(fpu, REG0(t))
         /\ (Holds(fpu, 0) /\ Holds(fpu, i) => Behaves(fpu, t)) =>
              Behaves(fpu, REGI(i, t)) /\ Behaves(fpu, REGIi(i, t)) /\ Behaves(fpu, REGIp(i, t))
<1>1. FPU_empty_i(fpu, 0) => ~ Holds(fpu, 0) /\ Missing(fpu)
  BY PTagFacts, Registers
<1>2. FPU_empty_i(fpu, i) => ~ Holds(fpu, i) /\ Missing(fpu)
  BY PTagFacts
<1>3. /\ ~ FPU_empty_i(fpu, 0) => Holds(fpu, 0)
      /\ ~ FPU_empty_i(fpu, i) => Holds(fpu, i)
  BY PTagFacts, Registers
<1>4. Missing(fpu) => /\ Behaves(fpu, FPU_stack_underflow(fpu))
                      /\ Behaves(fpu, FPU_stack_underflow_i(fpu, i))
                      /\ Behaves(fpu, FPU_stack_underflow_pop(fpu, i))
  BY UnderflowBehaves, UnderflowPopBehaves DEF Missing
<1> QED  BY <1>1, <1>2, <1>3, <1>4 DEF REG0, REGI, REGIi, REGIp, Any

\* fadd, fmul, fsub, fdiv and their forms.
LEMMA ArithBehaves ==
  ASSUME Shape(fpu), NEW op \in ArithOps, NEW i \in Regs
  PROVE  /\ Behaves(fpu, REGI(i, ToSt0(op, clear_C1(fpu), i).st))
         /\ Behaves(fpu, REGIi(i, ToSti(op, clear_C1(fpu), i).st))
         /\ Behaves(fpu, REGIp(i, PopUnless(ToSti(op, clear_C1(fpu), i))))
<1> DEFINE c == clear_C1(fpu)
<1>1. Calculates(fpu, c)
  BY ClearCalculates
<1> HIDE DEF c
<1>2. ASSUME Holds(fpu, 0), Holds(fpu, i)
      PROVE  /\ Behaves(fpu, ToSt0(op, c, i).st) /\ Behaves(fpu, ToSti(op, c, i).st)
             /\ Behaves(fpu, PopUnless(ToSti(op, c, i)))
  <2>1. Shape(c) /\ Holds(c, 0) /\ Holds(c, i)
    BY <1>1, <1>2, CalculatesKeeps
  <2>2. Calculates(fpu, ToSt0(op, c, i).st) /\ Calculates(fpu, ToSti(op, c, i).st)
    BY <1>1, <2>1, ArithCalculates, CalculatesAll
  <2> QED  BY <1>2, <2>2, CalculationBehaves, PopUnlessBehaves
<1> QED  BY <1>2, TableBehaves DEF c

----------------------------------------------------------------------------
\* Arithmetic and comparison with an operand in memory.

\* The status word is set back to what it was.
LEMMA TakenBack ==
  ASSUME NEW s, Shape(s), NEW t, Calculates(s, t)
  PROVE  Calculates(s, [t EXCEPT !.sw = s.sw])
BY DEF Calculates, KeepsFlags, KeepsFault, Shape, Fields, Fits, Occupied

\* A zero that divides a denormal: the denormal is not reported.
LEMMA NotReported ==
  ASSUME NEW s, Shape(s), NEW t, Calculates(s, t), ~ Masked(s, "ZE"), NEW u,
         u = FPU_exception(t, {"ZE"})
  PROVE  Calculates(s, [u EXCEPT !.sw = (u.sw \ {"DE"}) \cup (s.sw \cap {"DE"})])
<1>1. Shape(t) /\ t.cw = s.cw
  BY DEF Calculates
<1>2. Calculates(s, u) /\ Shape(u) /\ u.cw = s.cw
  BY <1>1, ExceptionCalculates, CalculatesAll DEF Calculates
<1>3. "ZE" \in u.sw /\ "ES" \in u.sw
  <2> DEFINE raised == t.sw \cup {"ZE"}
  <2>1. (raised \cap CW_Exceptions) \ t.cw.mask # {}
    BY <1>1 DEF Masked, CW_Exceptions
  <2>2. u = [t EXCEPT !.sw = raised \cup {"ES"}]
    BY <2>1 DEF FPU_exception
  <2>3. u.sw = raised \cup {"ES"}
    BY <1>1, <2>2 DEF Shape, Fields
  <2> QED  BY <2>3
<1> DEFINE sw == (u.sw \ {"DE"}) \cup (s.sw \cap {"DE"})
<1>4. s.sw \cap Lasting \subseteq sw
  BY <1>2 DEF Calculates, KeepsFlags
<1>5. "ZE" \in sw /\ "ES" \in sw /\ "ZE" \in (sw \cap CW_Exceptions) \ s.cw.mask
  BY <1>3 DEF Masked, CW_Exceptions
<1>6. "SF" \in sw <=> "SF" \in u.sw
  BY DEF CW_Exceptions
<1> HIDE DEF sw
<1>7. Calculates(s, [u EXCEPT !.sw = sw])
  BY <1>2, <1>4, <1>5, <1>6 DEF Calculates, KeepsFlags, KeepsFault, Shape, Fields, Fits, Occupied
<1> QED  BY <1>7 DEF sw

\* A comparison that cannot be made.
LEMMA NotComparableFaults ==
  ASSUME NEW s, Shape(s)
  PROVE  /\ Faulted(s, NotComparable(s, EX_StackUnder))
         /\ Calculates(s, NotComparable(s, {"IE"}))
<1>1. ConditionCodes("none") \subseteq {"C0", "C1", "C2", "C3"}
  BY DEF ConditionCodes
<1>2. Faulted(s, FPU_exception(s, EX_StackUnder)) /\ Shape(FPU_exception(s, EX_StackUnder))
  BY ExceptionFaults DEF Faulted
<1>3. Calculates(s, FPU_exception(s, {"IE"}))
  BY ExceptionCalculates
<1> QED
  BY <1>1, <1>2, <1>3, CodesCalculates, FaultedAround, ThenCalculates DEF NotComparable

\* An operand in memory and an empty st(0).
LEMMA MemEmptyBehaves ==
  ASSUME Shape(fpu), NEW op, ~ Holds(fpu, 0)
  PROVE  Behaves(fpu, MemEmpty(op))
<1>1. Missing(fpu)
  BY PTagFacts, Registers
<1>2. Behaves(fpu, FPU_stack_underflow(fpu))
  BY <1>1, UnderflowBehaves DEF Missing
<1> DEFINE t == NotComparable(fpu, EX_StackUnder)
<1>3. Behaves(fpu, t) /\ Behaves(fpu, FPU_pop(t))
  BY <1>1, NotComparableFaults, FaultedBehaves DEF Missing
<1> HIDE DEF t
<1> QED  BY <1>2, <1>3 DEF MemEmpty, PopMasked, t

\* A NaN in st(0) or in memory.
LEMMA MemNaNBehaves ==
  ASSUME Shape(fpu), NEW op, Holds(fpu, 0), NEW ld
  PROVE  Behaves(fpu, MemNaN(op, ld))
<1> DEFINE t == NotComparable(fpu, {"IE"})
<1>1. Calculates(fpu, t)
  BY NotComparableFaults
<1> HIDE DEF t
<1>2. Behaves(fpu, t) /\ Behaves(fpu, FPU_pop(t))
  BY <1>1, CalculationBehaves, PopBehaves
<1>3. \A b, tagb, default : Behaves(fpu, real_2op_NaN(fpu, b, tagb, 0, default).st)
  BY TwoNaNsCalculates, CalculationBehaves
<1> QED  BY <1>2, <1>3 DEF MemNaN, PopMasked, t

\* An operand in memory that trapped as a denormal.
LEMMA MemTrappedBehaves ==
  ASSUME Shape(fpu), NEW op, Holds(fpu, 0), NEW ld, Calculates(fpu, ld.st)
  PROVE  Behaves(fpu, MemTrapped(op, ld))
<1> DEFINE dz == FPU_divide_by_zero(ld.st, 0, ld.r.sign)
           u == dz.st
           noDE == [u EXCEPT !.sw = (u.sw \ {"DE"}) \cup (fpu.sw \cap {"DE"})]
<1>1. Shape(ld.st) /\ Holds(ld.st, 0) /\ (Masked(ld.st, "ZE") <=> Masked(fpu, "ZE"))
  BY CalculatesKeeps
<1>2. Calculates(fpu, dz.st)
  BY <1>1, InvalidCalculates, CalculatesAll
<1>3. dz.exc => ~ Masked(fpu, "ZE") /\ dz.st = FPU_exception(ld.st, {"ZE"})
  BY <1>1 DEF FPU_divide_by_zero, Ret
<1>4. dz.exc => Calculates(fpu, noDE)
  BY <1>3, NotReported
<1> HIDE DEF dz
<1>5. MemTrapped(op, ld) \in {ld.st, dz.st} \/ (dz.exc /\ MemTrapped(op, ld) = noDE)
  BY DEF MemTrapped, dz
<1> QED  BY <1>2, <1>4, <1>5, CalculationBehaves

\* The operation itself, with both operands present.
LEMMA MemOpBehaves ==
  ASSUME Shape(fpu), NEW op \in MemOps, Holds(fpu, 0), NEW ld, Makes(fpu, ld)
  PROVE  Behaves(fpu, MemOp(op, ld))
<1>1. Calculates(fpu, ld.st) /\ ld.tag \in Answers
  BY DEF Makes
<1> DEFINE s == clear_C1(ld.st)
           data == [r |-> ld.r, tag |-> ld.tag]
           flags == IF op \in {"subr", "divr"} THEN {"REV", "LOADED"} ELSE {"LOADED"}
           undone == IF op = "divr" /\ Tag0(fpu) = "Zero" THEN [s EXCEPT !.sw = fpu.sw] ELSE s
           c == FPU_compare_st_data(ld.st, ld.r, ld.tag)
<1>2. Calculates(fpu, s) /\ Shape(s) /\ Holds(s, 0) /\ Shape(ld.st) /\ Holds(ld.st, 0)
  BY <1>1, ThenCalculates, CalculatesKeeps
<1>3. data.tag \in Answers
  BY <1>1
<1> HIDE DEF s, data
<1>4. Calculates(fpu, undone) /\ Shape(undone) /\ Holds(undone, 0)
  BY <1>2, TakenBack, CalculatesKeeps
<1>5. /\ Calculates(fpu, FPU_add(s, ld.r, ld.tag, 0, s.cw).st)
      /\ Calculates(fpu, FPU_mul(s, ld.r, ld.tag, 0, s.cw).st)
  BY <1>1, <1>2, AddCalculates, MulCalculates, CalculatesAll
<1> HIDE DEF undone, flags
<1>6. Calculates(fpu, FPU_sub(s, flags, 0, data, s.cw).st)
  BY <1>2, <1>3, SubCalculates, CalculatesAll
<1>7. Calculates(fpu, FPU_div(undone, flags, 0, data, s.cw).st)
  BY <1>4, DivCalculates, CalculatesAll
<1>8. Calculates(fpu, c.st)
  BY <1>1, <1>2, ComparisonsCalculate, CalculatesAll
<1> HIDE DEF c
<1>9. Behaves(fpu, MemCompare(op, ld, c))
  BY <1>8, CalculationBehaves, PopBehaves DEF MemCompare
<1>10. op \in {"add", "mul", "sub", "subr", "div", "divr", "com", "comp"}
  BY DEF MemOps, ArithOps
<1> QED
  BY <1>5, <1>6, <1>7, <1>9, <1>10, CalculationBehaves DEF MemOp, s, data, flags, undone, c

\* The arithmetic and the comparisons with an operand in memory.
LEMMA MemBehaves ==
  ASSUME Shape(fpu), NEW op \in MemOps, NEW ld, Makes(fpu, ld), MemInstr(op, ld)
  PROVE  Behaves(fpu, fpu')
<1>1. FPU_empty_i(fpu, 0) <=> ~ Holds(fpu, 0)
  BY PTagFacts, Registers
<1>2. Calculates(fpu, ld.st)
  BY DEF Makes
<1>3. ~ Holds(fpu, 0) => fpu' = MemEmpty(op)
  BY <1>1 DEF MemInstr, Instr, NoWait
<1>4. ~ Holds(fpu, 0) => Behaves(fpu, fpu')
  BY <1>3, MemEmptyBehaves
<1>5. Holds(fpu, 0) => Behaves(fpu, MemNaN(op, ld)) /\ Behaves(fpu, MemTrapped(op, ld))
                       /\ Behaves(fpu, MemOp(op, ld))
  BY <1>2, MemNaNBehaves, MemTrappedBehaves, MemOpBehaves
<1>6. Holds(fpu, 0) => fpu' \in {MemNaN(op, ld), MemTrapped(op, ld), MemOp(op, ld)}
  BY <1>1 DEF MemInstr, Instr, NoWait
<1> QED  BY <1>4, <1>5, <1>6

\* Each size of operand.
LEMMA ArithMemBehaves ==
  ASSUME Shape(fpu), NEW op \in MemOps, NEW x,
         \/ ArithSingle(op, x) \/ ArithDouble(op, x) \/ ArithInt32(op, x) \/ ArithInt16(op, x)
  PROVE  Behaves(fpu, fpu')
<1>1. Makes(fpu, FPU_load_single(fpu, x)) /\ Makes(fpu, FPU_load_double(fpu, x))
  BY LoadMakes
<1>2. Makes(fpu, LoadedInt(FPU_load_int32(x))) /\ Makes(fpu, LoadedInt(FPU_load_int16(x)))
  BY LoadTags, CalculatesNothing DEF Makes, LoadedInt, RetReg
<1> QED
  BY <1>1, <1>2, MemBehaves DEF ArithSingle, ArithDouble, ArithInt32, ArithInt16

----------------------------------------------------------------------------
\* Comparisons of registers and of st(0).

\* An operand is missing.
LEMMA ComparisonsFault ==
  ASSUME NEW s, Shape(s), NEW nr \in Regs, ~ (Holds(s, 0) /\ Holds(s, nr))
  PROVE  /\ Missing(s)
         /\ Faulted(s, compare_st_st(s, nr).st) /\ Faulted(s, compare_u_st_st(s, nr).st)
<1>1. /\ FPU_empty_i(s, 0) \/ FPU_empty_i(s, nr)
      /\ Missing(s)
  BY PTagFacts, Registers
<1> DEFINE none == setcc(s, ConditionCodes("none"))
<1>2. ConditionCodes("none") \subseteq {"C0", "C1", "C2", "C3"}
  BY DEF ConditionCodes
<1>3. Calculates(s, none) /\ Shape(none)
  BY <1>2, CodesCalculates DEF Calculates
<1> HIDE DEF none
<1>4. Faulted(none, FPU_exception(none, EX_StackUnder))
  BY <1>3, ExceptionFaults
<1>5. Faulted(s, FPU_exception(none, EX_StackUnder))
  BY <1>3, <1>4, FaultedAround
<1> QED  BY <1>1, <1>5 DEF compare_st_st, compare_u_st_st, CompareSt, Ret, none

\* fcom, fcomp, fcompp and the unordered ones.
LEMMA ComparesBehave ==
  ASSUME NEW s, Shape(s), NEW nr \in Regs,
         NEW ret \in {compare_st_st(s, nr), compare_u_st_st(s, nr)}
  PROVE  /\ Behaves(s, ret.st) /\ Behaves(s, PopUnless(ret))
         /\ nr = 1 => Behaves(s, PopTwice(ret))
<1>1. CASE Holds(s, 0) /\ Holds(s, nr)
  <2>1. Calculates(s, ret.st)
    BY <1>1, ComparisonsCalculate
  <2> QED
    BY <1>1, <2>1, CalculationBehaves, PopUnlessBehaves, PopTwiceBehaves DEF PopTwice
<1>2. CASE ~ (Holds(s, 0) /\ Holds(s, nr))
  <2>1. Missing(s) /\ Faulted(s, ret.st)
    BY <1>2, ComparisonsFault
  <2> QED  BY <2>1, FaultedBehaves DEF PopUnless, PopTwice, Missing
<1> QED  BY <1>1, <1>2

\* fchs and fabs.
LEMMA SignsBehave ==
  ASSUME NEW s, Shape(s)
  PROVE  Behaves(s, fchs(s)) /\ Behaves(s, fabs_(s))
<1>1. FPU_empty_i(s, 0) => Behaves(s, FPU_stack_underflow(s))
  BY PTagFacts, Registers, UnderflowBehaves DEF Missing
<1>2. ASSUME NEW r
      PROVE  Behaves(s, clear_C1(SetReg(s, 0, r)))
  BY Registers, SetRegCalculates, ThenCalculates, CalculationBehaves
<1> QED  BY <1>1, <1>2 DEF fchs, fabs_

\* ftst.
LEMMA FtstBehaves ==
  ASSUME NEW s, Shape(s)
  PROVE  Behaves(s, ftst_(s))
<1> DEFINE signed == setcc(s, IF St0(s).sign = 1 THEN {"C0"} ELSE {})
           none == setcc(s, ConditionCodes("none"))
<1>1. ConditionCodes("none") \subseteq {"C0", "C1", "C2", "C3"}
  BY DEF ConditionCodes
<1>2. Calculates(s, signed) /\ Calculates(s, none) /\ Shape(none) /\ Calculates(s, setcc(s, {"C3"}))
  BY <1>1, CodesCalculates DEF Calculates
<1> HIDE DEF signed, none
<1> DEFINE den == denormal_operand(signed)
<1>3. Calculates(s, den.st) /\ Calculates(s, FPU_exception(none, {"IE"}))
  BY <1>2, ThenCalculates
<1> HIDE DEF den
<1>4. Calculates(s, setcc(den.st, {"C3"}))
  BY <1>3, ThenCalculates
<1>5. PTag(s, 0) = "Empty" => Behaves(s, FPU_exception(none, EX_StackUnder))
  BY <1>2, PTagFacts, Registers, ExceptionFaults, FaultedAround, FaultedBehaves DEF Missing
<1>6. PTag(s, 0) \in {"Valid", "Zero", "Denormal", "Infinity", "NaN", "Empty"}
  BY PTagFacts, Registers DEF Kinds
<1> QED  BY <1>2, <1>3, <1>4, <1>5, <1>6, CalculationBehaves DEF ftst_, signed, none, den

\* fxam.
LEMMA FxamBehaves ==
  ASSUME NEW s, Shape(s)
  PROVE  Behaves(s, fxam(s))
<1> DEFINE t == PTag(s, 0)
           r == St0(s)
           class == CASE t = "Empty" -> {"C3", "C0"}
                      [] t = "Zero" -> {"C3"}
                      [] t = "Valid" -> {"C2"}
                      [] t = "Denormal" -> {"C2", "C3"}
                      [] t = "NaN" -> IF Normal(r.sig) /\ exponent(r) = EXP_OVER THEN {"C0"} ELSE {}
                      [] t = "Infinity" -> {"C2", "C0"}
<1>1. t \in {"Valid", "Zero", "Denormal", "Infinity", "NaN", "Empty"}
  BY PTagFacts, Registers DEF Kinds
<1> HIDE DEF t, r
<1>2. class \subseteq {"C0", "C1", "C2", "C3"}
  BY <1>1
<1> HIDE DEF class
<1>3. Behaves(s, setcc(s, class \cup (IF r.sign = 1 THEN {"C1"} ELSE {})))
  BY <1>2, CodesCalculates, CalculationBehaves
<1> QED  BY <1>3 DEF fxam, t, r, class

----------------------------------------------------------------------------
\* Moves between registers, and constants.

\* fld of a register.
LEMMA FldBehaves ==
  ASSUME NEW s, Shape(s), NEW i \in Regs
  PROVE  Behaves(s, fld_i_(s, i))
<1>1. CASE STACK_OVERFLOW(s)
  BY <1>1, OverflowBehaves DEF fld_i_
<1>2. CASE ~ STACK_OVERFLOW(s) /\ ~ FPU_empty_i(s, i)
  <2>1. FPU_gettagi(s, i) \in Answers
    BY <1>2, HeldTags DEF Holds
  <2>2. Behaves(s, FPU_copy_to_regi(Push(s), St(s, i), FPU_gettagi(s, i), 0))
    BY <1>2, <2>1, CalculatesNothing, PushedBehaves
  <2> QED  BY <1>2, <2>2 DEF fld_i_
<1>3. CASE ~ STACK_OVERFLOW(s) /\ FPU_empty_i(s, i)
  <2>1. Behaves(s, FPU_stack_underflow(s))
    BY <1>3, PTagFacts, UnderflowBehaves DEF Missing
  <2> QED  BY <1>3, <2>1 DEF fld_i_
<1> QED  BY <1>1, <1>2, <1>3

\* fst and fstp to a register.
LEMMA FstBehaves ==
  ASSUME Shape(fpu), NEW i \in Regs
  PROVE  Behaves(fpu, REG0(fst_i_(fpu, i))) /\ Behaves(fpu, REG0(FPU_pop(fst_i_(fpu, i))))
<1>1. ASSUME Holds(fpu, 0)
      PROVE  Behaves(fpu, fst_i_(fpu, i)) /\ Behaves(fpu, FPU_pop(fst_i_(fpu, i)))
  <2>1. Tag0(fpu) \in Answers
    BY <1>1, HeldTags DEF Tag0
  <2> QED  BY <1>1, <2>1, StoreBehaves DEF fst_i_
<1> QED  BY <1>1, TableBehaves

\* The answers of a stack fault, in up to two registers.
LEMMA AnswersBehave ==
  ASSUME NEW s, Shape(s), Missing(s), NEW i \in Regs,
         NEW t, Shape(t), KeepsFlags(s, t), "SF" \in t.sw, t.top = s.top,
         Occupied(t) \in {Occupied(s), Occupied(s) \cup {i}, Occupied(s) \cup {i, s.top}}
  PROVE  Behaves(s, t)
BY DEF Behaves, FaultyMove, Moves, Missing

\* The exchange of two registers, of which one or both may be empty.
LEMMA FxchBehaves ==
  ASSUME NEW s, Shape(s), NEW i \in Regs
  PROVE  Behaves(s, fxch_i(s, i))
<1> DEFINE a == St0(s)
           b == St(s, i)
           ta == FPU_gettagi(s, 0)
           tb == FPU_gettagi(s, i)
           full == Occupied(s)
<1>1. 0 \in Regs /\ Phys(s, 0) = s.top /\ Phys(s, i) \in Regs /\ s.top \in Regs
  BY Registers, AroundTop DEF Shape
<1>2. /\ ta # "Empty" => ta \in Answers /\ Holds(s, 0) /\ s.top \in full
      /\ tb # "Empty" => tb \in Answers /\ Holds(s, i) /\ Phys(s, i) \in full
      /\ ta = "Empty" \/ tb = "Empty" => Missing(s)
  BY <1>1, HeldTags, HeldRegisters, PTagFacts DEF Holds, FPU_empty_i
<1> HIDE DEF ta, tb, a, b
<1>3. CASE ta = "Empty" /\ tb = "Empty"
  <2> DEFINE u == FPU_stack_underflow_i(s, 0)
             t == FPU_stack_underflow_i(u, i)
  <2>1. /\ Shape(u) /\ KeepsFlags(s, u) /\ u.cw = s.cw /\ u.top = s.top
        /\ Occupied(u) \in {full, full \cup {s.top}} /\ (~ Masked(s, "IE") => Occupied(u) = full)
    BY <1>1, UnderflowEffect DEF Moves
  <2>2. Phys(u, i) = Phys(s, i) /\ (Masked(u, "IE") <=> Masked(s, "IE"))
    BY <2>1 DEF Phys, Masked
  <2> HIDE DEF u
  <2>3. /\ Shape(t) /\ KeepsFlags(u, t) /\ "SF" \in t.sw /\ t.top = s.top
        /\ Occupied(t) \in {full, full \cup {Phys(s, i)}, full \cup {Phys(s, i), s.top}}
    BY <2>1, <2>2, UnderflowEffect DEF Moves
  <2>4. KeepsFlags(s, t)
    BY <2>1, <2>3 DEF KeepsFlags
  <2> HIDE DEF t
  <2>5. Behaves(s, t)
    BY <1>1, <1>2, <1>3, <2>3, <2>4, AnswersBehave
  <2> QED  BY <1>3, <2>5 DEF fxch_i, ta, tb, t, u, FPU_stack_underflow
<1>4. ASSUME NEW j \in Regs, NEW k \in Regs, NEW r, NEW tag \in Answers, Missing(s),
             Phys(s, k) \in full
      PROVE  Behaves(s, FPU_stack_underflow_i(
                          IF Masked(s, "IE") THEN FPU_copy_to_regi(s, r, tag, j) ELSE s, k))
  <2> DEFINE u == IF Masked(s, "IE") THEN FPU_copy_to_regi(s, r, tag, j) ELSE s
             t == FPU_stack_underflow_i(u, k)
  <2>1. /\ Shape(u) /\ KeepsFlags(s, u) /\ u.cw = s.cw /\ u.top = s.top
        /\ Occupied(u) \in {full, full \cup {Phys(s, j)}}
    BY FilledFault DEF KeepsFlags
  <2>2. Phys(u, k) = Phys(s, k)
    BY <2>1 DEF Phys
  <2>3. Occupied(u) \cup {Phys(s, k)} = Occupied(u)
    BY <1>4, <2>1
  <2> HIDE DEF u
  <2>4. /\ Shape(t) /\ KeepsFlags(u, t) /\ "SF" \in t.sw /\ t.top = s.top
        /\ Occupied(t) = Occupied(u)
    <3>1. /\ Shape(t) /\ KeepsFlags(u, t) /\ "SF" \in t.sw
          /\ \/ Moves(t, Occupied(u), u.top)
             \/ Moves(t, Occupied(u) \cup {Phys(u, k)}, u.top)
      BY <2>1, UnderflowEffect
    <3> QED  BY <2>1, <2>2, <2>3, <3>1 DEF Moves
  <2>5. KeepsFlags(s, t)
    BY <2>1, <2>4 DEF KeepsFlags
  <2> HIDE DEF t
  <2>6. Phys(s, j) \in Regs
    BY Registers
  <2>7. Behaves(s, t)
    BY <1>4, <2>1, <2>4, <2>5, <2>6, AnswersBehave
  <2> QED  BY <2>7 DEF t, u
<1>5. CASE ta = "Empty" /\ tb # "Empty"
  <2>1. Behaves(s, FPU_stack_underflow_i(
                     IF Masked(s, "IE") THEN FPU_copy_to_regi(s, b, tb, 0) ELSE s, i))
    BY <1>1, <1>2, <1>4, <1>5
  <2> QED  BY <1>5, <2>1 DEF fxch_i, ta, tb, b
<1>6. CASE ta # "Empty" /\ tb = "Empty"
  <2>1. Behaves(s, FPU_stack_underflow_i(
                     IF Masked(s, "IE") THEN FPU_copy_to_regi(s, a, ta, i) ELSE s, 0))
    BY <1>1, <1>2, <1>4, <1>6
  <2> QED  BY <1>6, <2>1 DEF fxch_i, ta, tb, a, FPU_stack_underflow
<1>7. CASE ta # "Empty" /\ tb # "Empty"
  <2>1. Calculates(s, clear_C1(s))
    BY ClearCalculates
  <2>2. Calculates(s, FPU_copy_to_regi(clear_C1(s), b, tb, 0))
    BY <1>2, <1>7, <2>1, CopiesCalculate
  <2>3. Calculates(s, FPU_copy_to_regi(FPU_copy_to_regi(clear_C1(s), b, tb, 0), a, ta, i))
    BY <1>2, <1>7, <2>2, CopiesCalculate
  <2> QED  BY <1>7, <2>3, CalculationBehaves DEF fxch_i, ta, tb, a, b
<1> QED  BY <1>3, <1>5, <1>6, <1>7

\* A push of a number, onto a stack that may be full.
LEMMA LoadUnlessBehaves ==
  ASSUME NEW s, Shape(s), NEW t, ~ STACK_OVERFLOW(s) => Behaves(s, t)
  PROVE  Behaves(s, LoadUnless(s, t))
BY OverflowBehaves DEF LoadUnless

\* The push itself, after routines that may have raised exceptions.
LEMMA PushedClearBehaves ==
  ASSUME NEW s, Shape(s), NEW t, Calculates(s, t), ~ STACK_OVERFLOW(s), NEW r, NEW tag \in Answers
  PROVE  Behaves(s, clear_C1(FPU_copy_to_regi(Push(t), r, tag, 0)))
<1> DEFINE u == FPU_copy_to_regi(Push(t), r, tag, 0)
<1>1. Behaves(s, u)
  BY PushedBehaves
<1> HIDE DEF u
<1>2. Calculates(u, clear_C1(u))
  BY <1>1, ClearCalculates DEF Behaves
<1>3. Behaves(s, clear_C1(u))
  BY <1>1, <1>2, BehavesBefore
<1> QED  BY <1>3 DEF u

\* The constants have a tag of their own.
LEMMA ConstantTags ==
  ASSUME NEW c \in Constants, NEW rc
  PROVE  Constant(c, rc).tag \in Answers
<1>1. c \in {"fld1", "fldl2t", "fldl2e", "fldpi", "fldlg2", "fldln2", "fldz"}
  BY DEF Constants
<1> QED  BY <1>1 DEF Constant, Answers

\* fld1, fldpi, ...
LEMMA ConstantBehaves ==
  ASSUME NEW s, Shape(s), NEW c \in Constants, NEW rc
  PROVE  Behaves(s, fld_const(s, Constant(c, rc)))
<1> DEFINE k == Constant(c, rc)
<1>1. k.tag \in Answers
  BY ConstantTags
<1> HIDE DEF k
<1>2. ~ STACK_OVERFLOW(s) => Behaves(s, clear_C1(FPU_copy_to_regi(Push(s), k.r, k.tag, 0)))
  BY <1>1, CalculatesNothing, PushedClearBehaves
<1> QED  BY <1>2, OverflowBehaves DEF fld_const, k

\* fild, fbld and fld of an extended number.
LEMMA LoadRegBehaves ==
  ASSUME Shape(fpu), NEW x, x.tag \in Answers
  PROVE  Behaves(fpu, LoadReg(x))
<1>1. ~ STACK_OVERFLOW(fpu) => Behaves(fpu, clear_C1(FPU_copy_to_regi(Push(fpu), x.r, x.tag, 0)))
  BY CalculatesNothing, PushedClearBehaves
<1> QED  BY <1>1, LoadUnlessBehaves DEF LoadReg

\* fld of a float.
LEMMA LoadRealBehaves ==
  ASSUME Shape(fpu), NEW ld, Makes(fpu, ld)
  PROVE  Behaves(fpu, LoadReal(ld))
<1> DEFINE n == real_1op_NaN(ld.st, ld.r)
<1>1. Calculates(fpu, ld.st) /\ ld.tag \in Answers /\ Shape(ld.st)
  BY DEF Makes, Calculates
<1>2. Calculates(fpu, n.st)
  BY <1>1, OneNaNCalculates, CalculatesAll
<1> HIDE DEF n
<1>3. Behaves(fpu, clear_C1(n.st))
  BY <1>2, ThenCalculates, CalculationBehaves
<1>4. ~ STACK_OVERFLOW(fpu) =>
        /\ Behaves(fpu, clear_C1(FPU_copy_to_regi(Push(n.st), n.r, "Special", 0)))
        /\ Behaves(fpu, clear_C1(FPU_copy_to_regi(Push(ld.st), ld.r, ld.tag, 0)))
  BY <1>1, <1>2, PushedClearBehaves DEF Answers
<1> DEFINE nan == ld.tag = "Special" /\ isNaN(ld.r)
           t == CASE nan /\ n.exc -> n.st
                  [] nan /\ ~ n.exc -> FPU_copy_to_regi(Push(n.st), n.r, "Special", 0)
                  [] OTHER -> FPU_copy_to_regi(Push(ld.st), ld.r, ld.tag, 0)
<1>5. t \in {n.st, FPU_copy_to_regi(Push(n.st), n.r, "Special", 0),
             FPU_copy_to_regi(Push(ld.st), ld.r, ld.tag, 0)}
  OBVIOUS
<1> HIDE DEF nan, t
<1>6. ~ STACK_OVERFLOW(fpu) => Behaves(fpu, clear_C1(t))
  BY <1>3, <1>4, <1>5
<1>7. Behaves(fpu, LoadUnless(fpu, clear_C1(t)))
  BY <1>6, LoadUnlessBehaves
<1> QED  BY <1>7 DEF LoadReal, n, nan, t

\* The loads.
LEMMA LoadsBehave ==
  ASSUME Shape(fpu), NEW x,
         \/ FldSingle(x) \/ FldDouble(x) \/ FldExtended(x)
         \/ FildShort(x) \/ FildLong(x) \/ FildLonglong(x) \/ Fbld(x)
  PROVE  Behaves(fpu, fpu')
<1>1. Behaves(fpu, LoadReal(FPU_load_single(fpu, x))) /\ Behaves(fpu, LoadReal(FPU_load_double(fpu, x)))
  BY LoadMakes, LoadRealBehaves
<1>2. /\ Behaves(fpu, LoadReg(FPU_load_int16(x))) /\ Behaves(fpu, LoadReg(FPU_load_int32(x)))
      /\ Behaves(fpu, LoadReg(FPU_load_int64(x))) /\ Behaves(fpu, LoadReg(FPU_load_bcd(x)))
  BY LoadTags, LoadRegBehaves
<1>3. Behaves(fpu, LoadReg([r |-> x, tag |-> FPU_tagof(x)]))
  BY LoadTags, LoadRegBehaves
<1> QED
  BY <1>1, <1>2, <1>3
  DEF FldSingle, FldDouble, FldExtended, FildShort, FildLong, FildLonglong, Fbld, Instr, NoWait

----------------------------------------------------------------------------
\* Stores.

\* What a store of st(0) did to the state, with an operand and without.
Stores(s, ret, tag) ==
  IF tag = "Empty" THEN Faulted(s, ret.st) ELSE Calculates(s, ret.st)

\* The precision that FPU_round_to_int reports lost.
LEMMA LossOfInt ==
  ASSUME NEW rc, NEW sign, NEW e, NEW sig, NEW tag
  PROVE  LET loss == FPU_round_to_int(rc, sign, e, sig, tag).loss
         IN  "SF" \notin loss /\ "ES" \notin loss
BY DEF FPU_round_to_int, RoundShifted, PRECISION_LOST_UP, PRECISION_LOST_DOWN

\* A number below the normal numbers of the format.
LEMMA TinyCalculates ==
  ASSUME NEW s, Shape(s), NEW f, NEW st0, NEW e
  PROVE  Calculates(s, StoreDenormal(s, f, st0, e).st)
<1> DEFINE x == FPU_round_to_int(s.cw.rc, st0.sign, e, st0.sig, "Valid")
<1>1. "SF" \notin x.loss /\ "ES" \notin x.loss
  BY LossOfInt
<1> HIDE DEF x
<1> DEFINE rounded == x.sig = 2^Fraction(f) /\ st0.sig % 2^f.drop # 0
           s1 == IF rounded THEN s ELSE FPU_exception(s, {"UE"})
<1>2. Calculates(s, s) /\ Calculates(s, s1)
  BY CalculatesNothing, ExceptionCalculates
<1> HIDE DEF rounded, s1
<1>3. Calculates(s, FPU_exception(s1, x.loss))
  BY <1>1, <1>2, ThenCalculates
<1>4. StoreTiny(s, f, st0, x).st \in {s, s1, FPU_exception(s1, x.loss)}
  BY DEF StoreTiny, Stored, NotStored, StoreUnless, s1, rounded
<1> QED  BY <1>2, <1>3, <1>4 DEF StoreDenormal, x

\* A number that the format has, and a NaN.
LEMMA NormalCalculates ==
  ASSUME NEW s, Shape(s), NEW f, NEW st0
  PROVE  Calculates(s, StoreNormal(s, f, st0).st) /\ Calculates(s, StoreNaN(s, f, st0).st)
<1> DEFINE over == FPU_exception(s, {"OE"})
           invalid == FPU_exception(s, {"IE"})
<1>1. Calculates(s, s) /\ Calculates(s, over) /\ Calculates(s, invalid)
  BY CalculatesNothing, ExceptionCalculates
<1> HIDE DEF over
<1>2. Calculates(s, set_precision_flag_up(over))
  BY <1>1, ThenCalculates
<1>3. \A lost : Calculates(s, PrecisionLost(s, lost))
  BY PrecisionLostCalculates
<1>4. \A x : StoreRounded(s, f, st0, x).st
               \in {over, set_precision_flag_up(over), PrecisionLost(s, x.lost)}
  BY DEF StoreRounded, Stored, NotStored, StoreUnless, over
<1>5. \A x : Calculates(s, StoreRounded(s, f, st0, x).st)
  BY <1>1, <1>2, <1>3, <1>4
<1>6. StoreNaN(s, f, st0).st \in {s, invalid}
  BY DEF StoreNaN, Stored, NotStored, StoreUnless
<1> QED  BY <1>1, <1>5, <1>6 DEF StoreNormal

\* fst of a float.
LEMMA FloatStores ==
  ASSUME NEW s, Shape(s), NEW f, NEW st0, NEW tag \in Tags
  PROVE  Stores(s, StoreFloat(s, f, st0, tag), tag)
<1> DEFINE t == Precise(tag, st0)
<1>1. CASE tag = "Empty"
  <2>1. t = "Empty"
    BY <1>1, PreciseTags
  <2> HIDE DEF t
  <2>2. StoreTagged(s, f, st0, t).st = FPU_exception(s, EX_StackUnder)
    BY <2>1 DEF StoreTagged, StoreUnless, Stored, NotStored
  <2> QED  BY <1>1, <2>2, ExceptionFaults DEF Stores, StoreFloat, t
<1>2. CASE tag # "Empty"
  <2>1. t \in Kinds
    BY <1>2, PreciseTags DEF Tags, Answers
  <2> HIDE DEF t
  <2>2. /\ Calculates(s, s)
        /\ Calculates(s, StoreNormal(s, f, st0).st) /\ Calculates(s, StoreNaN(s, f, st0).st)
        /\ \A e : Calculates(s, StoreDenormal(s, f, st0, e).st)
    BY CalculatesNothing, NormalCalculates, TinyCalculates
  <2>3. \A x : Calculates(s, Stored(s, x).st)
    BY <2>2 DEF Stored
  <2>4. Calculates(s, StoreTagged(s, f, st0, t).st)
    BY <2>1, <2>2, <2>3 DEF StoreTagged, Kinds
  <2> QED  BY <1>2, <2>4 DEF Stores, StoreFloat, t
<1> QED  BY <1>1, <1>2

\* fist and fbstp.
LEMMA IntStores ==
  ASSUME NEW s, Shape(s), NEW st0, NEW tag \in Tags
  PROVE  /\ \A w : Stores(s, StoreInt(s, w, st0, tag), tag)
         /\ Stores(s, FPU_store_bcd(s, st0, tag), tag)
<1> DEFINE t == Precise(tag, st0)
           x == AsInt(s, st0, tag)
<1>1. t = "Empty" <=> tag = "Empty"
  BY PreciseTags
<1>2. Calculates(s, IntFlags(s, x))
  BY IntFlagsCalculates DEF AsInt
<1> HIDE DEF t, x
<1>3. Calculates(s, FPU_exception(s, {"IE"})) /\ Faulted(s, FPU_exception(s, EX_StackUnder))
  BY ExceptionCalculates, ExceptionFaults
<1>4. ASSUME NEW ret, IF t = "Empty" THEN ret.st = FPU_exception(s, EX_StackUnder)
                      ELSE ret.st \in {FPU_exception(s, {"IE"}), IntFlags(s, x)}
      PROVE  Stores(s, ret, tag)
  BY <1>1, <1>2, <1>3, <1>4 DEF Stores
<1>5. ASSUME NEW w
      PROVE  LET ret == StoreIntAs(s, w, st0, t, x)
             IN  IF t = "Empty" THEN ret.st = FPU_exception(s, EX_StackUnder)
                 ELSE ret.st \in {FPU_exception(s, {"IE"}), IntFlags(s, x)}
  BY DEF StoreIntAs, StoreUnless, Stored, NotStored
<1>6. LET ret == StoreBcdAs(s, st0, t, x)
      IN  IF t = "Empty" THEN ret.st = FPU_exception(s, EX_StackUnder)
          ELSE ret.st \in {FPU_exception(s, {"IE"}), IntFlags(s, x)}
  BY DEF StoreBcdAs, StoreUnless, Stored, NotStored
<1> QED  BY <1>4, <1>5, <1>6 DEF StoreInt, FPU_store_bcd, t, x

\* fstp of an extended number.
LEMMA ExtendedStores ==
  ASSUME NEW s, Shape(s), NEW r, NEW tag
  PROVE  Stores(s, FPU_store_extended(s, r, tag), tag)
BY CalculatesNothing, ExceptionFaults
DEF Stores, FPU_store_extended, StoreUnless, Stored, NotStored

\* A store, and the pop after it.
LEMMA StoredBehaves ==
  ASSUME Shape(fpu), NEW ret, Stores(clear_C1(fpu), ret, Tag0(fpu))
  PROVE  Behaves(fpu, ret.st) /\ Behaves(fpu, FPU_pop(ret.st))
<1>1. Calculates(fpu, clear_C1(fpu))
  BY ClearCalculates
<1>2. CASE Tag0(fpu) = "Empty"
  <2>1. Missing(fpu)
    BY <1>2, PTagFacts, Registers DEF Tag0, FPU_empty_i
  <2>2. Faulted(fpu, ret.st)
    BY <1>1, <1>2, FaultedAround DEF Stores
  <2> QED  BY <2>1, <2>2, FaultedBehaves DEF Missing
<1>3. CASE Tag0(fpu) # "Empty"
  <2>1. Holds(fpu, 0)
    BY <1>3, Registers DEF Holds, Tag0, FPU_empty_i
  <2>2. Calculates(fpu, ret.st)
    BY <1>1, <1>3, CalculatesAll DEF Stores
  <2> QED  BY <2>1, <2>2, CalculationBehaves, PopBehaves
<1> QED  BY <1>2, <1>3

\* The stores.
LEMMA StoresBehave ==
  ASSUME Shape(fpu), NEW pop \in BOOLEAN,
         \/ FstSingle(pop) \/ FstDouble(pop) \/ FistShort(pop) \/ FistLong(pop)
         \/ FistpLonglong \/ FstpExtended \/ Fbstp
  PROVE  Behaves(fpu, fpu')
<1> DEFINE c == clear_C1(fpu)
           r == St0(fpu)
           tag == Tag0(fpu)
<1>1. Shape(c)
  BY ClearCalculates DEF Calculates
<1>2. tag \in Tags
  BY Registers DEF Tag0, FPU_gettagi, Shape
<1> HIDE DEF c, r, tag
<1> DEFINE rets == {FPU_store_single(c, r, tag), FPU_store_double(c, r, tag),
                    FPU_store_int16(c, r, tag), FPU_store_int32(c, r, tag),
                    FPU_store_int64(c, r, tag), FPU_store_extended(c, r, tag),
                    FPU_store_bcd(c, r, tag)}
<1>3. \A ret \in rets : Stores(c, ret, tag)
  BY <1>1, <1>2, FloatStores, IntStores, ExtendedStores
  DEF FPU_store_single, FPU_store_double, FPU_store_int16, FPU_store_int32, FPU_store_int64
<1>4. \A ret \in rets : Behaves(fpu, ret.st) /\ Behaves(fpu, FPU_pop(ret.st))
  BY <1>3, StoredBehaves DEF c, tag
<1>5. \E ret \in rets : fpu' \in {ret.st, FPU_pop(ret.st)}
  BY DEF FstSingle, FstDouble, FistShort, FistLong, FistpLonglong, FstpExtended, Fbstp, StoreInstr,
         NoWait, c, r, tag
<1> QED  BY <1>4, <1>5

----------------------------------------------------------------------------
\* Control.

\* A status word with the summary bit that belongs to its control word.
LEMMA SummedFits ==
  ASSUME NEW sw, NEW cw
  PROVE  /\ sw \cap Lasting \subseteq Summed(sw, cw)
         /\ "SF" \in Summed(sw, cw) <=> "SF" \in sw
         /\ "ES" \in Summed(sw, cw) <=> (Summed(sw, cw) \cap CW_Exceptions) \ cw.mask # {}
BY DEF Summed, Lasting, CW_Exceptions

\* fldcw: the stack stays, and the summary bit fits the new masks.
LEMMA FldcwBehaves ==
  ASSUME NEW s, Shape(s), NEW cw \in ControlWord
  PROVE  Behaves(s, fldcw(s, cw))
<1> DEFINE sw == Summed(s.sw, cw)
           t == [s EXCEPT !.cw = cw, !.sw = sw]
<1>1. /\ s.sw \cap Lasting \subseteq sw
      /\ "SF" \in sw <=> "SF" \in s.sw
      /\ "ES" \in sw <=> (sw \cap CW_Exceptions) \ cw.mask # {}
  BY SummedFits
<1> HIDE DEF sw
<1>2. /\ Shape(t) /\ t.cw = cw /\ t.sw = sw /\ t.top = s.top /\ Occupied(t) = Occupied(s)
      /\ t.internal = s.internal
  BY DEF Shape, Fields, Occupied
<1> HIDE DEF t
<1>3. Behaves(s, t)
  BY <1>1, <1>2 DEF Behaves, KeepsFlags, KeepsFault, Fits, CleanMove, Moves
<1> QED  BY <1>3 DEF fldcw, t, sw

\* fstenv: every exception is masked, and the summary bit goes.
LEMMA FstenvBehaves ==
  ASSUME NEW s, Shape(s)
  PROVE  Behaves(s, fstenv(s).st)
<1> DEFINE cw == [s.cw EXCEPT !.mask = CW_Exceptions]
           sw == s.sw \ {"ES"}
           t == [s EXCEPT !.cw = cw, !.sw = sw]
<1>1. cw \in ControlWord /\ cw.mask = CW_Exceptions
  BY DEF Shape, ControlWord
<1>2. s.sw \cap Lasting \subseteq sw /\ ("SF" \in sw <=> "SF" \in s.sw) /\ "ES" \notin sw
  BY DEF Lasting, CW_Exceptions
<1> HIDE DEF sw, cw
<1>3. /\ Shape(t) /\ t.cw = cw /\ t.sw = sw /\ t.top = s.top /\ Occupied(t) = Occupied(s)
      /\ t.internal = s.internal
  BY <1>1 DEF Shape, Fields, Occupied
<1> HIDE DEF t
<1>4. Behaves(s, t)
  BY <1>1, <1>2, <1>3 DEF Behaves, KeepsFlags, KeepsFault, Fits, CleanMove, Moves
<1> QED  BY <1>4 DEF fstenv, Stored, t, cw, sw

\* What the instructions that set the stack do to the rest.
Commands(s, t) ==
  /\ Shape(t)
  /\ t.internal = s.internal
  /\ Fits(s) => Fits(t)

\* ffree, ffreep, fincstp and fdecstp, which also keep the flags.
LEMMA StackCommands ==
  ASSUME NEW s, Shape(s), NEW i \in Regs,
         NEW t \in {ffree_(s, i), FPU_pop(ffree_(s, i)), fincstp(s), fdecstp(s)}
  PROVE  Commands(s, t) /\ s.sw \cap Lasting \subseteq t.sw
<1> DEFINE c == clear_C1(s)
<1>1. Shape(c) /\ KeepsFlags(s, c) /\ c.internal = s.internal /\ (Fits(s) => Fits(c))
  <2>1. Calculates(s, c) /\ c = [s EXCEPT !.sw = s.sw \ {"C1"}]
    BY ClearCalculates DEF clear_C1
  <2>2. c.internal = s.internal /\ c.cw = s.cw /\ c.sw = s.sw \ {"C1"}
    BY <2>1 DEF Shape, Fields
  <2>3. Fits(s) => Fits(c)
    BY <2>2 DEF Fits, CW_Exceptions
  <2> QED  BY <2>1, <2>2, <2>3 DEF Calculates
<1> HIDE DEF c
<1>2. ASSUME NEW u, NEW v, Shape(v), SameStatus(u, v), Commands(s, u), s.sw \cap Lasting \subseteq u.sw
      PROVE  Commands(s, v) /\ s.sw \cap Lasting \subseteq v.sw
  BY <1>2 DEF Commands, SameStatus, Fits
<1>3. Commands(s, s) /\ Commands(s, c) /\ s.sw \cap Lasting \subseteq c.sw
  BY <1>1 DEF Commands, KeepsFlags
<1> DEFINE f == ffree_(s, i)
<1>4. Shape(f) /\ SameStatus(s, f)
  BY Registers DEF ffree_, FPU_settagi, Shape, Fields, SameStatus, Tags
<1> HIDE DEF f
<1>5. Shape(FPU_pop(f)) /\ SameStatus(f, FPU_pop(f))
  BY <1>4, PopEffect
<1>6. Shape(Push(c)) /\ SameStatus(c, Push(c))
  BY <1>1, PushEffect
<1>7. Shape(fincstp(s)) /\ SameStatus(c, fincstp(s))
  <2>1. (c.top + 1) % NRegs \in Regs
    BY <1>1, AroundTop
  <2> QED  BY <1>1, <2>1 DEF fincstp, c, Shape, Fields, SameStatus
<1>8. Commands(s, f) /\ s.sw \cap Lasting \subseteq f.sw
  BY <1>2, <1>3, <1>4
<1> QED  BY <1>2, <1>3, <1>5, <1>6, <1>7, <1>8 DEF fdecstp, f, c

\* The tags after fldenv and frstor.
LEMMA LoadedTags ==
  ASSUME NEW s, Shape(s), NEW tag \in [Regs -> Tags], NEW i \in Regs
  PROVE  (CASE tag[i] = "Empty" -> "Empty"
            [] tag[i] # "Empty" /\ s.tag[i] = "Empty" -> FPU_tagof(s.reg[i])
            [] OTHER -> s.tag[i]) \in Tags
BY LoadTags DEF Shape, Tags, Answers

\* fldenv and frstor of an image, fclex, finit and fsave.
LEMMA ImageCommands ==
  ASSUME NEW s, Shape(s)
  PROVE  /\ \A image \in Images : Commands(s, fldenv(s, image.env)) /\ Commands(s, frstor(s, image))
         /\ Commands(s, fclex(s)) /\ Commands(s, finit(s)) /\ Commands(s, fsave(s).st)
<1>1. ASSUME NEW image \in Images
      PROVE  Commands(s, fldenv(s, image.env)) /\ Commands(s, frstor(s, image))
  <2> DEFINE env == image.env
             sw == Summed(env.sw, env.cw)
             tag == [i \in Regs |-> CASE env.tag[i] = "Empty" -> "Empty"
                                      [] env.tag[i] # "Empty" /\ s.tag[i] = "Empty" ->
                                           FPU_tagof(s.reg[i])
                                      [] OTHER -> s.tag[i]]
             t == [s EXCEPT !.cw = env.cw, !.top = env.top, !.sw = sw, !.tag = tag]
  <2>1. env.cw \in ControlWord /\ env.top \in Regs /\ env.tag \in [Regs -> Tags]
    BY ProgramAssumption
  <2>2. "ES" \in sw <=> (sw \cap CW_Exceptions) \ env.cw.mask # {}
    BY SummedFits
  <2>3. tag \in [Regs -> Tags]
    BY <2>1, LoadedTags
  <2> HIDE DEF env, sw, tag
  <2>4. Shape(t) /\ t.cw = env.cw /\ t.sw = sw /\ t.internal = s.internal
    BY <2>1, <2>3 DEF Shape, Fields
  <2>5. t = fldenv(s, image.env)
    BY DEF fldenv, t, env, sw, tag
  <2> HIDE DEF t
  <2> DEFINE regs == [i \in Regs |-> image.regs[(i + NRegs - t.top) % NRegs]]
             tags == [i \in Regs |-> IF t.tag[i] = "Empty" THEN "Empty" ELSE FPU_tagof(regs[i])]
             u == [t EXCEPT !.reg = regs, !.tag = tags]
  <2>6. tags \in [Regs -> Tags] /\ regs = [i \in Regs |-> regs[i]]
    BY LoadTags DEF Tags, Answers
  <2> HIDE DEF regs, tags
  <2>7. Shape(u) /\ u.cw = env.cw /\ u.sw = sw /\ u.internal = s.internal
    BY <2>4, <2>6 DEF Shape, Fields
  <2>8. u = frstor(s, image)
    BY <2>5 DEF frstor, u, regs, tags
  <2> HIDE DEF u
  <2> QED  BY <2>2, <2>4, <2>5, <2>7, <2>8 DEF Commands, Fits
<1>2. Commands(s, fclex(s))
  <2> DEFINE sw == s.sw \ (CW_Exceptions \cup {"SF", "ES"})
             t == [s EXCEPT !.sw = sw]
  <2>1. "ES" \notin sw /\ sw \cap CW_Exceptions = {}
    OBVIOUS
  <2> HIDE DEF sw
  <2>2. Shape(t) /\ t.sw = sw /\ t.internal = s.internal
    BY DEF Shape, Fields
  <2> HIDE DEF t
  <2>3. Commands(s, t)
    BY <2>1, <2>2 DEF Commands, Fits
  <2> QED  BY <2>3 DEF fclex, t, sw
<1>3. ASSUME NEW t, Shape(t), t.internal = s.internal
      PROVE  Commands(s, finit(t))
  <2> DEFINE u == finit(t)
  <2>1. [mask |-> CW_Exceptions, rc |-> "RND", pc |-> "64"] \in ControlWord
    BY DEF ControlWord
  <2>2. 0 \in Regs
    BY Registers
  <2>3. Shape(u) /\ u.sw = {} /\ u.internal = s.internal
    BY <1>3, <2>1, <2>2 DEF finit, Shape, Fields, Tags
  <2> HIDE DEF u
  <2>4. Commands(s, u)
    BY <2>3 DEF Commands, Fits
  <2> QED  BY <2>4 DEF u
<1>4. Shape(fstenv(s).st) /\ fstenv(s).st.internal = s.internal
  BY FstenvBehaves DEF Behaves, fstenv, Stored, Shape, Fields
<1> QED  BY <1>1, <1>2, <1>3, <1>4 DEF fsave, Stored

----------------------------------------------------------------------------
\* The machine.

\* The instructions that may take flags back.
Clearing == {"fclex", "finit", "fsave", "fldenv", "frstor"}

\* What an instruction did, by its kind.
Step(s, t, name) ==
  \/ name \notin Controls /\ Behaves(s, t)
  \/ name \in Controls /\ Commands(s, t) /\ (name \notin Clearing => s.sw \cap Lasting \subseteq t.sw)

\* The instructions on registers.
LEMMA RegisterSteps ==
  ASSUME Shape(fpu), RegisterInstr
  PROVE  Step(fpu, fpu', insn')
<1> USE DEF Instr, NoWait, Step, Controls
<1>1. ASSUME NEW i \in Regs, NEW op \in ArithOps, ArithSt0(op, i) \/ ArithSti(op, i) \/ ArithPop(op, i)
      PROVE  Step(fpu, fpu', insn')
  <2>1. insn' \in {"add", "mul", "sub", "subr", "div", "divr"}
    BY <1>1 DEF ArithSt0, ArithSti, ArithPop, ArithOps
  <2>2. Behaves(fpu, fpu')
    BY <1>1, ArithBehaves DEF ArithSt0, ArithSti, ArithPop
  <2> QED  BY <2>1, <2>2
<1>2. ASSUME NEW i \in Regs, Fcom(i) \/ Fcomp(i) \/ Fucom(i) \/ Fucomp(i)
      PROVE  Step(fpu, fpu', insn')
  <2>1. Behaves(fpu, fpu')
    BY <1>2, ComparesBehave DEF Fcom, Fcomp, Fucom, Fucomp
  <2> QED  BY <1>2, <2>1 DEF Fcom, Fcomp, Fucom, Fucomp
<1>3. ASSUME Fcompp \/ Fucompp
      PROVE  Step(fpu, fpu', insn')
  <2>1. Behaves(fpu, fpu')
    BY <1>3, Registers, ComparesBehave DEF Fcompp, Fucompp
  <2> QED  BY <1>3, <2>1 DEF Fcompp, Fucompp
<1>4. ASSUME NEW i \in Regs, FldI(i) \/ FxchI(i) \/ FxchUndocumented(i) \/ FstI(i) \/ FstpI(i)
      PROVE  Step(fpu, fpu', insn')
  <2>1. /\ Behaves(fpu, fld_i_(fpu, i)) /\ Behaves(fpu, fxch_i(fpu, i))
        /\ Behaves(fpu, REGI(i, fxch_i(fpu, i)))
        /\ Behaves(fpu, REG0(fst_i_(fpu, i))) /\ Behaves(fpu, REG0(FPU_pop(fst_i_(fpu, i))))
    BY FldBehaves, FxchBehaves, FstBehaves, TableBehaves
  <2> QED  BY <1>4, <2>1 DEF FldI, FxchI, FxchUndocumented, FstI, FstpI
<1>5. ASSUME NEW i \in Regs, Ffree(i) \/ Ffreep(i)
      PROVE  Step(fpu, fpu', insn')
  <2>1. Commands(fpu, fpu') /\ fpu.sw \cap Lasting \subseteq fpu'.sw
    BY <1>5, StackCommands DEF Ffree, Ffreep
  <2> QED  BY <1>5, <2>1 DEF Ffree, Ffreep
<1>6. ASSUME Fchs \/ Fabs \/ Ftst \/ Fxam
      PROVE  Step(fpu, fpu', insn')
  <2>1. /\ Behaves(fpu, fchs(fpu)) /\ Behaves(fpu, fabs_(fpu))
        /\ Behaves(fpu, ftst_(fpu)) /\ Behaves(fpu, fxam(fpu))
    BY SignsBehave, FtstBehaves, FxamBehaves
  <2> QED  BY <1>6, <2>1 DEF Fchs, Fabs, Ftst, Fxam
<1>7. ASSUME NEW c \in Constants, Fconst(c)
      PROVE  Step(fpu, fpu', insn')
  <2>1. insn' \in {"fld1", "fldl2t", "fldl2e", "fldpi", "fldlg2", "fldln2", "fldz"}
    BY <1>7 DEF Fconst, Constants
  <2>2. Behaves(fpu, fpu')
    BY <1>7, ConstantBehaves DEF Fconst
  <2> QED  BY <2>1, <2>2
<1>8. ASSUME Fnop
      PROVE  Step(fpu, fpu', insn')
  BY <1>8, CalculatesNothing, CalculationBehaves DEF Fnop
<1> QED  BY <1>1, <1>2, <1>3, <1>4, <1>5, <1>6, <1>7, <1>8 DEF RegisterInstr

\* The instructions with an operand in memory.
LEMMA MemorySteps ==
  ASSUME Shape(fpu), MemoryInstr
  PROVE  Step(fpu, fpu', insn')
<1> USE DEF Instr, NoWait, Step, Controls
<1>1. ASSUME NEW op \in MemOps, NEW x,
             \/ ArithSingle(op, x) \/ ArithDouble(op, x) \/ ArithInt32(op, x) \/ ArithInt16(op, x)
      PROVE  Step(fpu, fpu', insn')
  <2>1. insn' \in {"add", "mul", "sub", "subr", "div", "divr", "com", "comp"}
    BY <1>1 DEF ArithSingle, ArithDouble, ArithInt32, ArithInt16, MemInstr, MemOps, ArithOps
  <2>2. Behaves(fpu, fpu')
    BY <1>1, ArithMemBehaves
  <2> QED  BY <2>1, <2>2
<1>2. ASSUME NEW x,
             \/ FldSingle(x) \/ FldDouble(x) \/ FldExtended(x)
             \/ FildShort(x) \/ FildLong(x) \/ FildLonglong(x) \/ Fbld(x)
      PROVE  Step(fpu, fpu', insn')
  <2>1. insn' \in {"fld", "fild", "fbld"}
    BY <1>2 DEF FldSingle, FldDouble, FldExtended, FildShort, FildLong, FildLonglong, Fbld
  <2>2. Behaves(fpu, fpu')
    BY <1>2, LoadsBehave
  <2> QED  BY <2>1, <2>2
<1>3. ASSUME NEW pop \in BOOLEAN,
             \/ FstSingle(pop) \/ FstDouble(pop) \/ FistShort(pop) \/ FistLong(pop)
             \/ FistpLonglong \/ FstpExtended \/ Fbstp
      PROVE  Step(fpu, fpu', insn')
  <2>1. insn' \in {"fst32", "fst64", "fist16", "fist32", "fist64", "fst80", "fbstp"}
    BY <1>3
    DEF FstSingle, FstDouble, FistShort, FistLong, FistpLonglong, FstpExtended, Fbstp, StoreInstr
  <2>2. Behaves(fpu, fpu')
    BY <1>3, StoresBehave
  <2> QED  BY <2>1, <2>2
<1> QED  BY <1>1, <1>2, <1>3 DEF MemoryInstr

\* The control instructions.
LEMMA ControlSteps ==
  ASSUME Shape(fpu), ControlInstr
  PROVE  Step(fpu, fpu', insn')
<1> USE DEF Instr, NoWait, Step, Controls, Clearing
<1>1. ASSUME NEW cw \in ControlWords, Fldcw(cw)
      PROVE  Step(fpu, fpu', insn')
  BY <1>1, FldcwBehaves, ProgramAssumption DEF Fldcw
<1>2. ASSUME Fstenv
      PROVE  Step(fpu, fpu', insn')
  BY <1>2, FstenvBehaves DEF Fstenv
<1>3. ASSUME Fstcw \/ Fstsw \/ Fsetpm
      PROVE  Step(fpu, fpu', insn')
  BY <1>3, CalculatesNothing, CalculationBehaves DEF Fstcw, Fstsw, Fsetpm
<1>4. ASSUME NEW image \in Images, Fldenv(image) \/ Frstor(image)
      PROVE  Step(fpu, fpu', insn')
  BY <1>4, ImageCommands DEF Fldenv, Frstor
<1>5. ASSUME Fsave \/ Fclex \/ Finit
      PROVE  Step(fpu, fpu', insn')
  BY <1>5, ImageCommands DEF Fsave, Fclex, Finit
<1> QED  BY <1>1, <1>2, <1>3, <1>4, <1>5 DEF ControlInstr

\* The functions.
LEMMA TrigSteps ==
  ASSUME Shape(fpu), TrigInstr
  PROVE  Step(fpu, fpu', insn')
<1> USE DEF Instr, NoWait, Step, Controls, Clearing
<1>1. ASSUME Fdecstp \/ Fincstp
      PROVE  Step(fpu, fpu', insn')
  BY <1>1, StackCommands, Registers DEF Fdecstp, Fincstp
<1>2. ASSUME Fxtract \/ Fprem1 \/ Fprem \/ Fsqrt \/ Frndint \/ Fscale
      PROVE  Step(fpu, fpu', insn')
  <2>1. /\ Behaves(fpu, fxtract(fpu)) /\ Behaves(fpu, fsqrt_(fpu)) /\ Behaves(fpu, frndint_(fpu))
        /\ Behaves(fpu, fscale(fpu)) /\ \A round : Behaves(fpu, do_fprem(fpu, round))
    BY FxtractBehaves, FsqrtBehaves, FrndintBehaves, FscaleBehaves, FpremBehaves
  <2> QED  BY <1>2, <2>1 DEF Fxtract, Fprem1, Fprem, Fsqrt, Frndint, Fscale
<1>3. ASSUME F2xm1 \/ Fyl2x \/ Fpatan \/ Fyl2xp1
      PROVE  Step(fpu, fpu', insn')
  BY <1>3, F2xm1Behaves, Fyl2xBehaves, FpatanBehaves, Fyl2xp1Behaves DEF F2xm1, Fyl2x, Fpatan, Fyl2xp1
<1>4. ASSUME Fptan \/ Fsincos \/ Fsin \/ Fcos
      PROVE  Step(fpu, fpu', insn')
  BY <1>4, FptanBehaves, FsincosBehaves, FsinBehaves DEF Fptan, Fsincos, Fsin, Fcos
<1> QED  BY <1>1, <1>2, <1>3, <1>4 DEF TrigInstr

\* Every instruction.
LEMMA Steps ==
  ASSUME Shape(fpu), Next
  PROVE  Step(fpu, fpu', insn')
BY RegisterSteps, MemorySteps, ControlSteps, TrigSteps DEF Next

\* The inductive invariant: the state has its shape, and until an internal
\* error the summary bit fits the flags and the masks.
Inv == Shape(fpu) /\ (NoInternalError => SummaryFits)

\* The invariant holds at first.
LEMMA InitInv ==
  ASSUME Init
  PROVE  Inv
<1>1. PICK f \in Files, cw \in ControlWords, sw \in StatusWords :
        fpu = [cw |-> cw, sw |-> Summed(sw, cw), top |-> 0, internal |-> FALSE,
               tag |-> [i \in Regs |-> f[i].tag], reg |-> [i \in Regs |-> f[i].r]]
  BY DEF Init
<1>2. cw \in ControlWord /\ [i \in Regs |-> f[i].tag] \in [Regs -> Tags] /\ 0 \in Regs
  BY ProgramAssumption, Registers
<1>3. "ES" \in Summed(sw, cw) <=> (Summed(sw, cw) \cap CW_Exceptions) \ cw.mask # {}
  BY SummedFits
<1>4. Shape(fpu)
  BY <1>1, <1>2 DEF Shape, Fields
<1>5. fpu.sw = Summed(sw, cw) /\ fpu.cw = cw
  BY <1>1
<1> QED  BY <1>3, <1>4, <1>5 DEF Inv, SummaryFits

\* Every instruction keeps it.
LEMMA NextInv ==
  ASSUME Inv, [Next]_vars
  PROVE  Inv'
<1>1. CASE UNCHANGED vars
  BY <1>1 DEF Inv, vars, Shape, SummaryFits, NoInternalError
<1>2. CASE Next
  <2>1. Step(fpu, fpu', insn')
    BY <1>2, Steps DEF Inv
  <2>2. Shape(fpu') /\ (fpu.internal => fpu'.internal) /\ (~ fpu'.internal => (Fits(fpu) => Fits(fpu')))
    BY <2>1 DEF Step, Behaves, Commands, KeepsFlags
  <2>3. ~ fpu.internal => Fits(fpu)
    BY DEF Inv, NoInternalError, SummaryFits, Fits
  <2>4. ~ fpu'.internal => Fits(fpu')
    BY <2>2, <2>3
  <2> QED  BY <2>2, <2>4 DEF Inv, NoInternalError, SummaryFits, Fits, Shape
<1> QED  BY <1>1, <1>2

\* The invariant always holds.
THEOREM InvAlways == Spec => []Inv
<1>1. Init => Inv
  BY InitInv
<1>2. Inv /\ [Next]_vars => Inv'
  BY NextInv
<1> QED  BY <1>1, <1>2, PTL DEF Spec

\* SW_Summary is set exactly while an unmasked exception is flagged, after any
\* sequence of instructions: those that set flags without FPU_exception or
\* take flags back leave it right as well.  EX_INTERNAL sets it whatever the
\* masks, and whether it is ever raised is a matter of significands.
THEOREM SummaryFitsAlways == Spec => [](NoInternalError => SummaryFits)
<1>1. Inv => (NoInternalError => SummaryFits)
  BY DEF Inv
<1> QED  BY <1>1, InvAlways, PTL

\* The exceptions flagged so far, and the stack fault, stay flagged but for the
\* instructions that load or clear the status word, internal errors or not.
THEOREM StickyFlagsAlways == Spec => StickyFlags
<1>1. Inv /\ [Next]_vars =>
        [insn' \in {"fclex", "finit", "fsave", "fldenv", "frstor"}
           \/ (fpu.sw \cap (CW_Exceptions \cup {"SF"})) \subseteq fpu'.sw]_vars
  <2>1. ASSUME Inv, Next, insn' \notin Clearing
        PROVE  fpu.sw \cap Lasting \subseteq fpu'.sw
    <3>1. Step(fpu, fpu', insn')
      BY <2>1, Steps DEF Inv
    <3> QED  BY <2>1, <3>1 DEF Step, Behaves, KeepsFlags
  <2> QED  BY <2>1 DEF Clearing, Lasting
<1> QED  BY <1>1, InvAlways, PTL DEF Spec, StickyFlags

\* The stack of the abstract specification.
LEMMA StackOf ==
  ASSUME Shape(fpu)
  PROVE  /\ Discipline!Slots = Regs
         /\ Discipline!Below = Below(fpu) /\ Discipline!Above = Above(fpu)
BY AroundTop DEF Discipline!Slots, Discipline!Below, Discipline!Above, Regs

\* An instruction that is not one of control takes a step that the stack allows.
LEMMA DataStep ==
  ASSUME Shape(fpu), insn' \notin Controls, Behaves(fpu, fpu'), ~ fpu'.internal
  PROVE  Discipline!Data
<1> DEFINE full == Occupied(fpu)
           Now(f, t) == Moves(fpu', f, t)
           below == Below(fpu)
           above == Above(fpu)
<1>1. Discipline!Below = below /\ Discipline!Above = above /\ Discipline!Slots = Regs
  BY StackOf
<1> USE DEF Discipline!Data, Discipline!Now, Moves, Occupied
<1>2. CASE KeepsFault(fpu, fpu') /\ CleanMove(fpu, fpu')
  <2>1. Discipline!Fine
    BY <1>2 DEF KeepsFault, Discipline!Fine
  <2>2. CASE Now(full, fpu.top)
    BY <2>1, <2>2 DEF Discipline!Keep
  <2>3. CASE below \notin full /\ Now(full \cup {below}, below)
    BY <1>1, <2>1, <2>3 DEF Discipline!Push
  <2>4. CASE fpu.top \in full /\ Now(full \ {fpu.top}, above)
    BY <1>1, <2>1, <2>4 DEF Discipline!Pop
  <2>5. CASE {fpu.top, above} \subseteq full
             /\ Now(full \ {fpu.top, above}, (above + 1) % NRegs)
    BY <1>1, <2>1, <2>5 DEF Discipline!PopTwice
  <2>6. ASSUME NEW i \in Regs, fpu.top \in full,
               Now(full \cup {i}, fpu.top) \/ Now((full \cup {i}) \ {fpu.top}, above)
        PROVE  Discipline!Data
    BY <1>1, <2>1, <2>6 DEF Discipline!Store
  <2> QED  BY <1>2, <2>2, <2>3, <2>4, <2>5, <2>6 DEF CleanMove
<1>3. CASE "SF" \in fpu'.sw /\ FaultyMove(fpu, fpu')
  <2>1. Discipline!Faults
    BY <1>3 DEF Discipline!Faults
  <2>2. CASE below \in full /\ (Now(full, fpu.top) \/ Now(full, below))
    BY <1>1, <2>1, <2>2 DEF Discipline!Overflow
  <2>3. ASSUME Regs \ full # {},
               \/ Now(full, fpu.top)
               \/ Now(full \ {fpu.top}, above)
               \/ Now(full \ {fpu.top, above}, (above + 1) % NRegs)
               \/ Now(full \cup {fpu.top, below}, below)
        PROVE  Discipline!Data
    BY <1>1, <2>1, <2>3 DEF Discipline!Underflow
  <2>4. ASSUME Regs \ full # {}, NEW i \in Regs,
               \/ Now(full \cup {i}, fpu.top)
               \/ Now(full \cup {i, fpu.top}, fpu.top)
               \/ Now((full \cup {i}) \ {fpu.top}, above)
        PROVE  Discipline!Data
    BY <1>1, <2>1, <2>4 DEF Discipline!Underflow
  <2> QED  BY <1>3, <2>2, <2>3, <2>4 DEF FaultyMove
<1> QED  BY <1>2, <1>3 DEF Behaves

\* The control instructions set the stack as they like.
LEMMA ControlStep ==
  ASSUME insn' \in Controls, Shape(fpu')
  PROVE  Discipline!Control
BY DEF Discipline!Control, Discipline!Slots, Shape, Regs

\* The emulator implements the abstract register stack: a push never takes a
\* full register and no answer appears in an empty one without a stack fault,
\* whichever instructions run and in whatever order, as long as no internal
\* error is raised.
THEOREM StackKept == Spec /\ []NoInternalError => KeepsStack
<1>1. Init => Discipline!Init
  <2> SUFFICES ASSUME Init  PROVE Discipline!Init
    OBVIOUS
  <2>1. Shape(fpu)
    BY InitInv DEF Inv
  <2>2. insn \notin Controls
    BY DEF Init, Controls
  <2> QED  BY <2>1, <2>2 DEF Discipline!Init, Discipline!Slots, Shape, Regs
<1>2. Inv /\ NoInternalError' /\ [Next]_vars => [Discipline!Next]_Discipline!stack
  <2> SUFFICES ASSUME Inv, NoInternalError', [Next]_vars
               PROVE  [Discipline!Next]_Discipline!stack
    OBVIOUS
  <2>1. CASE UNCHANGED vars
    BY <2>1 DEF vars, Discipline!stack
  <2>2. CASE Next
    <3>1. Step(fpu, fpu', insn') /\ Shape(fpu)
      BY <2>2, Steps DEF Inv
    <3>2. ~ fpu'.internal
      BY DEF NoInternalError
    <3>3. CASE insn' \notin Controls /\ Behaves(fpu, fpu')
      BY <3>1, <3>2, <3>3, DataStep DEF Discipline!Next
    <3>4. CASE insn' \in Controls /\ Commands(fpu, fpu')
      BY <3>4, ControlStep DEF Commands, Discipline!Next
    <3> QED  BY <3>1, <3>3, <3>4 DEF Step
  <2> QED  BY <2>1, <2>2
<1> QED  BY <1>1, <1>2, InvAlways, PTL DEF Spec, KeepsStack, Discipline!Spec

\* The place of a register in stack order, and back.
LEMMA Rotated ==
  ASSUME NEW s, Shape(s), NEW i \in Regs
  PROVE  /\ (i + NRegs - s.top) % NRegs \in Regs
         /\ Phys(s, (i + NRegs - s.top) % NRegs) = i
<1>1. NRegs \in Nat /\ NRegs > 1 /\ i \in 0..(NRegs - 1) /\ s.top \in 0..(NRegs - 1)
  <2>1. s.top \in Regs
    BY Zenon DEF Shape
  <2>2. NRegs \in Nat \ {0, 1}
    BY Zenon, FormatAssumption
  <2> QED  BY <2>1, <2>2 DEF Regs
<1>2. \A x \in Nat : x < NRegs => x % NRegs = x
  BY <1>1
<1>3. \A x \in Nat : x >= NRegs /\ x < 2 * NRegs => x % NRegs = x - NRegs
  BY <1>1
<1>4. CASE i >= s.top
  <2>1. (i + NRegs - s.top) % NRegs = i - s.top
    BY <1>1, <1>3, <1>4
  <2>2. (s.top + (i - s.top)) % NRegs = i
    BY <1>1, <1>2
  <2> QED  BY <1>1, <1>4, <2>1, <2>2 DEF Phys, Regs
<1>5. CASE i < s.top
  <2>1. (i + NRegs - s.top) % NRegs = i + NRegs - s.top
    BY <1>1, <1>2, <1>5
  <2>2. (s.top + (i + NRegs - s.top)) % NRegs = i
    BY <1>1, <1>3
  <2> QED  BY <1>1, <1>5, <2>1, <2>2 DEF Phys, Regs
<1> QED  BY <1>1, <1>4, <1>5

\* frstor takes back what fsave did, whatever the state.
LEMMA SavedBack ==
  ASSUME Shape(fpu), SummaryFits
  PROVE  SaveRestores
<1> DEFINE image == [env |-> Environment(fpu), regs |-> [i \in Regs |-> St(fpu, i)]]
           s == finit(fstenv(fpu).st)
           tag == [i \in Regs |-> CASE fpu.tag[i] = "Empty" -> "Empty"
                                    [] fpu.tag[i] # "Empty" /\ s.tag[i] = "Empty" ->
                                         FPU_tagof(s.reg[i])
                                    [] OTHER -> s.tag[i]]
           t == [s EXCEPT !.cw = fpu.cw, !.top = fpu.top, !.sw = Summed(fpu.sw, fpu.cw), !.tag = tag]
           regs == [i \in Regs |-> image.regs[(i + NRegs - t.top) % NRegs]]
           tags == [i \in Regs |-> IF t.tag[i] = "Empty" THEN "Empty" ELSE FPU_tagof(regs[i])]
           back == [t EXCEPT !.reg = regs, !.tag = tags]
<1>1. fsave(fpu).st = s /\ fsave(fpu).out[1] = image
  BY DEF fsave, Stored
<1>2. back = frstor(s, image)
  <2> DEFINE env == image.env
  <2>1. env.cw = fpu.cw /\ env.sw = fpu.sw /\ env.top = fpu.top /\ env.tag = fpu.tag
    BY DEF Environment
  <2> HIDE DEF env, s
  <2>2. t = fldenv(s, env)
    BY <2>1 DEF fldenv
  <2> HIDE DEF t, image
  <2> QED  BY <2>2 DEF frstor, env
<1>3. Shape(s) /\ s.internal = fpu.internal /\ \A i \in Regs : s.tag[i] = "Empty"
  <2>1. Shape(fstenv(fpu).st) /\ fstenv(fpu).st.internal = fpu.internal
    BY FstenvBehaves DEF Behaves, fstenv, Stored, Shape, Fields
  <2>2. [mask |-> CW_Exceptions, rc |-> "RND", pc |-> "64"] \in ControlWord /\ 0 \in Regs
    BY Registers DEF ControlWord
  <2> QED  BY <2>1, <2>2 DEF finit, Shape, Fields, Tags
<1>4. Summed(fpu.sw, fpu.cw) = fpu.sw
  BY DEF Summed, SummaryFits
<1>5. \A i \in Regs : image.regs[(i + NRegs - fpu.top) % NRegs] = fpu.reg[i]
  BY Rotated DEF St
<1>6. \A i \in Regs : tag[i] = "Empty" <=> fpu.tag[i] = "Empty"
  BY <1>3, LoadTags DEF Answers
<1> HIDE DEF s, tag, image
<1>7. t.cw = fpu.cw /\ t.top = fpu.top /\ t.sw = fpu.sw /\ t.tag = tag /\ t.internal = fpu.internal
      /\ t = [f \in Fields |-> t[f]]
  BY <1>3, <1>4 DEF Shape, Fields
<1> HIDE DEF t
<1>8. regs = fpu.reg
  BY <1>5, <1>7 DEF Shape
<1>9. (\A i \in Regs : fpu.tag[i] \in {"Empty", FPU_tagof(fpu.reg[i])}) => tags = fpu.tag
  <2> HIDE DEF regs
  <2> SUFFICES ASSUME \A i \in Regs : fpu.tag[i] \in {"Empty", FPU_tagof(fpu.reg[i])}
               PROVE  tags = fpu.tag
    OBVIOUS
  <2>1. \A i \in Regs : tags[i] = fpu.tag[i]
    BY <1>6, <1>7, <1>8
  <2> QED  BY <2>1 DEF Shape
<1> HIDE DEF regs, tags
<1>10. /\ back = [f \in Fields |-> back[f]] /\ back.tag = tags /\ back.reg = fpu.reg
       /\ back.cw = fpu.cw /\ back.top = fpu.top /\ back.sw = fpu.sw /\ back.internal = fpu.internal
  BY <1>7, <1>8 DEF Fields
<1> HIDE DEF back
<1>11. [back EXCEPT !.tag = fpu.tag] = fpu
  BY <1>10 DEF Shape, Fields
<1> QED  BY <1>1, <1>2, <1>9, <1>10, <1>11 DEF SaveRestores

\* frstor of what fsave wrote gives the state back in every state that the
\* emulator reaches without an internal error: the registers although they are
\* saved in stack order, the summary bit although fsave clears it, and the tags
\* wherever they are those of the contents.
THEOREM SaveRestoresAlways == Spec => [](NoInternalError => SaveRestores)
<1>1. Inv => (NoInternalError => SaveRestores)
  BY SavedBack DEF Inv
<1> QED  BY <1>1, InvAlways, PTL

=============================================================================
