------------------------------ MODULE FpuTrig ------------------------------
(***************************************************************************)
(* fpu_trig.c: the instructions on st(0), and on st(0) and st(1), that are *)
(* more than one arithmetic operation, with their stack checks, special    *)
(* operands and exceptions.                                                *)
(*                                                                         *)
(* The polynomials of poly_*.c are not evaluated.  A routine that ends in  *)
(* one has a parameter `a`, the approximation [exp, sig] it came to, and   *)
(* where the quadrant or the kernel decides the sign of the answer a       *)
(* parameter `s`.  The remainder, the square root and the scaling are      *)
(* computed.                                                               *)
(***************************************************************************)
EXTENDS FpuLoadStore

CONST_PI2 == [CONST_PI EXCEPT !.exp = EBias]
CONST_PI4 == [CONST_PI EXCEPT !.exp = EBias - 1]

St0(st) == St(st, 0)
Tag0(st) == FPU_gettagi(st, 0)
PTag(st, i) == Precise(FPU_gettagi(st, i), St(st, i))

\* An operand with a 16 bit exponent, and that form written back to st(i).
Operand16(st, i) ==
  IF PTag(st, i) = "Denormal" THEN FPU_to_exp16(St(st, i)) ELSE Plain(St(st, i))
AsExp16(st, i) ==
  SetReg(st, i, FromExp16(Operand16(st, i).exp, Operand16(st, i).sig))

SetAnswer(st, r, sign, tag, i) == FPU_copy_to_regi(st, SetSign(r, sign), tag, i)

\* The answer of a polynomial is rounded as inexact.
RoundPoly(st, a, sign, i) == Put(FPU_round(st, a.exp, a.sig, 1, FULL_PRECISION, sign), i).st

----------------------------------------------------------------------------
\* Errors of one operand.

single_arg_error(st, tag) ==
  CASE tag = "Empty" -> FPU_stack_underflow(st)
    [] tag = "NaN" -> LET n == real_1op_NaN(st, St0(st)) IN SetReg(n.st, 0, n.r)
    [] OTHER -> FPU_internal(st)

\* The same where the instruction pushes a second answer.
single_arg_2_error(st) ==
  LET a == St0(st)
      isnan == exponent(a) = EXP_OVER /\ Normal(a.sig)
      invalid == FPU_exception(st, {"IE"})
      Twice(s, r) == FPU_copy_to_regi(Push(SetReg(s, 0, r)), r, "Special", 0)
  IN  CASE isnan /\ Quiet(a) -> Twice(st, a)
        [] ~ (isnan /\ Quiet(a)) /\ ~ Masked(st, "IE") -> invalid
        [] isnan /\ ~ Quiet(a) /\ Masked(st, "IE") ->
             Twice(invalid, [a EXCEPT !.sig = @ + QuietBit])
        [] OTHER -> Twice(FPU_copy_to_regi(invalid, CONST_QNaN, "Special", 0), CONST_QNaN)

\* A denormal operand: stop if it traps, else go on.
IfDenormal(any, st) == IF any THEN denormal_operand(st) ELSE Ret(st, "Valid", FALSE)
Unless(ret, s) == IF ret.exc THEN ret.st ELSE s

\* Stop if an operation trapped, else pop.
PopUnless(ret) == IF ret.exc THEN ret.st ELSE FPU_pop(ret.st)

----------------------------------------------------------------------------
\* One operand.

\* The answer of poly_2xm1 has the sign of the argument.
poly_2xm1(st, a, sign) == RoundPoly(st, a, sign, 0)

f2xm1(st, a) ==
  LET s == clear_C1(st)
      t == PTag(st, 0)
      x == St0(st)
      d == IfDenormal(t = "Denormal", s)
  IN  CASE t \in {"Valid", "Denormal"} ->
             IF exponent(x) < 0
             THEN Unless(d, set_precision_flag_up(poly_2xm1(d.st, a, x.sign)))
             ELSE set_precision_flag_up(s)
        [] t = "Zero" -> s
        [] t = "Infinity" -> IF x.sign = 1 THEN SetAnswer(s, CONST_1, 1, "Valid", 0) ELSE s
        [] OTHER -> single_arg_error(s, t)

\* trig_arg: an operand that is too large is left as it is, with C2.  Below
\* this exponent the answer is the argument.
TooLarge(x) == exponent(x) >= W - 1
SmallArg(x) == exponent(x) <= 0 - (5 * W) \div 8
Reduced(st) == [st EXCEPT !.sw = @ \ {"C2"}]
Incomplete(st) == [st EXCEPT !.sw = @ \cup {"C2"}]

\* A sine or cosine is at most 1.
AtMost1(a) == a.exp < 0 \/ (a.exp = 0 /\ a.sig = TopBit)
PolyAnswer(st, a, s) ==
  FPU_copy_to_regi(st, [sign |-> s, exp |-> a.exp + EBias, sig |-> a.sig], "Valid", 0)

\* They go to st(0) unrounded; a sine or cosine above 1 is an internal error,
\* which only the bound on `a` excludes.
Above1Check(st, a) == IF AtMost1(a) THEN st ELSE FPU_internal(st)
poly_sine(st, a, s) == Above1Check(PolyAnswer(st, a, s), a)
poly_cos(st, a, s) == Above1Check(PolyAnswer(st, a, s), a)
poly_tan(st, a, s) == PolyAnswer(st, a, s)

PushOne(st) == FPU_copy_to_regi(Push(st), CONST_1, "Valid", 0)

\* An argument so small that it is the answer, rounded as inexact.
RoundArg(st, x, y) ==
  Put(FPU_round(to_exp16_check(st, x), y.exp, y.sig, 1, FULL_PRECISION, x.sign), 0).st

\* Two pushed answers of an invalid operation.
Underflows(st) ==
  IF Masked(st, "IE") THEN FPU_stack_underflow(Push(FPU_stack_underflow(st)))
  ELSE FPU_stack_underflow(st)
InvalidAgain(inv) == Unless(inv, arith_invalid(Push(inv.st), 0).st)

fptan(st, a, s) ==
  LET x == St0(st)
      t == PTag(st, 0)
      d == IfDenormal(t = "Denormal", st)
  IN  IF t = "Empty" THEN Underflows(st)
      ELSE IF STACK_OVERFLOW(st) THEN FPU_stack_overflow(st)
      ELSE CASE t \in {"Valid", "Denormal"} /\ SmallArg(x) ->
                  Unless(d, PushOne(RoundArg(d.st, x, FPU_to_exp16(x))))
             [] t = "Valid" /\ ~ SmallArg(x) /\ TooLarge(x) -> Incomplete(st)
             [] t = "Valid" /\ ~ SmallArg(x) /\ ~ TooLarge(x) ->
                  PushOne(set_precision_flag_up(poly_tan(Reduced(st), a, s)))
             [] t = "Zero" -> setcc(PushOne(st), {})
             [] t = "Infinity" -> InvalidAgain(arith_invalid(st, 0))
             [] t = "NaN" -> single_arg_2_error(st)

\* convert_l2reg: a small integer in a register.
LoadLong(n, sign, deststnr) == FPU_copy_to_regi(n.st, SetSign(n.r, sign), n.tag, deststnr)
convert_l2reg(st, num, deststnr) ==
  IF num = 0 THEN FPU_copy_to_regi(st, CONST_Z, "Zero", deststnr)
  ELSE LoadLong(FPU_normalize(st, H - 1, (IF num < 0 THEN 0 - num ELSE num) * 2^H),
                IF num < 0 THEN 1 ELSE 0, deststnr)

\* The exponent and the significand, or two of a NaN.
Split(st, x, y) ==
  FPU_copy_to_regi(convert_l2reg(Push(st), y.exp, 1),
                   [sign |-> x.sign, exp |-> EBias, sig |-> y.sig], "Valid", 0)
TwoNaNs(nan) == Unless(nan, FPU_copy_to_regi(Push(SetReg(nan.st, 0, nan.r)), nan.r, "Special", 0))

fxtract(st) ==
  LET x == St0(st)
      s == clear_C1(st)
      t == PTag(st, 0)
      d == IfDenormal(t = "Denormal", s)
      zd == FPU_divide_by_zero(s, 0, 1)
  IN  IF STACK_OVERFLOW(st) THEN FPU_stack_overflow(st)
      ELSE CASE t \in {"Valid", "Denormal"} -> Unless(d, Split(d.st, x, Operand16(st, 0)))
             [] t = "Zero" -> Unless(zd, SetAnswer(Push(zd.st), CONST_Z, x.sign, "Zero", 0))
             [] t = "Infinity" -> SetAnswer(Push(SetReg(s, 0, SetSign(x, 0))),
                                            CONST_INF, x.sign, "Special", 0)
             [] t = "NaN" -> TwoNaNs(real_1op_NaN(s, x))
             [] t = "Empty" -> Underflows(s)

fdecstp(st) == Push(clear_C1(st))
fincstp(st) == [clear_C1(st) EXCEPT !.top = (@ + 1) % NRegs]

\* wm_sqrt of a number in [1, 4), given as a significand and the last bit of
\* its exponent: the closing stage of the code squares the converged estimate
\* and makes its extension exact up to a comparison with zero and one half.
\* Where it decides that the estimate is exact it tests a word of the square
\* that a multiplication has overwritten, which matters for one argument.
Root(n) == CHOOSE r \in TopBit..(2^W - 1) : r * r <= n /\ n < (r + 1) * (r + 1)
TakenAsExact(sig, odd) == sig = TopBit + 2 /\ odd = 0
RootExtent(rem, r) == CASE rem = 0 -> 0 [] rem # 0 /\ rem <= r -> 1 [] OTHER -> Half + 1
RoundRoot(st, n, r) == FPU_round(st, 0, r, RootExtent(n - r * r, r), st.cw, 0)
wm_sqrt(st, sig, odd) ==
  IF TakenAsExact(sig, odd) THEN FPU_round(st, 0, TopBit + 1, 0, st.cw, 0)
  ELSE RoundRoot(st, sig * 2^(W - 1 + odd), Root(sig * 2^(W - 1 + odd)))

PutRoot(q, e) == FPU_copy_to_regi(q.st, [q.r EXCEPT !.exp = @ + e], q.tag, 0)
Sqrt(st, y) == PutRoot(wm_sqrt(st, y.sig, y.exp % 2), y.exp \div 2)

fsqrt_(st) ==
  LET x == St0(st)
      s == clear_C1(st)
      t == PTag(st, 0)
      d == IfDenormal(t = "Denormal", s)
  IN  CASE t \in {"Valid", "Denormal", "Infinity"} /\ x.sign = 1 -> arith_invalid(s, 0).st
        [] t \in {"Valid", "Denormal"} /\ x.sign = 0 -> Unless(d, Sqrt(d.st, Operand16(st, 0)))
        [] t = "Zero" \/ (t = "Infinity" /\ x.sign = 0) -> s
        [] OTHER -> single_arg_error(s, t)

PutSigned(n, sign, i) == SetAnswer(n.st, n.r, sign, n.tag, i)
PutInt(st, i, sign) == PutSigned(FPU_normalize(IntFlags(st, i), W - 1, i.sig), sign, 0)

frndint_(st) ==
  LET x == St0(st)
      t == PTag(st, 0)
      d == IfDenormal(t = "Denormal", st)
  IN  CASE t \in {"Valid", "Denormal"} ->
             IF exponent(x) > W - 1 THEN st
             ELSE Unless(d, PutInt(d.st, AsInt(st, x, Tag0(st)), x.sign))
        [] t \in {"Zero", "Infinity"} -> st
        [] OTHER -> single_arg_error(st, t)

\* fsin and f_cos, with whether they return 1: no answer.
fsin(st, a, s) ==
  LET x == St0(st)
      t == PTag(st, 0)
      den == denormal_operand(st)
      Done(s1) == [st |-> s1, fail |-> FALSE]
      Fail(s1) == [st |-> s1, fail |-> TRUE]
  IN  CASE t = "Valid" /\ SmallArg(x) -> Done(set_precision_flag_up(st))
        [] t = "Valid" /\ ~ SmallArg(x) /\ TooLarge(x) -> Fail(Incomplete(st))
        [] t = "Valid" /\ ~ SmallArg(x) /\ ~ TooLarge(x) ->
             Done(set_precision_flag_up(poly_sine(Reduced(st), a, s)))
        [] t = "Zero" -> Done(setcc(st, {}))
        [] t = "Denormal" ->
             IF den.exc THEN Fail(den.st) ELSE Done(RoundArg(den.st, x, FPU_to_exp16(x)))
        [] t = "Infinity" -> Fail(arith_invalid(st, 0).st)
        [] OTHER -> Fail(single_arg_error(st, t))

\* Up to pi/2 there is nothing to reduce, and C2 is left alone.
f_cos(st, a, s) ==
  LET x == St0(st)
      t == PTag(st, 0)
      d == IfDenormal(t = "Denormal", st)
      direct == exponent(x) < 0 \/ (exponent(x) = 0 /\ x.sig <= CONST_PI.sig)
  IN  CASE t \in {"Valid", "Denormal"} /\ SmallArg(x) ->
             Unless(d, set_precision_flag_down(FPU_copy_to_regi(setcc(d.st, {}), CONST_1, "Valid", 0)))
        [] t = "Valid" /\ ~ SmallArg(x) /\ TooLarge(x) -> Incomplete(st)
        [] t = "Valid" /\ ~ SmallArg(x) /\ ~ TooLarge(x) ->
             set_precision_flag_down(poly_cos(IF direct THEN st ELSE Reduced(st), a,
                                              IF direct THEN 0 ELSE s))
        [] t = "Zero" -> setcc(FPU_copy_to_regi(st, CONST_1, "Valid", 0), {})
        [] t = "Infinity" -> arith_invalid(st, 0).st
        [] OTHER -> single_arg_error(st, t)

ThenCos(sine, x, tag, b, c) ==
  IF sine.fail THEN FPU_copy_to_regi(sine.st, x, tag, 0)
  ELSE f_cos(FPU_copy_to_regi(Push(sine.st), x, tag, 0), b, c)

fsincos(st, a, s, b, c) ==
  LET t == PTag(st, 0)
  IN  IF t = "Empty" THEN Underflows(st)
      ELSE IF STACK_OVERFLOW(st) THEN FPU_stack_overflow(st)
      ELSE CASE t = "NaN" -> single_arg_2_error(st)
             [] t = "Infinity" -> InvalidAgain(arith_invalid(st, 0))
             [] OTHER -> ThenCos(fsin(st, a, s), St0(st), Tag0(st), b, c)

----------------------------------------------------------------------------
\* Remainders.

CHOP_64 == [mask |-> CW_Exceptions, rc |-> "CHOP", pc |-> "64"]

\* rem_kernel: st0 * 2^n - st1 * q in the bits of one significand.
rem_kernel(sig0, sig1, q, n) == (sig0 * 2^n - sig1 * q) % 2^W

\* The chopped quotient of two operands, as a register and as an integer.
ChoppedDiv(st, x, y) == FPU_u_div(st, x, y, CHOP_64, 0)
Chopped(t) == FPU_round_to_int("CHOP", 0, exponent(t.r), t.r.sig, t.tag).sig

\* What is left of x after q times y.
Left(x, y, q) ==
  IF q # 0 THEN [exp |-> y.exp, sig |-> rem_kernel(x.sig, y.sig, q, x.exp - y.exp)] ELSE x
QuotientOf(t) == IF exponent(t.r) >= 0 THEN Chopped(t) ELSE 0

RoundRemainder_NoTie(r, y, q, round) ==
  LET other == (IF y.exp = r.exp THEN y.sig ELSE 2 * y.sig) - r.sig
      again == round = "RND" /\ r.sig >= QuietBit /\ y.exp - r.exp <= 1 /\ other < r.sig
  IN  IF again THEN [exp |-> r.exp, sig |-> other, flip |-> TRUE, q |-> q + 1]
      ELSE [exp |-> r.exp, sig |-> r.sig, flip |-> FALSE, q |-> q]

\* fprem1: the remainder of the quotient rounded to nearest, ties to even,
\* whether it is of the other sign, and the quotient.
RoundRemainder(r, y, q, round) ==
  LET other == (IF y.exp = r.exp THEN y.sig ELSE 2 * y.sig) - r.sig
      again == /\ round = "RND" /\ r.sig >= QuietBit /\ y.exp - r.exp <= 1
               /\ other < r.sig \/ (other = r.sig /\ q % 2 = 1)
  IN  IF again THEN [exp |-> r.exp, sig |-> other, flip |-> TRUE, q |-> q + 1]
      ELSE [exp |-> r.exp, sig |-> r.sig, flip |-> FALSE, q |-> q]

LeaveRemainder(x, y, q, round) == RoundRemainder(Left(x, y, q), y, q, round)

\* The exponents are less than W apart.
NearRemainder(st, x, y, round) ==
  LeaveRemainder(x, y, QuotientOf(ChoppedDiv(st, x, y)), round)

\* They are further apart: N bits of the quotient are subtracted.
FarShift(x, y) == ((x.exp - y.exp) % H) + H
SubtractFar(x, y, n, t) ==
  [exp |-> x.exp - n, sig |-> rem_kernel(x.sig, y.sig, Chopped(t), exponent(t.r))]
FarRemainder(st, x, y) ==
  LET n == FarShift(x, y)
  IN  SubtractFar(x, y, n, ChoppedDiv(st, [exp |-> n, sig |-> x.sig], [exp |-> 0, sig |-> y.sig]))

QuotientBits(q) ==
  {c \in {"C0", "C3", "C1"} :
     (q \div (CASE c = "C0" -> 4 [] c = "C3" -> 2 [] c = "C1" -> 1)) % 2 = 1}

\* The remainder goes to st(0) without rounding.
PutRemainder(st, n, sign, cc) ==
  CASE n.tag = "Zero" -> setcc(SetAnswer(st, CONST_Z, sign, "Zero", 0), cc)
    [] n.tag # "Zero" /\ n.exp > EXP_UNDER ->
         setcc(FPU_copy_to_regi(st, [sign |-> sign, exp |-> n.exp + EBias, sig |-> n.sig],
                                n.tag, 0), cc)
    [] n.tag # "Zero" /\ n.exp <= EXP_UNDER /\ ~ Masked(st, "UE") ->
         PutSigned(arith_underflow(setcc(st, cc), n.exp, n.sig), sign, 0)
    [] OTHER ->
         setcc(Put(FPU_round(st, n.exp, n.sig, 0, FULL_PRECISION, sign), 0).st, cc)

StoreRemainder(st, r, sign, cc) == PutRemainder(st, FPU_normalize_nuo(r.exp, r.sig), sign, cc)

\* fprem_valid.  A zero that the far case leaves loses its sign.
StoreNear(st, near, sign) ==
  StoreRemainder(st, near, IF near.flip THEN 1 - sign ELSE sign, QuotientBits(near.q))
StoreFar(st, far, sign) ==
  IF far.sig = 0 THEN setcc(FPU_copy_to_regi(st, CONST_Z, "Zero", 0), {"C2"})
  ELSE StoreRemainder(st, far, sign, {"C2"})

RemainderOf(st, x, y, sign, round) ==
  CASE x.exp - y.exp <= 0 - 2 -> setcc(st, {})
    [] x.exp - y.exp \in (0 - 1)..(W - 1) -> StoreNear(st, NearRemainder(st, x, y, round), sign)
    [] OTHER -> StoreFar(st, FarRemainder(st, x, y), sign)

ValidRemainder(st, round) ==
  RemainderOf(st, FPU_to_exp16(St0(st)), FPU_to_exp16(St(st, 1)), St0(st).sign, round)

do_fprem(st, round) ==
  LET t0 == PTag(st, 0)
      t1 == PTag(st, 1)
      d == IfDenormal("Denormal" \in {t0, t1}, st)
  IN  IF t0 = "Empty" \/ t1 = "Empty" THEN FPU_stack_underflow(st)
      ELSE IF t0 = "NaN" \/ t1 = "NaN" THEN real_2op_NaN(st, St(st, 1), t1, 0, St(st, 1)).st
      ELSE IF t1 = "Zero" \/ t0 = "Infinity" THEN arith_invalid(st, 0).st
      ELSE Unless(d, IF t1 = "Infinity" \/ t0 = "Zero" THEN setcc(d.st, {})
                     ELSE ValidRemainder(DenormalPair(d.st, St0(st), St(st, 1)), round))

----------------------------------------------------------------------------
\* Logarithms, the arctangent and the scaling: st(1) is the destination and
\* st(0) is popped, except for the scaling.

\* poly_l2, whose accumulator may come out as zero.
poly_l2(st, a, s, zero) ==
  IF zero THEN FPU_copy_to_regi(st, CONST_Z, "Zero", 1)
  ELSE set_precision_flag_up(RoundPoly(st, a, s, 1))

\* both_valid: of a power of two the logarithm is exact.
LogOfPower(st, n) == FPU_pop(FPU_mul(st, n.r, n.tag, 1, FULL_PRECISION).st)
LogOf(st, x, a, s, zero) ==
  LET mag == IF x.exp < 0 THEN 0 - x.exp ELSE x.exp
  IN  IF St0(st).sign = 1 THEN PopUnless(arith_invalid(st, 1))
      ELSE IF x.sig = TopBit
      THEN LogOfPower(AsExp16(st, 0),
                      normalize_no_excep(H - 1, mag * 2^H, IF x.exp < 0 THEN 1 ELSE 0))
      ELSE FPU_pop(poly_l2(AsExp16(AsExp16(st, 0), 1), a, s, zero))
ValidLog(st, a, s, zero) == LogOf(st, Operand16(st, 0), a, s, zero)

fyl2x(st0, a, s, zero) ==
  LET st == clear_C1(st0)
      x == St(st, 0)
      y == St(st, 1)
      t0 == PTag(st, 0)
      t1 == PTag(st, 1)
      d == IfDenormal("Denormal" \in {t0, t1}, st)
      invalid == PopUnless(arith_invalid(st, 1))
      Flip(s1) == FPU_pop(SetReg(s1, 1, ChangeSign(y)))
  IN  IF t0 = "Empty" \/ t1 = "Empty" THEN FPU_stack_underflow_pop(st, 1)
      ELSE IF t0 = "NaN" \/ t1 = "NaN" THEN PopUnless(real_2op_NaN(st, x, t0, 1, x))
      ELSE IF {t0, t1} \subseteq Finite
      THEN CASE t0 = "Zero" /\ t1 = "Zero" -> invalid
             [] t0 = "Zero" /\ t1 # "Zero" -> PopUnless(FPU_divide_by_zero(st, 1, 1 - y.sign))
             [] t0 # "Zero" /\ t1 = "Zero" ->
                  IF x.sign = 1 THEN invalid
                  ELSE Unless(d, FPU_pop(SetAnswer(d.st, CONST_Z, IF exponent(x) < 0 THEN 1 - y.sign
                                                                   ELSE y.sign, "Zero", 1)))
             [] OTHER -> Unless(d, ValidLog(d.st, a, s, zero))
      ELSE IF t0 = "Infinity"
      THEN IF x.sign = 1 \/ t1 = "Zero" THEN invalid
           ELSE Unless(d, FPU_pop(SetAnswer(d.st, CONST_INF, y.sign, "Special", 1)))
      ELSE CASE t0 = "Zero" -> Flip(st)
             [] t0 # "Zero" /\ x.sign = 1 -> invalid
             [] t0 # "Zero" /\ x.sign = 0 /\ exponent(x) >= 0 ->
                  IF exponent(x) = 0 /\ x.sig = TopBit THEN invalid ELSE FPU_pop(st)
             [] OTHER -> Unless(d, Flip(d.st))

\* poly_atan: a denormal st(0) is left in the form with a 16 bit exponent.
poly_atan(st, t0, a, sign) ==
  set_precision_flag_up(RoundPoly(IF t0 = "Denormal" THEN AsExp16(st, 0) ELSE st, a, sign, 1))

fpatan(st0, a) ==
  LET st == clear_C1(st0)
      x == St(st, 0)
      y == St(st, 1)
      t0 == PTag(st, 0)
      t1 == PTag(st, 1)
      d == IfDenormal("Denormal" \in {t0, t1}, st)
      Inexact(r, s) == set_precision_flag_up(FPU_pop(SetAnswer(s, r, y.sign, "Valid", 1)))
      ToZero(s) == FPU_pop(SetAnswer(s, CONST_Z, y.sign, "Zero", 1))
      pi34 == FPU_u_add(st, Plain(CONST_PI4), Plain(CONST_PI2), FULL_PRECISION, 0)
  IN  IF t0 = "Empty" \/ t1 = "Empty" THEN FPU_stack_underflow_pop(st, 1)
      ELSE IF t0 = "NaN" \/ t1 = "NaN" THEN PopUnless(real_2op_NaN(st, x, t0, 1, x))
      ELSE IF t0 = "Infinity" /\ t1 = "Infinity"
      THEN IF x.sign = 0 THEN Inexact(CONST_PI4, st)
           ELSE set_precision_flag_up(FPU_pop(PutSigned(pi34, y.sign, 1)))
      ELSE Unless(d, IF {t0, t1} \subseteq {"Valid", "Denormal"}
                     THEN FPU_pop(poly_atan(d.st, t0, a, y.sign))
                     ELSE IF t0 = "Infinity"
                     THEN IF x.sign = 0 THEN ToZero(d.st) ELSE Inexact(CONST_PI, d.st)
                     ELSE IF t1 = "Zero"
                     THEN IF x.sign = 0 THEN FPU_pop(d.st) ELSE Inexact(CONST_PI, d.st)
                     ELSE Inexact(CONST_PI2, d.st))

L2p1Flags(st) == IF exponent(St(st, 1)) <= EXP_UNDER THEN FPU_exception(st, {"UE"}) ELSE st
L2p1Answer(r) == IF r.tag = "Valid" THEN set_precision_flag_up(Put(r, 1).st) ELSE Put(r, 1).st

\* poly_l2p1: of an argument of 1 or more there is no logarithm and st(1)
\* stays; the sign that the code changes is that of a copy.
poly_l2p1(st, a) ==
  LET sign0 == St(st, 0).sign
  IN  L2p1Flags(
        IF Operand16(st, 0).exp < 0
        THEN L2p1Answer(FPU_round(st, IF a.exp < EXP_WAY_UNDER THEN EXP_WAY_UNDER ELSE a.exp,
                                  a.sig, 1, FULL_PRECISION, (sign0 + St(st, 1).sign) % 2))
        ELSE IF sign0 = 1 THEN set_precision_flag_down(st)
        ELSE set_precision_flag_up(st))

fyl2xp1(st0, a) ==
  LET st == clear_C1(st0)
      x == St(st, 0)
      y == St(st, 1)
      t0 == PTag(st, 0)
      t1 == PTag(st, 1)
      d == IfDenormal("Denormal" \in {t0, t1}, st)
      xor == SetSign(x, (x.sign + y.sign) % 2)
  IN  IF t0 = "Empty" \/ t1 = "Empty" THEN FPU_stack_underflow_pop(st, 1)
      ELSE IF t0 = "NaN" \/ t1 = "NaN" THEN PopUnless(real_2op_NaN(st, x, t0, 1, x))
      ELSE Unless(d,
             IF {t0, t1} \subseteq {"Valid", "Denormal"} THEN FPU_pop(poly_l2p1(d.st, a))
             ELSE IF {t0, t1} = {"Zero", "Infinity"} \/ (t0 = "Infinity" /\ x.sign = 1)
             THEN PopUnless(arith_invalid(d.st, 1))
             ELSE IF t0 = "Zero" THEN FPU_pop(FPU_copy_to_regi(SetReg(d.st, 0, xor), xor, "Zero", 1))
             ELSE IF t0 = "Infinity" THEN FPU_pop(SetAnswer(d.st, CONST_INF, y.sign, "Special", 1))
             ELSE FPU_pop(IF x.sign = 1 THEN SetReg(d.st, 1, ChangeSign(y)) ELSE d.st))

\* FPU_round detects an under- or overflow, but the tag it returns is dropped.
PutScaled(ret) == SetReg(ret.st, 0, ret.r)
ScaleBy(st, x, y, n) ==
  PutScaled(FPU_round(st, Exp16(x.exp + (IF y.sign = 1 THEN 0 - n ELSE n)), x.sig, 0, st.cw,
                      St0(st).sign))

\* valid_scale: by a power out of range, or by the integer part of st(1).
ValidScale(st) ==
  LET y == St(st, 1)
      sign == St0(st).sign
  IN  CASE exponent(y) > H - 2 /\ y.sign = 0 ->
             SetAnswer(FPU_exception(st, {"OE"}), CONST_INF, sign, "Special", 0)
        [] exponent(y) > H - 2 /\ y.sign = 1 ->
             SetAnswer(FPU_exception(st, {"UE"}), CONST_Z, sign, "Zero", 0)
        [] OTHER ->
             ScaleBy(st, Operand16(st, 0), y,
                     FPU_round_to_int("CHOP", y.sign, exponent(y), y.sig, "Valid").sig % 2^H)

fscale(st0) ==
  LET st == clear_C1(st0)
      x == St(st, 0)
      y == St(st, 1)
      t0 == PTag(st, 0)
      t1 == PTag(st, 1)
      d == IfDenormal(t0 = "Denormal", st)
  IN  IF t0 = "Empty" \/ t1 = "Empty" THEN FPU_stack_underflow(st)
      ELSE IF t0 = "NaN" \/ t1 = "NaN" THEN real_2op_NaN(st, y, t1, 0, x).st
      ELSE IF t0 \in {"Valid", "Denormal"} /\ t1 = "Valid"
      THEN Unless(d, ValidScale(IF t0 = "Denormal" THEN to_exp16_check(d.st, x) ELSE st))
      ELSE IF t0 \in {"Valid", "Denormal"} /\ t1 = "Infinity"
      THEN Unless(d, IF y.sign = 0 THEN SetAnswer(d.st, CONST_INF, x.sign, "Special", 0)
                     ELSE SetAnswer(d.st, CONST_Z, x.sign, "Zero", 0))
      ELSE IF t1 = "Denormal" \/ (t0 = "Denormal" /\ t1 = "Zero") THEN denormal_operand(st).st
      ELSE IF t1 = "Infinity" /\ <<t0, y.sign>> \in {<<"Zero", 0>>, <<"Infinity", 1>>}
      THEN arith_invalid(st, 0).st
      ELSE st
============================================================================
