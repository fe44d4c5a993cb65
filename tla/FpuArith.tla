------------------------------ MODULE FpuArith ------------------------------
(***************************************************************************)
(* The basic arithmetic of the x87 emulator: the rounding of reg_round.S,  *)
(* the unsigned operations on significands (reg_u_add.S, reg_u_sub.S,      *)
(* reg_u_mul.S, reg_u_div.S) that end in it, and the operations on tagged  *)
(* registers above them (reg_add_sub.c, reg_mul.c, reg_divide.c,           *)
(* reg_compare.c).                                                         *)
(*                                                                         *)
(* A number on its way to the rounding is a record with a 16 bit exponent, *)
(* a significand of W bits and an extension of one word below it.  `cwp`   *)
(* is the control word an operation is called with: the emulator's own, or *)
(* FULL_PRECISION.                                                         *)
(***************************************************************************)
EXTENDS FpuRegs

FULL_PRECISION == [mask |-> CW_Exceptions, rc |-> "RND", pc |-> "64"]

Half == 2^(H - 1)          \* 0x80000000 of an extension

\* orb/orl $1: the lowest bit records bits that were shifted out.
Sticky(x, lost) == IF lost /\ x % 2 = 0 THEN x + 1 ELSE x

----------------------------------------------------------------------------
\* reg_round.S

\* Significand bits that a precision control setting drops; the reserved
\* setting behaves as 64 bits.
Dropped(pc) == CASE pc = "53" -> Drop53 [] pc = "24" -> Drop24 [] OTHER -> 0

RoundsUp_TiesUp(rc, sign, lost, half, odd) ==
  /\ lost # 0
  /\ \/ rc = "RND" /\ lost >= half
     \/ rc = "UP" /\ sign = 0
     \/ rc = "DOWN" /\ sign = 1

RoundsUp_NoSign(rc, sign, lost, half, odd) ==
  /\ lost # 0
  /\ rc = "UP" \/ (rc = "RND" /\ (lost > half \/ (lost = half /\ odd)))

\* Whether what is lost below an odd or even number moves it up.
RoundsUp(rc, sign, lost, half, odd) ==
  /\ lost # 0
  /\ \/ rc = "RND" /\ (lost > half \/ (lost = half /\ odd))
     \/ rc = "UP" /\ sign = 0
     \/ rc = "DOWN" /\ sign = 1

RoundSig_NoRenormalise(sig, ext, d, rc, sign) ==
  LET lost == (sig % 2^d) * 2^H + ext
      up == RoundsUp(rc, sign, lost, 2^d * Half, (sig \div 2^d) % 2 = 1)
      kept == sig - (sig % 2^d)
  IN  CASE lost = 0 -> [sig |-> sig, lost |-> "none", carry |-> 0]
        [] lost # 0 /\ ~ up -> [sig |-> kept, lost |-> "down", carry |-> 0]
        [] OTHER -> [sig |-> (kept + 2^d) % 2^W, lost |-> "up", carry |-> 0]

\* LRound_To_24, LRound_To_53 and LRound_To_64, which drop d bits and the
\* extension: the rounded significand, which way bits were lost, and the
\* carry out of it.
RoundSig(sig, ext, d, rc, sign) ==
  LET lost == (sig % 2^d) * 2^H + ext
      up == RoundsUp(rc, sign, lost, 2^d * Half, (sig \div 2^d) % 2 = 1)
      kept == sig - (sig % 2^d)
      sum == kept + 2^d
  IN  CASE lost = 0 -> [sig |-> sig, lost |-> "none", carry |-> 0]
        [] lost # 0 /\ ~ up -> [sig |-> kept, lost |-> "down", carry |-> 0]
        [] up /\ sum < 2^W -> [sig |-> sum, lost |-> "up", carry |-> 0]
        [] OTHER -> [sig |-> sum \div 2, lost |-> "up", carry |-> 1]

\* L_Make_denorm: shift to the exponent of the denormals.
MakeDenorm(e, sig, ext) ==
  LET n == Exp16(EXP_UNDER + 1 - e)
      wide == sig * 2^H
  IN  IF n > W THEN [exp |-> EXP_UNDER + 1, sig |-> 0, ext |-> 1]
      ELSE [exp |-> EXP_UNDER + 1,
            sig |-> wide \div 2^(n + H),
            ext |-> Sticky((wide \div 2^n) % 2^H, wide % 2^n # 0 \/ ext # 0)]

PrecisionLost_Swapped(st, lost) ==
  CASE lost = "up"   -> set_precision_flag_down(st)
    [] lost = "down" -> set_precision_flag_up(st)
    [] OTHER         -> st

\* L_deNormalised: the precision flag.
PrecisionLost(st, lost) ==
  CASE lost = "up"   -> set_precision_flag_up(st)
    [] lost = "down" -> set_precision_flag_down(st)
    [] OTHER         -> st

\* L_Store_significand: store the result, or find that it is too large.  An
\* overflow's answer gets the sign afterwards.
WithSign(ret, sign) == [ret EXCEPT !.r.sign = IF sign = 1 THEN 1 ELSE @]
StoreResult(st, e, sig, tag, sign) ==
  IF e >= EXP_OVER THEN WithSign(arith_overflow(st, Exp16(e + EBias), sig), sign)
  ELSE RetReg(st, [sign |-> sign, exp |-> (e + EBias) % 2^E, sig |-> sig], tag, FALSE)

\* LPseudoDenormal, LDenormal_adj_exponent, L_underflow_to_zero: a result
\* below the normal range with underflow masked.
MaskedUnderflow(st, e, r, sign) ==
  IF r.sig = 0
  THEN StoreResult(FPU_exception(set_precision_flag_down(st), {"UE"}),
                   EXP_UNDER, 0, "Zero", sign)
  ELSE StoreResult(PrecisionLost(IF r.lost = "none" THEN st ELSE FPU_exception(st, {"UE"}), r.lost),
                   IF Normal(r.sig) THEN e ELSE Exp16(e - 1), r.sig, "Special", sign)

\* LCheck_Round_Overflow and what follows it.
RoundedResult(st, tiny, denorm, e, r, sign) ==
  IF denorm THEN MaskedUnderflow(st, e, r, sign)
  ELSE IF tiny /\ e <= EXP_UNDER
  THEN StoreResult(PrecisionLost(FPU_exception(st, {"UE"}), r.lost),
                   Exp16(e + Magic), r.sig, "Valid", sign)
  ELSE StoreResult(PrecisionLost(st, r.lost), e, r.sig, "Valid", sign)

\* The rounded significand r with the carry added to its exponent.
Carried(st, tiny, denorm, e, r, sign) ==
  RoundedResult(st, tiny, denorm, Exp16(e + r.carry), r, sign)
RoundAs(st, tiny, denorm, x, cwp, sign) ==
  Carried(st, tiny, denorm, x.exp, RoundSig(x.sig, x.ext, Dropped(cwp.pc), cwp.rc, sign), sign)

\* FPU_round: a tiny result is made a denormal first if underflow is masked.
FPU_round(st, e, sig, ext, cwp, sign) ==
  LET tiny == e <= EXP_UNDER
      denorm == tiny /\ "UE" \in cwp.mask
  IN  RoundAs(st, tiny, denorm,
              IF denorm THEN MakeDenorm(e, sig, ext) ELSE [exp |-> e, sig |-> sig, ext |-> ext],
              cwp, sign)

----------------------------------------------------------------------------
\* reg_u_add.S and reg_u_sub.S: the smaller operand is shifted right.  Of a
\* shift of more than a word only the upper word reaches the extension; the
\* lower word is one sticky bit.

ShiftSmaller(sig, n) ==
  LET hi == sig \div 2^H
      lo == sig % 2^H
  IN  CASE n <= H -> [sig |-> sig \div 2^n, ext |-> ((sig * 2^H) \div 2^n) % 2^H]
        [] n \in (H + 1)..(W - 1) ->
             [sig |-> hi \div 2^(n - H), ext |-> Sticky((hi * 2^(W - n)) % 2^H, lo # 0)]
        [] n = W -> [sig |-> 0, ext |-> Sticky(hi, lo # 0)]
        [] OTHER -> [sig |-> 0, ext |-> 1]

\* What an operation hands to the rounding.
Unrounded(e, wide) == [exp |-> Exp16(e), sig |-> wide \div 2^H, ext |-> wide % 2^H]

RoundUp(st, u, cwp, sign) == FPU_round(st, u.exp, u.sig, u.ext, cwp, sign)

\* A sum of W + H bits, or one more.
NormaliseSum(e, sum) ==
  IF sum < 2^(W + H) THEN Unrounded(e, sum)
  ELSE Unrounded(e + 1, Sticky(sum \div 2, sum % 2 = 1))
AddShifted(x, s) == NormaliseSum(x.exp, (s.sig + x.sig) * 2^H + s.ext)

\* x and y are [exp, sig], normalised.
u_add(x, y) ==
  IF x.exp >= y.exp THEN AddShifted(x, ShiftSmaller(y.sig, x.exp - y.exp))
  ELSE AddShifted(y, ShiftSmaller(x.sig, y.exp - x.exp))

FPU_u_add(st, x, y, cwp, sign) == RoundUp(st, u_add(x, y), cwp, sign)

\* A difference, whose upper words are zero if the operands are close.
ShiftBy(e, diff, lz) == Unrounded(e - lz, diff * 2^lz)
NormaliseDiff(e, diff) ==
  CASE diff >= 2^H -> ShiftBy(e, diff, LeadingZeros(diff \div 2^H))
    [] diff = Half -> Unrounded(e - W, TopBit * 2^H)
    [] OTHER -> [exp |-> 0, sig |-> 0, ext |-> 0]
SubShifted(x, s) == NormaliseDiff(x.exp, x.sig * 2^H - (s.sig * 2^H + s.ext))

\* The subtraction of a smaller number also shifts right by W + 1 exactly.
u_sub(x, y) ==
  LET hi == y.sig \div 2^H
  IN  SubShifted(x, IF x.exp - y.exp = W + 1
                    THEN [sig |-> 0, ext |-> Sticky(hi \div 2, hi % 2 = 1 \/ y.sig % 2^H # 0)]
                    ELSE ShiftSmaller(y.sig, x.exp - y.exp))

RoundDiff(st, u, cwp, sign) ==
  IF u.sig = 0 THEN RetReg(st, CONST_Z, "Zero", FALSE) ELSE RoundUp(st, u, cwp, sign)
FPU_u_sub(st, x, y, cwp, sign) == RoundDiff(st, u_sub(x, y), cwp, sign)

u_mul_NoSticky(x, y) ==
  LET sum == x.exp + y.exp + 1
      e == IF sum > EXP_WAY_UNDER THEN sum ELSE EXP_WAY_UNDER
      prod == x.sig * y.sig
      normal == prod >= 2^(2*W - 1)
      wide == IF normal THEN prod ELSE 2 * prod
  IN  Unrounded(IF normal THEN e ELSE e - 1, wide \div 2^H)

\* reg_u_mul.S: the product of the significands, its lowest word made sticky.
\* Two denormals can cause an exponent underflow.
u_mul(x, y) ==
  LET sum == x.exp + y.exp + 1
      e == IF sum > EXP_WAY_UNDER THEN sum ELSE EXP_WAY_UNDER
      prod == x.sig * y.sig
      normal == prod >= 2^(2*W - 1)
      wide == IF normal THEN prod ELSE 2 * prod
  IN  Unrounded(IF normal THEN e ELSE e - 1, Sticky(wide \div 2^H, wide % 2^H # 0))

FPU_u_mul(st, x, y, cwp, sign) == RoundUp(st, u_mul(x, y), cwp, sign)

----------------------------------------------------------------------------
\* reg_u_div.S

\* The divisor has only one word: three word divisions.  The remainder of the
\* third, and the bit that the adjusting shift drops, are not kept.
QuickDivision(n, d) ==
  LET dh == d \div 2^H
      over == n \div 2^H >= dh
      n0 == IF over THEN n - d ELSE n
      n1 == (n0 % dh) * 2^H
      n2 == (n1 % dh) * 2^H
      quot == (n0 \div dh) * 2^W + (n1 \div dh) * 2^H + n2 \div dh
      wide == IF over THEN (2^(W + H) + quot) \div 2 ELSE quot
  IN  [over |-> over, wide |-> wide]

\* LRound_prep: the extension for a remainder, from comparing its double with
\* the divisor; the test for equality looks at the upper word only.
DivExtent(rem, d) ==
  CASE rem = 0 -> 0
    [] rem # 0 /\ 2*rem >= 2^W -> Half + Half \div 2
    [] 2*rem < 2^W /\ rem # 0 /\ 2*rem < d -> Half \div 2
    [] OTHER -> IF (2*rem - d) \div 2^H = 0 THEN Half ELSE Half + Half \div 2

\* One word of a quotient, estimated with the upper word of the divisor plus one
\* and then corrected, and the remainder.
DivideWord(n, d) ==
  LET q == n \div (d \div 2^H + 1)
      Correct(x) == IF x.rem >= d THEN [q |-> x.q + 1, rem |-> x.rem - d] ELSE x
      Estimate(a) == IF a >= 2^W THEN [q |-> q + 1, rem |-> (a - d) % 2^W] ELSE [q |-> q, rem |-> a]
  IN  Correct(Estimate(n * 2^H - q * d))

\* L_Full_Division: two words of quotient and the extension.
FullDivision(n, d) ==
  LET Result(over, wide) ==
        [over |-> over, wide |-> IF over THEN (2^(W + H) + wide) \div 2 ELSE wide]
      Joined(quot, rem) ==
        Result(n >= d \/ quot >= 2^W, (quot % 2^W) * 2^H + DivExtent(rem, d))
      Second(q2, x) == Joined(q2 * 2^H + x.q, x.rem)
      First(x) == Second(x.q, DivideWord(x.rem, d))
  IN  First(DivideWord(IF n >= d THEN n - d ELSE n, d))

Quotient(n, d) == IF d % 2^H = 0 THEN QuickDivision(n, d) ELSE FullDivision(n, d)
DivideExp(x, y) == IF x.exp - y.exp > EXP_WAY_UNDER THEN x.exp - y.exp ELSE EXP_WAY_UNDER

u_div_NoAdjust(x, y) == Unrounded(DivideExp(x, y), Quotient(x.sig, y.sig).wide)

u_div(x, y) ==
  LET Adjusted(e, q) == Unrounded(IF q.over THEN e ELSE e - 1, q.wide)
  IN  Adjusted(DivideExp(x, y), Quotient(x.sig, y.sig))

FPU_u_div(st, x, y, cwp, sign) == RoundUp(st, u_div(x, y), cwp, sign)
----------------------------------------------------------------------------
\* The operations on registers.  An operand comes with its tag.

\* The operand of a Valid register: no denormal is among them.
Plain(a) == [exp |-> exponent(a), sig |-> a.sig]

\* Whether two precise tags are finite, not zero, and not both Valid.
Denormals(ta, tb) == {ta, tb} \subseteq {"Valid", "Denormal"} /\ "Denormal" \in {ta, tb}

\* The operands of such a pair, normalised, and the tests that come with it.
DenormalPair(st, a, b) == to_exp16_check(to_exp16_check(st, a), b)

\* The operands of an operation on two Valid registers, or on such a pair.
BothValid(ta, tb) == ta = "Valid" /\ tb = "Valid"
Number16(valid, a) == IF valid THEN Plain(a) ELSE FPU_to_exp16(a)
Checked(valid, st, den, a, b) == IF valid THEN st ELSE DenormalPair(den.st, a, b)

\* The answer goes to st(deststnr) with its tag.
Put(ret, deststnr) ==
  Ret(FPU_copy_to_regi(ret.st, ret.r, ret.tag, deststnr), ret.tag, ret.exc)

\* A zero that two cancelling operands leave has the sign of the rounding mode.
CancelSign(cwp) == IF cwp.rc = "DOWN" THEN 1 ELSE 0

Larger_NoExponent(x, y) == x.sig > y.sig

Larger(x, y) == x.exp > y.exp \/ (x.exp = y.exp /\ x.sig > y.sig)

valid_add(st, x, signa, y, signb, deststnr, cwp) ==
  CASE signa = signb -> Put(FPU_u_add(st, x, y, cwp, signa), deststnr)
    [] signa # signb /\ Larger(x, y) -> Put(FPU_u_sub(st, x, y, cwp, signa), deststnr)
    [] signa # signb /\ Larger(y, x) -> Put(FPU_u_sub(st, y, x, cwp, signb), deststnr)
    [] OTHER ->
         Ret(FPU_copy_to_regi(st, SetSign(CONST_Z, CancelSign(cwp)), "Zero", deststnr),
             "Zero", FALSE)

\* x - y: the cases of the two signs are those of an addition of -y.
valid_subtract(st, x, signa, y, signb, deststnr, cwp) ==
  valid_add(st, x, signa, y, 1 - signb, deststnr, cwp)

OtherOperand_NoConversion(st, r, tag, sign, deststnr) ==
  LET t == IF tag \in {"Denormal", "Infinity", "NaN"} THEN "Special" ELSE tag
      t1 == IF tag = "Denormal" /\ Normal(r.sig) THEN "Valid" ELSE t
  IN  Ret(FPU_copy_to_regi(st, SetSign(r, sign), t1, deststnr), t1, FALSE)

\* One operand of an addition is zero: the answer is the other, a
\* pseudo-denormal converted.
OtherOperand(st, r, tag, sign, deststnr) ==
  LET pseudo == tag = "Denormal" /\ Normal(r.sig)
      t == CASE pseudo -> "Valid"
             [] tag \in {"Denormal", "Infinity", "NaN"} /\ ~ pseudo -> "Special"
             [] OTHER -> tag
  IN  Ret(FPU_copy_to_regi(st, [r EXCEPT !.sign = sign, !.exp = IF pseudo THEN @ + 1 ELSE @],
                           t, deststnr), t, FALSE)

add_sub_specials(st, a, ta, signa, b, tb, signb, deststnr, cwp) ==
  LET den == denormal_operand(st)
      any == "Denormal" \in {ta, tb}
      s1 == IF any THEN den.st ELSE st
      Answer(r, sign, tag) ==
        Ret(FPU_copy_to_regi(s1, SetSign(r, sign), tag, deststnr), tag, FALSE)
  IN  IF any /\ den.exc THEN Ret(s1, "Valid", TRUE)
      ELSE IF ta = "Zero" /\ tb = "Zero"
      THEN Answer(a, IF signa # signb THEN CancelSign(cwp) ELSE signa, "Zero")
      ELSE IF ta = "Zero" THEN OtherOperand(s1, b, tb, signb, deststnr)
      ELSE IF tb = "Zero" THEN OtherOperand(s1, a, ta, signa, deststnr)
      ELSE IF ta = "Infinity" /\ (tb # "Infinity" \/ signa = signb)
      THEN Answer(a, signa, "Special")
      ELSE IF ta = "Infinity" THEN arith_invalid(s1, deststnr)
      ELSE IF tb = "Infinity" THEN Answer(b, signb, "Special")
      ELSE Ret(FPU_internal(s1), "Valid", TRUE)

\* st(0) + (b, tagb) -> st(deststnr).
FPU_add(st, b, tagb, deststnr, cwp) ==
  LET a == St(st, 0)
      taga == FPU_gettagi(st, 0)
      ta == Precise(taga, a)
      tb == Precise(tagb, b)
      valid == BothValid(taga, tagb)
      den == denormal_operand(st)
  IN  IF ~ valid /\ Denormals(ta, tb) /\ den.exc THEN Ret(den.st, "Valid", TRUE)
      ELSE IF valid \/ Denormals(ta, tb)
      THEN valid_add(Checked(valid, st, den, a, b), Number16(valid, a), a.sign,
                     Number16(valid, b), b.sign, deststnr, cwp)
      ELSE IF ta = "NaN" \/ tb = "NaN"
      THEN IF deststnr = 0 THEN real_2op_NaN(st, b, tb, 0, a)
                           ELSE real_2op_NaN(st, a, ta, deststnr, a)
      ELSE add_sub_specials(st, a, ta, a.sign, b, tb, b.sign, deststnr, cwp)

\* The second operand of a subtraction or division: loaded data or st(rm).
Operand(st, flags, rm, data) ==
  IF "LOADED" \in flags THEN data ELSE [r |-> St(st, rm), tag |-> FPU_gettagi(st, rm)]

Dest(flags, rm) == IF "DEST_RM" \in flags THEN rm ELSE 0

\* a - b, or b - a with REV: both signs are then inverted.
SubFrom(st, flags, a, taga, b, tagb, dest, cwp) ==
  LET ta == Precise(taga, a)
      tb == Precise(tagb, b)
      valid == BothValid(taga, tagb)
      rev == "REV" \in flags
      signa == IF rev THEN 1 - a.sign ELSE a.sign
      signb == IF rev THEN 1 - b.sign ELSE b.sign
      den == denormal_operand(st)
      d1 == IF rev THEN b ELSE a
      d2 == IF rev THEN a ELSE b
  IN  IF ~ valid /\ Denormals(ta, tb) /\ den.exc THEN Ret(den.st, "Valid", TRUE)
      ELSE IF valid \/ Denormals(ta, tb)
      THEN valid_subtract(Checked(valid, st, den, a, b), Number16(valid, a), signa,
                          Number16(valid, b), signb, dest, cwp)
      ELSE IF ta = "NaN" \/ tb = "NaN"
      THEN IF "DEST_RM" \in flags
           THEN real_2op_NaN(st, a, ta, dest, d2)
           ELSE real_2op_NaN(st, b, tb, dest, IF "LOADED" \in flags THEN d1 ELSE d2)
      ELSE add_sub_specials(st, a, ta, signa, b, tb, 1 - signb, dest, cwp)

SubOperand(st, flags, rm, op, cwp) ==
  SubFrom(st, flags, St(st, 0), FPU_gettagi(st, 0), op.r, op.tag, Dest(flags, rm), cwp)
FPU_sub(st, flags, rm, data, cwp) ==
  SubOperand(st, flags, rm, Operand(st, flags, rm, data), cwp)

Finite == {"Valid", "Zero", "Empty", "Denormal"}      \* tags <= TW_Denormal

\* st(deststnr) * (b, tagb) -> st(deststnr).
FPU_mul(st, b, tagb, deststnr, cwp) ==
  LET a == St(st, deststnr)
      taga == FPU_gettagi(st, deststnr)
      ta == Precise(taga, a)
      tb == Precise(tagb, b)
      sign == (a.sign + b.sign) % 2
      valid == BothValid(taga, tagb)
      den == denormal_operand(st)
      any == "Denormal" \in {ta, tb}
      s1 == IF any THEN den.st ELSE st
      Answer(r, tag) == Ret(FPU_copy_to_regi(s1, SetSign(r, sign), tag, deststnr), tag, FALSE)
  IN  IF ~ valid /\ (ta = "NaN" \/ tb = "NaN")
      THEN real_2op_NaN(st, b, tb, deststnr, St(st, 0))
      ELSE IF {ta, tb} = {"Infinity", "Zero"} THEN arith_invalid(st, deststnr)
      ELSE IF ~ valid /\ any /\ den.exc THEN Ret(s1, "Valid", TRUE)
      ELSE IF valid \/ Denormals(ta, tb)
      THEN Put(FPU_u_mul(Checked(valid, st, den, a, b), Number16(valid, a), Number16(valid, b),
                         cwp, sign), deststnr)
      ELSE IF {ta, tb} \subseteq Finite THEN Answer(CONST_Z, "Zero")
      ELSE IF ta = "Infinity" THEN Answer(a, "Special")
      ELSE IF tb = "Infinity" THEN Answer(b, "Special")
      ELSE Ret(FPU_internal(s1), "Valid", TRUE)

\* a and b are the dividend and the divisor, st0 and op what they come from.
DivideBy(st, flags, rm, st0, op, a, b, cwp) ==
  LET ta == Precise(a.tag, a.r)
      tb == Precise(b.tag, b.r)
      valid == BothValid(a.tag, b.tag)
      sign == (a.r.sign + b.r.sign) % 2
      dest == Dest(flags, rm)
      den == denormal_operand(st)
      default == IF "REV" \in flags THEN st0.r ELSE op.r
      \* the answer unless a denormal operand traps
      Unless(tag, r, t) ==
        IF tag = "Denormal" /\ den.exc THEN Ret(den.st, "Valid", TRUE)
        ELSE Ret(FPU_copy_to_regi(IF tag = "Denormal" THEN den.st ELSE st, SetSign(r, sign),
                                  t, dest), t, FALSE)
  IN  IF ~ valid /\ Denormals(ta, tb) /\ den.exc THEN Ret(den.st, "Valid", TRUE)
      ELSE IF valid \/ Denormals(ta, tb)
      THEN Put(FPU_u_div(Checked(valid, st, den, a.r, b.r), Number16(valid, a.r),
                         Number16(valid, b.r), cwp, sign), dest)
      ELSE IF {ta, tb} \subseteq Finite
      THEN IF tb # "Zero" THEN Unless(tb, CONST_Z, "Zero")
           ELSE IF ta = "Zero" THEN arith_invalid(st, dest)
           ELSE FPU_divide_by_zero(st, dest, sign)
      ELSE IF ta = "NaN" \/ tb = "NaN"
      THEN IF "LOADED" \in flags THEN real_2op_NaN(st, op.r, op.tag, 0, st0.r)
           ELSE IF "DEST_RM" \in flags
           THEN real_2op_NaN(st, st0.r, Precise(st0.tag, st0.r), rm, default)
           ELSE real_2op_NaN(st, op.r, Precise(op.tag, op.r), 0, default)
      ELSE IF ta = "Infinity" /\ tb = "Infinity" THEN arith_invalid(st, dest)
      ELSE IF ta = "Infinity" THEN Unless(tb, a.r, "Special")
      ELSE Unless(ta, CONST_Z, "Zero")

\* st(0) / st(rm) or loaded data, or the reverse.
DivideOperand(st, flags, rm, st0, op, cwp) ==
  DivideBy(st, flags, rm, st0, op, IF "REV" \in flags THEN op ELSE st0,
           IF "REV" \in flags THEN st0 ELSE op, cwp)
FPU_div(st, flags, rm, data, cwp) ==
  DivideOperand(st, flags, rm, [r |-> St(st, 0), tag |-> FPU_gettagi(st, 0)],
                Operand(st, flags, rm, data), cwp)

----------------------------------------------------------------------------
\* reg_compare.c

\* What a number of this sign is to one nearer to zero.
BySign(s) == IF s = 0 THEN "gt" ELSE "lt"

\* Two finite numbers of the same sign.
ByValue(sign, x, y) ==
  IF Larger(x, y) THEN BySign(sign) ELSE IF Larger(y, x) THEN BySign(1 - sign) ELSE "eq"

\* Two operands, neither a NaN.
Ordered(a, ta, b, tb) ==
  LET normal == "Denormal" \notin {ta, tb}
  IN  IF ta = "Zero" /\ tb = "Zero" THEN "eq"
      ELSE IF tb = "Zero" THEN BySign(a.sign)
      ELSE IF ta = "Zero" THEN BySign(1 - b.sign)
      ELSE IF ta = "Infinity"
      THEN IF tb = "Infinity" /\ a.sign = b.sign THEN "eq" ELSE BySign(a.sign)
      ELSE IF tb = "Infinity" THEN BySign(1 - b.sign)
      ELSE IF a.sign # b.sign THEN BySign(a.sign)
      ELSE ByValue(a.sign, Number16(normal, a), Number16(normal, b))

CompareRegs(a, ta, b, tb) ==
  LET Bad(t, r) == t = "NaN" /\ (exponent(r) # EXP_OVER \/ ~ Normal(r.sig) \/ ~ Quiet(r))
  IN  IF ta = "NaN" \/ tb = "NaN"
      THEN [order |-> "none", denormal |-> FALSE, snan |-> Bad(ta, a) \/ Bad(tb, b)]
      ELSE [order |-> Ordered(a, ta, b, tb), denormal |-> "Denormal" \in {ta, tb},
            snan |-> FALSE]

\* compare: how st(0) stands to (b, tagb).
compare(st, b, tagb) ==
  CompareRegs(St(st, 0), Precise(FPU_gettagi(st, 0), St(st, 0)), b, Precise(tagb, b))

\* The tests of the significands that compare makes on the way.
CheckRegs(st, a, ta, b, tb) ==
  LET normal == "Denormal" \notin {ta, tb}
      s1 == IF normal THEN st ELSE DenormalPair(st, a, b)
  IN  IF {ta, tb} \subseteq {"Valid", "Denormal"} /\ a.sign = b.sign
      THEN IF Normal(Number16(normal, a).sig) /\ Normal(Number16(normal, b).sig) THEN s1
           ELSE FPU_exception(s1, {"IE"})
      ELSE st

compare_check(st, b, tagb) ==
  CheckRegs(st, St(st, 0), Precise(FPU_gettagi(st, 0), St(st, 0)), b, Precise(tagb, b))

\* The condition codes of a comparison.
ConditionCodes(order) ==
  CASE order = "lt"   -> {"C0"}
    [] order = "eq"   -> {"C3"}
    [] order = "gt"   -> {}
    [] order = "none" -> {"C3", "C2", "C0"}

\* A denormal operand is reported after the codes are set.
WithDenormal(st, c) ==
  IF c.denormal THEN denormal_operand(st) ELSE Ret(st, "Valid", FALSE)

CompareData(st, c) ==
  WithDenormal(setcc(IF c.order = "none" THEN FPU_exception(st, {"IE"}) ELSE st,
                     ConditionCodes(c.order)), c)

\* A comparison with loaded data; exc: do not pop.
FPU_compare_st_data(st, data, tag) ==
  CompareData(compare_check(st, data, tag), compare(st, data, tag))

CompareSt(st, nr, s1, c) ==
  LET none == setcc(st, ConditionCodes("none"))
  IN  IF FPU_empty_i(st, 0) \/ FPU_empty_i(st, nr)
      THEN Ret(FPU_exception(none, EX_StackUnder), "Valid", ~ Masked(st, "IE"))
      ELSE IF c.order = "none"
      THEN Ret(FPU_exception(none, {"IE"}), "Valid", ~ Masked(st, "IE"))
      ELSE WithDenormal(setcc(s1, ConditionCodes(c.order)), c)

\* compare_st_st: with st(nr); exc: do not pop.
compare_st_st(st, nr) ==
  CompareSt(st, nr, compare_check(st, St(st, nr), FPU_gettagi(st, nr)),
            compare(st, St(st, nr), FPU_gettagi(st, nr)))

\* compare_u_st_st: a quiet NaN is no exception.
compare_u_st_st(st, nr) ==
  LET c == compare(st, St(st, nr), FPU_gettagi(st, nr))
  IN  IF ~ FPU_empty_i(st, 0) /\ ~ FPU_empty_i(st, nr) /\ c.order = "none" /\ ~ c.snan
      THEN Ret(setcc(st, ConditionCodes("none")), "Valid", FALSE)
      ELSE compare_st_st(st, nr)
============================================================================
