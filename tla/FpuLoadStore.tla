---------------------------- MODULE FpuLoadStore ----------------------------
(***************************************************************************)
(* The transfers between the registers of the x87 emulator and memory      *)
(* (reg_ld_str.c): the conversions from and to floats, integers and packed *)
(* decimals, the rounding to an integer that they share, and the           *)
(* environment and state images of fldenv, frstor, fstenv and fsave.       *)
(*                                                                         *)
(* A float in memory is its three fields, an integer its value.  A store   *)
(* that an unmasked exception stops returns ok = FALSE and writes nothing. *)
(***************************************************************************)
EXTENDS FpuArith

CONSTANTS
  ESingle,     \* exponent bits of a float, 8 in the code
  EDouble,     \* exponent bits of a double, 11 in the code
  ShortBits,   \* bits of a short, 16 in the code
  BcdMax       \* largest packed decimal, 10^18 - 1 in the code

ASSUME MemoryFormatAssumption ==
  /\ ESingle \in Nat /\ EDouble \in Nat
  /\ 2 <= ESingle /\ ESingle <= EDouble /\ EDouble < E
  /\ 2 - 2^(EDouble - 1) - W > EXP_UNDER     \* their denormals are normal here
  /\ ShortBits \in 2..(H - 1)
  /\ BcdMax \in 1..(2^(W - 1) - 1)

----------------------------------------------------------------------------
\* The two memory formats: the significand bits they drop, their exponent
\* bits, and the fraction bits that a double which overflows leaves set:
\* those of l[0].

Single == [drop |-> Drop24, ebits |-> ESingle, low |-> 0]
Double == [drop |-> Drop53, ebits |-> EDouble, low |-> H]

Fraction(f) == W - f.drop - 1
Emax(f) == 2^(f.ebits - 1) - 1
Emin(f) == 2 - 2^(f.ebits - 1)
TopExp(f) == 2^f.ebits - 1          \* the exponent field of infinities and NaNs

Float(f) == [sign : 0..1, exp : 0..TopExp(f), frac : 0..(2^Fraction(f) - 1)]

----------------------------------------------------------------------------
\* Loads.

normalize_no_excep_Unsigned(e, sig, sign) ==
  LET n == FPU_normalize_nuo(e, sig)
  IN  [r |-> FromExp16(Exp16(n.exp + EBias), n.sig), tag |-> n.tag]

Normalised(n, sign) ==
  [r |-> [FromExp16(Exp16(n.exp + EBias), n.sig) EXCEPT !.sign = IF sign = 1 THEN 1 ELSE @],
   tag |-> n.tag]
normalize_no_excep(e, sig, sign) == Normalised(FPU_normalize_nuo(e, sig), sign)

FPU_tagof(r) ==
  CASE r.exp = 0 -> IF r.sig = 0 THEN "Zero" ELSE "Special"
    [] r.exp # 0 -> IF r.exp = 2^E - 1 \/ ~ Normal(r.sig) THEN "Special" ELSE "Valid"

\* A denormal is normalised, and reported.
LoadDenormal(den, n) == RetReg(den.st, n.r, n.tag, den.exc)
LoadFloat(st, f, x) ==
  LET sig == x.frac * 2^f.drop
      At(exp, s, tag) == RetReg(st, [sign |-> x.sign, exp |-> exp, sig |-> s], tag, FALSE)
  IN  CASE x.exp = 0 /\ x.frac = 0 -> At(0, 0, "Zero")
        [] x.exp = 0 /\ x.frac # 0 ->
             LoadDenormal(denormal_operand(st), normalize_no_excep(Emin(f), sig, x.sign))
        [] x.exp = TopExp(f) -> At(2^E - 1, TopBit + sig, "Special")
        [] OTHER -> At(x.exp - Emax(f) + EBias, TopBit + sig, "Valid")

FPU_load_double(st, x) == LoadFloat(st, Double, x)
FPU_load_single(st, x) == LoadFloat(st, Single, x)

\* An integer of w bits: its magnitude at the top of a word.
LoadInt(w, s) ==
  LET mag == IF s < 0 THEN 0 - s ELSE s
  IN  IF s = 0 THEN [r |-> CONST_Z, tag |-> "Zero"]
      ELSE normalize_no_excep(w - 1, mag * 2^(W - w), IF s < 0 THEN 1 ELSE 0)

FPU_load_int64(s) == LoadInt(W, s)
FPU_load_int32(s) == LoadInt(H, s)
FPU_load_int16(s) == LoadInt(ShortBits, s)

\* A packed decimal is [sign, mag]; zero keeps its sign.
FPU_load_bcd(x) ==
  IF x.mag = 0 THEN [r |-> SetSign(CONST_Z, x.sign), tag |-> "Zero"]
  ELSE normalize_no_excep(W - 1, x.mag, x.sign)

----------------------------------------------------------------------------
\* FPU_round_to_int: the significand becomes the integer.  `loss` is the
\* flags of a precision exception, or "overflow".

PRECISION_LOST_UP == {"PE", "C1"}
PRECISION_LOST_DOWN == {"PE"}

RoundShifted(rc, sign, x) ==
  LET up == RoundsUp(rc, sign, x.ext, Half, x.sig % 2 = 1)
  IN  CASE up /\ x.sig = 2^W - 1 -> [sig |-> 2^W - 1, loss |-> {}, over |-> TRUE]
        [] up /\ x.sig # 2^W - 1 ->
             [sig |-> x.sig + 1, loss |-> PRECISION_LOST_UP, over |-> FALSE]
        [] OTHER -> [sig |-> x.sig, loss |-> IF x.ext # 0 THEN PRECISION_LOST_DOWN ELSE {},
                     over |-> FALSE]

FPU_round_to_int(rc, sign, e, sig, tag) ==
  CASE tag = "Zero" -> [sig |-> 0, loss |-> {}, over |-> FALSE]
    [] tag # "Zero" /\ e > W - 1 -> [sig |-> 2^W - 1, loss |-> {}, over |-> TRUE]
    [] OTHER -> RoundShifted(rc, sign, FPU_shrxs(sig, W - 1 - e))

----------------------------------------------------------------------------
\* Stores.

Stored(st, out) == [st |-> st, out |-> <<out>>, ok |-> TRUE]
NotStored(st) == [st |-> st, out |-> <<>>, ok |-> FALSE]

\* An exception whose unmasked response is not to store.
StoreUnless(st, x, out) ==
  IF Masked(st, x) THEN Stored(st, out) ELSE NotStored(st)

FPU_store_extended(st, r, tag) ==
  IF tag # "Empty" THEN Stored(st, r)
  ELSE StoreUnless(FPU_exception(st, EX_StackUnder), "IE", CONST_QNaN)

\* denormal_arg: a result below the normal numbers of the format, with an
\* exponent that makes its last bit a unit.
StoreTiny(st, f, st0, x) ==
  LET rounded == x.sig = 2^Fraction(f) /\ st0.sig % 2^f.drop # 0
      s1 == IF rounded THEN st ELSE FPU_exception(st, {"UE"})
      out == [sign |-> st0.sign, exp |-> x.sig \div 2^Fraction(f), frac |-> x.sig % 2^Fraction(f)]
  IN  IF x.loss = {} THEN Stored(st, out)
      ELSE IF ~ rounded /\ ~ Masked(st, "UE") THEN NotStored(s1)
      ELSE StoreUnless(FPU_exception(s1, x.loss), "PE", out)

StoreDenormal(st, f, st0, e) ==
  StoreTiny(st, f, st0, FPU_round_to_int(st.cw.rc, st0.sign, e, st0.sig, "Valid"))

\* A normal number: round to the format, then see whether it is too large.
StoreRounded(st, f, st0, x) ==
  LET e == exponent(st0) + x.carry
      frac == (x.sig \div 2^f.drop) % 2^Fraction(f)
      over == FPU_exception(st, {"OE"})
      At(exp, fr) == [sign |-> st0.sign, exp |-> exp, frac |-> fr]
  IN  IF e <= Emax(f) THEN Stored(PrecisionLost(st, x.lost), At(e + Emax(f), frac))
      ELSE IF ~ Masked(st, "OE") THEN NotStored(over)
      ELSE StoreUnless(set_precision_flag_up(over), "PE", At(TopExp(f), frac % 2^f.low))

StoreNormal(st, f, st0) ==
  StoreRounded(st, f, st0, RoundSig(st0.sig, 0, f.drop, st.cw.rc, st0.sign))

StoreNaN(st, f, st0) ==
  LET isnan == exponent(st0) = EXP_OVER /\ Normal(st0.sig)
      frac == (st0.sig \div 2^f.drop) % 2^Fraction(f)
      quiet == 2^(Fraction(f) - 1)
      invalid == FPU_exception(st, {"IE"})
      At(sign, fr) == [sign |-> sign, exp |-> TopExp(f), frac |-> fr]
  IN  CASE isnan /\ Quiet(st0) -> Stored(st, At(st0.sign, frac))
        [] isnan /\ ~ Quiet(st0) -> StoreUnless(invalid, "IE", At(st0.sign, frac + quiet))
        [] ~ isnan -> StoreUnless(invalid, "IE", At(1, quiet))

StoreTagged(st, f, st0, t) ==
  CASE t = "Valid" /\ exponent(st0) >= Emin(f) -> StoreNormal(st, f, st0)
    [] t = "Valid" /\ ~ (exponent(st0) >= Emin(f)) ->
         StoreDenormal(st, f, st0, exponent(st0) - Emin(f) + Fraction(f))
    [] t = "Denormal" -> StoreDenormal(st, f, st0, exponent(st0))
    [] t = "Zero" -> Stored(st, [sign |-> st0.sign, exp |-> 0, frac |-> 0])
    [] t = "Infinity" -> Stored(st, [sign |-> st0.sign, exp |-> TopExp(f), frac |-> 0])
    [] t = "NaN" -> StoreNaN(st, f, st0)
    [] t = "Empty" -> StoreUnless(FPU_exception(st, EX_StackUnder), "IE",
                                  [sign |-> 1, exp |-> TopExp(f), frac |-> 2^(Fraction(f) - 1)])

StoreFloat(st, f, st0, tag) == StoreTagged(st, f, st0, Precise(tag, st0))

FPU_store_double(st, st0, tag) == StoreFloat(st, Double, st0, tag)
FPU_store_single(st, st0, tag) == StoreFloat(st, Single, st0, tag)

\* A conversion to an integer of w bits; the masked response to an operand
\* that has none is the smallest integer.
IntFlags(st, x) == IF x.loss = {} THEN st ELSE set_precision_flag(st, x.loss)
StoreIntAs(st, w, st0, t, x) ==
  LET toobig == x.over \/ (x.sig >= 2^(w - 1) /\ ~ (x.sig = 2^(w - 1) /\ st0.sign = 1))
      Invalid(flags) == StoreUnless(FPU_exception(st, flags), "IE", 0 - 2^(w - 1))
  IN  IF t = "Empty" THEN Invalid(EX_StackUnder)
      ELSE IF t \in {"Infinity", "NaN"} \/ toobig THEN Invalid({"IE"})
      ELSE Stored(IntFlags(st, x), IF st0.sign = 1 THEN 0 - x.sig ELSE x.sig)

\* The operand as an integer; one that is not a number does not count.
AsInt(st, st0, tag) ==
  FPU_round_to_int(st.cw.rc, st0.sign, exponent(st0), st0.sig, Precise(tag, st0))

StoreInt(st, w, st0, tag) == StoreIntAs(st, w, st0, Precise(tag, st0), AsInt(st, st0, tag))

FPU_store_int64(st, st0, tag) == StoreInt(st, W, st0, tag)
FPU_store_int32(st, st0, tag) == StoreInt(st, H, st0, tag)
FPU_store_int16(st, st0, tag) == StoreInt(st, ShortBits, st0, tag)

StoreBcdAs(st, st0, t, x) ==
  LET Invalid(flags) == StoreUnless(FPU_exception(st, flags), "IE", "indefinite")
  IN  IF t = "Empty" THEN Invalid(EX_StackUnder)
      ELSE IF t \in {"Infinity", "NaN"} \/ x.sig > BcdMax THEN Invalid({"IE"})
      ELSE Stored(IntFlags(st, x), [sign |-> st0.sign, mag |-> x.sig])

FPU_store_bcd(st, st0, tag) == StoreBcdAs(st, st0, Precise(tag, st0), AsInt(st, st0, tag))

----------------------------------------------------------------------------
\* The environment [cw, sw, top, tag] and the registers in stack order.

\* The summary bit of a status word loaded with a control word.
Summed(sw, cw) ==
  IF (sw \cap CW_Exceptions) \ cw.mask # {} THEN sw \cup {"ES"} ELSE sw \ {"ES"}

\* Of the tags in memory only whether they are Empty counts: a register that
\* was empty gets the tag of what it holds, any other keeps its tag.
fldenv(st, env) ==
  [st EXCEPT !.cw = env.cw, !.top = env.top, !.sw = Summed(env.sw, env.cw),
             !.tag = [i \in Regs |-> CASE env.tag[i] = "Empty" -> "Empty"
                                       [] env.tag[i] # "Empty" /\ st.tag[i] = "Empty" ->
                                            FPU_tagof(st.reg[i])
                                       [] OTHER -> st.tag[i]]]

frstor_NoRotate(st, image) ==
  LET s1 == fldenv(st, image.env)
  IN  [s1 EXCEPT !.reg = image.regs,
                 !.tag = [i \in Regs |-> IF s1.tag[i] = "Empty" THEN "Empty"
                                         ELSE FPU_tagof(image.regs[i])]]

frstor(st, image) ==
  LET s1 == fldenv(st, image.env)
      regs == [i \in Regs |-> image.regs[(i + NRegs - s1.top) % NRegs]]
  IN  [s1 EXCEPT !.reg = regs,
                 !.tag = [i \in Regs |-> IF s1.tag[i] = "Empty" THEN "Empty"
                                         ELSE FPU_tagof(regs[i])]]

Environment(st) == [cw |-> st.cw, sw |-> st.sw, top |-> st.top, tag |-> st.tag]

\* The state is left with every exception masked.
fstenv(st) ==
  Stored([st EXCEPT !.cw.mask = CW_Exceptions, !.sw = @ \ {"ES"}], Environment(st))

\* finit: the registers are cleared too.
finit(st) ==
  [st EXCEPT !.cw = [mask |-> CW_Exceptions, rc |-> "RND", pc |-> "64"], !.sw = {}, !.top = 0,
             !.tag = [i \in Regs |-> "Empty"], !.reg = [i \in Regs |-> CONST_Z]]

fsave(st) ==
  Stored(finit(fstenv(st).st),
         [env |-> Environment(st), regs |-> [i \in Regs |-> St(st, i)]])
============================================================================
