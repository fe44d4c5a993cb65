------------------------------ MODULE FpuRegs ------------------------------
(***************************************************************************)
(* The data of the x87 emulator under extras/x87-emu and the routines that *)
(* every instruction is built from: the register format (fpu_emu.h), the   *)
(* tag word (fpu_tags.c), the exceptions and their masked and unmasked     *)
(* responses (errors.c), the shifts and the normalisation (wm_shrx.S,      *)
(* reg_norm.S, reg_convert.c).                                             *)
(*                                                                         *)
(* A routine is an operator on the emulator's state, the record `st` that  *)
(* stands for struct i387_soft_struct:                                     *)
(*   cw        control word: masked exceptions, rounding, precision        *)
(*   sw        partial_status: the set of its flags; "ES" stands for       *)
(*             SW_Summary and SW_Backward, which are set and cleared       *)
(*             together                                                    *)
(*   top       the register that is st(0)                                  *)
(*   tag, reg  the tag and the contents of every register                  *)
(*   internal  whether EX_INTERNAL was ever raised                         *)
(*                                                                         *)
(* The format is scaled: H bits to a machine word (32 in the code), so     *)
(* that a significand has 2H, and E bits of exponent (15).                 *)
(***************************************************************************)
EXTENDS Integers, FiniteSets

CONSTANTS
  H,        \* bits of a machine word, 32 in the code
  E,        \* bits of the exponent field, 15 in the code
  Drop53,   \* significand bits that 53 bit precision drops, 11 in the code
  Drop24,   \* significand bits that 24 bit precision drops, 40 in the code
  NRegs     \* registers of the stack, 8 in the code

ASSUME FormatAssumption ==
  /\ H \in Nat /\ H >= 3
  /\ E \in Nat /\ 2^(E - 2) > 2*H + 1   \* EXP_WAY_UNDER is below every denormal
  /\ Drop53 \in 1..(H - 1)
  /\ Drop24 \in (H + 1)..(2*H - 1)
  /\ NRegs \in Nat \ {0, 1}

\* Provers know nothing of powers: what they need of one.
ASSUME PowerAssumption == 2^(E - 2) \in Nat /\ 2^(E - 1) = 2 * 2^(E - 2)

----------------------------------------------------------------------------
\* The format of a register: sign, biased exponent and significand.

W == 2 * H                        \* bits of a significand
EBias == 2^(E - 1) - 1            \* EXTENDED_Ebias
EXP_OVER == 2^(E - 1)             \* smallest invalid large exponent
EXP_UNDER == 0 - EBias            \* largest invalid small exponent
Magic == 3 * 2^(E - 2)            \* 3 * (1 << 13)
EXP_WAY_UNDER == 0 - Magic        \* below the smallest denormal

TopBit == 2^(W - 1)               \* 0x80000000 of sigh
QuietBit == 2^(W - 2)             \* 0x40000000 of sigh

Reg == [sign : 0..1, exp : 0..(2^E - 1), sig : 0..(2^W - 1)]

\* exponent(x): what the exponent field stands for.
exponent(r) == r.exp - EBias

\* A number kept in the 16 bits of `short exp`, which wrap.
Exp16(x) == ((x + 2^E) % 2^(E + 1)) - 2^E

FromExp16_Unmasked(e, sig) ==
  [sign |-> IF e < 0 THEN 1 ELSE 0, exp |-> e, sig |-> sig]

\* Sixteen bits seen as sign and exponent field again.
FromExp16(e, sig) ==
  [sign |-> IF e < 0 THEN 1 ELSE 0, exp |-> e % 2^E, sig |-> sig]

CONST_1    == [sign |-> 0, exp |-> EBias, sig |-> TopBit]
CONST_Z    == [sign |-> 0, exp |-> 0, sig |-> 0]
CONST_QNaN == [sign |-> 1, exp |-> 2^E - 1, sig |-> TopBit + QuietBit]
CONST_INF  == [sign |-> 0, exp |-> 2^E - 1, sig |-> TopBit]

\* The bits of a significand that the other constants keep of their value.
CONST_PI == [sign |-> 0, exp |-> EBias + 1, sig |-> (201 * 2^W) \div 256]

SetSign(r, s) == [r EXCEPT !.sign = s]
ChangeSign(r) == [r EXCEPT !.sign = 1 - @]
Normal(sig) == sig >= TopBit
Quiet(r) == (r.sig \div QuietBit) % 2 = 1

----------------------------------------------------------------------------
\* fpu_tags.c.  st(i) is register (top + i) & 7.

Regs == 0..(NRegs - 1)
Phys(st, i) == (st.top + i) % NRegs
St(st, i) == st.reg[Phys(st, i)]
FPU_gettagi(st, i) == st.tag[Phys(st, i)]
FPU_empty_i(st, i) == FPU_gettagi(st, i) = "Empty"
STACK_OVERFLOW(st) == ~ FPU_empty_i(st, NRegs - 1)

FPU_settagi(st, i, tag) == [st EXCEPT !.tag[Phys(st, i)] = tag]
SetReg(st, i, r) == [st EXCEPT !.reg[Phys(st, i)] = r]
FPU_copy_to_regi(st, r, tag, i) == FPU_settagi(SetReg(st, i, r), i, tag)

\* push() moves top and touches no tag; FPU_pop empties the register it
\* leaves.
Push(st) == [st EXCEPT !.top = (@ + NRegs - 1) % NRegs]
FPU_pop(st) == [FPU_settagi(st, 0, "Empty") EXCEPT !.top = (@ + 1) % NRegs]

\* What TAG_Special stands for.  Unnormals are NaNs to this function.
FPU_Special(r) ==
  CASE exponent(r) = EXP_UNDER -> "Denormal"
    [] exponent(r) = EXP_OVER /\ r.sig = TopBit -> "Infinity"
    [] OTHER -> "NaN"

\* A tag with TAG_Special made precise.
Precise(tag, r) == IF tag = "Special" THEN FPU_Special(r) ELSE tag

isNaN(r) == exponent(r) = EXP_OVER /\ r.sig # TopBit

----------------------------------------------------------------------------
\* errors.c: raising an exception and the responses to it.

\* The exceptions that the control word can mask, in its bits and in those
\* of the status word.
CW_Exceptions == {"IE", "DE", "ZE", "OE", "UE", "PE"}
Masked(st, x) == x \in st.cw.mask

EX_StackOver  == {"IE", "SF", "C1"}
EX_StackUnder == {"IE", "SF"}

FPU_exception(st, n) ==
  LET raised == st.sw \cup n
      summed == IF (raised \cap CW_Exceptions) \ st.cw.mask # {}
                THEN raised \cup {"ES"} ELSE raised
  IN  [st EXCEPT !.sw = IF n \cap {"SF", "PE"} # {} /\ "C1" \notin n
                        THEN summed \ {"C1"} ELSE summed]

\* EX_INTERNAL sets every exception bit, whatever the masks.
FPU_internal(st) ==
  [st EXCEPT !.internal = TRUE,
             !.sw = @ \cup CW_Exceptions \cup {"SF", "C1", "ES"}]

clear_C1(st) == [st EXCEPT !.sw = @ \ {"C1"}]

setcc_ClearsAll(st, cc) == [st EXCEPT !.sw = cc]

setcc(st, cc) == [st EXCEPT !.sw = (@ \ {"C0", "C1", "C2", "C3"}) \cup cc]

\* What a routine returns: the state, the tag of the answer, and whether
\* FPU_Exception (or any negative number) was or-ed to it.
Ret(st, tag, exc) == [st |-> st, tag |-> tag, exc |-> exc]

\* The same from a routine that works on a register outside the stack.
RetReg(st, r, tag, exc) == [st |-> st, r |-> r, tag |-> tag, exc |-> exc]

\* An operation on one NaN; the register is changed in place.
real_1op_NaN(st, a) ==
  LET isnan == exponent(a) = EXP_OVER /\ Normal(a.sig)
      masked == Masked(st, "IE")
      invalid == FPU_exception(st, {"IE"})
  IN  IF isnan /\ Quiet(a) THEN RetReg(st, a, "Special", FALSE)
      ELSE RetReg(invalid,
                  CASE ~ masked -> a
                    [] ~ isnan  -> CONST_QNaN
                    [] OTHER    -> [a EXCEPT !.sig = @ + QuietBit],
                  "Special", ~ masked)

\* An operation on two operands of which one is a NaN, or is of a format the
\* processor does not support.  The destination is the first operand.
real_2op_NaN(st, b, tagb, deststnr, defaultNaN) ==
  LET masked == Masked(st, "IE")
      Invalid(s, r) ==
        Ret(FPU_exception(IF masked THEN FPU_copy_to_regi(s, r, "Special", deststnr) ELSE s,
                          {"IE"}), "Special", ~ masked)
      Quieted(r) == [r EXCEPT !.sig = IF Quiet(r) THEN @ ELSE @ + QuietBit]
      Answer(a, ta, tb) ==
        LET nans == {x \in {<<ta, a>>, <<tb, b>>} : x[1] = "NaN"}
            unsupported ==
              \E x \in nans : ~ (exponent(x[2]) = EXP_OVER /\ Normal(x[2].sig))
            s0 == IF nans # {} THEN st ELSE FPU_internal(st)
            x == IF nans = {} THEN CONST_QNaN
                 ELSE IF ta # "NaN" THEN b
                 ELSE IF tb # "NaN" \/ a.sig > b.sig THEN a
                 ELSE IF b.sig > a.sig THEN b
                 ELSE defaultNaN
        IN  IF unsupported THEN Invalid(st, CONST_QNaN)
            ELSE IF \A y \in nans : Quiet(y[2])
            THEN Ret(FPU_copy_to_regi(s0, x, "Special", deststnr), "Special", FALSE)
            ELSE Invalid(s0, Quieted(x))
      Tagged(a, tag) == Answer(a, Precise(tag, a), Precise(tagb, b))
  IN  Tagged(St(st, deststnr), FPU_gettagi(st, deststnr))

arith_invalid(st, deststnr) ==
  LET raised == FPU_exception(st, {"IE"})
  IN  IF Masked(st, "IE")
      THEN Ret(FPU_copy_to_regi(raised, CONST_QNaN, "Special", deststnr), "Valid", FALSE)
      ELSE Ret(raised, "Valid", TRUE)

FPU_divide_by_zero(st, deststnr, sign) ==
  IF Masked(st, "ZE")
  THEN Ret(FPU_exception(FPU_copy_to_regi(st, SetSign(CONST_INF, sign), "Special", deststnr),
                         {"ZE"}), "Special", FALSE)
  ELSE Ret(FPU_exception(st, {"ZE"}), "Valid", TRUE)

\* set_precision_flag, which fpu_etc.c, load_store.c and fpu_trig.c call with
\* what FPU_round_to_int returned: masked, a rounding down leaves C1 alone.
set_precision_flag(st, flags) ==
  IF Masked(st, "PE") THEN [st EXCEPT !.sw = @ \cup flags]
  ELSE FPU_exception(st, flags)

set_precision_flag_up(st) ==
  IF Masked(st, "PE") THEN [st EXCEPT !.sw = @ \cup {"PE", "C1"}]
  ELSE FPU_exception(st, {"PE", "C1"})

set_precision_flag_down(st) ==
  IF Masked(st, "PE") THEN [st EXCEPT !.sw = (@ \ {"C1"}) \cup {"PE"}]
  ELSE FPU_exception(st, {"PE"})

denormal_operand(st) ==
  IF Masked(st, "DE") THEN Ret([st EXCEPT !.sw = @ \cup {"DE"}], "Special", FALSE)
  ELSE Ret(FPU_exception(st, {"DE"}), "Special", TRUE)

\* `e` is the 16 bit exponent of the destination, already biased.
arith_overflow(st, e, sig) ==
  IF Masked(st, "OE")
  THEN RetReg(FPU_exception(FPU_exception(st, {"OE"}), {"PE", "C1"}),
              CONST_INF, "Special", FALSE)
  ELSE RetReg(FPU_exception(st, {"OE"}), FromExp16(Exp16(e - Magic), sig), "Valid", FALSE)

arith_underflow(st, e, sig) ==
  LET tozero == e <= EXP_UNDER - (W - 1)
      s1 == IF tozero THEN clear_C1(st) ELSE st
  IN  IF Masked(st, "UE")
      THEN RetReg(FPU_exception(FPU_exception(s1, {"UE"}), {"PE"}),
                  IF tozero THEN CONST_Z ELSE FromExp16(Exp16(e + EBias), sig),
                  IF tozero THEN "Zero" ELSE "Valid", FALSE)
      ELSE RetReg(FPU_exception(st, {"UE"}), FromExp16(Exp16(e + Magic + EBias), sig),
                  "Valid", FALSE)

FPU_stack_overflow_Pushes(st) ==
  FPU_exception(FPU_copy_to_regi(Push(st), CONST_QNaN, "Special", 0), EX_StackOver)

FPU_stack_overflow(st) ==
  FPU_exception(IF Masked(st, "IE")
                THEN FPU_copy_to_regi(Push(st), CONST_QNaN, "Special", 0) ELSE st,
                EX_StackOver)

FPU_stack_underflow_i(st, i) ==
  FPU_exception(IF Masked(st, "IE")
                THEN FPU_copy_to_regi(st, CONST_QNaN, "Special", i) ELSE st,
                EX_StackUnder)

FPU_stack_underflow(st) == FPU_stack_underflow_i(st, 0)

FPU_stack_underflow_pop(st, i) ==
  FPU_exception(IF Masked(st, "IE")
                THEN FPU_pop(FPU_copy_to_regi(st, CONST_QNaN, "Special", i)) ELSE st,
                EX_StackUnder)

----------------------------------------------------------------------------
\* Shifts, normalisation and the form with a 16 bit exponent.

\* FPU_shrxs: a significand shifted right with one word of extension, kept up
\* to what its users ask of it: its first bit, and whether any other is set.
FPU_shrxs(sig, n) ==
  LET lost == sig % 2^(IF n > W THEN W ELSE n)
      first == n \in 1..(W + H - 1) /\ (sig \div 2^(n - 1)) % 2 = 1
      rest == IF first THEN lost # 2^(n - 1) ELSE lost # 0
  IN  [sig |-> IF n >= W THEN 0 ELSE sig \div 2^n,
       ext |-> (IF first THEN 2^(H - 1) ELSE 0) + (IF rest THEN 1 ELSE 0)]

\* How far a non-zero significand is shifted left to be normal (bsrl).
LeadingZeros(sig) == CHOOSE n \in 0..(W - 1) : Normal(sig * 2^n) /\ sig * 2^n < 2^W

\* FPU_normalize_nuo: no overflow or underflow is reported.
FPU_normalize_nuo(e, sig) ==
  LET Shifted(n) == [exp |-> Exp16(e - n), sig |-> sig * 2^n, tag |-> "Valid"]
  IN  IF sig = 0 THEN [exp |-> EXP_UNDER, sig |-> 0, tag |-> "Zero"]
      ELSE Shifted(LeadingZeros(sig))

\* FPU_normalize: the answer in 80x87 form, with its under- and overflows.
FPU_normalize(st, e, sig) ==
  LET Answer(n) ==
        CASE n.exp >= EXP_OVER -> arith_overflow(st, Exp16(n.exp + EBias), n.sig)
          [] n.exp <= EXP_UNDER -> arith_underflow(st, Exp16(n.exp + EBias), n.sig)
          [] OTHER -> RetReg(st, [sign |-> 0, exp |-> (n.exp + EBias) % 2^E, sig |-> n.sig],
                             "Valid", FALSE)
  IN  IF sig = 0 THEN RetReg(st, FromExp16(0, 0), "Zero", FALSE)
      ELSE Answer(FPU_normalize_nuo(e, sig))

FPU_to_exp16_Raw(a) == [exp |-> exponent(a), sig |-> a.sig]

\* FPU_to_exp16: the significand with a 16 bit exponent, denormals normalised.
FPU_to_exp16(a) ==
  LET Pair(n) == [exp |-> n.exp, sig |-> n.sig]
  IN  CASE exponent(a) # EXP_UNDER -> [exp |-> exponent(a), sig |-> a.sig]
        [] exponent(a) = EXP_UNDER /\ Normal(a.sig) -> [exp |-> EXP_UNDER + 1, sig |-> a.sig]
        [] OTHER -> Pair(FPU_normalize_nuo(EXP_UNDER + 1, a.sig))

\* Its test of the answer: an unnormal is an internal error.
to_exp16_check(st, a) == IF Normal(FPU_to_exp16(a).sig) THEN st ELSE FPU_internal(st)
============================================================================
