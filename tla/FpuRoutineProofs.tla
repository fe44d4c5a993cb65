-------------------------- MODULE FpuRoutineProofs --------------------------
(***************************************************************************)
(* What the routines of the x87 emulator do to everything but the contents *)
(* of the registers, for every word size, exponent width and number of     *)
(* registers.                                                              *)
(*                                                                         *)
(* `Calculates` says what a routine that works on full registers may do:   *)
(* it keeps the stack, the control word and the flags that are set, and    *)
(* the summary bit fits afterwards if it did before.  It is shown of the   *)
(* routines of errors.c and fpu_tags.c, and is transitive, so it holds of  *)
(* every routine that only calls such routines.  `Behaves` is the same for *)
(* a whole instruction, which may also move the stack.                     *)
(*                                                                         *)
(* EX_INTERNAL sets every flag whatever the masks, so nothing is said of   *)
(* the summary and the stack fault once it was raised.                     *)
(***************************************************************************)
EXTENDS FpuEmu, TLAPS

Fields == {"cw", "sw", "top", "tag", "reg", "internal"}

Occupied(s) == {i \in Regs : s.tag[i] # "Empty"}

\* The state is a record whose parts have their types; what a register holds
\* is left open.
Shape(s) ==
  /\ s = [f \in Fields |-> s[f]]
  /\ s.cw \in ControlWord
  /\ s.top \in Regs
  /\ s.tag \in [Regs -> Tags]
  /\ s.reg = [i \in Regs |-> s.reg[i]]
  /\ s.internal \in BOOLEAN

Lasting == CW_Exceptions \cup {"SF"}

Fits(s) == "ES" \in s.sw <=> (s.sw \cap CW_Exceptions) \ s.cw.mask # {}

\* What is kept of the flags on the way from s to t.
KeepsFlags(s, t) ==
  /\ s.sw \cap Lasting \subseteq t.sw
  /\ s.internal => t.internal
  /\ ~ t.internal => (Fits(s) => Fits(t))

KeepsFault(s, t) == ~ t.internal => ("SF" \in t.sw <=> "SF" \in s.sw)

\* A routine that only works on full registers took s to t.
Calculates(s, t) ==
  /\ Shape(t)
  /\ KeepsFlags(s, t)
  /\ KeepsFault(s, t)
  /\ t.cw = s.cw /\ t.top = s.top /\ Occupied(t) = Occupied(s)

Answers == {"Valid", "Zero", "Special"}

----------------------------------------------------------------------------
\* The order of routines does not matter to any of this.
LEMMA CalculatesAll ==
  ASSUME NEW s, NEW t, NEW u, Calculates(s, t), Calculates(t, u)
  PROVE  Calculates(s, u)
BY DEF Calculates, KeepsFlags, KeepsFault

\* A routine may do nothing.
LEMMA CalculatesNothing ==
  ASSUME NEW s, Shape(s)
  PROVE  Calculates(s, s)
BY DEF Calculates, KeepsFlags, KeepsFault

\* A change of the status word alone (errors.c, status_w.h).
LEMMA ChangedStatus ==
  ASSUME NEW s, Shape(s), NEW sw,
         s.sw \cap Lasting \subseteq sw,
         Fits(s) => ("ES" \in sw <=> (sw \cap CW_Exceptions) \ s.cw.mask # {}),
         "SF" \in sw <=> "SF" \in s.sw
  PROVE  Calculates(s, [s EXCEPT !.sw = sw])
BY DEF Calculates, KeepsFlags, KeepsFault, Shape, Fields, Fits, Occupied

\* FPU_exception of anything but a stack fault.
LEMMA ExceptionCalculates ==
  ASSUME NEW s, Shape(s), NEW n, "SF" \notin n, "ES" \notin n
  PROVE  Calculates(s, FPU_exception(s, n))
<1> DEFINE raised == s.sw \cup n
           summed == IF (raised \cap CW_Exceptions) \ s.cw.mask # {}
                     THEN raised \cup {"ES"} ELSE raised
           sw == IF n \cap {"SF", "PE"} # {} /\ "C1" \notin n THEN summed \ {"C1"} ELSE summed
<1>1. s.sw \cap Lasting \subseteq sw
  BY DEF Lasting, CW_Exceptions
<1>2. "SF" \in sw <=> "SF" \in s.sw
  BY DEF CW_Exceptions
<1>3. Fits(s) => ("ES" \in sw <=> (sw \cap CW_Exceptions) \ s.cw.mask # {})
  BY DEF Fits, CW_Exceptions
<1> HIDE DEF sw
<1>4. Calculates(s, [s EXCEPT !.sw = sw])
  BY <1>1, <1>2, <1>3, ChangedStatus
<1> QED  BY <1>4 DEF sw, FPU_exception

\* EX_INTERNAL keeps everything but the flags.
LEMMA InternalCalculates ==
  ASSUME NEW s, Shape(s)
  PROVE  Calculates(s, FPU_internal(s))
BY DEF FPU_internal, Calculates, KeepsFlags, KeepsFault, Shape, Fields, Fits, Occupied, Lasting

\* clear_C1.
LEMMA ClearCalculates ==
  ASSUME NEW s, Shape(s)
  PROVE  Calculates(s, clear_C1(s))
<1>1. Calculates(s, [s EXCEPT !.sw = s.sw \ {"C1"}])
  BY ChangedStatus DEF Fits, CW_Exceptions, Lasting
<1> QED  BY <1>1 DEF clear_C1

\* setcc, which sets any condition codes.
LEMMA CodesCalculates ==
  ASSUME NEW s, Shape(s), NEW cc, cc \subseteq {"C0", "C1", "C2", "C3"}
  PROVE  Calculates(s, setcc(s, cc))
<1> DEFINE sw == (s.sw \ {"C0", "C1", "C2", "C3"}) \cup cc
<1>1. /\ s.sw \cap Lasting \subseteq sw
      /\ "SF" \in sw <=> "SF" \in s.sw
      /\ "ES" \in sw <=> "ES" \in s.sw
      /\ sw \cap CW_Exceptions = s.sw \cap CW_Exceptions
  BY DEF Lasting, CW_Exceptions
<1> HIDE DEF sw
<1>2. Calculates(s, [s EXCEPT !.sw = sw])
  BY <1>1, ChangedStatus DEF Fits
<1> QED  BY <1>2 DEF sw, setcc

\* A masked exception whose flag the code sets itself (errors.c:593-650).
LEMMA MaskedCalculates ==
  ASSUME NEW s, Shape(s), NEW n, n \cap CW_Exceptions \subseteq s.cw.mask,
         "SF" \notin n, "ES" \notin n, NEW gone \in {{}, {"C1"}}
  PROVE  Calculates(s, [s EXCEPT !.sw = (s.sw \ gone) \cup n])
<1> DEFINE sw == (s.sw \ gone) \cup n
<1>1. s.sw \cap Lasting \subseteq sw /\ ("SF" \in sw <=> "SF" \in s.sw)
  BY DEF Lasting, CW_Exceptions
<1>2. ("ES" \in sw <=> "ES" \in s.sw)
      /\ ((sw \cap CW_Exceptions) \ s.cw.mask = (s.sw \cap CW_Exceptions) \ s.cw.mask)
  BY DEF CW_Exceptions
<1> HIDE DEF sw
<1>3. Calculates(s, [s EXCEPT !.sw = sw])
  BY <1>1, <1>2, ChangedStatus DEF Fits
<1> QED  BY <1>3 DEF sw

\* The precision flag, in its three forms.
LEMMA PrecisionCalculates ==
  ASSUME NEW s, Shape(s)
  PROVE  /\ Calculates(s, set_precision_flag(s, PRECISION_LOST_UP))
         /\ Calculates(s, set_precision_flag(s, PRECISION_LOST_DOWN))
         /\ Calculates(s, set_precision_flag_up(s))
         /\ Calculates(s, set_precision_flag_down(s))
<1> USE DEF PRECISION_LOST_UP, PRECISION_LOST_DOWN
<1>1. CASE Masked(s, "PE")
  <2>1. /\ {"PE", "C1"} \cap CW_Exceptions \subseteq s.cw.mask
        /\ {"PE"} \cap CW_Exceptions \subseteq s.cw.mask
    BY <1>1 DEF Masked, CW_Exceptions
  <2>2. /\ Calculates(s, [s EXCEPT !.sw = (s.sw \ {}) \cup {"PE", "C1"}])
        /\ Calculates(s, [s EXCEPT !.sw = (s.sw \ {}) \cup {"PE"}])
        /\ Calculates(s, [s EXCEPT !.sw = (s.sw \ {"C1"}) \cup {"PE"}])
    BY <2>1, MaskedCalculates
  <2>3. s.sw \ {} = s.sw
    OBVIOUS
  <2> QED  BY <1>1, <2>2, <2>3 DEF set_precision_flag, set_precision_flag_up, set_precision_flag_down
<1>2. CASE ~ Masked(s, "PE")
  BY <1>2, ExceptionCalculates
  DEF set_precision_flag, set_precision_flag_up, set_precision_flag_down
<1> QED  BY <1>1, <1>2

\* denormal_operand.
LEMMA DenormalCalculates ==
  ASSUME NEW s, Shape(s)
  PROVE  Calculates(s, denormal_operand(s).st)
<1>1. CASE Masked(s, "DE")
  <2>1. {"DE"} \cap CW_Exceptions \subseteq s.cw.mask
    BY <1>1 DEF Masked
  <2>2. Calculates(s, [s EXCEPT !.sw = (s.sw \ {}) \cup {"DE"}])
    BY <2>1, MaskedCalculates
  <2> QED  BY <1>1, <2>2 DEF denormal_operand, Ret
<1>2. CASE ~ Masked(s, "DE")
  BY <1>2, ExceptionCalculates DEF denormal_operand, Ret
<1> QED  BY <1>1, <1>2

----------------------------------------------------------------------------
\* fpu_tags.c: a register that an instruction names, and one that is full.

Holds(s, i) == i \in Regs /\ ~ FPU_empty_i(s, i)

\* The registers that the code names by a number, and the sum modulo NRegs.
LEMMA Registers ==
  /\ 0 \in Regs /\ 1 \in Regs /\ NRegs - 1 \in Regs
  /\ \A s : \A i \in Regs : Shape(s) => Phys(s, i) \in Regs
<1>1. NRegs \in Nat /\ NRegs > 1
  BY FormatAssumption
<1>2. \A a \in Int : a % NRegs \in 0..(NRegs - 1)
  BY <1>1
<1>3. ASSUME NEW s, NEW i \in Regs, Shape(s)
      PROVE  Phys(s, i) \in Regs
  <2>1. s.top + i \in Int
    BY <1>1, <1>3 DEF Shape, Regs
  <2> QED  BY <1>2, <2>1 DEF Phys, Regs
<1> QED  BY <1>1, <1>3 DEF Regs

\* What is true of the state stays true while routines calculate.
LEMMA CalculatesKeeps ==
  ASSUME NEW s, Shape(s), NEW t, Calculates(s, t)
  PROVE  /\ Shape(t)
         /\ \A i : Holds(s, i) => Holds(t, i)
         /\ \A x : Masked(t, x) <=> Masked(s, x)
<1>1. /\ Shape(t) /\ t.cw = s.cw /\ t.top = s.top /\ Occupied(t) = Occupied(s)
  BY DEF Calculates, KeepsFlags
<1>2. \A i \in Regs : Phys(t, i) = Phys(s, i) /\ Phys(s, i) \in Regs
  BY <1>1, Registers DEF Phys
<1> QED  BY <1>1, <1>2 DEF Holds, FPU_empty_i, FPU_gettagi, Occupied, Masked

\* An answer goes to a full register with its tag.
LEMMA CopyCalculates ==
  ASSUME NEW s, Shape(s), NEW i, Holds(s, i), NEW r, NEW tag \in Answers
  PROVE  Calculates(s, FPU_copy_to_regi(s, r, tag, i))
<1>1. Phys(s, i) \in Regs /\ s.tag[Phys(s, i)] # "Empty"
  BY Registers DEF Holds, FPU_empty_i, FPU_gettagi
<1> DEFINE p == Phys(s, i)
           t == [s EXCEPT !.reg[p] = r]
           u == [t EXCEPT !.tag[p] = tag]
<1>2. FPU_copy_to_regi(s, r, tag, i) = u
  BY DEF FPU_copy_to_regi, FPU_settagi, SetReg, Phys, Shape, Fields
<1> HIDE DEF p
<1>3. Calculates(s, t)
  BY <1>1 DEF Calculates, KeepsFlags, KeepsFault, Shape, Fields, Fits, Occupied
<1>4. t.tag[p] # "Empty" /\ p \in Regs
  BY <1>1 DEF Shape, Fields, p
<1>5. Shape(t)
  BY <1>3 DEF Calculates
<1> HIDE DEF t
<1>6. Calculates(t, u)
  BY <1>4, <1>5 DEF Calculates, KeepsFlags, KeepsFault, Shape, Fields, Fits, Occupied, Answers, Tags
<1> QED  BY <1>2, <1>3, <1>6, CalculatesAll

\* A full register is changed and keeps its tag.
LEMMA SetRegCalculates ==
  ASSUME NEW s, Shape(s), NEW i \in Regs, NEW r
  PROVE  Calculates(s, SetReg(s, i, r))
<1>1. Phys(s, i) \in Regs
  BY Registers
<1> QED
  BY <1>1 DEF SetReg, Calculates, KeepsFlags, KeepsFault, Shape, Fields, Fits, Occupied

\* The tag of a full register, and what TAG_Special stands for.
Kinds == {"Valid", "Zero", "Denormal", "Infinity", "NaN"}

\* Tags made precise.
LEMMA PreciseTags ==
  ASSUME NEW r
  PROVE  /\ \A tag \in Answers : Precise(tag, r) \in Kinds
         /\ \A tag : Precise(tag, r) = "Empty" <=> tag = "Empty"
         /\ \A tag \in Answers : tag # "Special" => Precise(tag, r) = tag
BY DEF Answers, Precise, FPU_Special, Kinds

\* The tag of a full register is one of an answer.
LEMMA HeldTags ==
  ASSUME NEW s, Shape(s), NEW i, Holds(s, i)
  PROVE  FPU_gettagi(s, i) \in Answers
<1>1. Phys(s, i) \in Regs
  BY Registers DEF Holds
<1> QED  BY <1>1 DEF Holds, FPU_empty_i, FPU_gettagi, Shape, Tags, Answers

----------------------------------------------------------------------------
\* errors.c: the responses to exceptions other than stack faults.

\* real_1op_NaN changes a register outside the stack.
LEMMA OneNaNCalculates ==
  ASSUME NEW s, Shape(s), NEW a
  PROVE  /\ Calculates(s, real_1op_NaN(s, a).st)
         /\ real_1op_NaN(s, a).tag = "Special"
BY ExceptionCalculates, CalculatesNothing DEF real_1op_NaN, RetReg

\* real_2op_NaN puts one of its operands, or the default, in its destination.
LEMMA TwoNaNsCalculates ==
  ASSUME NEW s, Shape(s), NEW b, NEW tagb, NEW i, Holds(s, i), NEW default
  PROVE  Calculates(s, real_2op_NaN(s, b, tagb, i, default).st)
<1> DEFINE Invalid(t, r) ==
             FPU_exception(IF Masked(s, "IE") THEN FPU_copy_to_regi(t, r, "Special", i) ELSE t, {"IE"})
<1>1. ASSUME NEW t, Calculates(s, t), NEW r
      PROVE  Calculates(s, FPU_copy_to_regi(t, r, "Special", i)) /\ Calculates(s, Invalid(t, r))
  <2>1. Shape(t) /\ Holds(t, i)
    BY <1>1, CalculatesKeeps
  <2>2. Calculates(t, FPU_copy_to_regi(t, r, "Special", i))
    BY <2>1, CopyCalculates DEF Answers
  <2>3. /\ Calculates(s, FPU_copy_to_regi(t, r, "Special", i))
        /\ Shape(FPU_copy_to_regi(t, r, "Special", i))
    BY <1>1, <2>2, CalculatesAll DEF Calculates
  <2> QED  BY <1>1, <2>1, <2>3, ExceptionCalculates, CalculatesAll
<1>2. Calculates(s, s) /\ Calculates(s, FPU_internal(s))
  BY CalculatesNothing, InternalCalculates
<1> HIDE DEF Invalid
<1>3. \E t \in {s, FPU_internal(s)} : \E r :
        real_2op_NaN(s, b, tagb, i, default).st
          \in {Invalid(t, r), FPU_copy_to_regi(t, r, "Special", i)}
  BY DEF real_2op_NaN, Invalid, Ret
<1> QED  BY <1>1, <1>2, <1>3

\* arith_invalid and FPU_divide_by_zero.
LEMMA InvalidCalculates ==
  ASSUME NEW s, Shape(s), NEW i, Holds(s, i)
  PROVE  /\ Calculates(s, arith_invalid(s, i).st)
         /\ \A sign : Calculates(s, FPU_divide_by_zero(s, i, sign).st)
<1>1. Calculates(s, FPU_exception(s, {"IE"})) /\ Calculates(s, FPU_exception(s, {"ZE"}))
  BY ExceptionCalculates
<1>2. ASSUME NEW t, Calculates(s, t), NEW r
      PROVE  Calculates(s, FPU_copy_to_regi(t, r, "Special", i))
  BY <1>2, CalculatesKeeps, CopyCalculates, CalculatesAll DEF Answers
<1>3. ASSUME NEW sign
      PROVE  Calculates(s, FPU_exception(FPU_copy_to_regi(s, SetSign(CONST_INF, sign), "Special", i),
                                         {"ZE"}))
  <2> DEFINE t == FPU_copy_to_regi(s, SetSign(CONST_INF, sign), "Special", i)
  <2>1. Calculates(s, t)
    BY <1>2, CalculatesNothing
  <2> HIDE DEF t
  <2>2. Calculates(t, FPU_exception(t, {"ZE"}))
    BY <2>1, CalculatesKeeps, ExceptionCalculates
  <2>3. Calculates(s, FPU_exception(t, {"ZE"}))
    BY <2>1, <2>2, CalculatesAll
  <2> QED  BY <2>3 DEF t
<1>4. Calculates(s, arith_invalid(s, i).st)
  BY <1>1, <1>2 DEF arith_invalid, Ret
<1> QED  BY <1>1, <1>3, <1>4 DEF FPU_divide_by_zero, Ret

\* Two exceptions one after the other.
LEMMA TwoExceptions ==
  ASSUME NEW s, Shape(s), NEW n, NEW m,
         "SF" \notin n, "ES" \notin n, "SF" \notin m, "ES" \notin m
  PROVE  Calculates(s, FPU_exception(FPU_exception(s, n), m))
<1>1. Calculates(s, FPU_exception(s, n))
  BY ExceptionCalculates
<1>2. Shape(FPU_exception(s, n))
  BY <1>1 DEF Calculates
<1> QED  BY <1>1, <1>2, ExceptionCalculates, CalculatesAll

\* arith_overflow, arith_underflow.
LEMMA RangeCalculates ==
  ASSUME NEW s, Shape(s), NEW e, NEW sig
  PROVE  /\ Calculates(s, arith_overflow(s, e, sig).st)
         /\ arith_overflow(s, e, sig).tag \in Answers
         /\ Calculates(s, arith_underflow(s, e, sig).st)
         /\ arith_underflow(s, e, sig).tag \in Answers
<1>1. Calculates(s, arith_overflow(s, e, sig).st)
  BY TwoExceptions, ExceptionCalculates DEF arith_overflow, RetReg
<1>2. Calculates(s, clear_C1(s)) /\ Shape(clear_C1(s))
  BY ClearCalculates DEF Calculates
<1>3. Calculates(s, FPU_exception(FPU_exception(clear_C1(s), {"UE"}), {"PE"}))
  BY <1>2, TwoExceptions, CalculatesAll
<1>4. Calculates(s, arith_underflow(s, e, sig).st)
  BY <1>3, TwoExceptions, ExceptionCalculates DEF arith_underflow, RetReg
<1> QED  BY <1>1, <1>4 DEF arith_overflow, arith_underflow, RetReg, Answers

\* FPU_normalize, and the test of FPU_to_exp16.
LEMMA NormalizeCalculates ==
  ASSUME NEW s, Shape(s), NEW e, NEW sig
  PROVE  /\ Calculates(s, FPU_normalize(s, e, sig).st)
         /\ FPU_normalize(s, e, sig).tag \in Answers
<1> DEFINE n == FPU_normalize_nuo(e, sig)
<1> HIDE DEF n
<1>1. FPU_normalize(s, e, sig) \in
        {RetReg(s, FromExp16(0, 0), "Zero", FALSE),
         arith_overflow(s, Exp16(n.exp + EBias), n.sig),
         arith_underflow(s, Exp16(n.exp + EBias), n.sig),
         RetReg(s, [sign |-> 0, exp |-> (n.exp + EBias) % 2^E, sig |-> n.sig], "Valid", FALSE)}
  BY DEF FPU_normalize, n
<1> QED  BY <1>1, RangeCalculates, CalculatesNothing DEF RetReg, Answers

\* The same of the test that FPU_to_exp16 makes, of one operand or of two.
LEMMA CheckCalculates ==
  ASSUME NEW s, Shape(s), NEW a, NEW b
  PROVE  Calculates(s, to_exp16_check(s, a)) /\ Calculates(s, DenormalPair(s, a, b))
<1>1. \A t, x : Shape(t) => Calculates(t, to_exp16_check(t, x))
  BY InternalCalculates, CalculatesNothing DEF to_exp16_check
<1> QED  BY <1>1, CalculatesAll DEF DenormalPair, Calculates

----------------------------------------------------------------------------
\* reg_round.S and the operations on significands, which all end in it.

\* A register made outside the stack, with the state it was made in.
Makes(s, ret) == Calculates(s, ret.st) /\ ret.tag \in Answers

\* The precision flag of a rounding.
LEMMA PrecisionLostCalculates ==
  ASSUME NEW s, Shape(s), NEW lost
  PROVE  Calculates(s, PrecisionLost(s, lost))
BY PrecisionCalculates, CalculatesNothing DEF PrecisionLost

\* L_Store_significand.
LEMMA StoreResultMakes ==
  ASSUME NEW s, NEW t, Calculates(s, t), NEW e, NEW sig, NEW tag \in Answers, NEW sign
  PROVE  Makes(s, StoreResult(t, e, sig, tag, sign))
<1>1. Shape(t)
  BY DEF Calculates
<1>2. Makes(s, arith_overflow(t, Exp16(e + EBias), sig))
  BY <1>1, RangeCalculates, CalculatesAll DEF Makes
<1>3. CASE e >= EXP_OVER
  <2> DEFINE ret == arith_overflow(t, Exp16(e + EBias), sig)
  <2>1. StoreResult(t, e, sig, tag, sign).st = ret.st /\ StoreResult(t, e, sig, tag, sign).tag = ret.tag
    BY <1>3 DEF StoreResult, WithSign, arith_overflow, RetReg
  <2> QED  BY <1>2, <2>1 DEF Makes
<1>4. CASE ~ (e >= EXP_OVER)
  BY <1>4 DEF StoreResult, RetReg, Makes
<1> QED  BY <1>3, <1>4

\* The rounding itself.
LEMMA RoundMakes ==
  ASSUME NEW s, Shape(s), NEW e, NEW sig, NEW ext, NEW cwp, NEW sign
  PROVE  Makes(s, FPU_round(s, e, sig, ext, cwp, sign))
<1>1. ASSUME NEW t, Calculates(s, t), NEW lost
      PROVE  Calculates(s, PrecisionLost(t, lost))
  BY <1>1, PrecisionLostCalculates, CalculatesAll DEF Calculates
<1>2. ASSUME NEW lost
      PROVE  /\ Calculates(s, PrecisionLost(s, lost))
             /\ Calculates(s, PrecisionLost(FPU_exception(s, {"UE"}), lost))
  BY <1>1, CalculatesNothing, ExceptionCalculates
<1>3. Calculates(s, FPU_exception(set_precision_flag_down(s), {"UE"}))
  <2>1. Calculates(s, set_precision_flag_down(s)) /\ Shape(set_precision_flag_down(s))
    BY PrecisionCalculates DEF Calculates
  <2> QED  BY <2>1, ExceptionCalculates, CalculatesAll
<1>4. ASSUME NEW x, NEW r
      PROVE  Makes(s, MaskedUnderflow(s, x, r, sign))
  BY <1>2, <1>3, StoreResultMakes DEF MaskedUnderflow, Answers
<1>5. ASSUME NEW tiny, NEW denorm, NEW x, NEW r
      PROVE  Makes(s, RoundedResult(s, tiny, denorm, x, r, sign))
  BY <1>2, <1>4, StoreResultMakes DEF RoundedResult, Answers
<1> QED  BY <1>5 DEF FPU_round, RoundAs, Carried

\* Sums, differences, products and quotients of significands.
LEMMA UnsignedMakes ==
  ASSUME NEW s, Shape(s), NEW x, NEW y, NEW cwp, NEW sign
  PROVE  /\ Makes(s, FPU_u_add(s, x, y, cwp, sign))
         /\ Makes(s, FPU_u_sub(s, x, y, cwp, sign))
         /\ Makes(s, FPU_u_mul(s, x, y, cwp, sign))
         /\ Makes(s, FPU_u_div(s, x, y, cwp, sign))
<1>1. \A u : Makes(s, RoundUp(s, u, cwp, sign))
  BY RoundMakes DEF RoundUp
<1>2. Makes(s, RetReg(s, CONST_Z, "Zero", FALSE))
  BY CalculatesNothing DEF Makes, RetReg, Answers
<1> QED  BY <1>1, <1>2 DEF FPU_u_add, FPU_u_sub, RoundDiff, FPU_u_mul, FPU_u_div

----------------------------------------------------------------------------
\* The operations on registers (reg_add_sub.c, reg_mul.c, reg_divide.c).

\* The answer goes to a full register.
LEMMA PutCalculates ==
  ASSUME NEW s, Shape(s), NEW ret, Makes(s, ret), NEW i, Holds(s, i)
  PROVE  Calculates(s, Put(ret, i).st)
<1>1. Shape(ret.st) /\ Holds(ret.st, i)
  BY CalculatesKeeps DEF Makes
<1> QED  BY <1>1, CopyCalculates, CalculatesAll DEF Put, Ret, Makes

\* The same of an answer that is not rounded.
LEMMA CopiesCalculate ==
  ASSUME NEW s, Shape(s), NEW t, Calculates(s, t), NEW i, Holds(s, i), NEW r, NEW tag \in Answers
  PROVE  Calculates(s, FPU_copy_to_regi(t, r, tag, i))
BY CalculatesKeeps, CopyCalculates, CalculatesAll

\* Operands that are numbers.
LEMMA ValidAddCalculates ==
  ASSUME NEW s, Shape(s), NEW x, NEW signa, NEW y, NEW signb, NEW i, Holds(s, i), NEW cwp
  PROVE  Calculates(s, valid_add(s, x, signa, y, signb, i, cwp).st)
<1>1. /\ Calculates(s, Put(FPU_u_add(s, x, y, cwp, signa), i).st)
      /\ Calculates(s, Put(FPU_u_sub(s, x, y, cwp, signa), i).st)
      /\ Calculates(s, Put(FPU_u_sub(s, y, x, cwp, signb), i).st)
  BY UnsignedMakes, PutCalculates
<1>2. Calculates(s, FPU_copy_to_regi(s, SetSign(CONST_Z, CancelSign(cwp)), "Zero", i))
  BY CopyCalculates DEF Answers
<1> QED  BY <1>1, <1>2 DEF valid_add, Ret

\* The state in which two numbers are operated on, denormals reported and
\* tested.
LEMMA CheckedCalculates ==
  ASSUME NEW s, Shape(s), NEW valid, NEW a, NEW b
  PROVE  Calculates(s, Checked(valid, s, denormal_operand(s), a, b))
<1>1. Calculates(s, denormal_operand(s).st) /\ Shape(denormal_operand(s).st)
  BY DenormalCalculates DEF Calculates
<1> QED  BY <1>1, CheckCalculates, CalculatesAll, CalculatesNothing DEF Checked

\* The other operands of an addition.
LEMMA SpecialsCalculate ==
  ASSUME NEW s, Shape(s), NEW a, NEW ta \in Kinds, NEW signa, NEW b, NEW tb \in Kinds, NEW signb,
         NEW i, Holds(s, i), NEW cwp
  PROVE  Calculates(s, add_sub_specials(s, a, ta, signa, b, tb, signb, i, cwp).st)
<1> DEFINE s1 == IF "Denormal" \in {ta, tb} THEN denormal_operand(s).st ELSE s
<1>1. Calculates(s, s1) /\ Shape(s1) /\ Holds(s1, i)
  BY DenormalCalculates, CalculatesNothing, CalculatesKeeps
<1>2. ASSUME NEW r, NEW tag \in Answers
      PROVE  Calculates(s, FPU_copy_to_regi(s1, r, tag, i))
  BY <1>1, <1>2, CopiesCalculate
<1>3. Calculates(s, arith_invalid(s1, i).st) /\ Calculates(s, FPU_internal(s1))
  BY <1>1, InvalidCalculates, InternalCalculates, CalculatesAll
<1>4. ASSUME NEW r, NEW tag \in Kinds, NEW sign
      PROVE  Calculates(s, OtherOperand(s1, r, tag, sign, i).st)
  <2> DEFINE pseudo == tag = "Denormal" /\ Normal(r.sig)
             t == CASE pseudo -> "Valid"
                    [] tag \in {"Denormal", "Infinity", "NaN"} /\ ~ pseudo -> "Special"
                    [] OTHER -> tag
  <2>1. t \in Answers
    BY <1>4 DEF Kinds, Answers
  <2> QED  BY <1>2, <2>1 DEF OtherOperand, Ret
<1> QED
  BY <1>1, <1>2, <1>3, <1>4 DEF add_sub_specials, Ret, Answers

\* FPU_add.
LEMMA AddCalculates ==
  ASSUME NEW s, Shape(s), Holds(s, 0), NEW b, NEW tagb \in Answers, NEW i, Holds(s, i), NEW cwp
  PROVE  Calculates(s, FPU_add(s, b, tagb, i, cwp).st)
<1> DEFINE a == St(s, 0)
           taga == FPU_gettagi(s, 0)
           ta == Precise(taga, a)
           tb == Precise(tagb, b)
<1>1. ta \in Kinds /\ tb \in Kinds
  BY HeldTags, PreciseTags
<1>2. Calculates(s, denormal_operand(s).st)
  BY DenormalCalculates
<1>3. ASSUME NEW valid, NEW x, NEW signa, NEW y, NEW signb
      PROVE  Calculates(s, valid_add(Checked(valid, s, denormal_operand(s), a, b),
                                     x, signa, y, signb, i, cwp).st)
  BY CheckedCalculates, CalculatesKeeps, ValidAddCalculates, CalculatesAll
<1>4. /\ Calculates(s, real_2op_NaN(s, b, tb, i, a).st)
      /\ Calculates(s, real_2op_NaN(s, a, ta, i, a).st)
  BY TwoNaNsCalculates
<1>5. Calculates(s, add_sub_specials(s, a, ta, a.sign, b, tb, b.sign, i, cwp).st)
  BY <1>1, SpecialsCalculate
<1> QED  BY <1>2, <1>3, <1>4, <1>5 DEF FPU_add, Ret

\* The second operand: loaded data, or a full register.
LEMMA OperandTag ==
  ASSUME NEW s, Shape(s), NEW flags, NEW rm, NEW data,
         IF "LOADED" \in flags THEN data.tag \in Answers ELSE Holds(s, rm)
  PROVE  Operand(s, flags, rm, data).tag \in Answers
BY HeldTags DEF Operand

\* FPU_sub.
LEMMA SubCalculates ==
  ASSUME NEW s, Shape(s), Holds(s, 0), NEW flags, NEW rm, Holds(s, rm), NEW data, NEW cwp,
         "LOADED" \in flags => data.tag \in Answers
  PROVE  Calculates(s, FPU_sub(s, flags, rm, data, cwp).st)
<1> DEFINE a == St(s, 0)
           op == Operand(s, flags, rm, data)
           b == op.r
           ta == Precise(FPU_gettagi(s, 0), a)
           tb == Precise(op.tag, b)
           i == Dest(flags, rm)
<1>1. ta \in Kinds /\ tb \in Kinds
  BY HeldTags, OperandTag, PreciseTags
<1>2. Holds(s, i)
  BY DEF Dest
<1> HIDE DEF op, ta, tb, i
<1>3. Calculates(s, denormal_operand(s).st)
  BY DenormalCalculates
<1>4. ASSUME NEW valid, NEW x, NEW signa, NEW y, NEW signb
      PROVE  Calculates(s, valid_subtract(Checked(valid, s, denormal_operand(s), a, b),
                                          x, signa, y, signb, i, cwp).st)
  BY <1>2, CheckedCalculates, CalculatesKeeps, ValidAddCalculates, CalculatesAll DEF valid_subtract
<1>5. \A x, t, d : Calculates(s, real_2op_NaN(s, x, t, i, d).st)
  BY <1>2, TwoNaNsCalculates
<1>6. \A signa, signb : Calculates(s, add_sub_specials(s, a, ta, signa, b, tb, signb, i, cwp).st)
  BY <1>1, <1>2, SpecialsCalculate
<1> QED
  BY <1>3, <1>4, <1>5, <1>6 DEF FPU_sub, SubOperand, SubFrom, Ret, op, ta, tb, i

\* FPU_mul.
LEMMA MulCalculates ==
  ASSUME NEW s, Shape(s), NEW b, NEW tagb \in Answers, NEW i, Holds(s, i), NEW cwp
  PROVE  Calculates(s, FPU_mul(s, b, tagb, i, cwp).st)
<1> DEFINE a == St(s, i)
           ta == Precise(FPU_gettagi(s, i), a)
           tb == Precise(tagb, b)
           s1 == IF "Denormal" \in {ta, tb} THEN denormal_operand(s).st ELSE s
<1>1. Calculates(s, s1) /\ Shape(s1)
  BY DenormalCalculates, CalculatesNothing, CalculatesKeeps
<1> HIDE DEF s1
<1>2. ASSUME NEW valid, NEW x, NEW y, NEW sign
      PROVE  Calculates(s, Put(FPU_u_mul(Checked(valid, s, denormal_operand(s), a, b),
                                         x, y, cwp, sign), i).st)
  BY CheckedCalculates, CalculatesKeeps, UnsignedMakes, PutCalculates, CalculatesAll
<1>3. \A x, t, d : Calculates(s, real_2op_NaN(s, x, t, i, d).st)
  BY TwoNaNsCalculates
<1>4. Calculates(s, arith_invalid(s, i).st) /\ Calculates(s, FPU_internal(s1))
  BY <1>1, InvalidCalculates, InternalCalculates, CalculatesAll
<1>5. ASSUME NEW r, NEW tag \in Answers
      PROVE  Calculates(s, FPU_copy_to_regi(s1, r, tag, i))
  BY <1>1, <1>5, CopiesCalculate
<1> QED  BY <1>1, <1>2, <1>3, <1>4, <1>5 DEF FPU_mul, Ret, Answers, s1

\* FPU_div.
LEMMA DivCalculates ==
  ASSUME NEW s, Shape(s), Holds(s, 0), NEW flags, NEW rm, Holds(s, rm), NEW data, NEW cwp
  PROVE  Calculates(s, FPU_div(s, flags, rm, data, cwp).st)
<1>1. Calculates(s, denormal_operand(s).st)
  BY DenormalCalculates
<1>2. Holds(s, Dest(flags, rm))
  BY DEF Dest
<1>3. ASSUME NEW i, Holds(s, i)
      PROVE  /\ \A valid, a, b, x, y, sign :
                  Calculates(s, Put(FPU_u_div(Checked(valid, s, denormal_operand(s), a, b),
                                              x, y, cwp, sign), i).st)
             /\ \A x, t, d : Calculates(s, real_2op_NaN(s, x, t, i, d).st)
             /\ Calculates(s, arith_invalid(s, i).st)
             /\ \A sign : Calculates(s, FPU_divide_by_zero(s, i, sign).st)
             /\ \A r, tag : tag \in Answers =>
                  /\ Calculates(s, FPU_copy_to_regi(s, r, tag, i))
                  /\ Calculates(s, FPU_copy_to_regi(denormal_operand(s).st, r, tag, i))
  <2>1. ASSUME NEW valid, NEW a, NEW b, NEW x, NEW y, NEW sign
        PROVE  Calculates(s, Put(FPU_u_div(Checked(valid, s, denormal_operand(s), a, b),
                                           x, y, cwp, sign), i).st)
    BY <1>3, CheckedCalculates, CalculatesKeeps, UnsignedMakes, PutCalculates, CalculatesAll
  <2> QED  BY <1>1, <1>3, <2>1, TwoNaNsCalculates, InvalidCalculates, CopiesCalculate, CalculatesNothing
<1>4. ASSUME NEW st0, NEW op, NEW a, NEW b
      PROVE  Calculates(s, DivideBy(s, flags, rm, st0, op, a, b, cwp).st)
  <2> DEFINE i == Dest(flags, rm)
             tag(x) == Precise(x.tag, x.r)
  <2>1. /\ \A valid, p, q, x, y, sign :
             Calculates(s, Put(FPU_u_div(Checked(valid, s, denormal_operand(s), p, q),
                                         x, y, cwp, sign), i).st)
        /\ Calculates(s, arith_invalid(s, i).st)
        /\ \A sign : Calculates(s, FPU_divide_by_zero(s, i, sign).st)
    BY <1>2, <1>3
  <2>2. \A r, t : t \in Answers =>
           /\ Calculates(s, FPU_copy_to_regi(s, r, t, i))
           /\ Calculates(s, FPU_copy_to_regi(denormal_operand(s).st, r, t, i))
    BY <1>2, <1>3
  <2>3. \A x, t, d : /\ Calculates(s, real_2op_NaN(s, x, t, 0, d).st)
                     /\ Calculates(s, real_2op_NaN(s, x, t, rm, d).st)
    BY <1>3
  <2> HIDE DEF i
  <2> QED  BY <1>1, <2>1, <2>2, <2>3 DEF DivideBy, Ret, Answers, i
<1> QED  BY <1>4 DEF FPU_div, DivideOperand

----------------------------------------------------------------------------
\* reg_compare.c.

\* The tests of a comparison and the flag of a denormal operand.
LEMMA CompareCalculates ==
  ASSUME NEW s, Shape(s), NEW b, NEW tagb, NEW c
  PROVE  /\ Calculates(s, compare_check(s, b, tagb))
         /\ Calculates(s, WithDenormal(s, c).st)
<1>1. ASSUME NEW a, NEW x
      PROVE  Calculates(s, DenormalPair(s, a, x)) /\ Shape(DenormalPair(s, a, x))
  BY CheckCalculates DEF Calculates
<1>2. ASSUME NEW a, NEW ta, NEW x, NEW tx
      PROVE  Calculates(s, CheckRegs(s, a, ta, x, tx))
  BY <1>1, ExceptionCalculates, CalculatesAll, CalculatesNothing DEF CheckRegs
<1> QED  BY <1>2, DenormalCalculates, CalculatesNothing DEF compare_check, WithDenormal, Ret

\* The order of two operands is one that has condition codes.
LEMMA CompareOrders ==
  ASSUME NEW s, Shape(s), NEW b, NEW tagb
  PROVE  ConditionCodes(compare(s, b, tagb).order) \subseteq {"C0", "C1", "C2", "C3"}
<1>1. \A x \in {"lt", "eq", "gt", "none"} : ConditionCodes(x) \subseteq {"C0", "C1", "C2", "C3"}
  BY DEF ConditionCodes
<1>2. \A a, ta, x, tx : Ordered(a, ta, x, tx) \in {"lt", "eq", "gt"}
  BY DEF Ordered, BySign, ByValue
<1>3. compare(s, b, tagb).order \in {"lt", "eq", "gt", "none"}
  BY <1>2 DEF compare, CompareRegs
<1> QED  BY <1>1, <1>3

\* A comparison of full registers, or with loaded data.
LEMMA ComparisonsCalculate ==
  ASSUME NEW s, Shape(s), Holds(s, 0)
  PROVE  /\ \A b, tagb : Calculates(s, FPU_compare_st_data(s, b, tagb).st)
         /\ \A nr : Holds(s, nr) =>
              Calculates(s, compare_st_st(s, nr).st) /\ Calculates(s, compare_u_st_st(s, nr).st)
<1>1. ASSUME NEW t, Calculates(s, t), NEW cc, cc \subseteq {"C0", "C1", "C2", "C3"}
      PROVE  Calculates(s, setcc(t, cc)) /\ Shape(setcc(t, cc))
  BY <1>1, CodesCalculates, CalculatesAll DEF Calculates
<1>2. ASSUME NEW t, Calculates(s, t), NEW cc, cc \subseteq {"C0", "C1", "C2", "C3"}, NEW c
      PROVE  Calculates(s, WithDenormal(setcc(t, cc), c).st)
  BY <1>1, <1>2, CompareCalculates, CalculatesAll
<1>3. ConditionCodes("none") \subseteq {"C0", "C1", "C2", "C3"}
  BY DEF ConditionCodes
<1>4. ASSUME NEW b, NEW tagb
      PROVE  Calculates(s, FPU_compare_st_data(s, b, tagb).st)
  <2>1. Calculates(s, compare_check(s, b, tagb)) /\ Shape(compare_check(s, b, tagb))
    BY CompareCalculates DEF Calculates
  <2>2. Calculates(s, FPU_exception(compare_check(s, b, tagb), {"IE"}))
    BY <2>1, ExceptionCalculates, CalculatesAll
  <2> QED  BY <1>2, <2>1, <2>2, CompareOrders DEF FPU_compare_st_data, CompareData
<1>5. ASSUME NEW nr, Holds(s, nr)
      PROVE  Calculates(s, compare_st_st(s, nr).st)
  <2> DEFINE b == St(s, nr)
             tagb == FPU_gettagi(s, nr)
  <2>1. Calculates(s, compare_check(s, b, tagb))
    BY CompareCalculates
  <2>2. Calculates(s, FPU_exception(setcc(s, ConditionCodes("none")), {"IE"}))
    BY <1>1, <1>3, CalculatesNothing, ExceptionCalculates, CalculatesAll
  <2>3. ~ FPU_empty_i(s, 0) /\ ~ FPU_empty_i(s, nr)
    BY <1>5 DEF Holds
  <2> QED  BY <1>2, <2>1, <2>2, <2>3, CompareOrders DEF compare_st_st, CompareSt, Ret
<1>6. ASSUME NEW nr, Holds(s, nr)
      PROVE  Calculates(s, compare_u_st_st(s, nr).st)
  BY <1>1, <1>3, <1>5, <1>6, CalculatesNothing DEF compare_u_st_st, Ret
<1> QED  BY <1>4, <1>5, <1>6

----------------------------------------------------------------------------
\* reg_ld_str.c.

\* A load makes a register outside the stack.
LEMMA LoadMakes ==
  ASSUME NEW s, Shape(s), NEW x
  PROVE  Makes(s, FPU_load_single(s, x)) /\ Makes(s, FPU_load_double(s, x))
<1>1. \A e, sig, sign : normalize_no_excep(e, sig, sign).tag \in Answers
  BY DEF normalize_no_excep, Normalised, FPU_normalize_nuo, Answers
<1>2. \A f : Makes(s, LoadFloat(s, f, x))
  BY <1>1, DenormalCalculates, CalculatesNothing DEF LoadFloat, LoadDenormal, RetReg, Makes, Answers
<1> QED  BY <1>2 DEF FPU_load_single, FPU_load_double

\* So do the loads of numbers that have no exceptions.
LEMMA LoadTags ==
  ASSUME NEW x
  PROVE  /\ FPU_load_int16(x).tag \in Answers /\ FPU_load_int32(x).tag \in Answers
         /\ FPU_load_int64(x).tag \in Answers /\ FPU_load_bcd(x).tag \in Answers
         /\ FPU_tagof(x) \in Answers
<1>1. \A e, sig, sign : normalize_no_excep(e, sig, sign).tag \in Answers
  BY DEF normalize_no_excep, Normalised, FPU_normalize_nuo, Answers
<1> QED
  BY <1>1 DEF FPU_load_int16, FPU_load_int32, FPU_load_int64, LoadInt, FPU_load_bcd, FPU_tagof, Answers

----------------------------------------------------------------------------
\* The stack.  What a whole instruction may do to it, in the terms of
\* RegisterStack, for two states of the emulator.

Below(s) == Phys(s, NRegs - 1)
Above(s) == Phys(s, 1)
Moves(t, full, top) == Occupied(t) = full /\ t.top = top

\* Without a fault: a push to an empty register, pops of full ones, a store.
CleanMove(s, t) ==
  LET full == Occupied(s)
  IN  \/ Moves(t, full, s.top)
      \/ Below(s) \notin full /\ Moves(t, full \cup {Below(s)}, Below(s))
      \/ s.top \in full /\ Moves(t, full \ {s.top}, Above(s))
      \/ {s.top, Above(s)} \subseteq full
         /\ Moves(t, full \ {s.top, Above(s)}, (Above(s) + 1) % NRegs)
      \/ \E i \in Regs :
           /\ s.top \in full
           /\ Moves(t, full \cup {i}, s.top) \/ Moves(t, (full \cup {i}) \ {s.top}, Above(s))

\* With one.
FaultyMove(s, t) ==
  LET full == Occupied(s)
  IN  \/ Below(s) \in full /\ (Moves(t, full, s.top) \/ Moves(t, full, Below(s)))
      \/ /\ Regs \ full # {}
         /\ \/ Moves(t, full, s.top)
            \/ Moves(t, full \ {s.top}, Above(s))
            \/ Moves(t, full \ {s.top, Above(s)}, (Above(s) + 1) % NRegs)
            \/ Moves(t, full \cup {s.top, Below(s)}, Below(s))
            \/ \E i \in Regs :
                 \/ Moves(t, full \cup {i}, s.top)
                 \/ Moves(t, full \cup {i, s.top}, s.top)
                 \/ Moves(t, (full \cup {i}) \ {s.top}, Above(s))

\* An instruction took s to t.
Behaves(s, t) ==
  /\ Shape(t)
  /\ KeepsFlags(s, t)
  /\ \/ KeepsFault(s, t) /\ CleanMove(s, t)
     \/ "SF" \in t.sw /\ FaultyMove(s, t)
     \/ t.internal

\* Calculations before or after it change nothing of that.
LEMMA BehavesAfter ==
  ASSUME NEW s, Shape(s), NEW t, Calculates(s, t), NEW u, Behaves(t, u)
  PROVE  Behaves(s, u)
<1>1. /\ Occupied(t) = Occupied(s) /\ t.top = s.top
      /\ Below(t) = Below(s) /\ Above(t) = Above(s)
      /\ KeepsFlags(s, t) /\ KeepsFault(s, t)
  BY DEF Calculates, Below, Above, Phys
<1>2. KeepsFlags(s, u)
  BY <1>1 DEF Behaves, KeepsFlags
<1>3. (CleanMove(t, u) <=> CleanMove(s, u)) /\ (FaultyMove(t, u) <=> FaultyMove(s, u))
  BY <1>1 DEF CleanMove, FaultyMove, Moves
<1>4. KeepsFault(t, u) => KeepsFault(s, u)
  BY <1>1 DEF KeepsFault, Behaves, KeepsFlags
<1> QED  BY <1>2, <1>3, <1>4 DEF Behaves

\* The same of calculations after it.
LEMMA BehavesBefore ==
  ASSUME NEW s, NEW t, Behaves(s, t), NEW u, Calculates(t, u)
  PROVE  Behaves(s, u)
<1>1. /\ Occupied(u) = Occupied(t) /\ u.top = t.top /\ Shape(u)
      /\ KeepsFlags(t, u) /\ KeepsFault(t, u)
  BY DEF Calculates
<1>2. KeepsFlags(s, u)
  BY <1>1 DEF Behaves, KeepsFlags
<1>3. (CleanMove(s, t) <=> CleanMove(s, u)) /\ (FaultyMove(s, t) <=> FaultyMove(s, u))
  BY <1>1 DEF CleanMove, FaultyMove, Moves
<1>4. KeepsFault(s, t) => KeepsFault(s, u)
  BY <1>1 DEF KeepsFault, KeepsFlags
<1>5. "SF" \in t.sw => "SF" \in u.sw
  BY <1>1 DEF KeepsFlags, Lasting
<1>6. t.internal => u.internal
  BY <1>1 DEF KeepsFlags
<1> QED  BY <1>1, <1>2, <1>3, <1>4, <1>5, <1>6 DEF Behaves

\* An instruction that leaves the stack alone.
LEMMA CalculationBehaves ==
  ASSUME NEW s, NEW t, Calculates(s, t)
  PROVE  Behaves(s, t)
BY DEF Calculates, Behaves, CleanMove, Moves

\* The registers around the top.
LEMMA AroundTop ==
  ASSUME NEW s, Shape(s)
  PROVE  /\ Phys(s, 0) = s.top
         /\ Below(s) \in Regs /\ Above(s) \in Regs
         /\ Below(s) = (s.top + NRegs - 1) % NRegs
         /\ Above(s) = (s.top + 1) % NRegs
         /\ (Below(s) + 1) % NRegs = s.top
         /\ Below(s) % NRegs = Below(s) /\ Above(s) % NRegs = Above(s)
         /\ Above(s) # s.top /\ Below(s) # s.top
<1>1. NRegs \in Nat /\ NRegs > 1 /\ s.top \in Nat /\ s.top < NRegs
  <2>1. s.top \in Regs
    BY Zenon DEF Shape
  <2>2. NRegs \in Nat \ {0, 1}
    BY Zenon, FormatAssumption
  <2> QED  BY <2>1, <2>2 DEF Regs
<1>2. \A x \in Nat : x < NRegs => x % NRegs = x
  BY <1>1
<1>3. \A x \in Nat : x >= NRegs /\ x < 2 * NRegs => x % NRegs = x - NRegs
  BY <1>1
<1>4. Phys(s, 0) = s.top
  BY <1>1, <1>2 DEF Phys
<1>5. Above(s) = IF s.top + 1 = NRegs THEN 0 ELSE s.top + 1
  BY <1>1, <1>2, <1>3 DEF Above, Phys
<1>6. Below(s) = IF s.top = 0 THEN NRegs - 1 ELSE s.top - 1
  BY <1>1, <1>2, <1>3 DEF Below, Phys
<1>7. (Below(s) + 1) % NRegs = s.top
  BY <1>1, <1>2, <1>3, <1>6
<1>8. Below(s) \in Regs /\ Above(s) \in Regs
  BY <1>1, <1>5, <1>6 DEF Regs
<1>9. s.top + (NRegs - 1) = s.top + NRegs - 1
  BY <1>1
<1>10. Below(s) = (s.top + NRegs - 1) % NRegs /\ Above(s) = (s.top + 1) % NRegs
  BY <1>9 DEF Below, Above, Phys
<1>11. Below(s) % NRegs = Below(s) /\ Above(s) % NRegs = Above(s)
  BY <1>1, <1>2, <1>8 DEF Regs
<1>12. Above(s) # s.top /\ Below(s) # s.top
  BY <1>1, <1>5, <1>6
<1> QED  BY <1>4, <1>7, <1>8, <1>10, <1>11, <1>12

----------------------------------------------------------------------------
\* push(), FPU_pop and a copy to a register that may be empty.

SameStatus(s, t) == t.sw = s.sw /\ t.cw = s.cw /\ t.internal = s.internal

\* push() moves the top only.
LEMMA PushEffect ==
  ASSUME NEW s, Shape(s)
  PROVE  /\ Shape(Push(s)) /\ SameStatus(s, Push(s))
         /\ Push(s).top = Below(s) /\ Occupied(Push(s)) = Occupied(s)
         /\ Phys(Push(s), 0) = Below(s) /\ Phys(Push(s), 1) = s.top
<1>1. Push(s) = [s EXCEPT !.top = Below(s)]
  BY AroundTop DEF Push
<1>2. /\ Shape(Push(s)) /\ SameStatus(s, Push(s))
      /\ Push(s).top = Below(s) /\ Occupied(Push(s)) = Occupied(s)
  BY <1>1, AroundTop DEF Shape, Fields, SameStatus, Occupied
<1>3. Below(s) + 0 = Below(s)
  BY AroundTop, FormatAssumption DEF Regs
<1> QED  BY <1>2, <1>3, AroundTop DEF Phys

\* A copy fills the register.
LEMMA CopyEffect ==
  ASSUME NEW s, Shape(s), NEW i \in Regs, NEW r, NEW tag \in Answers
  PROVE  /\ Shape(FPU_copy_to_regi(s, r, tag, i)) /\ SameStatus(s, FPU_copy_to_regi(s, r, tag, i))
         /\ Moves(FPU_copy_to_regi(s, r, tag, i), Occupied(s) \cup {Phys(s, i)}, s.top)
<1> DEFINE p == Phys(s, i)
           t == [[s EXCEPT !.reg[p] = r] EXCEPT !.tag[p] = tag]
<1>1. p \in Regs
  BY Registers
<1>2. FPU_copy_to_regi(s, r, tag, i) = t
  BY DEF FPU_copy_to_regi, FPU_settagi, SetReg, Phys, Shape, Fields
<1> HIDE DEF p
<1>3. Shape(t) /\ SameStatus(s, t) /\ t.top = s.top
  BY <1>1 DEF Shape, Fields, SameStatus, Answers, Tags
<1>4. \A j \in Regs : t.tag[j] = IF j = p THEN tag ELSE s.tag[j]
  BY <1>1 DEF Shape, Fields
<1>5. Occupied(t) = Occupied(s) \cup {p}
  BY <1>1, <1>4 DEF Occupied, Answers
<1> QED  BY <1>2, <1>3, <1>5 DEF Moves, p

\* FPU_pop empties the top.
LEMMA PopEffect ==
  ASSUME NEW s, Shape(s)
  PROVE  /\ Shape(FPU_pop(s)) /\ SameStatus(s, FPU_pop(s))
         /\ Moves(FPU_pop(s), Occupied(s) \ {s.top}, Above(s))
<1>1. s.top \in Regs /\ Phys(s, 0) = s.top /\ Above(s) = (s.top + 1) % NRegs /\ Above(s) \in Regs
  BY AroundTop DEF Shape
<1> DEFINE u == [s EXCEPT !.tag[s.top] = "Empty"]
           t == [u EXCEPT !.top = Above(s)]
<1>2. FPU_pop(s) = t
  BY <1>1 DEF FPU_pop, FPU_settagi, Shape, Fields
<1>3. Shape(t) /\ SameStatus(s, t) /\ t.top = Above(s)
  BY <1>1 DEF Shape, Fields, SameStatus, Tags
<1>4. \A j \in Regs : t.tag[j] = IF j = s.top THEN "Empty" ELSE s.tag[j]
  BY <1>1 DEF Shape, Fields
<1>5. Occupied(t) = Occupied(s) \ {s.top}
  BY <1>1, <1>4 DEF Occupied
<1> QED  BY <1>2, <1>3, <1>5 DEF Moves

\* The flags do not see any of them.
LEMMA StatusKept ==
  ASSUME NEW s, NEW t, SameStatus(s, t)
  PROVE  KeepsFlags(s, t) /\ KeepsFault(s, t)
BY DEF SameStatus, KeepsFlags, KeepsFault, Fits

\* Whether a register holds something.
LEMMA HeldRegisters ==
  ASSUME NEW s, Shape(s)
  PROVE  /\ \A i \in Regs : Holds(s, i) <=> Phys(s, i) \in Occupied(s)
         /\ Holds(s, 0) <=> s.top \in Occupied(s)
         /\ Holds(s, 1) <=> Above(s) \in Occupied(s)
         /\ STACK_OVERFLOW(s) <=> Below(s) \in Occupied(s)
<1>1. \A i \in Regs : Holds(s, i) <=> Phys(s, i) \in Occupied(s)
  BY Registers DEF Holds, FPU_empty_i, FPU_gettagi, Occupied
<1> QED
  BY <1>1, Registers, AroundTop
  DEF STACK_OVERFLOW, Below, Above, Holds, FPU_empty_i, FPU_gettagi, Occupied

\* A push: the new top is filled, whatever was calculated in between.
LEMMA PushBehaves ==
  ASSUME NEW s, Shape(s), ~ STACK_OVERFLOW(s), NEW t, Calculates(Push(s), t),
         NEW r, NEW tag \in Answers
  PROVE  Behaves(s, FPU_copy_to_regi(t, r, tag, 0))
<1> DEFINE u == FPU_copy_to_regi(t, r, tag, 0)
<1>1. Shape(t) /\ t.top = Below(s) /\ Occupied(t) = Occupied(s)
  BY PushEffect DEF Calculates
<1>2. Phys(t, 0) = Below(s)
  BY <1>1, AroundTop
<1>3. Shape(u) /\ SameStatus(t, u) /\ Moves(u, Occupied(s) \cup {Below(s)}, Below(s))
  BY <1>1, <1>2, CopyEffect, Registers
<1> HIDE DEF u
<1>4. KeepsFlags(s, Push(s)) /\ KeepsFault(s, Push(s))
  BY PushEffect, StatusKept
<1>5. KeepsFlags(Push(s), t) /\ KeepsFault(Push(s), t)
  BY DEF Calculates
<1>6. KeepsFlags(t, u) /\ KeepsFault(t, u)
  BY <1>3, StatusKept
<1>7. KeepsFlags(s, u) /\ KeepsFault(s, u)
  BY <1>4, <1>5, <1>6 DEF KeepsFlags, KeepsFault
<1>8. Below(s) \notin Occupied(s)
  BY HeldRegisters
<1>9. CleanMove(s, u)
  BY <1>3, <1>8 DEF CleanMove
<1>10. Behaves(s, u)
  BY <1>3, <1>7, <1>9 DEF Behaves
<1> QED  BY <1>10 DEF u

\* The usual push.
LEMMA PushedBehaves ==
  ASSUME NEW s, Shape(s), NEW t, Calculates(s, t), ~ STACK_OVERFLOW(s), NEW r, NEW tag \in Answers
  PROVE  Behaves(s, FPU_copy_to_regi(Push(t), r, tag, 0))
<1>1. Shape(t) /\ Below(t) = Below(s) /\ Occupied(t) = Occupied(s)
  BY DEF Calculates, Below, Phys
<1>2. ~ STACK_OVERFLOW(t)
  BY <1>1, HeldRegisters
<1>3. Calculates(Push(t), Push(t))
  BY <1>1, PushEffect, CalculatesNothing
<1>4. Behaves(t, FPU_copy_to_regi(Push(t), r, tag, 0))
  BY <1>1, <1>2, <1>3, PushBehaves
<1> QED  BY <1>4, BehavesAfter

\* A pop of a full register, after a calculation.
LEMMA PopBehaves ==
  ASSUME NEW s, Shape(s), Holds(s, 0), NEW t, Calculates(s, t)
  PROVE  Behaves(s, FPU_pop(t))
<1>1. Shape(t) /\ Holds(t, 0)
  BY CalculatesKeeps
<1>2. t.top \in Occupied(t)
  BY <1>1, HeldRegisters
<1>3. Behaves(t, FPU_pop(t))
  BY <1>1, <1>2, PopEffect, StatusKept DEF Behaves, CleanMove
<1> QED  BY <1>3, BehavesAfter

\* Two pops.
LEMMA PopTwiceBehaves ==
  ASSUME NEW s, Shape(s), Holds(s, 0), Holds(s, 1), NEW t, Calculates(s, t)
  PROVE  Behaves(s, FPU_pop(FPU_pop(t)))
<1>1. Shape(t) /\ Holds(t, 0) /\ Holds(t, 1)
  BY CalculatesKeeps
<1>2. t.top \in Occupied(t) /\ Above(t) \in Occupied(t)
  BY <1>1, HeldRegisters
<1> DEFINE u == FPU_pop(t)
           v == FPU_pop(u)
<1>3. Shape(u) /\ SameStatus(t, u) /\ Moves(u, Occupied(t) \ {t.top}, Above(t))
  BY <1>1, PopEffect
<1> HIDE DEF u
<1>4. Shape(v) /\ SameStatus(u, v) /\ Moves(v, Occupied(u) \ {u.top}, Above(u))
  BY <1>3, PopEffect
<1>5. Above(u) = (Above(t) + 1) % NRegs
  BY <1>3 DEF Moves, Above, Phys
<1> HIDE DEF v
<1>6. Moves(v, Occupied(t) \ {t.top, Above(t)}, (Above(t) + 1) % NRegs)
  BY <1>3, <1>4, <1>5 DEF Moves
<1>7. SameStatus(t, v)
  BY <1>3, <1>4 DEF SameStatus
<1>8. Behaves(t, v)
  BY <1>2, <1>4, <1>6, <1>7, StatusKept DEF Behaves, CleanMove
<1> QED  BY <1>8, BehavesAfter DEF u, v

\* st(0) goes to another register, and may be popped.
LEMMA StoreBehaves ==
  ASSUME NEW s, Shape(s), Holds(s, 0), NEW i \in Regs, NEW r, NEW tag \in Answers
  PROVE  /\ Behaves(s, FPU_copy_to_regi(s, r, tag, i))
         /\ Behaves(s, FPU_pop(FPU_copy_to_regi(s, r, tag, i)))
<1> DEFINE t == FPU_copy_to_regi(s, r, tag, i)
           u == FPU_pop(t)
           p == Phys(s, i)
<1>1. s.top \in Occupied(s) /\ p \in Regs
  BY HeldRegisters, Registers
<1>2. Shape(t) /\ SameStatus(s, t) /\ Moves(t, Occupied(s) \cup {p}, s.top)
  BY CopyEffect
<1> HIDE DEF t, p
<1>3. Shape(u) /\ SameStatus(t, u) /\ Moves(u, Occupied(t) \ {t.top}, Above(t))
  BY <1>2, PopEffect
<1>4. Above(t) = Above(s)
  BY <1>2 DEF Moves, Above, Phys
<1> HIDE DEF u
<1>5. Moves(u, (Occupied(s) \cup {p}) \ {s.top}, Above(s)) /\ SameStatus(s, u)
  BY <1>2, <1>3, <1>4 DEF Moves, SameStatus
<1>6. Behaves(s, t) /\ Behaves(s, u)
  BY <1>1, <1>2, <1>3, <1>5, StatusKept DEF Behaves, CleanMove
<1> QED  BY <1>6 DEF t, u

----------------------------------------------------------------------------
\* Stack faults (errors.c).

\* A fault was raised on the way from s to t and no register was written.
Faulted(s, t) ==
  /\ Shape(t)
  /\ KeepsFlags(s, t)
  /\ "SF" \in t.sw
  /\ t.cw = s.cw /\ t.top = s.top /\ Occupied(t) = Occupied(s)

\* FPU_exception of a stack fault.
LEMMA ExceptionFaults ==
  ASSUME NEW s, Shape(s), NEW n, n \in {EX_StackUnder, EX_StackOver}
  PROVE  Faulted(s, FPU_exception(s, n))
<1> DEFINE raised == s.sw \cup n
           summed == IF (raised \cap CW_Exceptions) \ s.cw.mask # {}
                     THEN raised \cup {"ES"} ELSE raised
           sw == IF n \cap {"SF", "PE"} # {} /\ "C1" \notin n THEN summed \ {"C1"} ELSE summed
           t == [s EXCEPT !.sw = sw]
<1>1. s.sw \cap Lasting \subseteq sw
  BY DEF Lasting, CW_Exceptions
<1>2. "SF" \in sw
  BY DEF EX_StackUnder, EX_StackOver
<1>3. Fits(s) => ("ES" \in sw <=> (sw \cap CW_Exceptions) \ s.cw.mask # {})
  BY DEF Fits, CW_Exceptions, EX_StackUnder, EX_StackOver
<1> HIDE DEF sw
<1>4. Faulted(s, t)
  BY <1>1, <1>2, <1>3 DEF Faulted, KeepsFlags, Shape, Fields, Fits, Occupied
<1> QED  BY <1>4 DEF sw, FPU_exception

\* Calculations before and after it.
LEMMA FaultedAround ==
  ASSUME NEW s, NEW t, Faulted(s, t), NEW u
  PROVE  /\ Calculates(t, u) => Faulted(s, u)
         /\ Calculates(u, s) => Faulted(u, t)
BY DEF Faulted, Calculates, KeepsFlags, Lasting

\* Missing operands: the fault alone, or with pops.
LEMMA FaultedBehaves ==
  ASSUME NEW s, Shape(s), Regs \ Occupied(s) # {}, NEW t, Faulted(s, t)
  PROVE  Behaves(s, t) /\ Behaves(s, FPU_pop(t)) /\ Behaves(s, FPU_pop(FPU_pop(t)))
<1> DEFINE u == FPU_pop(t)
           v == FPU_pop(u)
<1>1. Shape(t) /\ Moves(t, Occupied(s), s.top) /\ Above(t) = Above(s)
  BY DEF Faulted, Moves, Above, Phys
<1>2. Shape(u) /\ SameStatus(t, u) /\ Moves(u, Occupied(s) \ {s.top}, Above(s))
  BY <1>1, PopEffect DEF Moves
<1> HIDE DEF u
<1>3. Shape(v) /\ SameStatus(u, v) /\ Moves(v, Occupied(u) \ {u.top}, Above(u))
  BY <1>2, PopEffect
<1>4. Above(u) = (Above(s) + 1) % NRegs
  BY <1>2 DEF Moves, Above, Phys
<1> HIDE DEF v
<1>5. Moves(v, Occupied(s) \ {s.top, Above(s)}, (Above(s) + 1) % NRegs)
  BY <1>2, <1>3, <1>4 DEF Moves
<1>6. KeepsFlags(s, t) /\ "SF" \in t.sw
  BY DEF Faulted
<1>7. /\ KeepsFlags(s, u) /\ "SF" \in u.sw
      /\ KeepsFlags(s, v) /\ "SF" \in v.sw
  BY <1>2, <1>3, <1>6 DEF SameStatus, KeepsFlags, Fits
<1>8. FaultyMove(s, t) /\ FaultyMove(s, u) /\ FaultyMove(s, v)
  BY <1>1, <1>2, <1>5 DEF FaultyMove
<1>9. Behaves(s, t) /\ Behaves(s, u) /\ Behaves(s, v)
  BY <1>1, <1>2, <1>3, <1>6, <1>7, <1>8 DEF Behaves
<1> QED  BY <1>9 DEF u, v

\* An answer in place of the missing operand.
LEMMA FilledFault ==
  ASSUME NEW s, Shape(s), NEW i \in Regs, NEW r, NEW tag \in Answers
  PROVE  /\ Shape(FPU_copy_to_regi(s, r, tag, i))
         /\ KeepsFlags(s, FPU_copy_to_regi(s, r, tag, i))
         /\ FPU_copy_to_regi(s, r, tag, i).top = s.top
         /\ FPU_copy_to_regi(s, r, tag, i).cw = s.cw
         /\ Occupied(FPU_copy_to_regi(s, r, tag, i)) = Occupied(s) \cup {Phys(s, i)}
BY CopyEffect, StatusKept DEF Moves, SameStatus

\* What FPU_stack_underflow_i leaves.
LEMMA UnderflowEffect ==
  ASSUME NEW s, Shape(s), NEW i \in Regs
  PROVE  LET t == FPU_stack_underflow_i(s, i)
         IN  /\ Shape(t) /\ KeepsFlags(s, t) /\ "SF" \in t.sw /\ t.cw = s.cw
             /\ \/ Moves(t, Occupied(s), s.top) /\ ~ Masked(s, "IE")
                \/ Moves(t, Occupied(s) \cup {Phys(s, i)}, s.top) /\ Masked(s, "IE")
<1>1. CASE Masked(s, "IE")
  <2> DEFINE u == FPU_copy_to_regi(s, CONST_QNaN, "Special", i)
             t == FPU_exception(u, EX_StackUnder)
  <2>1. /\ Shape(u) /\ KeepsFlags(s, u) /\ u.top = s.top /\ u.cw = s.cw
        /\ Occupied(u) = Occupied(s) \cup {Phys(s, i)}
    BY FilledFault DEF Answers
  <2> HIDE DEF u
  <2>2. Faulted(u, t)
    BY <2>1, ExceptionFaults
  <2> HIDE DEF t
  <2>3. /\ Shape(t) /\ KeepsFlags(s, t) /\ "SF" \in t.sw /\ t.cw = s.cw
        /\ Moves(t, Occupied(s) \cup {Phys(s, i)}, s.top)
    BY <2>1, <2>2 DEF Faulted, KeepsFlags, Moves
  <2>4. FPU_stack_underflow_i(s, i) = t
    BY <1>1 DEF FPU_stack_underflow_i, t, u
  <2> QED  BY <1>1, <2>3, <2>4
<1>2. CASE ~ Masked(s, "IE")
  <2>1. FPU_stack_underflow_i(s, i) = FPU_exception(s, EX_StackUnder)
    BY <1>2 DEF FPU_stack_underflow_i
  <2> QED  BY <1>2, <2>1, ExceptionFaults DEF Faulted, Moves
<1> QED  BY <1>1, <1>2

\* The underflows.
LEMMA UnderflowBehaves ==
  ASSUME NEW s, Shape(s), Regs \ Occupied(s) # {}
  PROVE  /\ \A i \in Regs : Behaves(s, FPU_stack_underflow_i(s, i))
         /\ Behaves(s, FPU_stack_underflow(s))
<1>1. ASSUME NEW i \in Regs
      PROVE  Behaves(s, FPU_stack_underflow_i(s, i))
  <2>1. Phys(s, i) \in Regs
    BY Registers
  <2> DEFINE t == FPU_stack_underflow_i(s, i)
  <2>2. /\ Shape(t) /\ KeepsFlags(s, t) /\ "SF" \in t.sw
        /\ Moves(t, Occupied(s), s.top) \/ Moves(t, Occupied(s) \cup {Phys(s, i)}, s.top)
    BY UnderflowEffect
  <2> HIDE DEF t
  <2>3. FaultyMove(s, t)
    BY <2>1, <2>2 DEF FaultyMove
  <2>4. Behaves(s, t)
    BY <2>2, <2>3 DEF Behaves
  <2> QED  BY <2>4 DEF t
<1> QED  BY <1>1, Registers DEF FPU_stack_underflow

\* The underflow of an instruction that pops.
LEMMA UnderflowPopBehaves ==
  ASSUME NEW s, Shape(s), Regs \ Occupied(s) # {}, NEW i \in Regs
  PROVE  Behaves(s, FPU_stack_underflow_pop(s, i))
<1>1. CASE Masked(s, "IE")
  <2> DEFINE u == FPU_copy_to_regi(s, CONST_QNaN, "Special", i)
             v == FPU_pop(u)
             t == FPU_exception(v, EX_StackUnder)
             p == Phys(s, i)
  <2>1. /\ Shape(u) /\ KeepsFlags(s, u) /\ u.top = s.top
        /\ Occupied(u) = Occupied(s) \cup {p}
    BY FilledFault DEF Answers
  <2>2. p \in Regs
    BY Registers
  <2> HIDE DEF u, p
  <2>3. Shape(v) /\ SameStatus(u, v) /\ Moves(v, Occupied(u) \ {u.top}, Above(u))
    BY <2>1, PopEffect
  <2>4. Above(u) = Above(s)
    BY <2>1 DEF Above, Phys
  <2>5. KeepsFlags(u, v)
    BY <2>3, StatusKept
  <2> HIDE DEF v
  <2>6. Faulted(v, t)
    BY <2>3, ExceptionFaults
  <2> HIDE DEF t
  <2>7. /\ Shape(t) /\ KeepsFlags(s, t) /\ "SF" \in t.sw
        /\ Moves(t, (Occupied(s) \cup {p}) \ {s.top}, Above(s))
    BY <2>1, <2>3, <2>4, <2>5, <2>6 DEF Faulted, KeepsFlags, Moves
  <2>8. FaultyMove(s, t)
    BY <2>2, <2>7 DEF FaultyMove
  <2>9. Behaves(s, t)
    BY <2>7, <2>8 DEF Behaves
  <2> QED  BY <1>1, <2>9 DEF FPU_stack_underflow_pop, t, v, u
<1>2. CASE ~ Masked(s, "IE")
  BY <1>2, ExceptionFaults, FaultedBehaves DEF FPU_stack_underflow_pop
<1> QED  BY <1>1, <1>2

\* The underflow of an instruction that pushes a second answer.
LEMMA UnderflowsBehave ==
  ASSUME NEW s, Shape(s), Regs \ Occupied(s) # {}
  PROVE  Behaves(s, Underflows(s))
<1>1. CASE Masked(s, "IE")
  <2> DEFINE u == FPU_stack_underflow(s)
             v == Push(u)
             t == FPU_stack_underflow(v)
  <2>1. /\ Shape(u) /\ KeepsFlags(s, u) /\ u.cw = s.cw
        /\ Moves(u, Occupied(s) \cup {s.top}, s.top)
    BY <1>1, UnderflowEffect, Registers, AroundTop DEF FPU_stack_underflow
  <2> HIDE DEF u
  <2>2. Shape(v) /\ SameStatus(u, v) /\ Moves(v, Occupied(u), Below(u)) /\ Phys(v, 0) = Below(u)
    BY <2>1, PushEffect DEF Moves
  <2>3. Below(u) = Below(s)
    BY <2>1 DEF Below, Phys, Moves
  <2>4. KeepsFlags(u, v)
    BY <2>2, StatusKept
  <2> HIDE DEF v
  <2>5. Masked(v, "IE")
    BY <1>1, <2>1, <2>2 DEF SameStatus, Masked
  <2>6. /\ Shape(t) /\ KeepsFlags(v, t) /\ "SF" \in t.sw
        /\ Moves(t, Occupied(v) \cup {Below(u)}, v.top)
    BY <2>2, <2>5, UnderflowEffect, Registers DEF FPU_stack_underflow
  <2> HIDE DEF t
  <2>7. KeepsFlags(s, t)
    BY <2>1, <2>4, <2>6 DEF KeepsFlags
  <2>8. Moves(t, Occupied(s) \cup {s.top, Below(s)}, Below(s))
    BY <2>1, <2>2, <2>3, <2>6 DEF Moves
  <2>9. FaultyMove(s, t)
    BY <2>8 DEF FaultyMove
  <2>10. Behaves(s, t)
    BY <2>6, <2>7, <2>9 DEF Behaves
  <2> QED  BY <1>1, <2>10 DEF Underflows, t, v, u
<1>2. CASE ~ Masked(s, "IE")
  BY <1>2, UnderflowBehaves DEF Underflows
<1> QED  BY <1>1, <1>2

\* A push without an empty register.
LEMMA OverflowBehaves ==
  ASSUME NEW s, Shape(s), STACK_OVERFLOW(s)
  PROVE  Behaves(s, FPU_stack_overflow(s))
<1>1. Below(s) \in Occupied(s)
  BY HeldRegisters
<1>2. CASE Masked(s, "IE")
  <2> DEFINE v == Push(s)
             u == FPU_copy_to_regi(v, CONST_QNaN, "Special", 0)
             t == FPU_exception(u, EX_StackOver)
  <2>1. Shape(v) /\ SameStatus(s, v) /\ Moves(v, Occupied(s), Below(s)) /\ Phys(v, 0) = Below(s)
    BY PushEffect DEF Moves
  <2> HIDE DEF v
  <2>2. /\ Shape(u) /\ KeepsFlags(v, u) /\ u.top = v.top
        /\ Occupied(u) = Occupied(v) \cup {Below(s)}
    BY <2>1, FilledFault, Registers DEF Answers
  <2>3. KeepsFlags(s, v)
    BY <2>1, StatusKept
  <2> HIDE DEF u
  <2>4. Faulted(u, t)
    BY <2>2, ExceptionFaults
  <2> HIDE DEF t
  <2>5. Shape(t) /\ KeepsFlags(s, t) /\ "SF" \in t.sw
    BY <2>2, <2>3, <2>4 DEF Faulted, KeepsFlags
  <2>6. Moves(t, Occupied(s), Below(s))
    BY <1>1, <2>1, <2>2, <2>4 DEF Faulted, Moves
  <2>7. FaultyMove(s, t)
    BY <1>1, <2>6 DEF FaultyMove
  <2>8. Behaves(s, t)
    BY <2>5, <2>7 DEF Behaves
  <2> QED  BY <1>2, <2>8 DEF FPU_stack_overflow, t, u, v
<1>3. CASE ~ Masked(s, "IE")
  <2> DEFINE t == FPU_exception(s, EX_StackOver)
  <2>1. Faulted(s, t)
    BY ExceptionFaults
  <2> HIDE DEF t
  <2>2. FaultyMove(s, t)
    BY <1>1, <2>1 DEF Faulted, FaultyMove, Moves
  <2>3. Behaves(s, t)
    BY <2>1, <2>2 DEF Faulted, Behaves
  <2> QED  BY <1>3, <2>3 DEF FPU_stack_overflow, t
<1> QED  BY <1>2, <1>3

=============================================================================
