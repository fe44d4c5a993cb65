------------------------------- MODULE FpuEmu -------------------------------
(***************************************************************************)
(* The x87 emulator as a machine: math_emulate of fpu_entry.c, which       *)
(* fuzzball has a guest's floating point instructions call in place of the *)
(* coprocessor.  A step is one call: it checks for a pending exception and *)
(* for empty registers, and runs the instruction.                          *)
(*                                                                         *)
(*   fpu     the emulator's state, see FpuRegs                             *)
(*   insn    the instruction of the last step                              *)
(*   out     <<x>> if that instruction wrote x to the guest's memory       *)
(*   steps   instructions so far, bounded by MaxSteps                      *)
(*                                                                         *)
(* Opcodes are decoded: an action is an instruction, and the illegal ones  *)
(* that end in math_abort are left out.  A call with an unmasked exception *)
(* pending and an instruction that waits for it changes nothing, so it is  *)
(* a stuttering step.                                                      *)
(***************************************************************************)
EXTENDS FpuTrig

CONSTANTS
  ControlWords,   \* control words that fldcw loads
  Files,          \* register files of the initial states: Full and Empty registers
  Approximations, \* what a polynomial may come to: [exp, sig] with normal sig
  Singles, Doubles, Extendeds, Ints, Decimals,   \* operands in memory
  StatusWords,    \* status flags of the initial states
  Images,         \* images that frstor loads
  MaxSteps        \* bound on the instructions of a behaviour

\* An exponent fits in the word that fxtract and fyl2x make it an integer in.
ASSUME ExponentAssumption == E <= H

\* The flags of a status word, the tags and the fields of a control word.
Flags == CW_Exceptions \cup {"ES", "SF", "C0", "C1", "C2", "C3"}
Tags == {"Valid", "Zero", "Special", "Empty"}
ControlWord ==
  [mask : SUBSET CW_Exceptions, rc : {"RND", "DOWN", "UP", "CHOP"}, pc : {"24", "53", "64", "reserved"}]

\* What a program brings is made of those, in any combination.
ASSUME ProgramAssumption ==
  /\ ControlWords \subseteq ControlWord
  /\ StatusWords \subseteq SUBSET Flags
  /\ Files \subseteq [Regs -> [r : Reg, tag : Tags]]
  /\ \A image \in Images :
       /\ image.env.cw \in ControlWord /\ image.env.sw \subseteq Flags
       /\ image.env.top \in Regs /\ image.env.tag \in [Regs -> Tags]
       /\ image.regs \in [Regs -> Reg]

VARIABLES fpu, insn, out, steps

vars == <<fpu, insn, out, steps>>

\* A register of an initial file: its contents, or empty and cleared.
Full(r) == [r |-> r, tag |-> FPU_tagof(r)]
Empty == [r |-> CONST_Z, tag |-> "Empty"]

\* An instruction, frstor, makes every register file of full and empty
\* registers.
Init ==
  /\ \E f \in Files, cw \in ControlWords, sw \in StatusWords :
       fpu = [cw |-> cw, sw |-> Summed(sw, cw), top |-> 0, internal |-> FALSE,
              tag |-> [i \in Regs |-> f[i].tag], reg |-> [i \in Regs |-> f[i].r]]
  /\ insn = "none" /\ out = <<>> /\ steps = 0

----------------------------------------------------------------------------
\* One instruction.

\* SW_Summary: all but a few control instructions wait.
Pending == "ES" \in fpu.sw

NoWait(name, st, mem) ==
  /\ steps < MaxSteps
  /\ fpu' = st /\ insn' = name /\ out' = mem /\ steps' = steps + 1

Instr(name, st) == ~ Pending /\ NoWait(name, st, <<>>)

\* The tests that type_table asks for before an instruction on registers.
Any(i) == FPU_empty_i(fpu, 0) \/ FPU_empty_i(fpu, i)
REG0(st) == IF FPU_empty_i(fpu, 0) THEN FPU_stack_underflow(fpu) ELSE st
REGI(i, st) == IF Any(i) THEN FPU_stack_underflow(fpu) ELSE st
REGIi(i, st) == IF Any(i) THEN FPU_stack_underflow_i(fpu, i) ELSE st
REGIp(i, st) == IF Any(i) THEN FPU_stack_underflow_pop(fpu, i) ELSE st

----------------------------------------------------------------------------
\* Arithmetic between registers (fpu_arith.c).

NoData == [r |-> CONST_Z, tag |-> "Empty"]

\* st(0) op st(i) to st(0); with R the operands of a difference or quotient
\* are exchanged.
ToSt0(op, s, i) ==
  LET rev == IF op \in {"subr", "divr"} THEN {"REV"} ELSE {}
  IN  CASE op = "add" -> FPU_add(s, St(s, i), FPU_gettagi(s, i), 0, s.cw)
        [] op = "mul" -> FPU_mul(s, St(s, i), FPU_gettagi(s, i), 0, s.cw)
        [] op \in {"sub", "subr"} -> FPU_sub(s, rev, i, NoData, s.cw)
        [] op \in {"div", "divr"} -> FPU_div(s, rev, i, NoData, s.cw)

\* st(i) op st(0) to st(i).
ToSti(op, s, i) ==
  LET rev == IF op \in {"sub", "div"} THEN {"REV", "DEST_RM"} ELSE {"DEST_RM"}
  IN  CASE op = "add" -> FPU_add(s, St(s, i), FPU_gettagi(s, i), i, s.cw)
        [] op = "mul" -> FPU_mul(s, St(s, 0), FPU_gettagi(s, 0), i, s.cw)
        [] op \in {"sub", "subr"} -> FPU_sub(s, rev, i, NoData, s.cw)
        [] op \in {"div", "divr"} -> FPU_div(s, rev, i, NoData, s.cw)

ArithOps == {"add", "mul", "sub", "subr", "div", "divr"}

ArithSt0(op, i) == Instr(op, REGI(i, ToSt0(op, clear_C1(fpu), i).st))
ArithSti(op, i) == Instr(op, REGIi(i, ToSti(op, clear_C1(fpu), i).st))
ArithPop(op, i) == Instr(op, REGIp(i, PopUnless(ToSti(op, clear_C1(fpu), i))))

----------------------------------------------------------------------------
\* Arithmetic and comparison with an operand in memory.

LoadedInt(x) == RetReg(fpu, x.r, x.tag, FALSE)

\* Loading may already have reported a denormal, in ld.st; a NaN, and a zero
\* that divides, take that back.
NotComparable(st, flags) == setcc(FPU_exception(st, flags), ConditionCodes("none"))

PopMasked(op, st) == IF op = "comp" /\ Masked(st, "IE") THEN FPU_pop(st) ELSE st

MemEmpty(op) ==
  IF op \in {"com", "comp"} THEN PopMasked(op, NotComparable(fpu, EX_StackUnder))
  ELSE FPU_stack_underflow(fpu)

MemNaN(op, ld) ==
  IF op \in {"com", "comp"} THEN PopMasked(op, NotComparable(fpu, {"IE"}))
  ELSE real_2op_NaN(fpu, ld.r, Precise(ld.tag, ld.r), 0,
                    IF op \in {"sub", "div"} THEN ld.r ELSE St0(fpu)).st

\* The operand trapped as a denormal: only a division of it by zero goes on.
MemTrapped(op, ld) ==
  LET dz == FPU_divide_by_zero(ld.st, 0, ld.r.sign)
      noDE == [dz.st EXCEPT !.sw = (@ \ {"DE"}) \cup (fpu.sw \cap {"DE"})]
  IN  IF op = "divr" /\ Tag0(fpu) = "Zero" /\ ld.tag = "Valid"
      THEN IF dz.exc THEN noDE ELSE dz.st
      ELSE ld.st

MemCompare(op, ld, c) == IF op = "comp" /\ ~ c.exc /\ ~ ld.exc THEN FPU_pop(c.st) ELSE c.st
MemOp(op, ld) ==
  LET s == clear_C1(ld.st)
      data == [r |-> ld.r, tag |-> ld.tag]
      flags == IF op \in {"subr", "divr"} THEN {"REV", "LOADED"} ELSE {"LOADED"}
      undone == IF op = "divr" /\ Tag0(fpu) = "Zero" THEN [s EXCEPT !.sw = fpu.sw] ELSE s
  IN  CASE op = "add" -> FPU_add(s, ld.r, ld.tag, 0, s.cw).st
        [] op = "mul" -> FPU_mul(s, ld.r, ld.tag, 0, s.cw).st
        [] op \in {"com", "comp"} -> MemCompare(op, ld, FPU_compare_st_data(ld.st, ld.r, ld.tag))
        [] op \in {"sub", "subr"} -> FPU_sub(s, flags, 0, data, s.cw).st
        [] op \in {"div", "divr"} -> FPU_div(undone, flags, 0, data, s.cw).st

MemInstr(op, ld) ==
  LET nan(tag, r) == tag = "Special" /\ isNaN(r)
  IN  Instr(op, IF FPU_empty_i(fpu, 0) THEN MemEmpty(op)
                ELSE IF nan(Tag0(fpu), St0(fpu)) \/ nan(ld.tag, ld.r) THEN MemNaN(op, ld)
                ELSE IF ld.exc /\ op \notin {"com", "comp"} THEN MemTrapped(op, ld)
                ELSE MemOp(op, ld))

MemOps == ArithOps \cup {"com", "comp"}

ArithSingle(op, x) == MemInstr(op, FPU_load_single(fpu, x))
ArithDouble(op, x) == MemInstr(op, FPU_load_double(fpu, x))
ArithInt32(op, x) == MemInstr(op, LoadedInt(FPU_load_int32(x)))
ArithInt16(op, x) == MemInstr(op, LoadedInt(FPU_load_int16(x)))

----------------------------------------------------------------------------
\* Comparisons of registers (reg_compare.c) and of st(0) (fpu_etc.c).

PopTwice(ret) == IF ret.exc THEN ret.st ELSE FPU_pop(FPU_pop(ret.st))

Fcom(i) == Instr("fcom", compare_st_st(fpu, i).st)
Fcomp(i) == Instr("fcomp", PopUnless(compare_st_st(fpu, i)))
Fcompp == Instr("fcompp", PopTwice(compare_st_st(fpu, 1)))
Fucom(i) == Instr("fucom", compare_u_st_st(fpu, i).st)
Fucomp(i) == Instr("fucomp", PopUnless(compare_u_st_st(fpu, i)))
Fucompp == Instr("fucompp", PopTwice(compare_u_st_st(fpu, 1)))

fchs(st) ==
  IF FPU_empty_i(st, 0) THEN FPU_stack_underflow(st)
  ELSE clear_C1(SetReg(st, 0, ChangeSign(St0(st))))

fabs_(st) ==
  IF FPU_empty_i(st, 0) THEN FPU_stack_underflow(st)
  ELSE clear_C1(SetReg(st, 0, SetSign(St0(st), 0)))

ftst_(st) ==
  LET t == PTag(st, 0)
      signed == setcc(st, IF St0(st).sign = 1 THEN {"C0"} ELSE {})
      den == denormal_operand(signed)
      none == setcc(st, ConditionCodes("none"))
  IN  CASE t = "Zero" -> setcc(st, {"C3"})
        [] t \in {"Valid", "Infinity"} -> signed
        [] t = "Denormal" -> IF den.exc /\ St0(st).sign = 0 THEN setcc(den.st, {"C3"}) ELSE den.st
        [] t = "NaN" -> FPU_exception(none, {"IE"})
        [] t = "Empty" -> FPU_exception(none, EX_StackUnder)

fxam(st) ==
  LET t == PTag(st, 0)
      r == St0(st)
      class == CASE t = "Empty" -> {"C3", "C0"}
                 [] t = "Zero" -> {"C3"}
                 [] t = "Valid" -> {"C2"}
                 [] t = "Denormal" -> {"C2", "C3"}
                 [] t = "NaN" -> IF Normal(r.sig) /\ exponent(r) = EXP_OVER THEN {"C0"} ELSE {}
                 [] t = "Infinity" -> {"C2", "C0"}
  IN  setcc(st, class \cup (IF r.sign = 1 THEN {"C1"} ELSE {}))

Fchs == Instr("fchs", fchs(fpu))
Fabs == Instr("fabs", fabs_(fpu))
Ftst == Instr("ftst", ftst_(fpu))
Fxam == Instr("fxam", fxam(fpu))

----------------------------------------------------------------------------
\* Moves between registers (fpu_aux.c) and the constants (reg_constant.c).

fld_i_(st, i) ==
  CASE STACK_OVERFLOW(st) -> FPU_stack_overflow(st)
    [] ~ STACK_OVERFLOW(st) /\ ~ FPU_empty_i(st, i) ->
         FPU_copy_to_regi(Push(st), St(st, i), FPU_gettagi(st, i), 0)
    [] OTHER -> FPU_stack_underflow(st)

\* An empty register is exchanged as the default NaN.
fxch_i(st, i) ==
  LET a == St0(st)
      b == St(st, i)
      ta == FPU_gettagi(st, 0)
      tb == FPU_gettagi(st, i)
      If(s) == IF Masked(st, "IE") THEN s ELSE st
  IN  CASE ta = "Empty" /\ tb = "Empty" -> FPU_stack_underflow_i(FPU_stack_underflow(st), i)
        [] ta = "Empty" /\ tb # "Empty" ->
             FPU_stack_underflow_i(If(FPU_copy_to_regi(st, b, tb, 0)), i)
        [] ta # "Empty" /\ tb = "Empty" ->
             FPU_stack_underflow(If(FPU_copy_to_regi(st, a, ta, i)))
        [] OTHER -> FPU_copy_to_regi(FPU_copy_to_regi(clear_C1(st), b, tb, 0), a, ta, i)

ffree_(st, i) == FPU_settagi(st, i, "Empty")
fst_i_(st, i) == FPU_copy_to_regi(st, St0(st), Tag0(st), i)

FldI(i) == Instr("fld", fld_i_(fpu, i))
FxchI(i) == Instr("fxch", fxch_i(fpu, i))
FxchUndocumented(i) == Instr("fxch", REGI(i, fxch_i(fpu, i)))
Ffree(i) == Instr("ffree", ffree_(fpu, i))
Ffreep(i) == Instr("ffreep", FPU_pop(ffree_(fpu, i)))
FstI(i) == Instr("fst", REG0(fst_i_(fpu, i)))
FstpI(i) == Instr("fstp", REG0(FPU_pop(fst_i_(fpu, i))))

\* The constants, up to the bits a significand has here, and the adjustment
\* that the rounding mode makes.
Significand(byte) == (byte * 2^W) \div 256
Constant(c, rc) ==
  LET down == IF rc \in {"DOWN", "CHOP"} THEN 0 - 1 ELSE 0
      At(e, sig) == [r |-> [sign |-> 0, exp |-> EBias + e, sig |-> sig], tag |-> "Valid"]
  IN  CASE c = "fld1" -> At(0, TopBit)
        [] c = "fldl2t" -> At(1, Significand(212) + (IF rc = "UP" THEN 1 ELSE 0))
        [] c = "fldl2e" -> At(0, Significand(184) + down)
        [] c = "fldpi" -> At(1, CONST_PI.sig + down)
        [] c = "fldlg2" -> At(0 - 2, Significand(154) + down)
        [] c = "fldln2" -> At(0 - 1, Significand(177) + down)
        [] c = "fldz" -> [r |-> CONST_Z, tag |-> "Zero"]

fld_const(st, c) ==
  IF STACK_OVERFLOW(st) THEN FPU_stack_overflow(st)
  ELSE clear_C1(FPU_copy_to_regi(Push(st), c.r, c.tag, 0))

Constants == {"fld1", "fldl2t", "fldl2e", "fldpi", "fldlg2", "fldln2", "fldz"}
Fconst(c) == Instr(c, fld_const(fpu, Constant(c, fpu.cw.rc)))

----------------------------------------------------------------------------
\* Loads (load_store.c).  The push needs an empty register below the top.

LoadUnless_NoCheck(st, loaded) == loaded

LoadUnless(st, loaded) == IF STACK_OVERFLOW(st) THEN FPU_stack_overflow(st) ELSE loaded

\* An integer, a packed decimal, or an extended number with its tag.
LoadReg(x) ==
  LoadUnless(fpu, clear_C1(FPU_copy_to_regi(Push(fpu), x.r, x.tag, 0)))

\* A float: a NaN that signals takes the push back if that traps; a denormal
\* is loaded even if it traps.
LoadReal(ld) ==
  LET n == real_1op_NaN(ld.st, ld.r)
      nan == ld.tag = "Special" /\ isNaN(ld.r)
  IN  LoadUnless(fpu, clear_C1(CASE nan /\ n.exc -> n.st
                                 [] nan /\ ~ n.exc ->
                                      FPU_copy_to_regi(Push(n.st), n.r, "Special", 0)
                                 [] OTHER -> FPU_copy_to_regi(Push(ld.st), ld.r, ld.tag, 0)))

FldSingle(x) == Instr("fld", LoadReal(FPU_load_single(fpu, x)))
FldDouble(x) == Instr("fld", LoadReal(FPU_load_double(fpu, x)))
FldExtended(x) == Instr("fld", LoadReg([r |-> x, tag |-> FPU_tagof(x)]))
FildShort(x) == Instr("fild", LoadReg(FPU_load_int16(x)))
FildLong(x) == Instr("fild", LoadReg(FPU_load_int32(x)))
FildLonglong(x) == Instr("fild", LoadReg(FPU_load_int64(x)))
Fbld(x) == Instr("fbld", LoadReg(FPU_load_bcd(x)))

\* Stores.  The pop is only for a number that was actually stored.

StoreInstr(name, Store(_, _, _), pop) ==
  LET x == Store(clear_C1(fpu), St0(fpu), Tag0(fpu))
  IN  ~ Pending /\ NoWait(name, IF pop /\ x.ok THEN FPU_pop(x.st) ELSE x.st, x.out)

FstSingle(pop) == StoreInstr("fst32", FPU_store_single, pop)
FstDouble(pop) == StoreInstr("fst64", FPU_store_double, pop)
FistShort(pop) == StoreInstr("fist16", FPU_store_int16, pop)
FistLong(pop) == StoreInstr("fist32", FPU_store_int32, pop)
FistpLonglong == StoreInstr("fist64", FPU_store_int64, TRUE)
FstpExtended == StoreInstr("fst80", FPU_store_extended, TRUE)
Fbstp == StoreInstr("fbstp", FPU_store_bcd, TRUE)

----------------------------------------------------------------------------
\* Control.  The instructions that NoWait names ignore a pending exception.

fldcw_NoSummary(st, cw) == [st EXCEPT !.cw = cw]

fldcw(st, cw) == [st EXCEPT !.cw = cw, !.sw = Summed(st.sw, cw)]
fclex(st) == [st EXCEPT !.sw = @ \ (CW_Exceptions \cup {"SF", "ES"})]

Fldcw(cw) == Instr("fldcw", fldcw(fpu, cw))
Fldenv(image) == Instr("fldenv", fldenv(fpu, image.env))
Frstor(image) == Instr("frstor", frstor(fpu, image))
Fstenv == NoWait("fstenv", fstenv(fpu).st, fstenv(fpu).out)
Fsave == NoWait("fsave", fsave(fpu).st, fsave(fpu).out)
Fstcw == NoWait("fstcw", fpu, <<fpu.cw>>)
Fstsw == NoWait("fstsw", fpu, <<[sw |-> fpu.sw, top |-> fpu.top]>>)
Fclex == NoWait("fclex", fclex(fpu), <<>>)
Finit == NoWait("finit", finit(fpu), <<>>)
Fsetpm == NoWait("fsetpm", fpu, <<>>)       \* feni and fdisi too
Fnop == Instr("fnop", fpu)                       \* fwait too

----------------------------------------------------------------------------
\* FPU_triga and FPU_trigb.

\* The tangent of an argument that is not small does not underflow, and the
\* sine and cosine do not exceed 1 either.
Tangents == {a \in Approximations : a.exp > EXP_UNDER}
Unit == {a \in Tangents : AtMost1(a)}

F2xm1 == \E a \in Approximations : Instr("f2xm1", f2xm1(fpu, a))
Fyl2x == \E a \in Approximations, s \in 0..1, zero \in BOOLEAN :
           Instr("fyl2x", fyl2x(fpu, a, s, zero))
Fptan == \E a \in Tangents, s \in 0..1 : Instr("fptan", fptan(fpu, a, s))
Fpatan == \E a \in Approximations : Instr("fpatan", fpatan(fpu, a))
Fxtract == Instr("fxtract", fxtract(fpu))
Fprem1 == Instr("fprem1", do_fprem(fpu, "RND"))
Fdecstp == Instr("fdecstp", fdecstp(fpu))
Fincstp == Instr("fincstp", fincstp(fpu))
Fprem == Instr("fprem", do_fprem(fpu, "CHOP"))
Fyl2xp1 == \E a \in Approximations : Instr("fyl2xp1", fyl2xp1(fpu, a))
Fsqrt == Instr("fsqrt", fsqrt_(fpu))
Fsincos == \E a, b \in Unit, s, c \in 0..1 : Instr("fsincos", fsincos(fpu, a, s, b, c))
Frndint == Instr("frndint", frndint_(fpu))
Fscale == Instr("fscale", fscale(fpu))
Fsin == \E a \in Unit, s \in 0..1 : Instr("fsin", fsin(fpu, a, s).st)
Fcos == \E a \in Unit, s \in 0..1 : Instr("fcos", f_cos(fpu, a, s))

----------------------------------------------------------------------------
RegisterInstr ==
  \/ \E i \in Regs :
       \/ \E op \in ArithOps : ArithSt0(op, i) \/ ArithSti(op, i) \/ ArithPop(op, i)
       \/ Fcom(i) \/ Fcomp(i) \/ Fucom(i) \/ Fucomp(i)
       \/ FldI(i) \/ FxchI(i) \/ FxchUndocumented(i) \/ Ffree(i) \/ Ffreep(i)
       \/ FstI(i) \/ FstpI(i)
  \/ Fcompp \/ Fucompp \/ Fchs \/ Fabs \/ Ftst \/ Fxam
  \/ \E c \in Constants : Fconst(c)
  \/ Fnop

MemoryInstr ==
  \/ \E op \in MemOps :
       \/ \E x \in Singles : ArithSingle(op, x)
       \/ \E x \in Doubles : ArithDouble(op, x)
       \/ \E x \in Ints : ArithInt32(op, x) \/ ArithInt16(op, x)
  \/ \E x \in Singles : FldSingle(x)
  \/ \E x \in Doubles : FldDouble(x)
  \/ \E x \in Extendeds : FldExtended(x)
  \/ \E x \in Ints : FildShort(x) \/ FildLong(x) \/ FildLonglong(x)
  \/ \E x \in Decimals : Fbld(x)
  \/ \E pop \in BOOLEAN : FstSingle(pop) \/ FstDouble(pop) \/ FistShort(pop) \/ FistLong(pop)
  \/ FistpLonglong \/ FstpExtended \/ Fbstp

ControlInstr ==
  \/ \E cw \in ControlWords : Fldcw(cw)
  \/ \E image \in Images : Fldenv(image) \/ Frstor(image)
  \/ Fstenv \/ Fsave \/ Fstcw \/ Fstsw \/ Fclex \/ Finit \/ Fsetpm

TrigInstr ==
  \/ F2xm1 \/ Fyl2x \/ Fptan \/ Fpatan \/ Fxtract \/ Fprem1 \/ Fdecstp \/ Fincstp
  \/ Fprem \/ Fyl2xp1 \/ Fsqrt \/ Fsincos \/ Frndint \/ Fscale \/ Fsin \/ Fcos

Next == RegisterInstr \/ MemoryInstr \/ ControlInstr \/ TrigInstr

Spec == Init /\ [][Next]_vars

----------------------------------------------------------------------------
\* What the emulator guarantees.

\* Every register holds bits of its format, also after an exponent wrapped
\* (FromExp16) or a significand was shifted.
TypeOK ==
  /\ fpu.cw.mask \subseteq CW_Exceptions
  /\ fpu.sw \subseteq Flags
  /\ fpu.top \in Regs
  /\ fpu.tag \in [Regs -> Tags]
  /\ \A i \in Regs : fpu.reg[i] \in Reg
  /\ fpu.internal \in BOOLEAN
  /\ steps \in 0..MaxSteps

\* SW_Summary, which makes the next instruction trap (fpu_entry.c), is set
\* exactly while an exception that the control word does not mask is flagged.
\* Some flags are set without FPU_exception (set_precision_flag,
\* denormal_operand) and some are taken back (a division by zero of an operand
\* in memory, fprem).
SummaryFits == "ES" \in fpu.sw <=> (fpu.sw \cap CW_Exceptions) \ fpu.cw.mask # {}

\* None of the tests for states the code takes to be impossible (EX_INTERNAL)
\* has succeeded.
NoInternalError == ~ fpu.internal

\* The tag of a full register is that of its contents.  A denormal that is
\* rounded up to the smallest normal number stays Special (reg_round.S).
RoundedUp(r, tag) == tag = "Special" /\ r.exp = 1 /\ r.sig = TopBit
Fit(st) ==
  \A i \in Regs : st.tag[i] \in {"Empty", FPU_tagof(st.reg[i])} \/ RoundedUp(st.reg[i], st.tag[i])

\* Tags that fit stay so, whatever formats the registers hold, except under
\* fscale, which drops the tag of its answer (fpu_trig.c:1524).
TagsStay == [][Fit(fpu) /\ insn' # "fscale" => Fit(fpu')]_vars

\* While they fit, the tests for states the code takes to be impossible do
\* not succeed, whatever is loaded and whatever an instruction is given.
NoInternalRaised == [][Fit(fpu) /\ NoInternalError => NoInternalError']_vars

\* frstor of what fsave wrote gives the state back: the tags, which are not
\* in the image but for Empty, the summary bit, which fsave clears, and every
\* register although they are saved in stack order.
SaveRestores ==
  LET x == fsave(fpu)
      back == frstor(x.st, x.out[1])
      fits == \A i \in Regs : fpu.tag[i] \in {"Empty", FPU_tagof(fpu.reg[i])}
  IN  /\ [back EXCEPT !.tag = fpu.tag] = fpu
      /\ fits => back.tag = fpu.tag

\* A number format that the processor does not support: pseudo-NaNs,
\* pseudoinfinities and unnormals.
Unsupported(r) == r.exp # 0 /\ ~ Normal(r.sig)
HasUnsupported(st) == \E i \in Regs : st.tag[i] # "Empty" /\ Unsupported(st.reg[i])

\* None of the instructions makes one of registers whose tags fit: they are
\* loaded, or stay.  Answers with a wrapped exponent are numbers too.
NoneGenerated ==
  [][Fit(fpu) /\ HasUnsupported(fpu') /\ ~ HasUnsupported(fpu)
       => insn' \in {"fld", "frstor", "fldenv"}]_vars

\* TW_NaN "is also used for unsupported data types" (errors.c:442), and by
\* its test of the exponent for the number that was rounded up.
NaNToCode(i) == fpu.tag[i] = "Special" /\ FPU_Special(fpu.reg[i]) = "NaN"
IsNaN(i) == fpu.tag[i] # "Empty" /\ isNaN(fpu.reg[i])

\* An unmasked invalid operation or division by zero leaves the registers,
\* the tags and the top for the handler, and memory as it was, also where the
\* instruction had already pushed, or is made of several operations.  Only a
\* comparison with memory of what FPU_Special, and not isNaN, takes for a NaN
\* still pops.
TrapKeepsOperands ==
  [][LET raised == (fpu'.sw \ fpu.sw) \cap {"IE", "ZE"}
     IN  /\ Fit(fpu)
         /\ raised \ fpu.cw.mask # {}
         /\ insn' \notin {"fldenv", "frstor"}
         /\ insn' = "comp" => \A i \in Regs : NaNToCode(i) => IsNaN(i)
         =>
           /\ fpu'.reg = fpu.reg /\ fpu'.tag = fpu.tag /\ fpu'.top = fpu.top
           /\ out' = <<>>]_vars

\* The exceptions flagged so far stay flagged, also in the instructions that
\* set the status word back (fprem, the reverse division of memory).
StickyFlags ==
  [][insn' \in {"fclex", "finit", "fsave", "fldenv", "frstor"}
       \/ (fpu.sw \cap (CW_Exceptions \cup {"SF"})) \subseteq fpu'.sw]_vars

Controls == {"fldenv", "frstor", "fincstp", "fdecstp", "ffree", "ffreep", "finit", "fsave", "fclex"}

Discipline == INSTANCE RegisterStack WITH
  Size <- NRegs,
  full <- {i \in Regs : fpu.tag[i] # "Empty"},
  top <- fpu.top,
  fault <- "SF" \in fpu.sw,
  control <- insn \in Controls

\* The instructions use the registers as a stack: a push never overwrites a
\* full register and no answer appears in an empty one without a stack fault.
KeepsStack == Discipline!Spec
=============================================================================
