------------------------------- MODULE Eflags -------------------------------
(***************************************************************************)
(* How libasmir gives Vine IR the x86 flags.  VEX only records how the     *)
(* flags could be computed: a thunk of four pseudo-registers CC_OP,        *)
(* CC_DEP1, CC_DEP2 and CC_NDEP.  i386_modify_flags finds the thunk in the *)
(* statements of an instruction, adds assignments of the six flag          *)
(* registers after it, and i386_translate_ccall turns VEX's calls that     *)
(* read flags into expressions over those registers.                       *)
(*                                                                         *)
(* The widths 8, 16 and 32 are the parameters W8, W16 and W32; a REG_32    *)
(* value is a natural number below 2^W32.  What VEX emits for an           *)
(* instruction (Thunk, VexResult) is external, modelled from what the code *)
(* expects of it.                                                          *)
(***************************************************************************)
EXTENDS X86Flags, FiniteSetsExt

CONSTANT MaxDone,        \* how many instructions the record keeps
         Instrs(_)       \* the instructions that may come next after a record

-----------------------------------------------------------------------------
\* Operators of Vine's REG_32 expressions.
Word == 2^W32
Mod32(x) == x % Word
Shl(x, n) == IF n >= W32 THEN 0 ELSE Mod32(x * 2^n)
Shr(x, n) == IF n >= W32 THEN 0 ELSE x \div 2^n
Sar(x, n) == Mod32(Signed(W32, x) \div 2^(IF n >= W32 THEN W32 ELSE n))
Or(x, y) == SumSet({2^k : k \in Ones(W32, x) \cup Ones(W32, y)})
Xor(p, q) == (p + q) % 2                   \* of single bits (REG_1)
Not(p) == 1 - p
Low1(x) == x % 2                           \* _ex_l_cast(_, REG_1)
XorLow1(x, p) == (x - Low1(x)) + Xor(Low1(x), p)
EqBit(x, y) == B(x = y)

-----------------------------------------------------------------------------
(* The flag computations, one for each kind of thunk.  Each maps the flags  *)
(* it assigns to their new values; the others keep theirs.                  *)

\* Bits beyond the operand's size are overflow of the 32-bit computation.
mask_overflow(e, w) == e % 2^w
narrow32(e, w) == e % 2^w

CALC_COND_PF(res) == Not(Low1(Cardinality(Ones(W8, res))))

SignBit(res, w) == Low1(Shr(res, w - 1))
ResultFlags(res, w) == [PF |-> CALC_COND_PF(res), ZF |-> EqBit(res, 0),
                        SF |-> SignBit(res, w)]
AuxCarry(res, x, y) == Xor(Xor(Bit(res, Nibble), Bit(x, Nibble)), Bit(y, Nibble))
Merge(f, g) == [k \in DOMAIN f \cup DOMAIN g |-> IF k \in DOMAIN f THEN f[k] ELSE g[k]]

AddOverflow(w, arg1, arg2, res) ==
  LET b(x) == Bit(x, w - 1)
  IN Not(Xor(b(arg1), b(arg2))) * Xor(b(arg1), b(res))

get_eflags_bits(from) == [f \in Flag |-> Bit(from, Pos(f))]

mod_eflags_copy(w, arg1) == get_eflags_bits(arg1)

mod_eflags_add(w, arg1, arg2) ==
  LET res == mask_overflow(Mod32(arg1 + arg2), w)
  IN Merge([CF |-> B(res < arg1), AF |-> AuxCarry(res, arg1, arg2),
            OF |-> AddOverflow(w, arg1, arg2, res)], ResultFlags(res, w))

\* Mutant: the signed comparison looks at the 32-bit arguments.
mod_eflags_sub_NotNarrowed(w, arg1, arg2) ==
  LET res == mask_overflow(Mod32(arg1 - arg2), w)
      less == B(Signed(W32, arg1) < Signed(W32, arg2))
  IN Merge([CF |-> B(arg1 < arg2), AF |-> AuxCarry(res, arg1, arg2),
            OF |-> Xor(SignBit(res, w), less)], ResultFlags(res, w))

mod_eflags_sub(w, arg1, arg2) ==
  LET res == mask_overflow(Mod32(arg1 - arg2), w)
      less == B(Signed(w, narrow32(arg1, w)) < Signed(w, narrow32(arg2, w)))
  IN Merge([CF |-> B(arg1 < arg2), AF |-> AuxCarry(res, arg1, arg2),
            OF |-> Xor(SignBit(res, w), less)], ResultFlags(res, w))

\* VEX passes the second operand xor the old carry: recover it first.
mod_eflags_adc(w, arg1, dep2, ndep) ==
  LET arg3 == Low1(ndep)
      arg2 == XorLow1(dep2, arg3)
      res  == mask_overflow(Mod32(arg1 + arg2 + arg3), w)
  IN Merge([CF |-> IF arg3 = 1 THEN B(res <= arg1) ELSE B(res < arg1),
            AF |-> AuxCarry(res, arg1, arg2),
            OF |-> AddOverflow(w, arg1, arg2, res)], ResultFlags(res, w))

mod_eflags_sbb(w, arg1, dep2, ndep) ==
  LET arg3 == Low1(ndep)
      arg2 == XorLow1(dep2, arg3)
      res  == mask_overflow(Mod32(arg1 - arg2 - arg3), w)
      b(x) == Bit(x, w - 1)
  IN Merge([CF |-> IF arg3 = 0 THEN B(arg1 < arg2) ELSE B(arg1 <= arg2),
            AF |-> AuxCarry(res, arg1, arg2),
            OF |-> Xor(b(arg1), b(arg2)) * Xor(b(arg1), b(res))],
           ResultFlags(res, w))

mod_eflags_logic(w, res) == Merge([CF |-> 0, AF |-> 0, OF |-> 0], ResultFlags(res, w))

\* inc does not touch CF; dec assigns it from the old flags in the thunk.
mod_eflags_inc(w, res) ==
  Merge([AF |-> AuxCarry(res, Mod32(res - 1), 1),
         OF |-> EqBit(res % 2^w, 2^(w - 1))], ResultFlags(res, w))

mod_eflags_dec(w, res, ndep) ==
  Merge([CF |-> Low1(Shr(ndep, Pos("CF"))), AF |-> AuxCarry(res, Mod32(res + 1), 1),
         OF |-> EqBit(res % 2^w, 2^(w - 1) - 1)], ResultFlags(res, w))

\* VEX shifts in 32 bits: the result and the result of one shift less come
\* unmasked.
mod_eflags_shl(w, arg1, arg2) ==
  Merge([CF |-> SignBit(arg2, w), AF |-> 0,
         OF |-> Xor(SignBit(arg1, w), SignBit(arg2, w))],
        ResultFlags(IF w = W32 THEN arg1 ELSE arg1 % 2^w, w))

mod_eflags_shr(w, arg1, arg2) ==
  Merge([CF |-> Low1(arg2), AF |-> 0,
         OF |-> Xor(SignBit(arg1, w), SignBit(arg2, w))], ResultFlags(arg1, w))

mod_eflags_rol(w, res) ==
  [CF |-> Low1(res), OF |-> Xor(Low1(res), SignBit(res, w))]

mod_eflags_ror(w, res) ==
  [CF |-> SignBit(res, w), OF |-> Xor(SignBit(res, w), Low1(Shr(res, w - 2)))]

\* lo and hi are the halves of a product twice as wide as the operands.
MulFlags(lo, carry, w) ==
  Merge([CF |-> carry, AF |-> 0, OF |-> carry], ResultFlags(lo, w))

mod_eflags_umul(w, arg1, arg2) ==
  LET res == (arg1 % 2^w) * (arg2 % 2^w)
      hi  == res \div 2^w
  IN MulFlags(res % 2^w, B(hi # 0), w)

mod_eflags_smul(w, arg1, arg2) ==
  LET res == (Signed(w, arg1 % 2^w) * Signed(w, arg2 % 2^w)) % 2^(2 * w)
      lo  == res % 2^w
      hi  == res \div 2^w
  IN MulFlags(lo, B(hi # (Signed(w, lo) \div 2^(w - 1)) % 2^w), w)

-----------------------------------------------------------------------------
(* The code that reads flags.                                               *)

\* x86g_calculate_condition: the sixteen conditions of jcc, setcc and cmovcc.
Cond == {"O", "NO", "B", "NB", "Z", "NZ", "S", "NS", "P", "NP",
         "BE", "NBE", "L", "NL", "LE", "NLE"}
calculate_condition(c, f) ==
  LET or(p, q) == IF p = 1 THEN 1 ELSE q
      less == Xor(f["SF"], f["OF"])
  IN CASE c = "O"  -> f["OF"]                 [] c = "NO"  -> Not(f["OF"])
       [] c = "B"  -> f["CF"]                 [] c = "NB"  -> Not(f["CF"])
       [] c = "Z"  -> f["ZF"]                 [] c = "NZ"  -> Not(f["ZF"])
       [] c = "S"  -> f["SF"]                 [] c = "NS"  -> Not(f["SF"])
       [] c = "P"  -> f["PF"]                 [] c = "NP"  -> Not(f["PF"])
       [] c = "BE" -> or(f["CF"], f["ZF"])    [] c = "NBE" -> Not(or(f["CF"], f["ZF"]))
       [] c = "L"  -> less                    [] c = "NL"  -> Not(less)
       [] c = "LE" -> or(less, f["ZF"])       [] c = "NLE" -> Not(or(less, f["ZF"]))

calculate_eflags_c(f) == f["CF"]
calculate_eflags_all(f) == SumSet({f[k] * 2^Pos(k) : k \in {g \in Flag : f[g] = 1}})

\* Mutant: the carry enters where it enters for a rotation to the left.
calculate_RC_CarryInLow(left, arg, amount, eflags_in, CF, w) ==
  LET rot   == (amount % W32) % (w + 1)
      outPos == IF left THEN w - rot ELSE rot - 1
      moved  == IF left THEN Shl(arg, rot) ELSE Shr(arg, rot)
      wrapped == IF left THEN Shr(arg, w + 1 - rot) ELSE Shl(arg, w + 1 - rot)
      rest   == eflags_in - Bit(eflags_in, Pos("CF")) * 2^Pos("CF")
  IN IF rot = 0 THEN [answer |-> arg, eflags |-> eflags_in]
     ELSE [answer |-> Or(moved, Or(Shl(CF, rot - 1), wrapped)),
           eflags |-> rest + Low1(Shr(arg, outPos)) * 2^Pos("CF")]

\* x86g_calculate_RCL and _RCR, computed in IR: the rotated value and the new
\* word of flags.  CF is the live register, eflags_in the word passed in.
calculate_RC(left, arg, amount, eflags_in, CF, w) ==
  LET rot   == (amount % W32) % (w + 1)
      inPos  == IF left THEN rot - 1 ELSE w - rot      \* carry_in_pos
      outPos == IF left THEN w - rot ELSE rot - 1      \* carry_out_pos
      moved  == IF left THEN Shl(arg, rot) ELSE Shr(arg, rot)
      wrapped == IF left THEN Shr(arg, w + 1 - rot) ELSE Shl(arg, w + 1 - rot)
      answer == Or(moved, Or(Shl(CF, inPos), wrapped))
      new_cf == Low1(Shr(arg, outPos))
      of     == Xor(SignBit(answer, w), new_cf)
      rest   == eflags_in - Bit(eflags_in, Pos("CF")) * 2^Pos("CF")
                          - Bit(eflags_in, Pos("OF")) * 2^Pos("OF")
  IN IF rot = 0 THEN [answer |-> arg, eflags |-> eflags_in]
     ELSE [answer |-> answer,
           eflags |-> rest + of * 2^Pos("OF") + new_cf * 2^Pos("CF")]

-----------------------------------------------------------------------------
(* The statements VEX emits for one instruction: assignments of temporaries *)
(* (t1, t2, t3) and of the thunk's pseudo-registers.  A right-hand side is  *)
(* a constant operation, another temporary, an if-then-else, or the value   *)
(* of an argument.                                                          *)

Move(lhs, rhs) == [lhs |-> lhs, rhs |-> rhs]
Const(op, w) == [kind |-> "const", op |-> op, w |-> w]
Temp(name) == [kind |-> "temp", name |-> name]
Ite(cond, t, f) == [kind |-> "ite", cond |-> cond, t |-> t, f |-> f]
Value(v) == [kind |-> "value", val |-> v]

Deps(d) == << Move("CC_DEP1", Value(d[1])), Move("CC_DEP2", Value(d[2])),
              Move("CC_NDEP", Value(d[3])) >>

\* The operand as VEX widens it to 32 bits before a shift.
Widened(i) == IF i.op = "sar" THEN Mod32(Signed(i.w, i.a)) ELSE i.a
VexShift(op, x, n) ==
  CASE op = "shl" -> Shl(x, n) [] op = "shr" -> Shr(x, n) [] op = "sar" -> Sar(x, n)

VexRC(i, f) ==
  calculate_RC(i.op = "rcl", i.a, i.b, calculate_eflags_all(f), f["CF"], i.w)

\* The value VEX's statements compute.  Only that of rcl and rcr passes
\* through code of this repository.
VexResult(i, f) ==
  CASE i.op \in Shifts -> VexShift(i.op, Widened(i), Count(i)) % 2^i.w
    [] i.op \in RcTurns -> VexRC(i, f).answer % 2^i.w
    [] OTHER -> Result(i, calculate_eflags_c(f))

\* The thunk's operation and its three dependent values.
VexOp(i) == CASE i.op = "sar" -> "shr" [] i.op \in RcTurns \cup {"popf"} -> "copy"
              [] OTHER -> i.op
VexDeps(i, f) ==
  LET c == calculate_eflags_c(f)
      res == VexResult(i, f)
  IN CASE i.op \in {"add", "sub", "umul", "smul"} -> <<i.a, i.b, 0>>
       [] i.op \in {"adc", "sbb"} -> <<i.a, XorLow1(i.b, c), c>>
       [] i.op = "logic" -> <<res, 0, 0>>
       [] i.op \in {"inc", "dec"} -> <<res, 0, c>>
       [] i.op \in Shifts -> << VexShift(i.op, Widened(i), Count(i)),
                                VexShift(i.op, Widened(i), (Count(i) - 1) % W32), 0 >>
       [] i.op \in Turns -> <<res, 0, calculate_eflags_all(f)>>
       [] i.op \in RcTurns -> <<VexRC(i, f).eflags, 0, 0>>
       [] i.op = "popf" -> <<i.a, 0, 0>>

\* A shift or rotation by a register is guarded by its count; by an immediate
\* the guard has been folded, to a plain update or to none at all.
Thunk(i, f) ==
  LET K == Const(VexOp(i), i.w)
      guarded == i.op \in Shifts \cup Turns
  IN CASE guarded /\ ~i.imm ->
            << Move("t1", Temp("CC_OP")),
               Move("t2", Ite(Count(i) # 0, K, Temp("t1"))),
               Move("t3", Temp("t2")), Move("CC_OP", Temp("t3")) >>
       [] guarded /\ i.imm /\ Count(i) = 0 ->
            << Move("t1", Temp("CC_OP")), Move("CC_OP", Temp("t1")) >>
       [] OTHER -> << Move("CC_OP", K) >>

-----------------------------------------------------------------------------
(* Finding the thunk and adding the assignments of the flags.               *)

LastOf(ir, lhs) == LET S == {k \in DOMAIN ir : ir[k].lhs = lhs}
                   IN IF S = {} THEN -1 ELSE Max(S)

match_ite(ir, k) == k >= 1 /\ ir[k].rhs.kind = "ite"

\* Where the operation, the conditional and the values are.  The conditional
\* is three statements long: its result, a copy of it, and CC_OP.
get_thunk_index(ir) ==
  LET o == LastOf(ir, "CC_OP")
      isIte == /\ o >= 3 /\ match_ite(ir, o - 2)
               /\ ir[o].rhs.kind = "temp" /\ ir[o].rhs.name = ir[o - 1].lhs
      copies == {k \in 1..(o - 1) : ir[k].rhs = Temp("CC_OP")}
      isNop == /\ copies # {} /\ ir[o].rhs.kind = "temp"
               /\ ir[o].rhs.name = ir[Max(copies)].lhs
  IN [op |-> IF isIte THEN o - 2 ELSE o, mux0x |-> IF isIte THEN o - 2 ELSE -1,
      nop |-> isNop, dep1 |-> LastOf(ir, "CC_DEP1"),
      dep2 |-> LastOf(ir, "CC_DEP2"), ndep |-> LastOf(ir, "CC_NDEP")]

\* The operation of the thunk, on the true side when it is conditional.
ThunkOp(ir, x) == LET e == ir[x.op].rhs IN IF e.kind = "ite" THEN e.t ELSE e

ModFunc(op, w, a, b, c) ==
  CASE op = "copy" -> mod_eflags_copy(w, a)
    [] op = "add" -> mod_eflags_add(w, a, b)
    [] op = "adc" -> mod_eflags_adc(w, a, b, c)
    [] op = "sub" -> mod_eflags_sub(w, a, b)
    [] op = "sbb" -> mod_eflags_sbb(w, a, b, c)
    [] op = "logic" -> mod_eflags_logic(w, a)
    [] op = "inc" -> mod_eflags_inc(w, a)
    [] op = "dec" -> mod_eflags_dec(w, a, c)
    [] op = "shl" -> mod_eflags_shl(w, a, b)
    [] op = "shr" -> mod_eflags_shr(w, a, b)
    [] op = "rol" -> mod_eflags_rol(w, a)
    [] op = "ror" -> mod_eflags_ror(w, a)
    [] op = "umul" -> mod_eflags_umul(w, a, b)
    [] op = "smul" -> mod_eflags_smul(w, a, b)

\* Mutant: the flags are assigned whatever the thunk's condition.
modify_eflags_helper_Unconditional(ir, x, op, w, f) ==
  LET arg(k) == ir[k].rhs.val
  IN Merge(ModFunc(op, w, arg(x.dep1), arg(x.dep2), arg(x.ndep)), f)

\* The flags after the added assignments ran: under the thunk's condition when
\* it has one, not at all when the thunk is copied onto itself.
modify_eflags_helper(ir, x, op, w, f) ==
  LET arg(k) == ir[k].rhs.val
      mods == ModFunc(op, w, arg(x.dep1), arg(x.dep2), arg(x.ndep))
  IN IF x.mux0x # -1 /\ ~ir[x.mux0x].rhs.cond THEN f ELSE Merge(mods, f)

i386_modify_flags(ir, f) ==
  LET x == get_thunk_index(ir)
      k == ThunkOp(ir, x)
  IN IF x.nop THEN f ELSE modify_eflags_helper(ir, x, k.op, k.w, f)

-----------------------------------------------------------------------------
\* One instruction runs: VEX's statements with the added assignments.
Run(i) ==
  /\ Len(done) < MaxDone
  /\ flags' = i386_modify_flags(Thunk(i, flags) \o Deps(VexDeps(i, flags)), flags)
  /\ done' = Append(done, [instr |-> i, res |-> VexResult(i, flags)])

RunNext == (\E i \in Instrs(done) : Run(i)) \/ (done # <<>> /\ Forget)
RunSpec == Init /\ [][RunNext]_<<flags, done>>

-----------------------------------------------------------------------------
\* Every instruction sets the flags, and rcl and rcr the value, that the
\* architecture defines: carry, borrow, overflow and half carry at every
\* width although all of it is computed in 32 bits, shifts whose guard is an
\* if-then-else, folded away or false, and flags that are to be kept.
\* (X86Flags leaves out RCR's overflow flag, which the code gets wrong.)
FollowsX86 == [][Next]_<<flags, done>>

\* What a compare tells the sixteen conditions that jumps test: the order of
\* the two operands, as unsigned and as signed numbers.
ConditionsTrue ==
  \A k \in DOMAIN done :
    LET i == done[k].instr
        is(c) == calculate_condition(c, flags) = 1
        sa == Signed(i.w, i.a)
        sb == Signed(i.w, i.b)
    IN Len(done) = k /\ i.op = "sub" =>
         /\ is("B") = (i.a < i.b) /\ is("BE") = (i.a <= i.b) /\ is("Z") = (i.a = i.b)
         /\ is("L") = (sa < sb) /\ is("LE") = (sa <= sb)
         /\ is("O") = ~InRange(i.w, sa - sb)
         /\ is("S") = (Signed(i.w, done[k].res) < 0)
         /\ is("P") = (EvenParity(done[k].res) = 1)
         /\ \A p \in {<<"O", "NO">>, <<"B", "NB">>, <<"Z", "NZ">>, <<"S", "NS">>,
                     <<"P", "NP">>, <<"BE", "NBE">>, <<"L", "NL">>, <<"LE", "NLE">>} :
              is(p[2]) = ~is(p[1])

\* A pair of instructions that passes a carry computes on two words as on one
\* of twice the width: add and adc, sub and sbb (and the conditions after
\* them compare the wide numbers), shl and rcl, shr or sar and rcr.
WideArithmetic ==
  Len(done) = 2 =>
    LET p == done[1].instr
        q == done[2].instr
        w == p.w
        low(x, y) == x + y * 2^w
        is(c) == calculate_condition(c, flags) = 1
        a == low(p.a, q.a)
        b == low(p.b, q.b)
        res == low(done[1].res, done[2].res)
        s(x) == Signed(2 * w, x)
    IN CASE p.op = "add" /\ q.op = "adc" ->
              /\ res = (a + b) % 2^(2 * w) /\ is("B") = (a + b >= 2^(2 * w))
              /\ is("O") = ~InRange(2 * w, s(a) + s(b))
         [] p.op = "sub" /\ q.op = "sbb" ->
              /\ res = (a - b) % 2^(2 * w)
              /\ is("B") = (a < b) /\ is("L") = (s(a) < s(b))
         [] p.op = "shl" /\ q.op = "rcl" ->
              /\ res = (a * 2) % 2^(2 * w) /\ is("B") = (a >= 2^(2 * w - 1))
         [] p.op \in {"shr", "sar"} /\ q.op = "rcr" ->
              LET h == low(q.a, p.a)
                  v == IF p.op = "sar" THEN s(h) ELSE h
              IN /\ low(done[2].res, done[1].res) = (v \div 2) % 2^(2 * w)
                 /\ is("B") = (h % 2 = 1)
=============================================================================
