------------------------------ MODULE X86Flags ------------------------------
(***************************************************************************)
(* What the x86 architecture promises about the six arithmetic flags, in   *)
(* terms of integers: the reference that the translation of libasmir       *)
(* (module Eflags) is shown to implement.  A word of w bits is a natural   *)
(* number below 2^w.  An instruction either defines a flag, keeps it, or   *)
(* leaves it undefined, and then any value is allowed.                     *)
(***************************************************************************)
EXTENDS Integers, FiniteSets, Sequences

CONSTANTS W8, W16, W32,   \* the widths of the three operand sizes
          Nibble          \* the width of the half byte that AF looks at

ASSUME WidthAssumption ==
  /\ W8 \in Nat /\ Nibble \in 1..(W8 - 1) /\ W16 = 2 * W8 /\ W32 = 2 * W16
  /\ W32 >= 12            \* all flag positions lie in a 32-bit word

VARIABLES flags, done     \* the flags, and the instructions executed so far

-----------------------------------------------------------------------------
Bits == {0, 1}
B(P) == IF P THEN 1 ELSE 0
Bit(x, k) == (x \div 2^k) % 2
Msb(w, x) == Bit(x, w - 1)
Signed(w, x) == IF Msb(w, x) = 1 THEN x - 2^w ELSE x
InRange(w, v) == v \in (-(2^(w - 1)))..(2^(w - 1) - 1)
Ones(w, x) == {k \in 0..(w - 1) : Bit(x, k) = 1}
EvenParity(x) == B(Cardinality(Ones(W8, x)) % 2 = 0)

Flag == {"CF", "PF", "AF", "ZF", "SF", "OF"}
\* The position of a flag in the word that pushf and popf move.
Pos(f) == CASE f = "CF" -> 0 [] f = "PF" -> 2 [] f = "AF" -> 4
            [] f = "ZF" -> 6 [] f = "SF" -> 7 [] f = "OF" -> 11

\* A count is taken modulo 32, a rotation through carry modulo the width + 1.
Count(i) == i.b % W32
RcCount(i) == Count(i) % (i.w + 1)

\* The ring of w + 1 bits that a rotation through carry turns: the carry on top.
Ring(i, c) == i.a + c * 2^i.w
TurnLeft(w, x, n)  == LET k == n % w IN ((x * 2^k) % 2^w) + (x \div 2^(w - k))
TurnRight(w, x, n) == TurnLeft(w, x, (w - (n % w)) % w)
TurnedRing(i, c) == IF i.op = "rcl" THEN TurnLeft(i.w + 1, Ring(i, c), RcCount(i))
                                    ELSE TurnRight(i.w + 1, Ring(i, c), RcCount(i))

\* The value an instruction computes, as an integer before it is cut to w bits.
Exact(i, c) ==
  CASE i.op = "add" -> i.a + i.b
    [] i.op = "adc" -> i.a + i.b + c
    [] i.op = "sub" -> i.a - i.b
    [] i.op = "sbb" -> i.a - i.b - c
    [] i.op = "inc" -> i.a + 1
    [] i.op = "dec" -> i.a - 1
    [] i.op = "logic" -> i.a
    [] i.op = "umul" -> i.a * i.b
    [] i.op = "smul" -> Signed(i.w, i.a) * Signed(i.w, i.b)
    [] i.op = "shl" -> i.a * 2^Count(i)
    [] i.op = "shr" -> i.a \div 2^Count(i)
    [] i.op = "sar" -> Signed(i.w, i.a) \div 2^Count(i)
    [] i.op = "rol" -> TurnLeft(i.w, i.a, Count(i))
    [] i.op = "ror" -> TurnRight(i.w, i.a, Count(i))
    [] i.op \in {"rcl", "rcr"} -> TurnedRing(i, c) % 2^i.w
    [] i.op = "popf" -> i.a

Result(i, c) == Exact(i, c) % 2^i.w

Adds     == {"add", "adc", "inc"}
Subtracts == {"sub", "sbb", "dec"}
Shifts   == {"shl", "shr", "sar"}
Turns    == {"rol", "ror"}
RcTurns  == {"rcl", "rcr"}
Counted  == Shifts \cup Turns \cup RcTurns

\* The same computation on signed numbers, and on the low half bytes alone.
SignedExact(i, c) ==
  Exact([i EXCEPT !.a = Signed(i.w, i.a), !.b = Signed(i.w, i.b)], c)
NibbleExact(i, c) ==
  Exact([i EXCEPT !.a = i.a % 2^Nibble, !.b = i.b % 2^Nibble], c)
OutOf(v, n) == B(v \notin 0..(2^n - 1))

-----------------------------------------------------------------------------
\* The flags an instruction leaves alone.
Kept(i) ==
  CASE i.op \in {"inc", "dec"} -> {"CF"}
    [] i.op \in Shifts -> IF Count(i) = 0 THEN Flag ELSE {}
    [] i.op \in Turns -> IF Count(i) = 0 THEN Flag ELSE Flag \ {"CF", "OF"}
    [] i.op \in RcTurns -> IF RcCount(i) = 0 THEN Flag ELSE Flag \ {"CF", "OF"}
    [] OTHER -> {}

\* The flags it leaves undefined: a shift defines OF only for a count of one
\* and CF only while the last bit shifted out is one of the operand's.
Undefined(i) ==
  CASE i.op \in {"umul", "smul"} -> {"PF", "AF", "ZF", "SF"}
    [] i.op = "logic" -> {"AF"}
    [] i.op \in Shifts -> {"AF"}
         \cup (IF Count(i) # 1 THEN {"OF"} ELSE {})
         \cup (IF i.op # "sar" /\ Count(i) > i.w THEN {"CF"} ELSE {})
    [] i.op \in Turns -> IF Count(i) # 1 THEN {"OF"} ELSE {}
    [] i.op \in RcTurns -> IF RcCount(i) # 1 THEN {"OF"} ELSE {}
    [] OTHER -> {}

\* Where the translation is known to differ: OF of rcr by one is computed from
\* the bit rotated out, as for rcl, and not from the carry rotated in.
Deviation(i) == IF i.op = "rcr" THEN {"OF"} ELSE {}

CarryOut(i, c) ==
  CASE i.op \in Adds \cup Subtracts -> OutOf(Exact(i, c), i.w)
    [] i.op = "logic" -> 0
    [] i.op = "umul" -> OutOf(Exact(i, c), i.w)
    [] i.op = "smul" -> B(~InRange(i.w, Exact(i, c)))
    [] i.op = "shl" -> Bit(Exact(i, c), i.w)
    [] i.op \in {"shr", "sar"} ->
         Exact([i EXCEPT !.b = Count(i) - 1], c) % 2
    [] i.op = "rol" -> Result(i, c) % 2
    [] i.op = "ror" -> Msb(i.w, Result(i, c))
    [] i.op \in RcTurns -> TurnedRing(i, c) \div 2^i.w

Overflow(i, c) ==
  CASE i.op \in Adds \cup Subtracts -> B(~InRange(i.w, SignedExact(i, c)))
    [] i.op \in {"umul", "smul"} -> CarryOut(i, c)
    [] i.op \in {"logic", "sar"} -> 0
    [] OTHER -> B(Msb(i.w, i.a) # Msb(i.w, Result(i, c)))   \* the sign changed

Defined(i, c, f) ==
  CASE i.op = "popf" -> Bit(i.a, Pos(f))
    [] f = "CF" -> CarryOut(i, c)
    [] f = "OF" -> Overflow(i, c)
    [] f = "AF" -> OutOf(NibbleExact(i, c), Nibble)
    [] f = "PF" -> EvenParity(Result(i, c))
    [] f = "ZF" -> B(Result(i, c) = 0)
    [] f = "SF" -> Msb(i.w, Result(i, c))

-----------------------------------------------------------------------------
Init == flags \in [Flag -> Bits] /\ done = <<>>

\* An instruction is executed: d records it, its result and the carry it saw.
Execute ==
  /\ Len(done') = Len(done) + 1
  /\ SubSeq(done', 1, Len(done)) = done
  /\ LET d == done'[Len(done')]
         i == d.instr
     IN /\ d.res = Result(i, flags["CF"])
        /\ \A f \in Kept(i) : flags'[f] = flags[f]
        /\ \A f \in Flag \ (Kept(i) \cup Undefined(i) \cup Deviation(i)) :
             flags'[f] = Defined(i, flags["CF"], f)

\* The record of what was executed is dropped; the flags stay.
Forget == done' = <<>> /\ flags' = flags

Next == Execute \/ Forget
Spec == Init /\ [][Next]_<<flags, done>>
=============================================================================
