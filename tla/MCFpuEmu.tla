------------------------------ MODULE MCFpuEmu ------------------------------
(* Instances of FpuEmu for TLC: register files over one value of each kind. *)
EXTENDS FpuEmu

Pos(exp, sig) == [sign |-> 0, exp |-> exp, sig |-> sig]

One == CONST_1
Large == ChangeSign(Pos(2^E - 2, 2^W - 1))
Tiny == Pos(1, TopBit + 1)
DenormalReg == ChangeSign(Pos(0, QuietBit + 3))
PseudoDenormal == Pos(0, TopBit + 5)
Infinite == ChangeSign(CONST_INF)
QNaN == Pos(2^E - 1, TopBit + QuietBit + 1)
SNaN == Pos(2^E - 1, TopBit + 1)
Unnormal == Pos(EBias, QuietBit)
Kinds == {One, Large, Tiny, DenormalReg, PseudoDenormal, SetSign(CONST_Z, 1), Infinite,
          QNaN, SNaN, Unnormal}

\* Also the answer of an instruction that rounds a denormal up.
Smallest == [r |-> Pos(1, TopBit), tag |-> "Special"]
Contents == {Full(x) : x \in Kinds} \cup {Empty, Smallest}
MCFiles == {f \in [Regs -> Contents] : \A i \in Regs \ {0, 1} : f[i] \in {Empty, Full(One)}}

Cw(mask, rc, pc) == [mask |-> mask, rc |-> rc, pc |-> pc]
MCControlWords ==
  {Cw(CW_Exceptions, "RND", "64"), Cw({}, "UP", "53"), Cw(CW_Exceptions \ {"UE", "OE"}, "DOWN", "64")}

MCApproximations ==
  {[exp |-> 0, sig |-> TopBit], [exp |-> 0 - 1, sig |-> 2^W - 1],
   [exp |-> EXP_UNDER, sig |-> TopBit + 3], [exp |-> 5, sig |-> TopBit + 7]}

F(sign, exp, frac) == [sign |-> sign, exp |-> exp, frac |-> frac]
Samples(f) ==
  {F(1, Emax(f), 0), F(0, 0, 1), F(1, 0, 0), F(0, TopExp(f), 0), F(0, TopExp(f), 1)}
MCSingles == Samples(Single)
MCDoubles == Samples(Double)
MCExtendeds == Kinds
MCInts == {0, 1, 0 - 2^(ShortBits - 1)}
MCDecimals == {[sign |-> 1, mag |-> 0], [sign |-> 0, mag |-> BcdMax]}

MCStatusWords == {{}, {"DE", "PE", "C1", "C2"}}

MCImages ==
  {[env |-> [cw |-> Cw(CW_Exceptions \ {"IE"}, "RND", "64"), sw |-> {"IE", "C1"}, top |-> 1,
             tag |-> [i \in Regs |-> IF i = 2 THEN "Empty" ELSE "Valid"]],
    regs |-> [i \in Regs |-> IF i = 0 THEN DenormalReg ELSE SetSign(CONST_Z, 1)]]}
=============================================================================
