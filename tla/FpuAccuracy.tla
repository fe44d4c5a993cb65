---------------------------- MODULE FpuAccuracy ----------------------------
(***************************************************************************)
(* The arithmetic of the x87 emulator against exact arithmetic.  A         *)
(* behaviour picks two significands, runs one routine on numbers that have *)
(* them, and stops; the invariants compare its answer and the flags it     *)
(* raised with the exact result, a fraction.  Every exception is masked.   *)
(*                                                                         *)
(*   a, b   the significands                                               *)
(*   op     the operation, with its parameters                             *)
(*   res    what the routine returned                                      *)
(***************************************************************************)
EXTENDS FpuTrig

CONSTANTS
  Sigs,      \* normal significands
  Diffs,     \* differences of the exponents of the operands
  Exps,      \* exponents of products and quotients, from underflow to overflow
  Modes      \* rounding and precision control: [rc, pc, sign]

ASSUME OperandAssumption == Sigs \subseteq {s \in 0..(2^W - 1) : Normal(s)}

VARIABLES a, b, op, res

vars == <<a, b, op, res>>

Init == a \in Sigs /\ b \in Sigs /\ op = [name |-> "none"] /\ res = "none"

\* The emulator with x in st(0) and y in st(1).
Holding(x, y, m) ==
  [cw |-> [mask |-> CW_Exceptions, rc |-> m.rc, pc |-> m.pc], sw |-> {}, top |-> 0,
   internal |-> FALSE, tag |-> [i \in Regs |-> IF i = 0 THEN FPU_tagof(x) ELSE FPU_tagof(y)],
   reg |-> [i \in Regs |-> IF i = 0 THEN x ELSE y]]

Blank(m) == Holding(CONST_1, CONST_1, m)
At(exp, sig) == [exp |-> exp, sig |-> sig]

Step(o, r) == op.name = "none" /\ op' = o /\ res' = r /\ UNCHANGED <<a, b>>

\* Additions and subtractions with an answer near 1.
Add(d, m) ==
  Step([name |-> "add", d |-> d, m |-> m],
       FPU_u_add(Blank(m), At(0, a), At(0 - d, b), Blank(m).cw, m.sign))
Sub(d, m) ==
  /\ d > 0 \/ a > b
  /\ Step([name |-> "sub", d |-> d, m |-> m],
          FPU_u_sub(Blank(m), At(0, a), At(0 - d, b), Blank(m).cw, m.sign))

\* Products and quotients of every size.
Mul(e, m) ==
  Step([name |-> "mul", e |-> e, m |-> m],
       FPU_u_mul(Blank(m), At(e, a), At(0, b), Blank(m).cw, m.sign))
Div(e, m) ==
  Step([name |-> "div", e |-> e, m |-> m],
       FPU_u_div(Blank(m), At(e, a), At(0, b), Blank(m).cw, m.sign))

Number(sign, e, sig) == [sign |-> sign, exp |-> e + EBias, sig |-> sig]

\* The remainders, of st(0) by st(1).
Prem(round, d, m) ==
  Step([name |-> "prem", d |-> d, m |-> m, round |-> round],
       do_fprem(Holding(Number(m.sign, d, a), Number(0, 0, b), m), round))

\* Numbers at the lower end, where one value has several forms.
Forms == {"denormal", "pseudo", "normal"}
Low(form, sign, sig) ==
  [sign |-> sign, exp |-> IF form = "normal" THEN 1 ELSE 0,
   sig |-> IF form = "denormal" THEN sig - TopBit ELSE sig]

Compare(f, g, s, m) ==
  Step([name |-> "com", x |-> Low(f, m.sign, a), y |-> Low(g, s, b)],
       compare_st_st(Holding(Low(f, m.sign, a), Low(g, s, b), m), 1))

\* A number of each exponent stored as a float and as an integer.
StoreReal(f, e, m) ==
  LET x == Number(m.sign, e, a)
  IN  a = b /\ Step([name |-> "fst", f |-> f, e |-> e, m |-> m],
                    StoreFloat(Blank(m), f, x, FPU_tagof(x)))
StoreInteger(w, e, m) ==
  LET x == Number(m.sign, e, a)
  IN  a = b /\ Step([name |-> "fist", w |-> w, e |-> e, m |-> m],
                    StoreInt(Blank(m), w, x, FPU_tagof(x)))

\* A float loaded and stored again.
Copy(f, x, m) ==
  LET ld == LoadFloat(Blank(m), f, x)
  IN  /\ a = b /\ a = TopBit
      /\ Step([name |-> "copy", f |-> f, x |-> x], StoreFloat(ld.st, f, ld.r, ld.tag))

\* The routines whose answer does not depend on the rounding mode run in two,
\* one of each sign.
SignModes == {m \in Modes : m.pc = "53"}
StoreExps(f) == (Emin(f) - Fraction(f) - 2)..(Emax(f) + 1)

Next ==
  \/ \E m \in Modes :
       \/ \E d \in Diffs : Add(d, m) \/ Sub(d, m)
       \/ \E e \in Exps : Mul(e, m) \/ Div(e, m)
       \/ \E f \in {Single, Double} : \E e \in StoreExps(f) : StoreReal(f, e, m)
       \/ \E w \in {ShortBits, H, W}, d \in Diffs : StoreInteger(w, d - 2, m)
  \/ \E m \in SignModes :
       \/ \E d \in Diffs, round \in {"CHOP", "RND"} : Prem(round, d - 2, m)
       \/ \E f, g \in Forms, s \in 0..1 : Compare(f, g, s, m)
       \/ \E f \in {Single, Double} : \E x \in Float(f) : Copy(f, x, m)

Spec == Init /\ [][Next]_vars

----------------------------------------------------------------------------
\* Exact arithmetic: num / den, times 2^k.

Exact(num, den, k) == [num |-> num, den |-> den, k |-> k]

ExactResult ==
  CASE op.name = "add" -> Exact(a * 2^op.d + b, 1, 0 - op.d - (W - 1))
    [] op.name = "sub" -> Exact(a * 2^op.d - b, 1, 0 - op.d - (W - 1))
    [] op.name = "mul" -> Exact(a * b, 1, op.e - 2 * (W - 1))
    [] op.name = "div" -> Exact(a, b, op.e)
    [] op.name \in {"fst", "fist"} -> Exact(a, 1, op.e - (W - 1))

\* x in units of 2^u.
InUnits(x, u) ==
  IF x.k >= u THEN Exact(x.num * 2^(x.k - u), x.den, u) ELSE Exact(x.num, x.den * 2^(u - x.k), u)

\* n units of 2^u compared with x, and how far off it is at most: whether it
\* is the rounding of x that a mode asks for.
Above(n, u, x) == n * InUnits(x, u).den > InUnits(x, u).num
Equal(n, u, x) == n * InUnits(x, u).den = InUnits(x, u).num
Best(n, u, x, m) ==
  LET q == InUnits(x, u)
      err == 2 * (n * q.den - q.num)
      away == (m.rc = "UP" /\ m.sign = 0) \/ (m.rc = "DOWN" /\ m.sign = 1)
  IN  CASE m.rc = "RND" -> /\ 0 - q.den <= err /\ err <= q.den
                           /\ err \in {q.den, 0 - q.den} => n % 2 = 0
        [] m.rc # "RND" /\ away -> 0 <= err /\ err < 2 * q.den
        [] OTHER -> 0 - 2 * q.den < err /\ err <= 0

\* The unit of the last place of a register at the precision of a mode.
Ulp(r, m) == (IF r.exp = 0 THEN EXP_UNDER + 1 ELSE exponent(r)) - (W - 1) + Dropped(m.pc)
Units(r, m) == r.sig \div 2^Dropped(m.pc)
Fits(r, m) == r.sig % 2^Dropped(m.pc) = 0 /\ (Normal(r.sig) \/ r.exp = 0)

Overflowed == "OE" \in res.st.sw
Rounded(ops) == op.name \in ops /\ ~ Overflowed

\* The answer of an operation is the best there is: it has the bits that the
\* precision control leaves, down to the denormals, and no number that has is
\* nearer, or nearer on the side of a directed rounding.
IsBest == Fits(res.r, op.m) /\ Best(Units(res.r, op.m), Ulp(res.r, op.m), ExactResult, op.m)

Basic == {"add", "sub", "mul", "div"}

\* The error of no basic operation exceeds half an lsb.
BestPossible == Rounded(Basic) => IsBest

\* It holds of sums and products, and of the differences of operands whose
\* exponents are not H + 1 apart.
SumsProductsBest ==
  Rounded({"add", "mul", "sub"}) /\ ~ (op.name = "sub" /\ op.d = H + 1) => IsBest

\* The error of every basic operation is less than one lsb, in each mode.
Faithful ==
  Rounded(Basic) =>
    LET x == ExactResult
        u == Ulp(res.r, op.m)
        n == Units(res.r, op.m)
    IN  Fits(res.r, op.m) /\ Above(n + 1, u, x) /\ ~ Above(n - 1, u, x) /\ ~ Equal(n - 1, u, x)

\* SW_Precision tells whether an answer is exact and SW_C1 whether it was
\* rounded away from zero.  The quotients by a divisor of one word are left
\* out: their last remainder is lost.
FlagsTrue ==
  /\ Rounded(Basic)
  /\ ~ (op.name = "sub" /\ op.d = H + 1)
  /\ ~ (op.name = "div" /\ b % 2^H = 0)
  => LET n == Units(res.r, op.m)
         u == Ulp(res.r, op.m)
     IN  /\ "PE" \in res.st.sw <=> ~ Equal(n, u, ExactResult)
         /\ "C1" \in res.st.sw <=> Above(n, u, ExactResult)

----------------------------------------------------------------------------
\* The remainders: st(0), st(1) and the answer in one small unit, the answer
\* negative if its sign is not that of st(0).
Scale == 2^(W + 2)
PremX == IF op.d >= 0 THEN a * 2^op.d * Scale ELSE (a * Scale) \div 2^(0 - op.d)
PremY == b * Scale
PremR == LET r == St0(res)
             mag == (r.sig * 2^(W + 2 + exponent(r)))
         IN  IF r.sig = 0 THEN 0 ELSE IF r.sign = op.m.sign THEN mag ELSE 0 - mag
Complete == "C2" \notin res.sw

\* A completed fprem or fprem1 has no error: the answer is what the truncated
\* or the nearest quotient leaves, and the condition codes are the last three
\* bits of that quotient.
PremNearExact ==
  op.name = "prem" /\ Complete =>
    LET q == (PremX - PremR) \div PremY
    IN  /\ (PremX - PremR) % PremY = 0
        /\ Best(q, 0, Exact(PremX, PremY, 0), [rc |-> op.round, sign |-> 0])
        /\ res.sw = QuotientBits(q)

\* A remainder has no error, also when it is not complete: a multiple of st(1)
\* has been subtracted.
PremExact ==
  op.name = "prem" =>
    (PremX - PremR) % PremY = 0 /\ 0 - PremY < PremR /\ PremR <= PremX

\* What the emulator's README says of its accuracy: "The results of the basic
\* arithmetic functions (+,-,*,/) [...] are the best possible; the error for
\* these never exceeds 1/2 an lsb.  The fprem and fprem1 instructions return
\* exact results; they have no error."
AccuracyClaims == BestPossible /\ PremExact

----------------------------------------------------------------------------
\* The condition codes of a comparison are those of the values, which a
\* denormal, a pseudo-denormal and a normal number may share.
CompareTrue ==
  op.name = "com" =>
    LET Value(r) == IF r.sign = 1 THEN 0 - r.sig ELSE r.sig
        order == CASE Value(op.x) < Value(op.y) -> {"C0"}
                   [] Value(op.x) = Value(op.y) -> {"C3"}
                   [] Value(op.x) > Value(op.y) -> {}
    IN  res.st.sw \cap {"C0", "C2", "C3"} = order

\* What a store of a float writes is the best value of its format, down to its
\* denormals, unless it overflows.
StoresBest ==
  Rounded({"fst"}) =>
    LET out == res.out[1]
        frac == Fraction(op.f)
    IN  IF out.exp = 0 THEN Best(out.frac, Emin(op.f) - frac, ExactResult, op.m)
        ELSE Best(2^frac + out.frac, out.exp - Emax(op.f) - frac, ExactResult, op.m)

\* A store of an integer writes the best integer, or reports that it does not
\* fit and writes the smallest.
IntsBest ==
  op.name = "fist" =>
    LET n == IF res.out[1] < 0 THEN 0 - res.out[1] ELSE res.out[1]
        smallest == 0 - 2^(op.w - 1)
        Fit(k) == Best(k, 0, ExactResult, op.m)
    IN  IF "IE" \in res.st.sw
        THEN /\ res.out = <<smallest>>
             /\ \A k \in 0..(0 - smallest) : Fit(k) => k = 0 - smallest /\ op.m.sign = 0
        ELSE Fit(n) /\ (n # 0 => (res.out[1] < 0 <=> op.m.sign = 1))

\* A float that is loaded and stored again is the same in every bit, and no
\* exception but for a denormal is flagged; a signalling NaN becomes quiet.
CopyExact ==
  op.name = "copy" =>
    LET x == op.x
        quiet == 2^(Fraction(op.f) - 1)
        snan == x.exp = TopExp(op.f) /\ x.frac \in 1..(quiet - 1)
    IN  IF snan THEN res.out = <<[x EXCEPT !.frac = @ + quiet]>> /\ res.st.sw = {"IE"}
        ELSE res.out = <<x>> /\ res.st.sw \subseteq {"DE"}
============================================================================
