----------------------------- MODULE MCGuestRegs -----------------------------
(* GuestRegs with bytes of three bits and two XMM registers.               *)
EXTENDS GuestRegs

\* All bits clear, all set, and a value whose bytes differ.
MCValues(n) ==
  LET Of(m) == {0, Full(m) - 1, (Full(m) - 1) \div 3 + 1}
  IN  IF n = 16 THEN {[high |-> h, low |-> l] : h, l \in Of(8)} ELSE Of(n)

\* The extremes, and values whose bytes are all different: between a first
\* and a second argument every pair of bytes meets in some lane.
Steps(s, n) ==
  LET D[k \in 0..n] == IF k = 0 THEN 0 ELSE D[k - 1] + ((s + k) % Full(1)) * Full(k - 1) IN D[n]
Extremes(n) == {0, 1, Full(n) \div 2 - 1, Full(n) \div 2, Full(n) - 1}
Starts(arg) == IF arg = 1 THEN {0, 4} ELSE 0..7
Pair(h, l) == [high |-> h, low |-> l]
\* A small one, and one whose upper half gives an estimate that is two too large.
Divisors == {3, Full(8) \div 2 + Full(4) - 1}
MCOperands(n, arg) ==
  CASE n = 1 -> 0..(Full(1) - 1)
    [] n \in {2, 4, 8} -> Extremes(n) \cup {Steps(s, n) : s \in Starts(arg)}
                          \cup (IF arg = 2 /\ n = 8 THEN Divisors ELSE {})
    [] n = 16 -> {Pair(Steps(s + 3, 8), Steps(s, 8)) : s \in Starts(arg)}
                 \cup {Pair(0, 0), Pair(0, Steps(2, 8)), Pair(1, Full(8) - 1), Pair(Full(8) - 1, Full(8) \div 2)}
                 \cup (IF arg = 1 THEN {Pair(h, Full(8) - 2) : h \in {Full(8) \div 2, Steps(6, 8), Full(4)}}
                       ELSE {})

\* Any function of the operation, the size and both operands.
MCFBinOp(op, n, x, y) ==
  (2 * x + 3 * y + CASE op = "FPLUS" -> 1 [] op = "FMINUS" -> 2 [] op = "FTIMES" -> 3 [] op = "FDIVIDE" -> 4)
    % Full(n)
MCSeeds == {1, 5}
=============================================================================
