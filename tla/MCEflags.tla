------------------------------ MODULE MCEflags ------------------------------
(* Bytes of 3 bits with all their operands, words of 6 and longs of 12 bits *)
(* with the operands around their boundaries.                               *)
EXTENDS Eflags

Edges(w) == IF w = W8 THEN 0..(2^w - 1)
            ELSE {0, 1, 2^W8, 2^(w - 1) - 1, 2^(w - 1), 2^w - 2, 2^w - 1}
Widths == {W8, W16, W32}
Counts == {0, 1, 2, W8 - 1, W8, W8 + 1, W16 - 1, W16, W16 + 1, W32 - 1, W32, W32 + 1}

Make(op, w, a, b, imm) == [op |-> op, w |-> w, a |-> a, b |-> b, imm |-> imm]

Binary == UNION {{Make(op, w, a, b, TRUE) : a, b \in Edges(w)} :
                 op \in {"add", "adc", "sub", "sbb", "umul", "smul"}, w \in Widths}
Unary == UNION {{Make(op, w, a, 0, TRUE) : a \in Edges(w)} :
                op \in {"inc", "dec", "logic"}, w \in Widths}
CountedInstrs ==
  UNION {{Make(op, w, a, n, imm) : a \in Edges(w), n \in Counts, imm \in BOOLEAN} :
         op \in Counted, w \in Widths}
Popf == {Make("popf", W32, a, 0, TRUE) :
         a \in {calculate_eflags_all(f) : f \in [Flag -> Bits]} \cup Edges(W32)}
Any == Binary \cup Unary \cup CountedInstrs \cup Popf

\* The second half of a computation on two bytes.
Second(i) ==
  LET op == CASE i.op = "add" -> "adc" [] i.op = "sub" -> "sbb" [] i.op = "shl" -> "rcl"
              [] i.op \in {"shr", "sar"} -> "rcr" [] OTHER -> "none"
      b == IF i.op \in {"add", "sub"} THEN Edges(W8) ELSE {1}
      fits == i.w = W8 /\ op # "none" /\ (i.op \in Shifts => i.b = 1)
  IN IF fits THEN {Make(op, W8, a, n, TRUE) : a \in Edges(W8), n \in b} ELSE {}

MCInstrs(d) == IF d = <<>> THEN Any ELSE Second(d[1].instr)
=============================================================================
