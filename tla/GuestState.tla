----------------------------- MODULE GuestState -----------------------------
(***************************************************************************)
(* The registers of the guest as VEX sees them: an array of bytes, in      *)
(* which a PUT writes and a GET reads the bytes of its type at its offset, *)
(* and PUTI and GETI those of an element of a circular array.  GuestRegs   *)
(* is the program's version, with one variable for each register.          *)
(*                                                                         *)
(*   guest   the bytes                                                     *)
(*   stmt    the statement last executed                                   *)
(***************************************************************************)
EXTENDS Naturals, Sequences

CONSTANTS
  Size,            \* bytes of the guest state
  FTop,            \* offset of the register that indexes the circular arrays
  Extended(_, _),  \* the bytes that a write of n bytes at an offset clears
  Means(_, _, _)   \* operator, arguments, result: what VEX's operators do

VARIABLES guest, stmt

Read(g, off, n) == [k \in 1..n |-> g[off + k - 1]]

Written(g, off, data) ==
  [o \in 0..(Size - 1) |->
     IF o \in off..(off + Len(data) - 1) THEN data[o - off + 1]
     ELSE IF o \in Extended(off, Len(data)) THEN 0 ELSE g[o]]

\* The element of array d that an index expression of FTOP + bias selects.
Element(g, d, bias) == d.base + ((g[FTop] + bias) % d.elems) * d.size

Effect(g, s) ==
  CASE s.op = "put"  -> Written(g, s.off, s.data)
    [] s.op = "move" -> Written(g, s.off, Read(g, s.from, s.n))
    [] s.op = "puti" -> Written(g, Element(g, s.array, s.bias), s.data)
    [] s.op = "geti" -> Written(g, s.off, Read(g, Element(g, s.array, s.bias), s.array.size))

\* A bit is extended before it is written.
Yields(s, r) ==
  IF s.extend = <<>> THEN Means(s.what, s.args, r)
  ELSE \E b \in {0, 1} : Means(s.what, s.args, <<b>>) /\ Means(s.extend[1], <<<<b>>>>, r)

\* The only bytes that change are those of the result.
Computed(g, s, g2) ==
  LET r == Read(g2, s.off, s.n) IN g2 = Written(g, s.off, r) /\ Yields(s, r)

Init == stmt = [op |-> "none"]
Next == IF stmt'.op = "compute" THEN Computed(guest, stmt', guest')
        ELSE guest' = Effect(guest, stmt')
Spec == Init /\ [][Next]_<<guest, stmt>>
=============================================================================
