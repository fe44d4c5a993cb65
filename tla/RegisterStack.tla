--------------------------- MODULE RegisterStack ---------------------------
(***************************************************************************)
(* What the x87 emulator promises of its register stack, whatever the      *)
(* registers hold.  FpuEmu is shown to implement it.                       *)
(*                                                                         *)
(*   full     the registers that are not empty                             *)
(*   top      the register that is st(0)                                   *)
(*   fault    the stack fault flag                                         *)
(*   control  whether the last step was a control instruction, which sets  *)
(*            the stack as the program says: all others keep to it         *)
(***************************************************************************)
EXTENDS Integers

CONSTANT Size                 \* registers of the stack, 8 in the code

VARIABLES full, top, fault, control

stack == <<full, top, fault, control>>

Slots == 0..(Size - 1)
Below == (top + Size - 1) % Size        \* st(-1), where a push goes
Above == (top + 1) % Size               \* st(1)

Init == full \subseteq Slots /\ top \in Slots /\ fault \in BOOLEAN /\ control = FALSE

----------------------------------------------------------------------------
Fine == fault' = fault
Faults == fault' = TRUE
Now(f, t) == full' = f /\ top' = t

\* A push needs an empty register.
Push == Below \notin full /\ Fine /\ Now(full \cup {Below}, Below)

\* Without one it is a fault: it traps, or the register is overwritten.
Overflow == Below \in full /\ Faults /\ (Now(full, top) \/ Now(full, Below))

\* Up to two pops, of full registers.
Keep == Fine /\ Now(full, top)
Pop == top \in full /\ Fine /\ Now(full \ {top}, Above)
PopTwice == {top, Above} \subseteq full /\ Fine /\ Now(full \ {top, Above}, (Above + 1) % Size)

\* st(0) is stored to another register, and possibly popped.
Store(i) == top \in full /\ Fine /\ (Now(full \cup {i}, top) \/ Now((full \cup {i}) \ {top}, Above))

\* An operand is missing: a fault.  It traps, or up to two registers get an
\* answer in its place, and the instruction pops and pushes as it would.
Underflow ==
  /\ Slots \ full # {}
  /\ Faults
  /\ \/ Now(full, top)
     \/ Now(full \ {top}, Above)
     \/ Now(full \ {top, Above}, (Above + 1) % Size)
     \/ Now(full \cup {top, Below}, Below)
     \/ \E i \in Slots :
          \/ Now(full \cup {i}, top)
          \/ Now(full \cup {i, top}, top)
          \/ Now((full \cup {i}) \ {top}, Above)

Data ==
  /\ control' = FALSE
  /\ Push \/ Overflow \/ Keep \/ Pop \/ PopTwice \/ Underflow \/ \E i \in Slots : Store(i)

Control ==
  /\ control' = TRUE
  /\ full' \subseteq Slots /\ top' \in Slots /\ fault' \in BOOLEAN

Next == Data \/ Control

Spec == Init /\ [][Next]_stack
=============================================================================
