------------------------------ MODULE GuestRegs ------------------------------
(***************************************************************************)
(* How libasmir reads and writes the guest's x86 registers: the            *)
(* translation of GET, PUT, GETI and PUTI (irtoir-i386.cpp), with the      *)
(* meaning that Vine gives the casts, masks and shifts it emits, and with  *)
(* the operators of VexExprs applied to what is written.                   *)
(*                                                                         *)
(*   regs    the value of every Vine variable R_<name>                     *)
(*   stmt    the VEX statement last executed                               *)
(*                                                                         *)
(* One register of each kind stands for its like: EAX for the four with    *)
(* byte parts, ESP for the four without, CS for the segment registers and  *)
(* EIP for the other 32-bit ones.                                          *)
(***************************************************************************)
EXTENDS VexExprs

CONSTANTS
  XMMs,       \* XMM registers
  Seeds, Tops,   \* initial contents, see Init
  Values(_),  \* constants that are written, of so many bytes
  Operands(_, _),   \* first, second, third arguments of operators, of so many bytes
  Masks,      \* masks of 128-bit constants
  MaxStmts    \* bound on the statements of a behaviour

ASSUME RegsAssumption == XMMs \in Nat \ {0} /\ MaxStmts \in Nat

VARIABLES regs, stmt, stmts

vars == <<regs, stmt, stmts>>

----------------------------------------------------------------------------
\* Names and places.  A name is a kind and a number.

OFFB_EAX == 0
OFFB_ESP == 4
OFFB_EIP == 8
OFFB_CC_DEP1 == 12
OFFB_FTOP == 16
OFFB_CS == 20
OFFB_LDT == 24
OFFB_FPTAG(i) == 32 + i
OFFB_FPREG(i) == 40 + 8 * i
OFFB_XMM(i) == 104 + 16 * i
OFFB_END == OFFB_XMM(XMMs)

Down(off, n) == off - (off % n)      \* offset & ~(n - 1)
Named(name) == <<name, 0>>
FPs == 0..7
InXmm(off) == off \in OFFB_XMM(0)..(OFFB_END - 1)

\* The 64-bit half of an XMM register at off.
xmm_regname(off) == <<IF (off - OFFB_XMM(0)) % 16 = 0 THEN "XMML" ELSE "XMMH",
                      (off - OFFB_XMM(0)) \div 16>>

Word32 == {"EAX", "ESP", "EIP", "CC_DEP1", "FTOP", "LDT"}

reg_offset_to_name(off) ==
  CASE off = OFFB_EAX -> "EAX" [] off = OFFB_ESP -> "ESP" [] off = OFFB_EIP -> "EIP"
    [] off = OFFB_CC_DEP1 -> "CC_DEP1" [] off = OFFB_FTOP -> "FTOP" [] off = OFFB_LDT -> "LDT"

Word32Offsets == {OFFB_EAX, OFFB_ESP, OFFB_EIP, OFFB_CC_DEP1, OFFB_FTOP, OFFB_LDT}

\* The Vine variables (x86_regs of asmir.ml) and their bytes.
Decls ==
  [name \in {Named(w) : w \in Word32} \cup {Named("CS")}
            \cup ({"FPTAG", "FPREG"} \X FPs) \cup ({"XMML", "XMMH"} \X (0..(XMMs - 1))) |->
     CASE name[1] \in Word32 -> 4 [] name[1] = "CS" -> 2 [] name[1] = "FPTAG" -> 1
       [] name[1] \in {"FPREG", "XMML", "XMMH"} -> 8]

----------------------------------------------------------------------------
Set(reg, v) == [regs EXCEPT ![reg] = v]

----------------------------------------------------------------------------
\* GET

lo8(x) == Lo(1, x)
hi8(m, x) == Hi(m, 1, x)

\* A byte of a 64-bit half.
Lane8(x, lane) ==
  CASE lane = 0 -> lo8(x)
    [] lane = 1 -> hi8(2, Lo(2, x))
    [] lane = 2 -> lo8(Hi(4, 2, Lo(4, x)))
    [] lane = 3 -> hi8(4, Lo(4, x))
    [] lane = 4 -> lo8(Hi(8, 4, x))
    [] lane = 5 -> hi8(2, Lo(2, Hi(8, 4, x)))
    [] lane = 6 -> lo8(Hi(8, 2, x))
    [] lane = 7 -> hi8(8, x)

translate_get_reg_8(off) ==
  IF InXmm(off) THEN Lane8(regs[xmm_regname(Down(off, 8))], off % 8)
  ELSE IF off \in OFFB_FPTAG(0)..OFFB_FPTAG(7) THEN regs[<<"FPTAG", off - OFFB_FPTAG(0)>>]
  ELSE IF off = OFFB_EAX THEN lo8(regs[Named("EAX")])
  ELSE hi8(2, Lo(2, regs[Named("EAX")]))

translate_get_reg_16(off) ==
  IF InXmm(off)
  THEN LET x == regs[xmm_regname(Down(off, 8))]
       IN  CASE off % 8 = 0 -> Lo(2, x)
             [] off % 8 = 2 -> Hi(4, 2, Lo(4, x))
             [] off % 8 = 4 -> Lo(2, Hi(8, 4, x))
             [] off % 8 = 6 -> Hi(8, 2, x)
  ELSE IF off = OFFB_CS THEN regs[Named("CS")]
  ELSE Lo(2, regs[Named(reg_offset_to_name(off))])

translate_get_reg_32(off) ==
  IF InXmm(off)
  THEN LET x == regs[xmm_regname(Down(off, 8))]
       IN  IF off % 8 = 0 THEN Lo(4, x) ELSE Hi(8, 4, x)
  ELSE regs[Named(reg_offset_to_name(off))]

Name64(off) == IF InXmm(off) THEN xmm_regname(off) ELSE <<"FPREG", (off - OFFB_FPREG(0)) \div 8>>
translate_get_reg_64(off) == regs[Name64(off)]

\* The two 64-bit halves, as a Vector.
translate_get_reg_128(off) ==
  [high |-> regs[xmm_regname(off + 8)], low |-> regs[xmm_regname(off)]]

\* On a 64-bit host VEX reads LDT and GDT with 64 bits.
i386_translate_get(off, n) ==
  CASE n = 1 -> translate_get_reg_8(off)
    [] n = 2 -> translate_get_reg_16(off)
    [] n = 4 -> translate_get_reg_32(off)
    [] n = 8 /\ off = OFFB_LDT -> translate_get_reg_32(off)
    [] n = 8 /\ off # OFFB_LDT -> translate_get_reg_64(off)
    [] n = 16 -> translate_get_reg_128(off)

----------------------------------------------------------------------------
\* PUT

\* Fault: the lowest bytes are masked out wherever the new ones go.
Insert_LowMask(x, m, k, n, data) == Mask(x, 0, n) + Shl(data, k, m)

\* The n bytes from byte k on, of m, replaced: keep and change.
Insert(x, m, k, n, data) == Mask(x, k, n) + Shl(data, k, m)

\* A byte of a register; the one of the flag thunk is extended.
translate_put_reg_8(off, data) ==
  IF InXmm(off)
  THEN LET reg == xmm_regname(Down(off, 8))
       IN  Set(reg, Insert(regs[reg], 8, off % 8, 1, data))
  ELSE IF off \in OFFB_FPTAG(0)..OFFB_FPTAG(7)
  THEN Set(<<"FPTAG", off - OFFB_FPTAG(0)>>, data)
  ELSE IF off = OFFB_CC_DEP1 THEN Set(Named("CC_DEP1"), data)
  ELSE LET x == regs[Named("EAX")]
       IN  Set(Named("EAX"), Insert(x, 4, off - OFFB_EAX, 1, data))

translate_put_reg_16(off, data) ==
  IF InXmm(off)
  THEN LET reg == xmm_regname(Down(off, 8))
       IN  Set(reg, Insert(regs[reg], 8, off % 8, 2, data))
  ELSE IF off = OFFB_CS THEN Set(Named("CS"), data)
  ELSE IF off = OFFB_CC_DEP1 THEN Set(Named("CC_DEP1"), data)
  ELSE LET reg == Named(reg_offset_to_name(off))
       IN  Set(reg, Insert(regs[reg], 4, 0, 2, data))

assemble64(high, low) == Shl(high, 4, 8) + low

translate_put_reg_32(off, data) ==
  IF InXmm(off)
  THEN LET reg == xmm_regname(Down(off, 8))
           old == regs[reg]
       IN  Set(reg, IF off % 8 = 0 THEN assemble64(Hi(8, 4, old), data)
                    ELSE assemble64(data, Lo(4, old)))
  ELSE Set(Named(reg_offset_to_name(off)), data)

translate_put_reg_64(off, data) == Set(Name64(off), data)

translate_put_reg_128(off, data) ==
  [regs EXCEPT ![xmm_regname(off + 8)] = data.high, ![xmm_regname(off)] = data.low]

i386_translate_put(off, n, data) ==
  CASE n = 1 -> translate_put_reg_8(off, data)
    [] n = 2 -> translate_put_reg_16(off, data)
    [] n = 4 -> translate_put_reg_32(off, data)
    [] n = 8 -> translate_put_reg_64(off, data)
    [] n = 16 -> translate_put_reg_128(off, data)

----------------------------------------------------------------------------
\* GETI and PUTI: the x87 registers and their tags, indexed from FTOP.

FPTAGS == [base |-> OFFB_FPTAG(0), size |-> 1, elems |-> 8]
FPREGS == [base |-> OFFB_FPREG(0), size |-> 8, elems |-> 8]

Index(a, bias) == (regs[Named("FTOP")] + bias) % a.elems

\* A tree of choices on the three bits of the index.
i386_translate_geti(a, bias) ==
  LET get(i) == IF a.size = 1 THEN translate_get_reg_8(a.base + i) ELSE translate_get_reg_64(a.base + 8 * i)
      ix == Index(a, bias)
      Bit(k) == (ix \div 2^k) % 2 = 1
      Pair(i) == IF Bit(0) THEN get(i + 1) ELSE get(i)
      Four(i) == IF Bit(1) THEN Pair(i + 2) ELSE Pair(i)
  IN  IF Bit(2) THEN Four(4) ELSE Four(0)

\* Every element is written, with its old value where the index differs.
i386_translate_puti(a, bias, data) ==
  [r \in DOMAIN regs |->
     IF r[1] = (IF a.size = 1 THEN "FPTAG" ELSE "FPREG") /\ r[2] = Index(a, bias)
     THEN data ELSE regs[r]]

----------------------------------------------------------------------------
\* The accesses of n bytes that VEX makes; of the flag thunk and of LDT they
\* are not the same for GET and PUT.
Aligned(n) == {o \in OFFB_XMM(0)..(OFFB_END - 1) : o % n = 0 /\ o + n =< OFFB_END}
Gets(n) ==
  CASE n = 1 -> {OFFB_EAX, OFFB_EAX + 1} \cup {OFFB_FPTAG(i) : i \in FPs} \cup Aligned(1)
    [] n = 2 -> {OFFB_EAX, OFFB_ESP, OFFB_CS} \cup Aligned(2)
    [] n = 4 -> Word32Offsets \cup Aligned(4)
    [] n = 8 -> {OFFB_LDT} \cup {OFFB_FPREG(i) : i \in FPs} \cup Aligned(8)
    [] n = 16 -> {OFFB_XMM(i) : i \in 0..(XMMs - 1)}
Puts(n) == IF n =< 2 THEN Gets(n) \cup {OFFB_CC_DEP1} ELSE Gets(n) \ (IF n = 8 THEN {OFFB_LDT} ELSE {})
Sizes == {1, 2, 4, 8, 16}

\* The n bytes of a value, the lowest first.
Bytes(x, n) ==
  [k \in 1..n |-> IF n = 16 THEN ((IF k > 8 THEN x.high ELSE x.low) \div Full((k - 1) % 8)) % Full(1)
                  ELSE (x \div Full(k - 1)) % Full(1)]

Execute(s, r) ==
  /\ stmts' = stmts + 1
  /\ stmt' = s /\ regs' = r

Put(off, n, x) ==
  Execute([op |-> "put", off |-> off, data |-> Bytes(x, n)], i386_translate_put(off, n, x))

\* PUT(off) = GET(from): what a move, a push of a register, a swap is made of.
Move(off, from, n) ==
  Execute([op |-> "move", off |-> off, from |-> from, n |-> n],
          i386_translate_put(off, n, i386_translate_get(from, n)))

PutI(a, bias, x) ==
  Execute([op |-> "puti", array |-> a, bias |-> bias, data |-> Bytes(x, a.size)],
          i386_translate_puti(a, bias, x))

GetI(off, a, bias) ==
  Execute([op |-> "geti", off |-> off, array |-> a, bias |-> bias],
          i386_translate_put(off, a.size, i386_translate_geti(a, bias)))

\* The arguments of operator o: no divisor is zero.
Counts(o) == IF o.op \in DOMAIN Shift \cup DOMAIN ShiftN THEN 0..(Bits(o.lane) - 1)
             ELSE IF o.op = "V128" THEN Masks ELSE {0, 1}
ArgValues(o, k) ==
  IF o.args[k] = 0 THEN Counts(o)
  ELSE Operands(o.args[k], k) \ (IF k = 2 /\ o.op \in {"DivU", "DivS", "DivModU", "DivModS"} THEN {0} ELSE {})
Arguments(o) ==
  CASE Len(o.args) = 1 -> {<<x>> : x \in ArgValues(o, 1)}
    [] Len(o.args) = 2 -> ArgValues(o, 1) \X ArgValues(o, 2)
    [] Len(o.args) = 3 -> ArgValues(o, 1) \X ArgValues(o, 2) \X ArgValues(o, 3)
ArgBytes(o, a) == [k \in DOMAIN a |-> IF o.args[k] = 0 THEN <<a[k]>> ELSE Bytes(a[k], o.args[k])]

\* How a bit is written: 1Uto8, 1Sto32 and the like.
Extensions(o) ==
  IF o.res = 0 THEN {<<e>> : e \in {u \in Unops : u.op \in {"Uto", "Sto"} /\ u.args = <<0>>}} ELSE {<<>>}

\* PUT(XMM0) = o(a).
Compute(o, a, e) ==
  LET n == IF e = <<>> THEN o.res ELSE e[1].res
      r == translate_expr(o, a)
      off == OFFB_XMM(0)
  IN  Execute([op |-> "compute", off |-> off, n |-> n, what |-> o, args |-> ArgBytes(o, a), extend |-> e],
              i386_translate_put(off, n, IF e = <<>> THEN r ELSE translate_expr(e[1], <<r>>)))

\* Every byte holds a number of its own place, and FTOP one element.
Init ==
  /\ \E seed \in Seeds, top \in Tops :
       regs = [r \in DOMAIN Decls |->
                 LET Digit[k \in 0..8] ==
                       IF k = 0 THEN 0
                       ELSE Digit[k - 1] + ((seed * (k + 3 * r[2]) + seed) % Full(1)) * Full(k - 1)
                 IN  IF r = Named("FTOP") THEN top ELSE Digit[Decls[r]]]
  /\ stmt = [op |-> "none"] /\ stmts = 0

Next ==
  /\ stmts < MaxStmts
  /\ \/ \E n \in Sizes : \E off \in Puts(n) : \E x \in Values(n) : Put(off, n, x)
     \/ \E n \in Sizes : \E off \in Puts(n), from \in Gets(n) : Move(off, from, n)
     \/ \E a \in {FPTAGS, FPREGS}, bias \in FPs : \E x \in Values(a.size) : PutI(a, bias, x)
     \/ \E a \in {FPTAGS, FPREGS}, bias \in FPs : \E off \in Puts(a.size) : GetI(off, a, bias)
     \/ \E o \in Operators : \E a \in Arguments(o), e \in Extensions(o) : Compute(o, a, e)

Spec == Init /\ [][Next]_vars

----------------------------------------------------------------------------
\* The byte of the guest state at off: of the register that lies there, zero
\* where none does and in the upper half of LDT.
ByteAt(off) ==
  LET Part(reg, base) == (regs[reg] \div Full(off - base)) % Full(1)
  IN  IF InXmm(off) THEN Part(xmm_regname(Down(off, 8)), Down(off, 8))
      ELSE IF off >= OFFB_FPREG(0) THEN Part(Name64(Down(off, 8)), Down(off, 8))
      ELSE IF off >= OFFB_FPTAG(0) THEN regs[<<"FPTAG", off - OFFB_FPTAG(0)>>]
      ELSE IF off \in OFFB_CS..(OFFB_CS + 1) THEN Part(Named("CS"), OFFB_CS)
      ELSE IF Down(off, 4) \in Word32Offsets
      THEN Part(Named(reg_offset_to_name(Down(off, 4))), Down(off, 4))
      ELSE 0

Thunk(off, n) == IF off = OFFB_CC_DEP1 THEN (OFFB_CC_DEP1 + n)..(OFFB_CC_DEP1 + 3) ELSE {}

Meaning == INSTANCE VexMeaning WITH W <- BYTE, FOp <- FBinOp
Holds(o, a, r) == Meaning!Means(o, a, r)

Array == INSTANCE GuestState WITH
  Means <- Holds,
  Size <- OFFB_END,
  FTop <- OFFB_FTOP,
  Extended <- Thunk,
  guest <- [off \in 0..(OFFB_END - 1) |-> ByteAt(off)]

\* Reads and writes of parts of registers do what they do in VEX's array of
\* bytes: a part that is written is what any overlapping access reads, no
\* other byte changes, a circular index finds the element it names, and what
\* an operator of VEX computes is what is found there afterwards (but for the
\* cases in VexMeaning's Undefined, where the code is wrong: signed saturation,
\* the signed 64-bit product of negative operands, and some more).
ActsAsBytes == Array!Spec
=============================================================================
