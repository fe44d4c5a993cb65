# A TLA+ model of FuzzBALL

FuzzBALL executes a binary symbolically, again and again from one snapshot. Each
execution follows one path; a decision tree that survives between executions
remembers which branch directions were taken, refused by the solver or
exhausted, so that no path is followed twice and the tool knows when it is done.
What an instruction does is not interpreted from its bytes: libasmir has VEX
decode it and translates VEX's statements into Vine IR, and floating point
instructions may be redirected to an x87 emulator that runs as guest code.

The specifications cover three layers, written from their sources:

1. path exploration: the tree, the path condition and the solver context that
   mirrors it, the counterexample caches and the loop (`src/execution/*.ml`);
2. the meaning libasmir gives to x86: flags, guest registers and VEX's operators
   (`src/libasmir/src/vex/irtoir*.cpp`);
3. the x87 emulator (`src/extras/x87-emu`).

## The system's parts

| part | source | state | operations |
|---|---|---|---|
| decision tree | `binary_decision_tree.ml` | node table (in memory or in a file), `cur`, `cur_query`, `cur_heur`, `best_heur` | `try_extend`, `extend`, `add_kid`, `record_unsat`, `start_new_query`, `count_query`, `mark_all_seen_node`, `set_heur`, `reset` |
| path condition | `sym_path_frag_machine.ml` | `path_cond`, `var_seen_hash` | `add_to_path_cond`, `restore_path_cond`, `query_with_path_cond`, `query_unique_value`, `extend_pc_*`, `finish_path`, `reset` |
| counterexample caches | `sym_path_frag_machine.ml` | `working_ce_cache` (this path), `global_ce_cache` (all paths, with use counts) | fill, filter, lookup, add, prune |
| query engines | `query_engine.ml`, `stpvc_engine.ml`, `smtlib_*_engine.ml`, `stp_external_engine.ml` | declarations, conditions, context stack, or a solver process with frames | `push`, `pop`, `add_decl`, `add_condition`, `query`, `reset` |
| concretization | `sym_region_frag_machine.ml` | region table, `concrete_cache`, `used_addr_cache` | bit-by-bit choice of a value, `concretize_once_*`, target scores |
| exploration loop | `exec_fuzzloop.ml`, `exec_assert_minder.ml` | iteration, weirdness count | run a path, end it by exit or exception, `finish_path`, `reset` |
| x86 flags | `irtoir-i386.cpp` | six flag registers; VEX's thunk `CC_OP`, `CC_DEP1`, `CC_DEP2`, `CC_NDEP` | `i386_modify_flags`, `mod_eflags_*`, `i386_translate_ccall` |
| guest registers | `irtoir-i386.cpp` | one Vine variable per register | `i386_translate_get`, `_put`, `_geti`, `_puti` |
| VEX operators | `irtoir.cpp` | none | `translate_unop`, `_binop`, `_triop`, `_mux0x` and their helpers |
| x87 emulator | `x87-emu/*` | control and status word, top of stack, tag word, eight registers | every x87 instruction |
| everything else | see `PROJECT.json` | | formula manager, memory, syscalls, loaders, veritesting, influence, Vine |

How they interact. Interpreting a branch (`eval_cjmp`) or a symbolic address
(`eval_addr_exp`, `concretize`) calls `extend_pc_random`, which asks the tree
(`try_extend`) which direction to take; the tree calls back into
`query_with_path_cond` for a direction it does not know; the answer comes from
the path condition itself (`quick_check_in_path_cond`), from the working cache
or from the engine; the tree records it, and the machine adds the condition to
`path_cond` and to the engine. A multi-way choice (a concrete value for an
address) is bracketed in the tree by `start_new_query`/`count_query` and in the
path condition by `restore_path_cond`, followed by one equation. At the end of
a path `finish_path` marks the tree and asks `try_again_p`. Below this, the
branch conditions come from Vine code in which a flag was computed by
`i386_modify_flags` from a thunk, from registers assembled out of masks and
shifts, and from operators spelt out in the widths Vine has.

What is hard. There is one thread, but:

* the exploration's state is spread over copies that are updated at different
  times: `cur` and `cur_query` are decoded copies of table records and each write
  replaces a whole record; the solver's frames, `path_cond` and `var_seen_hash`
  are pushed and popped by hand; a `SolverFailure`, `DeepPath` or a signal
  unwinds out of the middle of these operations; facts learnt on one path are
  used on later ones; limits (depth, branches of a choice, cache size, the 16-bit
  count) cut operations short;
* the emulator keeps tags apart from contents and the summary bit apart from
  flags and masks, may trap after it has changed something, and works with
  carries, sticky bits and two exponent ranges that only rare operands reach;
* the translation computes narrow flags in wide arithmetic, finds the thunk by
  matching statements, and composes values of 64 and 128 bits out of pieces.

The hazards are listed with their lines in `PROJECT.json`.

## Modules

### Path exploration

* `DecisionTree` - the tree, with the loop and the program around it. A node is
  named by its history. `store` is the node table, `curRec`/`qryRec` the records
  in `cur` and `cur_query`, kept apart from the table exactly as long as the code
  keeps them apart. `Stored` is the round trip through the table's encoding
  (16-bit count). `pc` is where the single thread is, and `todo` the pending
  calls of `mark_all_seen_node`'s recursion. `weird` counts failed `g_assert`s:
  each costs 100, the limit is 100, so one is survived and two are not. The
  program (`prog`) and the feasible directions (`feas`) are chosen when first met
  and then fixed.
  An operation is one step here. The exceptions that the code itself raises inside
  one, `SolverFailure` between the two questions of `try_extend` and `DeepPath` at its
  end, are branches of the step; `SolverFailure` in a query that decides no branch comes
  between two operations (`OtherQueryFails`; `exec_influence.ml:149` raises it under
  `-timeout-as-unsat` too).
* `TreeWrites` - the same tree with the operations that write several records taken
  write by write, and signals (`exec_fuzzloop.ml:135`) between any two writes.
  `frames` is the recursion of `finish_internal_nodes`: each call works on a copy of
  its node, fetched on the way down (`Called`), writes it back whole when it closes a
  direction (`FinishDirection`) and marks it when it returns (`FinishNode`); the climb
  of the marking (`ClimbMark`, `LookAtQuery`) runs in between on fresh copies, so a
  copy further up the stack can be older than the table. `climb` is where
  `propagate_heur` has got to. A signal is an exception: it drops the calls in progress
  and leaves what they have written. `Signal` comes between two steps; `SignalInTryExtend`,
  `SignalInCountQuery` and `SignalInCheck` come inside those that are one step here
  although they write more than once. SIGUSR1 inside `fuzz_runloop` ends the path;
  there or elsewhere the others (but SIGUSR2, which prints statistics) end the exploration.
* `PathEnumeration` - what the loop promises, without the bookkeeping: ends of
  paths are pairwise incomparable histories, none of them continues a pruned
  one, and it stops only when every history is accounted for.
* `MCDecisionTree` - the refinement mapping to `PathEnumeration`: `pruned` is what
  the solver refused or the branch limit cut off.
* `MCTreeWrites` - the refinement mapping from `TreeWrites` to `DecisionTree`
  (`Implements`): an operation in progress has not happened yet, and when it returns
  its writes must come to the one step of `DecisionTree`, `FinishInternalNodes` and
  `PropagateHeur` among them. The history variable `called` remembers the state in
  which the operation was called.
* `PathCondition` - path condition, engine, caches. Assignments are members of
  `Inputs`, a predicate is the set of assignments that satisfy it, a condition a
  conjunction of literals; so the feasibility of a path is a set that the
  properties can compare with what the program believes. `eng` is what the
  solver has been told, `ctx_stack` the saved contexts, `saved` the locals of the
  `restore_path_cond` calls on the OCaml stack (lost when an exception unwinds
  it). `Incremental` chooses between the engine that keeps a solver process
  (a failed query stays asserted until its frame is popped, `reset` starts a new
  process) and those that keep lists (`reset` does not clear their stack). The
  tree is reduced to the status of each direction; which open direction is tried
  and which is exhausted is free, so every behaviour of `DecisionTree` is
  allowed.
* `MCPathCondition` - two one-bit variables, three predicates (one of which
  follows from another), sets of program behaviours, and two solvers: one that
  may give any model, and one that always gives the same model to the same
  question.
* `DecisionTreeProofs`, `TreeWritesProofs`, `ExplorationProofs`, `EnumerationProofs`,
  `PathConditionProofs`, `PathSoundProofs` - theorems checked by TLAPS, see "Theorems".

### Translation of x86

* `X86Flags` - what the architecture says of the six arithmetic flags, in terms of
  integers. An instruction defines a flag, keeps it or leaves it undefined.
* `Eflags` - `i386_modify_flags` with every `mod_eflags_*` function, and the
  helper calls that read flags, as expressions over words of `W8`, `W16` and `W32`
  bits. `flags` are the flag registers, `done` the instructions so far with their
  results. A step is one instruction: VEX's thunk (external), the flag code
  appended to it, the condition VEX put around it. It implements `X86Flags`
  (`FollowsX86`).
* `GuestState` - the guest state as VEX sees it: an array of bytes.
* `GuestRegs` - GET, PUT, GETI and PUTI as libasmir translates them, on one Vine
  variable per register (`regs`); one register of each kind stands for its like.
  The action `Compute` writes the value of any VEX operator. It implements
  `GuestState` (`ActsAsBytes`).
* `VexOps`, `VexExprs` - Vine's arithmetic, the helpers of `irtoir.cpp`, and the
  table of VEX operators with the translation of each.
* `VexMeaning` - what each operator means, on sequences of bytes: per lane, bit by
  bit, or by the equation the result solves. `Undefined` lists the cases in which
  a result is not prescribed; see "Observations".

### x87 emulator

* `FpuRegs` - the emulator's state as one record `st` (control word, status flags,
  `top`, tags, registers, whether EX_INTERNAL was raised), exceptions with their
  masked and unmasked responses, shifts and normalisation. The format is scaled:
  `H` bits to a machine word (32), `E` bits of exponent (15), `Drop53` and `Drop24`
  bits dropped by the two narrower precisions, `NRegs` registers (8).
* `FpuArith` - rounding, the unsigned kernels with the bits their assembly keeps,
  special operands, comparisons.
* `FpuLoadStore` - conversions from and to memory formats, environments and images.
* `FpuTrig` - `fpu_trig.c`: remainders, scaling, square root, transcendental
  functions. What a polynomial comes to is a parameter.
* `FpuEmu` - the machine: `fpu`, the last instruction `insn`, what it wrote to
  memory `out`; one action per instruction, `math_emulate`'s tests first.
* `RegisterStack` - the stack discipline whatever the registers hold: a push into
  a full register and a use of an empty one fault, an instruction that faults
  unmasked moves nothing. `FpuEmu` implements it (`KeepsStack`).
* `FpuAccuracy` - routines run on two significands and compared with exact
  fractions.
* `FpuRoutineProofs`, `FpuStackProofs` - theorems about the machine, routine by
  routine and instruction by instruction.

The MC modules give the constants their values. Definitions named `X_Something`
next to a definition `X` are faulty variants of it ("Fault: ..."), used to see
that the properties notice.

### Abstractions

* Idents of nodes, the file-backed table, tracing and statistics are left out.
* The check of `eip_loc` is left out: the modelled program is deterministic.
* `start_new_query`/`count_query` with no decision in between changes nothing in
  the tree and is not a step. `start_new_query_binary` and
  `try_extend_memoryless` are not modelled.
* The preferred direction (`follow_or_random`, `heur_preference`) is a free choice.
* The working cache is a set: the code takes the first hit of a list, the model
  any hit.
* The end of a nested `restore_path_cond` and of the one around it is one step:
  nothing happens between them in the code. `query_valid` (a query inside a
  `restore_path_cond` of its own) is not modelled.
* A variable that an assignment does not mention reads as zero, so an assignment
  is total.
* `-single-weirdness-threshold` has its default: the penalty of 100 is not above it.
* x87 opcodes are decoded and operands in memory are values. The kernels are
  written from the assembly as built: C with PARANOID, assembly without,
  PECULIAR_486 defined, KERNEL not, `default_mode` 0. `rem_kernel`'s inline
  assembly declares its in-out operand as "=m"; what it is meant to do is modelled.
  The Newton iterations of `wm_sqrt` are the integer root they converge to.
* Vine's floating point is an uninterpreted function of two operands: which lanes it
  is applied to is modelled.

## Runs

Passing runs:

| run | states | question |
|---|---|---|
| `tree_all_paths` | 28,932 | With a solver that may fail at any branch query and `-nonfatal-solver`: does the loop end (`Termination`), having followed each feasible path (`Complete`) once (`DifferentPaths`), with no assertion failing, and does it implement `PathEnumeration`? Do score ranges nest after each whole operation (`HeurRangesNest`)? |
| `tree_branch_limit` | 210,634 | With `-query-branch-limit` cutting choices short, `-concolic-prob` pretending a direction after timeouts at the first branch, and other queries that fail and end the exploration: does all_seen mean an exhausted subtree (`AllSeenSubtree`), are the counts exact (`CountsExact`), is `PathEnumeration` still implemented? |
| `tree_signals` | 815,721 | Write by write, with a signal between any two writes, scores, timeouts, directions pretended by `-concolic-prob` and a branch limit of 1: while no assertion has failed, does a write from an older copy of a node undo a fact in the table, the marks overwritten inside `finish_internal_nodes` aside (`NoLostUpdate`)? Do the writes of an operation come to the one step of `DecisionTree` (`Implements`)? |
| `pathcond_choosing` | 1,139,059 | Bit-by-bit choice in nested `restore_path_cond` calls, uniqueness queries, failures that skip pops, an engine with its own stack, a cache of one entry: is the solver asked the path condition and nothing else (`AsksPathCondition`), are variables declared once, is the path condition that of the decisions, is the tree right? |
| `pathcond_timeouts` | 560,174 | Incremental solver, `-timeout-as-unsat`, `-solve-final-pc`, an extra condition, addresses fixed from assignments: what the tree calls satisfiable is (`SatIsReal`), and the caches stay in bounds. |
| `fpu_machine` | 175,979 | Every instruction from every register file over twelve kinds of contents: do tags that fit the contents stay so (`TagsStay`), does no internal error arise (`NoInternalRaised`), does the summary bit fit flags and masks, are operands kept by a trap, are flags sticky, is the stack discipline kept (`KeepsStack`), do no unsupported formats come out (`NoneGenerated`), does frstor restore what fsave wrote? |
| `fpu_accuracy` | 208,512 | Which results are the best possible, which are within one unit, are the precision flag and C1 true, are comparisons, stores and near remainders those of exact arithmetic? |
| `eflags` | 90,662 | From any flags, after any instruction: are the six flags the architecture's, do the sixteen conditions hold when the comparison does (`ConditionsTrue`), do two-word additions, subtractions and shifts come out right (`WideArithmetic`)? |
| `guest_registers` | 116,688 | Is any access to a part of a register an access to those bytes, and is the translation of any VEX operator what it means? |

Fairness: weak fairness of the next-state relation in `tree_all_paths`, that is,
the one thread keeps running and solver calls return (the engines have timeouts).

Runs that show a disagreement between the code and its comments or documents
(quotations under "findings" in `PROJECT.json`):

| run | shows |
|---|---|
| `tree_interrupt_marks` | a path ended by a solver failure in a query that decides no branch, at a node with live kids, marks the node all_seen |
| `pathcond_once_again` | an address fixed from a cached assignment differs on re-execution |
| `fpu_accuracy_claims` | some quotients and differences are misrounded, and fprem of far apart operands is not exact |

### Bounds

* Tree: histories of up to `PathDepthLimit + 1` decisions. With depth limit 1 there
  are two levels, so a multi-way choice can contain an inner node, a query can follow
  a query and `DeepPath` happens; `tree_branch_limit` uses three levels, with at most
  one branching node (`MaxBranchings`) and timeouts at the first branch
  (`FailureDepths`), which makes up to three ways, so that a choice is cut in its middle
  with a live query below. In the other tree runs the solver may fail at any branch. `CountModulus` is 65536. `tree_signals` has two levels, two branching
  nodes and one signal (`MaxSignals`): a choice with an inner node is enough for
  `finish_internal_nodes` to hold a stale copy, and one signal for an operation to be
  left half done while the paths after it run on. The theorem about `TreeWrites` has
  neither bound.
* Path condition: two or three decisions and up to three paths: the first learns, the
  second uses, the third finds the cache pruned. Nesting of `restore_path_cond` is
  bounded by 2 (`MaxNesting`), which is all the code does.
* `fpu_machine`: words of 6 bits, exponents of 6, three registers, one instruction
  (`MaxSteps`) from every file in which st(0) and st(1) hold any of ten kinds of
  number, the smallest normal number with the tag that rounding gives it, or nothing.
  One step is enough for what the run checks: nothing but the modelled state survives an
  instruction, `frstor` and rounding bring a program to any file whose tags fit (`Fit`),
  and `TagsStay` says that they fit again after every instruction but `fscale`.
  `TagsStay`, `NoInternalRaised`, `NoneGenerated` and `TrapKeepsOperands` are about steps from
  such a file, and say so; after an `fscale` that underflows they are false (see
  Observations), and `TypeOK` and `KeepsStack` are not claimed there either beyond what
  the theorems say. The theorems about the machine cover any sequence of instructions
  and any format.
* `fpu_accuracy`: words of 3 bits, every pair of normal significands, every exponent
  difference up to three more than the register width, exponents at underflow and
  overflow, four combinations of rounding, precision and sign. The kernels treat a
  word as a unit, so the cases that a second word makes are all there.
* `eflags`: bytes of 3 bits with all operands, words of 6 and longs of 12 with the
  operands around their boundaries and counts around the three widths.
* `guest_registers`: bytes of 3 bits and one statement (`MaxStmts`) from registers with
  all bytes different; the translation keeps nothing between statements. Every pair of
  byte values meets in some lane, and the divisors make both corrections of the
  128-bit division happen.

`fpu_machine`, `fpu_accuracy`, `fpu_accuracy_claims` and `guest_registers` do not check
for deadlock: a behaviour is one step and stops at its bound. All others do: the end of
the exploration is an explicit stuttering step.

## Observations

Behaviour met while modelling, which no run is about.

* Tree: after a double timeout `-concolic-prob` pretends a direction satisfiable
  (`sym_path_frag_machine.ml:586`); if it is refused on a later visit, `record_unsat`
  (`binary_decision_tree.ml:645`) gives up or `try_or_boring` runs a path again.
  `AssertionsHold` and `DifferentPaths` are therefore stated only where nothing is
  pretended (`tree_all_paths`). What `tree_branch_limit` checks holds there as well:
  running an old path again adds none, so it is a stutter of `PathEnumeration`.
* Tree: `try_or_boring` marks its node and possibly those above it
  (`binary_decision_tree.ml:668`), the query node among them, in the table but not in
  `cur_query`, and leaves through a kid that is all_seen. If a signal had ended the
  earlier path at that kid before `count_query` counted it, `count_query` now writes
  the old `cur_query` back (`:559`) and the mark is lost. It takes two decisions in one
  choice, a direction pretended by `-concolic-prob` and a signal, and `add_kid`'s
  g_assert (`:464`) fails on the way, once. `NoLostUpdate` is therefore stated for as
  long as no g_assert has failed; without that condition TLC refutes it with
  `PathDepthLimit = 2` and no scores.
* Tree: `finish_internal_nodes` (`binary_decision_tree.ml:533`) holds a copy of each node
  on its way down. Closing the last direction below an inner node can make
  `internal_nodes_check` (`:823`) mark that node in the table; `put_t_child` (`:544`) then
  writes the older copy back without the mark, and `maybe_mark_all_seen_node` sets it
  again at the end of the call. `NoLostUpdate` exempts exactly these marks (`StaleCall`),
  and `Implements` says that nothing is missing when `finish_internal_nodes` has returned.
  If a signal comes in between, the mark is missing although nothing is left below.
* Tree: a signal between two writes of `propagate_heur` (`binary_decision_tree.ml:904`)
  leaves a kid's score range wider than its parent's, and a later score that the kid's
  range holds stops there, so the parent's is not repaired. `HeurRangesNest` is
  therefore stated of `DecisionTree`, where operations are whole.
* Tree: a signal after `count_query` has counted `cur` in `cur_query` (`:559`) and before
  it has noted that in `cur` leaves `cur` to be counted again by the next path, so
  `CountsExact` too is stated of whole operations.
* Tree: `query_children` is stored in 16 bits and 0xffff means "not a query node"
  (`binary_decision_tree.ml:87`, `:124`). With a small `CountModulus` this breaks
  `AssertionsHold`; with 65536 it takes a choice of 65535 values.
* Path condition: `SolverFailure` is raised before the pop
  (`sym_path_frag_machine.ml:357`), so with an incremental engine, `-nonfatal-solver` and
  `-solve-final-pc` the final query includes the one that failed.
* Flags: RCR's overflow flag (`irtoir-i386.cpp:1207`) is computed as for RCL, from the
  bit rotated out and not from the carry rotated in. It is exempted in `X86Flags`. The comment "FIXME: this
  is wrong for sar" is itself not true: the flags of SAR are right.
* Guest registers: `i386_translate_put` tests for I64 before LDT and GDT, so that branch
  is dead; narrow writes of CC_DEP1 extend with zeros.
* Operators (exempted in `VexMeaning`): MullS64 tests signs with an unsigned comparison
  (`irtoir.cpp:652`), so it is the unsigned product; `saturating_binop8`
  (`irtoir.cpp:1504`) clamps with unsigned comparisons, so signed saturation and
  unsigned subtraction below zero are wrong; DivModS128to64 ignores the upper half, as
  its own TODO says; a quotient that overflows gives all ones.
* x87: a denormal that rounding makes the smallest normal number keeps the tag
  TAG_Special (`reg_round.S:598`), and `FPU_Special` (`fpu_tags.c:61`) takes a Special
  register that is neither denormal nor infinite for a NaN. So the product of
  2^-16382 (2 - 2^-63) and 1/2, compared with 1/2, is "unordered" with an invalid
  operation, and added to 1/2 gives a NaN, although "the only possibility now should be
  that one of the arguments is a NaN" (`reg_compare.c:88`). With `MaxSteps = 2`, TLC finds
  it in the model; the emulator, built for 32 bits, does the same. An x87 gives "less
  than" and 1/2.
* x87: fscale drops the tag FPU_round returned (`fpu_trig.c:1524`), so an answer that is
  denormal or zero can be tagged as a normal number, and one that is normal as Special. A
  multiplication by it can then make an unnormal, in the model and in the emulator, which
  the emulator's README says is never generated (`README:126`), and the PARANOID test of
  `FPU_to_exp16` (`reg_convert.c:42`) can report an internal error.
* x87: fscale adds its exponent in 16 bits; a masked
  overflow of a double store writes 7ff0000000000001, a NaN (`reg_ld_str.c:485`);
  `arith_overflow` always returns infinity; `fcomp m` of an unsupported format pops
  although the exception is unmasked; fprem's zero loses its sign (`fpu_trig.c:917`).

## Theorems

Each holds for every value of the constants that satisfies the named assumptions of the
modules, which TLC evaluates on every run. Where a theorem has a hypothesis of its own,
it is a combination of options or an event of the code, given below.

### The tree

* `TypeCorrect` (`DecisionTreeProofs`): `Spec => []TypeOK`. The inductive
  invariant is `TypeInv`, which adds `DepthOK`: while a path runs, `cur` is
  within the depth limit. Without it the kid `extend` goes to need not be a
  node. One lemma per group of actions, on lemmas about histories and records.
* `HeurRangesNestAlways` (`DecisionTreeProofs`): `Spec => []HeurRangesNest`, about whole
  operations. By
  itself this is not inductive: `propagate_heur` looks at, and writes back, the
  record in `cur`, and `count_query` writes back the one in `cur_query`. The
  strengthening `HeurSync` says that these agree with the table about scores (for
  `cur_query` as long as it may still be written). The core is
  `PropagateHeurNests`: the ancestors that are not widened hold the score
  already.
* `NoLostUpdateAlways` (`TreeWritesProofs`): `WritesSpec /\ []Countable => NoLostUpdate`,
  about `TreeWrites`, that is, every single write and signals anywhere. The
  invariant `CallsInv` says what each record in memory has to do with the table. `cur`
  always equals its entry. Outside
  `finish_internal_nodes` it is `WriteInv` (`DecisionTreeProofs`): `cur_query` equals its
  entry from `start_new_query` to `count_query` and holds all of it while the marking
  runs, provided no g_assert has failed; the exception is the path that leaves
  `try_or_boring`, and there one fails. It needs the order of the marking
  (`MarksFromQuery`, `MarksFromCur`): the calls that are pending never get below the
  node it started at, so `internal_nodes_check` never marks `cur` in the table alone.
  Inside `finish_internal_nodes` it is `Finishing`: the calls in progress are those of one
  way down from `cur_query` through nodes that are no query nodes, and each copy equals
  its entry but for the mark (`SameButMark`), because only the innermost call closes
  directions and all that the climb below it writes is marks. That is also why the
  exemption for marks is enough.
  The hypothesis `Countable` says that no multi-way choice has 65534 counted kids or
  more, the width of the encoded count. The default `-query-branch-limit` is larger
  (`exec_options.ml:98`), so this is an assumption about the program explored.
  `LimitedCountable` (`EnumerationProofs`) shows that under `Steady` (below) it is none
  where the branch limit itself is less than 65534.
* `CallsTypeCorrect` (`TreeWritesProofs`): `WritesSpec /\ []Countable => []CallsTypeOK`, from
  the same invariant.

The next six are about the exploration as a whole. They assume `[]Countable` and

* `Steady`: no query fails but one that decides a branch, and not all three of a solver
  that may fail, `-timeout-as-unsat` and concolic mode; and, being theorems about
  `DecisionTree`, that no signal comes. Both parts are needed. A failure of another query
  (or SIGUSR1) leaves a node marked that was not finished (the run `tree_interrupt_marks` shows it), and a
  direction pretended to be satisfiable after two timeouts is recorded as
  infeasible when it is asked again, which fails an assertion and runs a path twice:
  TLC refutes `AssertionsHold` and `DifferentPaths` in that setting. The solver
  may still fail in every other combination of options.
* `Truthful` (for `CompleteAlways` only): also no `-timeout-as-unsat` with a solver that
  may fail, which gives up feasible directions by design.

The theorems:

* `TreeAssertionsHold`, `AllSeenSubtreeAlways` (`ExplorationProofs`). `AllSeenSubtree`
  speaks of all nodes below a marked one, `AssertionsHold` of what the next call will
  find; neither is inductive. `ExploreInv` is, and is kid-wise, so that a step that
  writes one record disturbs it at that node and its parent only:
  `TreeShape` (the kids of an exhausted node are exhausted), `CurLive` (the path is
  in a part that is not exhausted, so one of two directions is always open and
  `try_or_boring` never fails), `ClosedSeen` with `LoopReady` (a node with nothing
  left below is marked or about to be, and what is about to be marked has nothing live
  below), `Decided` (both directions of a node are known or none is, until the path is
  given up there), `ChoiceOpen` and `LimitedFilled` (which nodes make up the choice in
  progress, and that a choice at its limit has no unknown direction left), `ProgMatch`
  (what the tree records about a node is what the program does there: without
  re-execution being deterministic nothing of this holds). `SeenSubtree` climbs from the
  kids to the subtree. The proof shows two facts that are not obvious in the code: under
  `Steady` `finish_internal_nodes` never closes the query node itself (`count_query` has just
  counted the live node below it), and when the climb of `mark_all_seen_node` gets to a
  query node, `internal_nodes_check` finds nothing left to mark (`LiveIsOpen`).
* `DifferentPathsAlways`, `EnumeratesPathsHolds` (`EnumerationProofs`). `EndInv` says
  why a node is exhausted: a path ended there, or both of its directions are refused
  or exhausted; and that ended paths are as many as iterations, which with sets is the
  statement that no two are equal. The refinement maps an ended path to its history and
  gives up (`pruned`) the refused directions and the nodes cut off on both sides. Each
  action maps to running a path, giving some up, finishing, or a stutter
  (`EnumerationStep`). Two lemmas carry it. `UntriedAhead`: nothing that is given up is on a way
  in the tree, so that it may be given up late. `LastCovers`: along any history of full
  length, the last node the tree knows was ended or given up once the root is exhausted.
* `CompleteAlways` (`EnumerationProofs`), with `FeasInv`: a followed direction is
  feasible, and a refused one is infeasible or belongs to a choice at its limit
  (`UnderLimit`). What was under a limit stays so, because a limited node takes no more
  counts (`LimitStays`).
* `CountsExactAlways` (`EnumerationProofs`), with `CountsInv`: the stored count is the
  cardinality of the set `Counted`. `count_query` adds one node to one such set; every
  other step leaves all of them as they are, because a node becomes a query node before
  anything below it is counted.

### The path condition

Three invariants, each used by the next.

* `TypeInv` (`PathConditionProofs`, theorem `PathTypesCorrect`) adds to `TypeOK` what
  each place of the thread needs: the query that is out is a query, the frames and
  contexts are sequences of records, the number of choices is in bounds.
* `SyncInv` (`PathConditionProofs`, theorem `InSync`) relates the two stacks. The j-th
  `restore_path_cond` in progress has the j-th context of the engine below it
  (one further down while a query is out, `Offset`); that context was told exactly the
  condition the call will put back, and declared exactly the variables it will
  count as seen. Without the part about the saved frames nothing can be said after a
  pop. From it: `DeclaredOnceAlways`, `AsksPathConditionAlways`, `AsksAtLeastAlways`,
  and, with `CacheInv`, `WorkingCacheFitsAlways`. `CachesFitAlways` adds the global
  cache. That `prune_global_cache` comes to an end needs what its doubling cutoff is in
  every turn: `CutoffRule` shows that the recursive function has a value there
  (its finite parts exist and agree, by the least number that would be an
  exception), and `CutoffGrows` that it passes every count; that the counts are
  bounded is part of the invariant (`GlobalFits`).
* `SoundInv` (`PathSoundProofs`, theorem `Sound`) is about what is true of the program:
  the inputs that satisfy the path condition are those that take the decisions of the
  history (`WayInv`, with the bits chosen so far inside a choice), every record of the
  tree is right (`TreeInv`), and so is the answer on its way from the solver or a cache
  to the tree (`AnswerInv`). From it: `SatIsRealAlways`, `PathCondExactAlways`,
  `TreeSoundAlways` and, with `AssertInv`, `AssertionsHoldAlways`.

Hypotheses:

* `FinalIsClean` (`AsksPathConditionAlways`, `AssertionsHoldAlways`) excludes
  `-solve-final-pc` together with an incremental solver that may fail under
  `-nonfatal-solver` and without `-timeout-as-unsat`: there the final query is asked of
  a context that still holds the one that failed ("Observations"), and the theorem is
  false. `AsksAtLeastAlways` says what is left with any options: no condition of the
  path is missing.
* `NoOnce` (`PathCondExactAlways`): no address is fixed by `concretize_once_*`, which
  adds a condition that the tree does not know (the run `pathcond_once_again`).
* `Truthful` (`TreeSoundAlways`, `AssertionsHoldAlways`): `NoOnce`, and no solver that
  may fail under `-timeout-as-unsat`, which records directions as infeasible that may
  not be. `SatIsRealAlways` needs neither.

### The x87 emulator

`FpuRoutineProofs` shows of each routine that works on full registers (rounding,
arithmetic, comparison, loads, exceptions) what it may do to the rest of the state,
`Calculates`: the tags stay full or empty, top and control word stay, flags are only
added, the stack fault is not touched, and the summary bit fits afterwards if it did
before. The relation is transitive, so a routine inherits it from those it calls.
`Behaves` is the same for a whole instruction, with the moves of the stack that
`RegisterStack` allows. `FpuStackProofs` shows it of every instruction (`Steps`) that
does not set the stack by intention, and combines the steps:

* `SummaryFitsAlways`: `Spec => [](NoInternalError => SummaryFits)`,
* `StickyFlagsAlways`: `Spec => StickyFlags`,
* `StackKept`: `Spec /\ []NoInternalError => KeepsStack`, the refinement of
  `RegisterStack`,
* `SaveRestoresAlways`: `Spec => [](NoInternalError => SaveRestores)`.

The inductive invariant is `Inv`: the state has the shape of the record, and the summary
bit fits. The condition on internal errors is there because EX_INTERNAL sets every flag
whatever the masks. That it is not raised while tags fit (`NoInternalRaised`, a property of
`fpu_machine`) depends on significands being normal after shifts by variable amounts:
arithmetic over powers of two, of which the provers know nothing. What little is needed
of them, that half the exponent range is twice a quarter of it, is `PowerAssumption` of
`FpuRegs`. `ProgramAssumption` of `FpuEmu` says that what a program loads is made of
registers, tags, flags and control words, in any combination.

### Model-checked only

* Termination of the exploration: liveness is outside the prover's reach.
* `Implements`, that the writes of `finish_internal_nodes` come to the one step of
  `DecisionTree`: what a recursion over a tree computes is an induction over data. The
  other theorems about the tree are about whole operations and rest on it as far as
  `FinishInternalNodes` is concerned.
* Of `FpuEmu`: `TypeOK`, `TagsStay`, `NoInternalRaised` and `NoneGenerated`, and all of
  `FpuAccuracy`: what the kernels compute with significands.
* `TrapKeepsOperands`, by choice and not for want of a prover: it speaks of one step
  from fitting tags, so a second pass over the routine lemmas of `FpuRoutineProofs`
  should prove it, with one more assumption on powers of two for the operands a
  comparison normalises as it loads them. That pass is not written.
* `Eflags`, `GuestRegs`, `VexOps`: bitwise operators, of which the provers have no theory.

## Not modelled

Each with its reason in `PROJECT.json`. In the modelled parts: the values of the
polynomials and the 96-bit arithmetic under them, x87 address decoding, prefixes, 16-bit
images and the KERNEL code; the flag helper for an operation that is not a constant, and
the helpers for division, cpuid and FPU state; VEX's CmpF, the conversions between
floats and integers, and GetMSBs; statements, blocks and jumps of `irtoir.cpp`. Left
out as a whole: the other two architectures (the same scheme on other registers), the
formula manager, the fragment machine and Vine (data transformations), granular memory,
interval maps, the linear tree, system calls and loaders (forwarding to the host),
options, logging and statistics.

## Plan

1. Done: `DecisionTree`, `PathEnumeration`, `PathCondition`, the first theorems; the
   x87 emulator; flags, guest registers and operators of the x86 translation.
2. Done: the proofs about writing nodes back write by write, the path condition, the x87 machine, the
   tree as a whole and its refinement of `PathEnumeration`.
3. Proofs next: a lemma library for powers of two (shifts, leading zeros), then
   `TagsStay`, on which `NoInternalRaised` rests; `TrapKeepsOperands` over the routines.
4. Modules worth adding: granular memory against a map of bytes; interval maps with
   snapshots; regions with `concrete_cache` and `used_addr_cache` over paths;
   `linear_decision_tree` as a second implementation of `PathEnumeration`; a composition
   of `DecisionTree` and `PathCondition`, with the status kept by `PathCondition`
   replaced by the tree.
