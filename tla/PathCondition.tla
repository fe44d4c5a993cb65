---------------------------- MODULE PathCondition ----------------------------
(***************************************************************************)
(* The path condition of sym_path_frag_machine.ml, the solver context that *)
(* mirrors it (query_engine.ml and its implementations) and the caches of  *)
(* satisfying assignments, over many paths of one program.                 *)
(*                                                                         *)
(* An input variable assignment (a counterexample) is a member of Inputs.  *)
(* A predicate of the program is a set of assignments; a condition is a    *)
(* conjunction of literals.  The decision tree appears only as the status  *)
(* it keeps for each direction of each node (see DecisionTree): which of   *)
(* the open directions is tried first, and what is exhausted, is left      *)
(* open.                                                                   *)
(***************************************************************************)
EXTENDS Integers, Sequences, FiniteSets

CONSTANTS
    Inputs, Vars, Preds,
    Holds,              \* Holds[p]: the inputs for which predicate p is true
    Mentions,           \* Mentions[p]: the variables in p
    ExtraConditions,    \* opt_extra_conditions: a set of literals
    Behaviours,         \* what the program may do at a node (see Behaviour)
    PathDepth,          \* bound: decisions on a path
    NumPaths,           \* opt_num_paths
    GlobalCELimit,      \* opt_global_ce_cache_limit
    DisableCECache,     \* opt_disable_ce_cache
    Incremental,        \* the solver keeps asserted formulas itself
    SolverMayFail,      \* a query may time out
    ModelsOf(_),        \* external: the models the solver may give, of a set of solutions
    TimeoutAsUnsat, NonfatalSolver, SolveFinalPC

None == "none"
Literal == [p : Preds, b : BOOLEAN]

\* A branch condition or its negation ("branch"), the equation that fixes the
\* value of an expression ("eq"), or one that is always true ("taut").
Cond == [kind : {"branch", "eq", "taut"}, lits : SUBSET Literal]
Branch(p, b) == [kind |-> "branch", lits |-> {[p |-> p, b |-> b]}]
Equals(L) == [kind |-> "eq", lits |-> L]
Taut(p) == [kind |-> "taut", lits |-> {[p |-> p, b |-> TRUE]}]
ExpTrue == [kind |-> "taut", lits |-> {}]

\* The program at a node: the restore_path_cond calls in progress end (leave),
\* an expression is queried for its value (pre, on), a restore_path_cond
\* begins (enter), and a branch on pred is decided; or the path ends.
Behaviour == [leave : BOOLEAN, enter : BOOLEAN, on : Preds,
              pre : {None, "unique", "once"}, pred : Preds \cup {"exit"}]

Agrees(i, c) == c.kind = "taut" \/ \A l \in c.lits : (i \in Holds[l.p]) = l.b
Solutions(C) == {i \in Inputs : \A c \in C : Agrees(i, c)}
VarsOf(c) == UNION {Mentions[l.p] : l \in c.lits}
ExtraConds == {[kind |-> "branch", lits |-> {l}] : l \in ExtraConditions}

ASSUME WorldAssumption ==
    /\ IsFiniteSet(Inputs) /\ None \notin Inputs /\ "exit" \notin Preds
    /\ Holds \in [Preds -> SUBSET Inputs]
    /\ Mentions \in [Preds -> SUBSET Vars]
    /\ ExtraConditions \subseteq Literal
    /\ Solutions(ExtraConds) # {}
    /\ \A S \in (SUBSET Inputs) \ {{}} : ModelsOf(S) \subseteq S /\ ModelsOf(S) # {}
    /\ Behaviours \subseteq Behaviour
    /\ \A k \in Behaviours : k.pred = "exit" => ~k.enter

ASSUME BoundsAssumption ==
    /\ PathDepth \in Nat /\ NumPaths \in Nat \ {0} /\ GlobalCELimit \in Nat

ASSUME OptionsAssumption ==
    /\ DisableCECache \in BOOLEAN /\ Incremental \in BOOLEAN
    /\ SolverMayFail \in BOOLEAN
    /\ TimeoutAsUnsat \in BOOLEAN /\ NonfatalSolver \in BOOLEAN
    /\ SolveFinalPC \in BOOLEAN

Hist == UNION {[1..k -> BOOLEAN] : k \in 0..PathDepth}

VARIABLES
    path_cond,          \* the conditions of the current path
    var_seen_hash,      \* variables taken to be declared
    eng,                \* what the solver has been told
    ctx_stack,          \* the contexts push has saved
    saved,              \* locals of the restore_path_cond calls in progress
    working_ce_cache,
    global_ce_cache,    \* the count of each cached assignment, -1 if absent
    new_path,
    hist, status,       \* the current node, and what the tree knows of each
    prog,               \* the program, as far as it has been executed
    ask,                \* the query in progress and what it is for
    iter, pc,
    weird               \* failed g_asserts (each one costs 100)

solverVars == <<path_cond, var_seen_hash, eng, ctx_stack, saved>>
cacheVars  == <<working_ce_cache, global_ce_cache, new_path>>
treeVars   == <<hist, status, prog>>
vars == <<solverVars, cacheVars, treeVars, ask, iter, pc, weird>>

NoContext == [decls |-> [v \in Vars |-> 0], conds |-> {}]
NoQuery == [for |-> None, cond |-> ExpTrue, dir |-> FALSE, new |-> {}, sat |-> FALSE,
            ce |-> None]

Init ==
    /\ path_cond = {} /\ var_seen_hash = {}
    /\ eng = NoContext /\ ctx_stack = << >> /\ saved = << >>
    /\ working_ce_cache = {}
    /\ global_ce_cache = [i \in Inputs |-> -1]
    /\ new_path = FALSE
    /\ hist = << >>
    /\ status = [h \in Hist |-> [b \in BOOLEAN |-> "unknown"]]
    /\ prog = [h \in {} |-> None]
    /\ ask = NoQuery /\ iter = 1 /\ pc = "arrive" /\ weird = 0

-----------------------------------------------------------------------------
(* The path condition and the solver's context.                            *)

Declare(e, V) == [e EXCEPT !.decls = [v \in Vars |-> IF v \in V THEN @[v] + 1 ELSE @[v]]]

\* m is what a method works on: path condition, seen variables, context.
Machine == [pc |-> path_cond, seen |-> var_seen_hash, eng |-> eng]

\* push_cond_to_qe: declare what is new in c, then assert it.
Push(m, C) ==
    LET new == (UNION {VarsOf(c) : c \in C}) \ m.seen
    IN [pc   |-> m.pc \cup C,
        seen |-> m.seen \cup new,
        eng  |-> [Declare(m.eng, new) EXCEPT !.conds = @ \cup C]]

EnsureExtraConditions(m) == IF m.pc = {} THEN Push(m, ExtraConds) ELSE m

\* Fault: a condition whose negation is present counts as present.
QuickCheck_Negated(c) ==
    IF \E p \in Preds, b \in BOOLEAN : c = Branch(p, b) /\ Branch(p, ~b) \in path_cond
    THEN "sat" ELSE None

\* quick_check_in_path_cond: the answer without asking, or None.
QuickCheck(c) ==
    IF c \in path_cond THEN "sat"
    ELSE IF \E p \in Preds : c = Branch(p, FALSE) /\ Branch(p, TRUE) \in path_cond
    THEN "unsat" ELSE None

AddToPathCond(m, c) ==
    LET m1 == EnsureExtraConditions(m)
    IN IF c \in m1.pc THEN m1 ELSE Push(m1, {c})

Becomes(m) ==
    /\ path_cond' = m.pc
    /\ var_seen_hash' = m.seen
    /\ eng' = m.eng

\* filter_working_cache, which add_to_path_cond calls for a new condition.
Filter(c, old, W) ==
    IF DisableCECache \/ c \in old THEN W ELSE W \cap Solutions(old \cup {c})

-----------------------------------------------------------------------------
(* restore_path_cond.                                                      *)

\* The bound on restore_path_cond calls inside one another: the biased choice
\* of an offset may call the uniform one.
MaxNesting == 2

\* The end of the calls puts back what the outermost one saved, and their
\* caller adds the equation for the value that was chosen inside.
Outermost == saved[Len(saved)]

\* Fault: what the outer call decided is not in the equation.
Chosen_Inner == Equals(saved[1].bits)

Chosen == Equals(UNION {saved[j].bits : j \in 1..Len(saved)})
Underflow == Len(ctx_stack) < Len(saved)
Leave == AddToPathCond([pc |-> Outermost.pc, seen |-> Outermost.seen,
                        eng |-> ctx_stack[Len(saved)]], Chosen)

\* Execution comes to a node.
Arrive ==
    /\ pc = "arrive"
    /\ \E k \in Behaviours :
        /\ hist \in DOMAIN prog => prog[hist] = k
        /\ prog' = [h \in DOMAIN prog \cup {hist} |-> IF h = hist THEN k ELSE prog[h]]
        /\ k.leave => saved # << >>
        /\ k.pred = "exit" \/ Len(hist) < PathDepth
        /\ k.pred = "exit" \/ k.pre # None => saved = << >> \/ k.leave
        /\ k.enter => k.leave \/ Len(saved) < MaxNesting
        /\ IF k.leave /\ ~Underflow
           THEN /\ Becomes(Leave)
                /\ ctx_stack' = SubSeq(ctx_stack, Len(saved) + 1, Len(ctx_stack))
                /\ saved' = << >>
                /\ working_ce_cache' = Filter(Chosen, Outermost.pc, working_ce_cache)
           ELSE UNCHANGED <<solverVars, working_ce_cache>>
        /\ pc' = IF k.leave /\ Underflow THEN "crashed"
                 ELSE IF k.pre # None THEN "query"
                 ELSE IF k.enter THEN "enter"
                 ELSE "decide"
        /\ ask' = IF k.pre = None THEN NoQuery
                  ELSE [NoQuery EXCEPT !.for = k.pre, !.cond = Taut(k.on)]
    /\ UNCHANGED <<global_ce_cache, new_path, hist, status, iter, weird>>

Enter ==
    /\ pc = "enter"
    /\ LET m == EnsureExtraConditions(Machine)
       IN /\ Becomes(m)
          /\ saved' = <<[pc |-> m.pc, seen |-> m.seen, bits |-> {}]>> \o saved
          /\ ctx_stack' = <<m.eng>> \o ctx_stack
    /\ pc' = "decide"
    /\ UNCHANGED <<cacheVars, treeVars, ask, iter, weird>>

Exit ==
    /\ pc = "decide" /\ prog[hist].pred = "exit"
    /\ pc' = "finish"
    /\ UNCHANGED <<solverVars, cacheVars, treeVars, ask, iter, weird>>

-----------------------------------------------------------------------------
(* Deciding a branch: try_extend, query_with_pc_choice and extend_pc_*.     *)

Decides == pc = "decide" /\ prog[hist].pred \in Preds

\* The decision is made: add_kid and extend, then add_to_path_cond.
Take(b) ==
    LET c == Branch(prog[hist].pred, b)
        m == AddToPathCond(Machine, c)
    IN /\ hist' = Append(hist, b)
       /\ Becomes(m)
       /\ saved' = IF saved = << >> THEN saved
                   ELSE <<[Head(saved) EXCEPT !.bits = @ \cup c.lits]>> \o Tail(saved)
       /\ working_ce_cache' = Filter(c, EnsureExtraConditions(Machine).pc, working_ce_cache)
       /\ ask' = NoQuery
       /\ pc' = "arrive"
       /\ UNCHANGED <<ctx_stack, global_ce_cache, new_path, prog, iter, weird>>

\* Fault: an untried direction is taken for a known one.
Known_Untried(b) == status[hist][b] # "unsat"

\* The tree has the direction already: it is not asked for again.
Known(b) == status[hist][b] = "sat"

TakeKnown ==
    /\ Decides
    /\ \E b \in BOOLEAN : Known(b) /\ Take(b)
    /\ UNCHANGED status

\* What try_extend asks first: one of two directions of which one at least is
\* unknown (try_both), an unknown one next to an exhausted one (try_or_boring)
\* or next to a refused one (known_check).
AskFor(b) ==
    LET s == status[hist]
    IN CASE s[b] = "unknown" /\ s[~b] = "unsat" -> {"check"}
         [] s[b] = "unknown" /\ s[~b] = "sat" -> {"both", "boring"}
         [] s[b] # "unsat" /\ s[~b] = "unknown" -> {"both"}
         [] OTHER -> {}

AskFirst ==
    /\ Decides
    /\ \E b \in BOOLEAN : \E f \in AskFor(b) :
        ask' = [NoQuery EXCEPT !.for = f, !.dir = b, !.cond = Branch(prog[hist].pred, b)]
    /\ pc' = "try"
    /\ UNCHANGED <<solverVars, cacheVars, treeVars, iter, weird>>

\* try_func: the answer may be plain from the path condition.
TryFunc ==
    /\ pc = "try"
    /\ LET quick == QuickCheck(ask.cond)
       IN /\ pc' = IF quick = None THEN "query" ELSE "answered"
          /\ ask' = [ask EXCEPT !.sat = (quick = "sat")]
    /\ UNCHANGED <<solverVars, cacheVars, treeVars, iter, weird>>

\* g_assert: the first failure is survived, the second one is not.
Weird(ok) == weird + IF ok THEN 0 ELSE 1
LastStraw(ok) == Weird(ok) > 1

Status(b, s) == [status EXCEPT ![hist][b] = s]
AskOther(f) ==
    /\ ask' = [NoQuery EXCEPT !.for = f, !.dir = ask.dir,
                              !.cond = Branch(prog[hist].pred, ~ask.dir)]
    /\ pc' = "try"
    /\ UNCHANGED <<solverVars, cacheVars, hist, prog, iter, weird>>

Fails ==
    /\ pc' = "crashed"
    /\ UNCHANGED <<solverVars, cacheVars, treeVars, ask, iter, weird>>

\* The first of two directions is answered.
FirstAnswered ==
    /\ pc = "answered" /\ ask.for = "both"
    /\ IF ask.sat
       THEN AskOther("other_of_sat") /\ UNCHANGED status
       ELSE IF Known(ask.dir)
       THEN Fails
       ELSE AskOther("other_of_unsat") /\ status' = Status(ask.dir, "unsat")

\* Both are answered.
BothAnswered ==
    /\ pc = "answered" /\ ask.for \in {"other_of_sat", "other_of_unsat"}
    /\ IF ask.for = "other_of_sat"
       THEN IF ~ask.sat /\ Known(~ask.dir)
            THEN Fails
            ELSE /\ Take(ask.dir)
                 /\ status' = [status EXCEPT ![hist] =
                                 [b \in BOOLEAN |-> IF b = ask.dir \/ ask.sat
                                                    THEN "sat" ELSE "unsat"]]
       ELSE IF ask.sat
       THEN Take(~ask.dir) /\ status' = Status(~ask.dir, "sat")
       ELSE Fails

\* try_or_boring and known_check: one question.
OneAnswered ==
    /\ pc = "answered" /\ ask.for \in {"boring", "check"}
    /\ IF ask.sat
       THEN Take(ask.dir) /\ status' = Status(ask.dir, "sat")
       ELSE IF ask.for = "boring"
       THEN Take(~ask.dir) /\ status' = Status(ask.dir, "unsat")
       ELSE Fails

\* concretize_once_and_load and concretize_once_and_store fix the address to
\* its value in the assignment they get (and assert that there is one).
OnceAnswered ==
    /\ pc = "answered" /\ ask.for = "once"
    /\ IF ~ask.sat
       THEN Fails
       ELSE LET p == prog[hist].on
                c == Equals({[p |-> p, b |-> ask.ce \in Holds[p]]})
            IN /\ Becomes(AddToPathCond(Machine, c))
               /\ working_ce_cache' = Filter(c, path_cond, working_ce_cache)
               /\ ask' = NoQuery
               /\ pc' = IF prog[hist].enter THEN "enter" ELSE "decide"
               /\ UNCHANGED <<ctx_stack, saved, global_ce_cache, new_path, treeVars,
                              iter, weird>>

\* query_unique_value asks for a value, and then for another one.  Without an
\* assignment every variable reads as zero: any value, here.
UniqueAnswered ==
    /\ pc = "answered" /\ ask.for = "unique"
    /\ IF LastStraw(ask.sat)
       THEN Fails
       ELSE /\ \E i \in IF ask.sat THEN {ask.ce} ELSE Inputs :
                 LET p == prog[hist].on
                 IN ask' = [NoQuery EXCEPT !.for = "another",
                              !.cond = Equals({[p |-> p, b |-> i \notin Holds[p]]})]
            /\ weird' = Weird(ask.sat)
            /\ pc' = "query"
            /\ UNCHANGED <<solverVars, cacheVars, treeVars, iter>>

AnotherAnswered ==
    /\ pc = "answered" /\ ask.for = "another"
    /\ LET differs == ask.sat => Agrees(ask.ce, ask.cond)
       IN IF LastStraw(differs)
          THEN Fails
          ELSE /\ weird' = Weird(differs)
               /\ ask' = NoQuery
               /\ pc' = IF prog[hist].enter THEN "enter" ELSE "decide"
               /\ UNCHANGED <<solverVars, cacheVars, treeVars, iter>>

-----------------------------------------------------------------------------
(* query_with_path_cond_wcache.                                            *)

\* Fault: pruning stops one entry too late.
CacheFull_Late(g) == Cardinality({i \in Inputs : g[i] >= 0}) > GlobalCELimit + 1

CacheFull(g) == Cardinality({i \in Inputs : g[i] >= 0}) > GlobalCELimit

\* The cutoff in the k-th turn of prune_global_cache's loop.
Cutoff[k \in Nat] == IF k = 0 THEN 1 ELSE 2 * Cutoff[k - 1]

\* What the turns up to the k-th have left.
LeftOf(g, k) == {i \in Inputs : g[i] >= Cutoff[k]}

AtGoal(g, k) == Cardinality(LeftOf(g, k)) =< GlobalCELimit \div 2

\* The loop's last turn, which is within as many as the largest count.
LastTurn(g) ==
    CHOOSE k \in UNION {0..g[i] : i \in Inputs} :
        AtGoal(g, k) /\ \A j \in 0..(k - 1) : ~AtGoal(g, j)

\* prune_global_cache: entries used less often than a cutoff go; the cutoff
\* doubles until half of the limit is reached.  The other counts start again.
Prune(g) ==
    [i \in Inputs |-> IF i \in LeftOf(g, LastTurn(g)) THEN 0 ELSE -1]

\* add_to_global_cache.
AddToGlobalCache(g, i) ==
    LET g1 == [g EXCEPT ![i] = @ + 1]
    IN IF g[i] < 0 /\ CacheFull(g1) THEN Prune(g1) ELSE g1

\* fill_working_cache, on the first query of a path.
FillWorkingCache(C) ==
    IF DisableCECache \/ C = {} THEN working_ce_cache
    ELSE working_ce_cache \cup {i \in Solutions(C) : global_ce_cache[i] >= 0}

\* Up to the solver call, or to a hit in the cache.
Query ==
    /\ pc = "query"
    /\ LET m   == EnsureExtraConditions(Machine)
           W   == IF new_path THEN FillWorkingCache(m.pc) ELSE working_ce_cache
           hit == {i \in W : Agrees(i, ask.cond)} \cap Solutions(m.pc)
           new == VarsOf(ask.cond) \ m.seen
           e   == Declare(m.eng, new)
       IN /\ working_ce_cache' = W
          /\ new_path' = FALSE
          /\ IF hit # {} /\ ~DisableCECache /\ ask.for # "final"
             THEN \E i \in hit :
                    /\ Becomes(m)
                    /\ global_ce_cache' = AddToGlobalCache(global_ce_cache, i)
                    /\ ask' = [ask EXCEPT !.sat = TRUE, !.ce = i]
                    /\ pc' = "answered"
                    /\ UNCHANGED ctx_stack
             ELSE /\ Becomes([m EXCEPT !.seen = @ \cup new,
                                       !.eng = IF Incremental
                                               THEN [e EXCEPT !.conds = @ \cup {ask.cond}]
                                               ELSE e])
                  /\ ctx_stack' = <<m.eng>> \o ctx_stack
                  /\ ask' = [ask EXCEPT !.new = new]
                  /\ pc' = "solve"
                  /\ UNCHANGED global_ce_cache
    /\ UNCHANGED <<saved, treeVars, iter, weird>>

\* What the solver is asked: the asserted conditions and the query.
Question == eng.conds \cup {ask.cond}

Models == IF Solutions(Question) = {} THEN {} ELSE ModelsOf(Solutions(Question))

\* Fault: the query's own variables stay in var_seen_hash after the pop.
Forget_Kept(seen, new) == seen

Forget(seen, new) == seen \ new

\* The solver answers: pop, and forget the query's own variables.
SolverAnswers ==
    /\ pc = "solve"
    /\ IF ctx_stack = << >>
       THEN Fails
       ELSE /\ eng' = Head(ctx_stack)
            /\ ctx_stack' = Tail(ctx_stack)
            /\ var_seen_hash' = Forget(var_seen_hash, ask.new)
            /\ \/ \E i \in Models :
                    /\ ask' = [ask EXCEPT !.sat = TRUE, !.ce = i, !.new = {}]
                    /\ working_ce_cache' = IF DisableCECache THEN {}
                                           ELSE working_ce_cache \cup {i}
                    /\ global_ce_cache' = IF DisableCECache THEN global_ce_cache
                                          ELSE AddToGlobalCache(global_ce_cache, i)
               \/ /\ Solutions(Question) = {} \/ (SolverMayFail /\ TimeoutAsUnsat)
                  /\ ask' = [ask EXCEPT !.sat = FALSE, !.new = {}]
                  /\ UNCHANGED <<working_ce_cache, global_ce_cache>>
            /\ pc' = "answered"
            /\ UNCHANGED <<path_cond, saved, new_path, treeVars, iter, weird>>

\* The solver fails: SolverFailure is raised with the context still pushed.
SolverFails ==
    /\ pc = "solve" /\ SolverMayFail /\ ~TimeoutAsUnsat
    /\ pc' = IF NonfatalSolver /\ ask.for # "final" THEN "finish" ELSE "stopped"
    /\ saved' = << >>
    /\ ask' = NoQuery
    /\ UNCHANGED <<path_cond, var_seen_hash, eng, ctx_stack, cacheVars, treeVars, iter, weird>>

-----------------------------------------------------------------------------
(* The end of a path.                                                      *)

\* finish_path with -solve-final-pc: the path condition is solved once more.
SolveFinal ==
    /\ pc = "finish" /\ SolveFinalPC
    /\ ask' = [NoQuery EXCEPT !.for = "final"]
    /\ pc' = "query"
    /\ UNCHANGED <<solverVars, cacheVars, treeVars, iter, weird>>

\* Fault: the solver's context survives the path.
ResetEngine_Kept(e, s) == [eng |-> e, ctx_stack |-> s]

\* query_engine#reset: a new solver process, or empty lists (whose ctx_stack
\* is not cleared).
ResetEngine(e, s) == [eng |-> NoContext, ctx_stack |-> IF Incremental THEN << >> ELSE s]

\* Fault: one path more than -num-paths.
Another_OffByOne == iter =< NumPaths

Another == iter < NumPaths

\* The next path, unless an assertion on the final answer is the last straw.
Reset ==
    /\ \/ pc = "finish" /\ ~SolveFinalPC
       \/ pc = "answered" /\ ask.for = "final"
    /\ LET solved == pc = "answered" => ask.sat
       IN IF LastStraw(solved)
          THEN Fails
          ELSE /\ path_cond' = {} /\ var_seen_hash' = {}
               /\ eng' = ResetEngine(eng, ctx_stack).eng
               /\ ctx_stack' = ResetEngine(eng, ctx_stack).ctx_stack
               /\ saved' = << >>
               /\ working_ce_cache' = {} /\ new_path' = TRUE
               /\ hist' = << >>
               /\ ask' = NoQuery
               /\ iter' = IF Another THEN iter + 1 ELSE iter
               /\ pc' = IF Another THEN "arrive" ELSE "done"
               /\ weird' = Weird(solved)
               /\ UNCHANGED <<global_ce_cache, status, prog>>

Terminated == pc \in {"done", "stopped", "crashed"} /\ UNCHANGED vars

Next ==
    \/ Arrive \/ Enter \/ Exit
    \/ TakeKnown \/ AskFirst \/ TryFunc
    \/ FirstAnswered \/ BothAnswered \/ OneAnswered
    \/ OnceAnswered \/ UniqueAnswered \/ AnotherAnswered
    \/ Query \/ SolverAnswers \/ SolverFails
    \/ SolveFinal \/ Reset
    \/ Terminated

Spec == Init /\ [][Next]_vars

-----------------------------------------------------------------------------
(* Properties.                                                             *)

Context == [decls : [Vars -> Nat], conds : SUBSET Cond]

\* Types: the state stays in the shape that sym_path_frag_machine.ml gives it;
\* in particular no path is executed after the last one of -num-paths.
TypeOK ==
    /\ path_cond \subseteq Cond /\ var_seen_hash \subseteq Vars
    /\ eng \in Context /\ \A j \in DOMAIN ctx_stack : ctx_stack[j] \in Context
    /\ \A j \in DOMAIN saved :
         saved[j] \in [pc : SUBSET Cond, seen : SUBSET Vars, bits : SUBSET Literal]
    /\ working_ce_cache \subseteq Inputs
    /\ global_ce_cache \in [Inputs -> Int] /\ new_path \in BOOLEAN
    /\ hist \in Hist
    /\ status \in [Hist -> [BOOLEAN -> {"unknown", "sat", "unsat"}]]
    /\ DOMAIN prog \subseteq Hist /\ \A h \in DOMAIN prog : prog[h] \in Behaviours
    /\ ask.cond \in Cond /\ ask.ce \in Inputs \cup {None}
    /\ iter \in 1..NumPaths /\ weird \in 0..1

\* The branches decided on the way to h.
Decided(h) == {Branch(prog[SubSeq(h, 1, k - 1)].pred, h[k]) : k \in 1..Len(h)}

\* Whenever the solver is called, what has been asserted to it is the path
\* condition and the query, nothing older and nothing less: the pushes and
\* pops of restore_path_cond and query_with_path_cond, the failures between
\* them and the engine's reset never leave the two lists apart.
AsksPathCondition == pc = "solve" => Question = path_cond \cup {ask.cond}

\* No variable is declared to the solver twice, and every variable of a
\* question is declared: var_seen_hash, its copies in restore_path_cond and
\* the removal of a query's own variables keep step with the solver's frames.
DeclaredOnce ==
    /\ \A v \in Vars : eng.decls[v] =< 1
    /\ pc = "solve" => \A c \in Question : \A v \in VarsOf(c) : eng.decls[v] = 1

\* The path condition admits exactly the inputs that take the decisions of
\* the current history: what restore_path_cond drops is in the equation that
\* follows it, and a repeated condition that is not added was there already.
PathCondExact ==
    pc \notin {"crashed", "stopped", "done"} =>
        Solutions(path_cond \cup ExtraConds) = Solutions(Decided(hist) \cup ExtraConds)

\* What the tree remembers of a direction is true of the program: a direction
\* it calls satisfiable can be taken, and one it calls unsatisfiable cannot,
\* whichever cached assignments and solver answers that was learnt from.
TreeSound ==
    \A h \in Hist : \A b \in BOOLEAN :
        status[h][b] # "unknown" =>
            (status[h][b] = "sat") =
            (Solutions(Decided(h) \cup ExtraConds \cup {Branch(prog[h].pred, b)}) # {})

\* The half of TreeSound that survives -timeout-as-unsat: a direction said to
\* be satisfiable has been seen to be so.
SatIsReal ==
    \A h \in Hist : \A b \in BOOLEAN :
        status[h][b] = "sat" =>
            Solutions(Decided(h) \cup ExtraConds \cup {Branch(prog[h].pred, b)}) # {}

\* The global cache never keeps more than -global-ce-cache-limit assignments.
GlobalCacheFits == Cardinality({i \in Inputs : global_ce_cache[i] >= 0}) =< GlobalCELimit

\* The working cache holds solutions of the path condition only, after a fill,
\* a filter or a restored condition.
WorkingCacheFits == working_ce_cache \subseteq Solutions(path_cond)

\* The caches stay within their limits.
CachesFit == GlobalCacheFits /\ WorkingCacheFits

\* The program does not fail by itself: the assertions on answers of
\* try_extend, query_unique_value and finish_path hold, and no pop finds an
\* empty stack.
AssertionsHold == pc # "crashed" /\ weird = 0

\* A path that is being executed can be: "we must always reach the same
\* decision points in the same order when re-executing a path, so that the
\* decision tree gives consistent information".
PathFeasible == Solutions(path_cond) # {}
=============================================================================
