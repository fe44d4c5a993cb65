------------------------ MODULE PathConditionProofs ------------------------
(* Theorems about PathCondition for every value of its constants: the      *)
(* types, and the agreement of the path condition with what the solver has *)
(* been told.                                                              *)
EXTENDS PathCondition, FiniteSetTheorems, WellFoundedInduction, TLAPS

-----------------------------------------------------------------------------
(* Types.                                                                  *)

Phases == {"arrive", "enter", "decide", "try", "query", "solve", "answered", "finish",
           "done", "stopped", "crashed"}

\* What a query is made for: a branch direction, or the value of an expression.
BranchFor == {"both", "boring", "check", "other_of_sat", "other_of_unsat"}
ValueFor == {"unique", "another", "once"}

Ask == [for : BranchFor \cup ValueFor \cup {None, "final"}, cond : Cond, dir : BOOLEAN,
        new : SUBSET Vars, sat : BOOLEAN, ce : Inputs \cup {None}]
Frame == [pc : SUBSET Cond, seen : SUBSET Vars, bits : SUBSET Literal]
MachineRec == [pc : SUBSET Cond, seen : SUBSET Vars, eng : Context]

SolverType ==
    /\ path_cond \subseteq Cond /\ var_seen_hash \subseteq Vars /\ eng \in Context
    /\ ctx_stack \in Seq(Context) /\ saved \in Seq(Frame)

CacheType ==
    /\ working_ce_cache \subseteq Inputs
    /\ global_ce_cache \in [Inputs -> Int] /\ new_path \in BOOLEAN

TreeType ==
    /\ hist \in Hist
    /\ status \in [Hist -> [BOOLEAN -> {"unknown", "sat", "unsat"}]]
    /\ prog \in [DOMAIN prog -> Behaviours] /\ DOMAIN prog \subseteq Hist

ControlType ==
    /\ ask \in Ask /\ pc \in Phases
    /\ iter \in 1..NumPaths /\ weird \in 0..1

\* The node at which a path has arrived is one that the program has.  It has
\* kids unless the path ends there, outside every restore_path_cond.
AtNode ==
    pc \in {"enter", "decide", "try", "query", "solve", "answered"} /\ ask.for # "final" =>
        /\ hist \in DOMAIN prog
        /\ IF prog[hist].pred = "exit" THEN saved = << >> /\ pc # "enter"
           ELSE Len(hist) < PathDepth

\* What is asked, and when.
AskInv ==
    /\ ask.for \in BranchFor =>
         /\ pc \in {"try", "query", "solve", "answered", "crashed"}
         /\ hist \in DOMAIN prog /\ prog[hist].pred \in Preds
         /\ ask.cond = Branch(prog[hist].pred,
                              IF ask.for \in {"other_of_sat", "other_of_unsat"}
                              THEN ~ask.dir ELSE ask.dir)
    /\ ask.for \in ValueFor \cup {"final"} /\ pc # "crashed" => saved = << >>
    /\ ask.for = "final" => SolveFinalPC
    /\ pc = "finish" => saved = << >>
    /\ pc \in {"query", "solve", "answered"} => ask.for # None
    /\ pc = "try" => ask.for \in BranchFor
    /\ pc \in {"arrive", "enter", "decide"} => ask.for = None

TypeInv == SolverType /\ CacheType /\ TreeType /\ ControlType /\ AtNode /\ AskInv

-----------------------------------------------------------------------------
(* Conditions.                                                             *)

\* Branch conditions and equations are conditions.
LEMMA CondTypes ==
    /\ \A p \in Preds, b \in BOOLEAN : Branch(p, b) \in Cond
    /\ \A L \in SUBSET Literal : Equals(L) \in Cond
    /\ \A p \in Preds : Taut(p) \in Cond
    /\ ExpTrue \in Cond
    /\ ExtraConds \subseteq Cond
<1>1. \A p \in Preds, b \in BOOLEAN : [p |-> p, b |-> b] \in Literal
  BY DEF Literal
<1>2. ExtraConds \subseteq Cond
  BY WorldAssumption DEF ExtraConds, Cond
<1> QED
  BY <1>1, <1>2 DEF Branch, Equals, Taut, ExpTrue, Cond

\* The variables of conditions are variables.
LEMMA VarsOfType == \A c \in Cond : VarsOf(c) \subseteq Vars
BY WorldAssumption DEF VarsOf, Cond, Literal

\* A set of conditions is a conjunction.
LEMMA SolutionsFacts ==
    /\ \A C, D : Solutions(C \cup D) = Solutions(C) \cap Solutions(D)
    /\ \A C, c : Solutions(C \cup {c}) = {i \in Solutions(C) : Agrees(i, c)}
    /\ \A C, D : C \subseteq D => Solutions(D) \subseteq Solutions(C)
    /\ \A C : Solutions(C) \subseteq Inputs
    /\ Solutions({}) = Inputs
BY DEF Solutions

-----------------------------------------------------------------------------
(* push_cond_to_qe, ensure_extra_conditions and add_to_path_cond.          *)

\* The solver has been told of exactly the variables in `seen', once each, and
\* of no condition with others.
Declared(e, seen) ==
    /\ \A v \in Vars : e.decls[v] = IF v \in seen THEN 1 ELSE 0
    /\ \A c \in e.conds : VarsOf(c) \subseteq seen

\* Declaring variables that are new keeps count of them.
LEMMA DeclareFacts ==
    ASSUME NEW e \in Context, NEW V \in SUBSET Vars
    PROVE  /\ Declare(e, V) \in Context
           /\ Declare(e, V).conds = e.conds
           /\ \A v \in Vars : Declare(e, V).decls[v] = IF v \in V THEN e.decls[v] + 1 ELSE e.decls[v]
BY DEF Declare, Context

\* push_cond_to_qe asserts the conditions on both sides and declares what is
\* new in them.
LEMMA PushFacts ==
    ASSUME NEW m \in MachineRec, NEW C \in SUBSET Cond
    PROVE  /\ Push(m, C) \in MachineRec
           /\ Push(m, C).pc = m.pc \cup C
           /\ Push(m, C).eng.conds = m.eng.conds \cup C
           /\ Declared(m.eng, m.seen) => Declared(Push(m, C).eng, Push(m, C).seen)
<1> DEFINE new == (UNION {VarsOf(c) : c \in C}) \ m.seen
           d == Declare(m.eng, new)
           e == [d EXCEPT !.conds = @ \cup C]
<1>1. m.pc \subseteq Cond /\ m.seen \subseteq Vars /\ m.eng \in Context
  BY DEF MachineRec
<1>2. new \subseteq Vars /\ \A c \in C : VarsOf(c) \subseteq m.seen \cup new
  BY VarsOfType
<1> HIDE DEF new
<1>3. /\ d \in Context /\ d.conds = m.eng.conds
      /\ \A v \in Vars : d.decls[v] = IF v \in new THEN m.eng.decls[v] + 1 ELSE m.eng.decls[v]
  BY <1>1, <1>2, DeclareFacts
<1> HIDE DEF d
<1>4. e \in Context /\ e.conds = m.eng.conds \cup C /\ e.decls = d.decls
  BY <1>1, <1>3 DEF Context
<1> HIDE DEF e
<1>5. Push(m, C) = [pc |-> m.pc \cup C, seen |-> m.seen \cup new, eng |-> e]
  BY DEF Push, e, d, new
<1>6. Push(m, C) \in MachineRec
  BY <1>1, <1>2, <1>4, <1>5 DEF MachineRec
<1>7. ASSUME Declared(m.eng, m.seen) PROVE Declared(e, m.seen \cup new)
  <2>1. \A v \in new : v \notin m.seen
    BY DEF new
  <2>2. \A v \in Vars : e.decls[v] = IF v \in m.seen \cup new THEN 1 ELSE 0
    BY <1>3, <1>4, <1>7, <2>1 DEF Declared
  <2>3. \A c \in e.conds : VarsOf(c) \subseteq m.seen \cup new
    BY <1>2, <1>4, <1>7 DEF Declared
  <2> QED
    BY <2>2, <2>3 DEF Declared
<1> QED
  BY <1>4, <1>5, <1>6, <1>7

\* ensure_extra_conditions.
LEMMA EnsureFacts ==
    ASSUME NEW m \in MachineRec
    PROVE  LET n == EnsureExtraConditions(m)
           IN /\ n \in MachineRec
              /\ n.pc = m.pc \cup IF m.pc = {} THEN ExtraConds ELSE {}
              /\ n.eng.conds = m.eng.conds \cup IF m.pc = {} THEN ExtraConds ELSE {}
              /\ Declared(m.eng, m.seen) => Declared(n.eng, n.seen)
<1>1. CASE m.pc = {}
  BY <1>1, PushFacts, CondTypes DEF EnsureExtraConditions
<1>2. CASE m.pc # {}
  BY <1>2 DEF EnsureExtraConditions, MachineRec, Context
<1> QED
  BY <1>1, <1>2

\* add_to_path_cond.
LEMMA AddFacts ==
    ASSUME NEW m \in MachineRec, NEW c \in Cond
    PROVE  LET n == AddToPathCond(m, c)
           IN /\ n \in MachineRec
              /\ n.pc = m.pc \cup (IF m.pc = {} THEN ExtraConds ELSE {}) \cup {c}
              /\ m.pc \subseteq m.eng.conds =>
                   n.eng.conds = m.eng.conds \cup (IF m.pc = {} THEN ExtraConds ELSE {}) \cup {c}
              /\ Declared(m.eng, m.seen) => Declared(n.eng, n.seen)
<1> DEFINE m1 == EnsureExtraConditions(m)
<1>1. /\ m1 \in MachineRec
      /\ m1.pc = m.pc \cup IF m.pc = {} THEN ExtraConds ELSE {}
      /\ m1.eng.conds = m.eng.conds \cup IF m.pc = {} THEN ExtraConds ELSE {}
      /\ Declared(m.eng, m.seen) => Declared(m1.eng, m1.seen)
  BY EnsureFacts
<1> HIDE DEF m1
<1>2. AddToPathCond(m, c) = IF c \in m1.pc THEN m1 ELSE Push(m1, {c})
  BY DEF AddToPathCond, m1
<1>3. CASE c \in m1.pc
  BY <1>1, <1>2, <1>3
<1>4. CASE c \notin m1.pc
  <2>1. {c} \in SUBSET Cond
    OBVIOUS
  <2> QED
    BY <1>1, <1>2, <1>4, <2>1, PushFacts
<1> QED
  BY <1>3, <1>4

-----------------------------------------------------------------------------
(* Histories and stacks.                                                   *)

\* A history is a sequence of directions of bounded length.
LEMMA HistsAreSequences ==
    /\ \A h \in Hist : h \in Seq(BOOLEAN) /\ Len(h) \in Nat /\ Len(h) =< PathDepth
    /\ \A h \in Seq(BOOLEAN) : Len(h) =< PathDepth => h \in Hist
<1>0. PathDepth \in Nat
  BY BoundsAssumption
<1>1. ASSUME NEW h \in Hist
      PROVE  h \in Seq(BOOLEAN) /\ Len(h) \in Nat /\ Len(h) =< PathDepth
  <2>1. PICK k \in 0..PathDepth : h \in [1..k -> BOOLEAN]
    BY <1>1 DEF Hist
  <2>2. k \in Nat /\ k =< PathDepth
    BY <1>0
  <2> QED
    BY <2>1, <2>2
<1>2. ASSUME NEW h \in Seq(BOOLEAN), Len(h) =< PathDepth PROVE h \in Hist
  <2>1. h \in [1..Len(h) -> BOOLEAN] /\ Len(h) \in 0..PathDepth
    BY <1>0, <1>2
  <2> QED
    BY <2>1 DEF Hist
<1> QED
  BY <1>1, <1>2

\* The history before the first decision, and the one after another decision.
LEMMA HistTypes ==
    /\ << >> \in Hist
    /\ \A h \in Hist, b \in BOOLEAN : Len(h) < PathDepth => Append(h, b) \in Hist
<1>0. PathDepth \in Nat
  BY BoundsAssumption
<1>1. << >> \in Hist
  <2>1. << >> \in Seq(BOOLEAN) /\ Len(<< >>) = 0
    OBVIOUS
  <2>2. Len(<< >>) =< PathDepth
    BY <1>0, <2>1
  <2> QED
    BY <2>1, <2>2, HistsAreSequences, Zenon
<1>2. ASSUME NEW h \in Hist, NEW b \in BOOLEAN, Len(h) < PathDepth
      PROVE  Append(h, b) \in Hist
  <2>1. h \in Seq(BOOLEAN) /\ Len(h) \in Nat
    BY HistsAreSequences
  <2>2. Append(h, b) \in Seq(BOOLEAN) /\ Len(Append(h, b)) = Len(h) + 1
    BY <2>1
  <2>3. Len(Append(h, b)) =< PathDepth
    BY <1>0, <1>2, <2>1, <2>2
  <2> QED
    BY <2>2, <2>3, HistsAreSequences, Zenon
<1> QED
  BY <1>1, <1>2

\* Contexts and locals are pushed in front.
LEMMA PushedOn ==
    ASSUME NEW S, NEW x \in S, NEW s \in Seq(S)
    PROVE  /\ <<x>> \o s \in Seq(S)
           /\ Len(<<x>> \o s) = Len(s) + 1
           /\ (<<x>> \o s)[1] = x
           /\ \A j \in 1..Len(s) : (<<x>> \o s)[j + 1] = s[j]
OBVIOUS

-----------------------------------------------------------------------------
(* Type correctness.                                                       *)

\* The methods' view of the state is well typed, and so is what they leave.
LEMMA MachineType == SolverType => Machine \in MachineRec
BY DEF SolverType, Machine, MachineRec

\* ... and so is what they leave.
LEMMA BecomesType ==
    ASSUME NEW m \in MachineRec, Becomes(m)
    PROVE  path_cond' \subseteq Cond /\ var_seen_hash' \subseteq Vars /\ eng' \in Context
BY DEF Becomes, MachineRec

\* Between queries there is none.
LEMMA NoQueryType == NoQuery \in Ask /\ NoQuery.for = None
BY CondTypes DEF NoQuery, Ask

\* Queries have their type.
LEMMA AskTypes ==
    /\ \A c \in Cond, d \in BOOLEAN :
         \A f \in BranchFor \cup ValueFor \cup {None, "final"} :
           /\ [NoQuery EXCEPT !.for = f] \in Ask
           /\ [NoQuery EXCEPT !.for = f, !.cond = c] \in Ask
           /\ [NoQuery EXCEPT !.for = f, !.dir = d, !.cond = c] \in Ask
BY CondTypes DEF NoQuery, Ask

\* The caches' operations keep the counts integers.
LEMMA GlobalCacheType ==
    ASSUME NEW g \in [Inputs -> Int], NEW i \in Inputs
    PROVE  AddToGlobalCache(g, i) \in [Inputs -> Int]
<1>1. [g EXCEPT ![i] = @ + 1] \in [Inputs -> Int]
  OBVIOUS
<1>2. ASSUME NEW f \in [Inputs -> Int] PROVE Prune(f) \in [Inputs -> Int]
  BY DEF Prune
<1> QED
  BY <1>1, <1>2 DEF AddToGlobalCache

\* An equation drawn from an assignment, or from what was chosen bit by bit.
LEMMA EquationTypes ==
    /\ \A p \in Preds, b \in BOOLEAN : Equals({[p |-> p, b |-> b]}) \in Cond
    /\ saved \in Seq(Frame) => Chosen \in Cond
<1>1. \A p \in Preds, b \in BOOLEAN : {[p |-> p, b |-> b]} \in SUBSET Literal
  BY DEF Literal
<1>2. ASSUME saved \in Seq(Frame) PROVE UNION {saved[j].bits : j \in 1..Len(saved)} \subseteq Literal
  <2>1. \A j \in 1..Len(saved) : saved[j] \in Frame
    BY <1>2
  <2>2. \A j \in 1..Len(saved) : saved[j].bits \subseteq Literal
    BY <2>1 DEF Frame
  <2> QED
    BY <2>2
<1> QED
  BY <1>1, <1>2, CondTypes DEF Chosen

\* filter_working_cache only removes.
LEMMA FilterType ==
    ASSUME NEW c, NEW old, NEW W \in SUBSET Inputs
    PROVE  Filter(c, old, W) \subseteq W
BY DEF Filter

\* Everything starts in its type.
LEMMA InitType == Init => TypeInv
<1> SUFFICES ASSUME Init PROVE TypeInv
  OBVIOUS
<1>1. SolverType
  BY DEF Init, SolverType, NoContext, Context
<1>2. CacheType
  <2>1. working_ce_cache = {} /\ global_ce_cache = [i \in Inputs |-> -1] /\ new_path = FALSE
    BY DEF Init
  <2>2. [i \in Inputs |-> -1] \in [Inputs -> Int]
    OBVIOUS
  <2> QED
    BY <2>1, <2>2, Zenon DEF CacheType
<1>3. TreeType
  BY HistTypes DEF Init, TreeType
<1>4. ControlType
  <2>1. NumPaths \in Nat /\ NumPaths # 0
    BY BoundsAssumption
  <2>2. iter = 1 /\ weird = 0 /\ ask = NoQuery /\ pc = "arrive"
    BY DEF Init
  <2> QED
    BY <2>1, <2>2, NoQueryType DEF ControlType, Phases
<1>5. AtNode /\ AskInv
  BY NoQueryType DEF Init, AtNode, AskInv, BranchFor, ValueFor, None
<1> QED
  BY <1>1, <1>2, <1>3, <1>4, <1>5 DEF TypeInv

\* A decision that the tree has made keeps the types.
LEMMA TakeType ==
    ASSUME TypeInv, pc \in {"decide", "answered"}, ask.for # "final",
           prog[hist].pred \in Preds, NEW b \in BOOLEAN, Take(b),
           status' \in [Hist -> [BOOLEAN -> {"unknown", "sat", "unsat"}]]
    PROVE  TypeInv'
<1> DEFINE c == Branch(prog[hist].pred, b)
           m == AddToPathCond(Machine, c)
<1>1. /\ hist' = Append(hist, b)
      /\ Becomes(m)
      /\ saved' = IF saved = << >> THEN saved
                  ELSE <<[Head(saved) EXCEPT !.bits = @ \cup c.lits]>> \o Tail(saved)
      /\ working_ce_cache' = Filter(c, EnsureExtraConditions(Machine).pc, working_ce_cache)
      /\ ask' = NoQuery
      /\ pc' = "arrive"
      /\ UNCHANGED <<ctx_stack, global_ce_cache, new_path, prog, iter, weird>>
  BY DEF Take
<1>2. c \in Cond /\ c.lits \subseteq Literal
  BY CondTypes DEF Cond
<1>3. m \in MachineRec
  BY <1>2, MachineType, AddFacts DEF TypeInv
<1>4. saved' \in Seq(Frame)
  <2>1. CASE saved = << >>
    BY <1>1, <2>1
  <2>2. CASE saved # << >>
    <3>1. saved \in Seq(Frame) /\ Head(saved) \in Frame /\ Tail(saved) \in Seq(Frame)
      BY <2>2 DEF TypeInv, SolverType
    <3>2. [Head(saved) EXCEPT !.bits = @ \cup c.lits] \in Frame
      BY <1>2, <3>1 DEF Frame
    <3> QED
      BY <1>1, <2>2, <3>1, <3>2, PushedOn
  <2> QED
    BY <2>1, <2>2
<1>5. SolverType'
  BY <1>1, <1>3, <1>4, BecomesType DEF TypeInv, SolverType
<1>6. CacheType'
  BY <1>1, FilterType DEF TypeInv, CacheType
<1>7. hist' \in Hist
  <2>1. Len(hist) < PathDepth /\ hist \in Hist
    BY WorldAssumption DEF TypeInv, AtNode, TreeType
  <2> QED
    BY <1>1, <2>1, HistTypes
<1>8. TreeType'
  BY <1>1, <1>7 DEF TypeInv, TreeType
<1>9. ControlType'
  BY <1>1, NoQueryType DEF TypeInv, ControlType, Phases
<1>10. AtNode' /\ AskInv'
  BY <1>1, NoQueryType DEF AtNode, AskInv, BranchFor, ValueFor, None
<1> QED
  BY <1>5, <1>6, <1>8, <1>9, <1>10 DEF TypeInv

\* Arriving at a node.
LEMMA ArriveType == TypeInv /\ Arrive => TypeInv'
<1> SUFFICES ASSUME TypeInv, Arrive PROVE TypeInv'
  OBVIOUS
<1>1. PICK k \in Behaviours :
        /\ prog' = [h \in DOMAIN prog \cup {hist} |-> IF h = hist THEN k ELSE prog[h]]
        /\ k.leave => saved # << >>
        /\ k.pred = "exit" \/ Len(hist) < PathDepth
        /\ k.pred = "exit" \/ k.pre # None => saved = << >> \/ k.leave
        /\ IF k.leave /\ ~Underflow
           THEN /\ Becomes(Leave)
                /\ ctx_stack' = SubSeq(ctx_stack, Len(saved) + 1, Len(ctx_stack))
                /\ saved' = << >>
                /\ working_ce_cache' = Filter(Chosen, Outermost.pc, working_ce_cache)
           ELSE UNCHANGED <<solverVars, working_ce_cache>>
        /\ pc' = IF k.leave /\ Underflow THEN "crashed"
                 ELSE IF k.pre # None THEN "query"
                 ELSE IF k.enter THEN "enter"
                 ELSE "decide"
        /\ ask' = IF k.pre = None THEN NoQuery
                  ELSE [NoQuery EXCEPT !.for = k.pre, !.cond = Taut(k.on)]
  BY DEF Arrive
<1>2. UNCHANGED <<global_ce_cache, new_path, hist, status, iter, weird>>
  BY DEF Arrive
<1>3. k \in Behaviour
  BY WorldAssumption
<1>4. SolverType'
  <2>1. CASE k.leave /\ ~Underflow
    <3>1. /\ saved \in Seq(Frame) /\ saved # << >> /\ ctx_stack \in Seq(Context)
          /\ Len(saved) =< Len(ctx_stack)
      BY <1>1, <2>1 DEF TypeInv, SolverType, Underflow
    <3>2. Outermost \in Frame /\ ctx_stack[Len(saved)] \in Context
      BY <3>1 DEF Outermost
    <3>3. [pc |-> Outermost.pc, seen |-> Outermost.seen,
           eng |-> ctx_stack[Len(saved)]] \in MachineRec
      BY <3>2 DEF MachineRec, Frame
    <3>4. Leave \in MachineRec
      BY <3>1, <3>3, EquationTypes, AddFacts DEF Leave
    <3>5. SubSeq(ctx_stack, Len(saved) + 1, Len(ctx_stack)) \in Seq(Context)
      BY <3>1
    <3>6. Becomes(Leave) /\ saved' = << >>
          /\ ctx_stack' = SubSeq(ctx_stack, Len(saved) + 1, Len(ctx_stack))
      BY <1>1, <2>1
    <3>7. path_cond' \subseteq Cond /\ var_seen_hash' \subseteq Vars /\ eng' \in Context
      BY <3>4, <3>6, BecomesType
    <3> QED
      BY <3>5, <3>6, <3>7 DEF SolverType
  <2>2. CASE ~(k.leave /\ ~Underflow)
    BY <1>1, <2>2 DEF TypeInv, SolverType, solverVars
  <2> QED
    BY <2>1, <2>2
<1>5. CacheType'
  <2>1. working_ce_cache' \subseteq Inputs
    BY <1>1, FilterType DEF TypeInv, CacheType
  <2> QED
    BY <1>2, <2>1 DEF TypeInv, CacheType
<1>6. TreeType'
  <2>1. /\ DOMAIN prog' = DOMAIN prog \cup {hist}
        /\ prog' \in [DOMAIN prog' -> Behaviours]
    BY <1>1 DEF TypeInv, TreeType
  <2> QED
    BY <1>2, <2>1 DEF TypeInv, TreeType
<1>7. ask' \in Ask /\ ask'.for = k.pre /\ k.pre \in {None, "unique", "once"}
  <2>1. CASE k.pre = None
    BY <1>1, <2>1, NoQueryType
  <2>2. CASE k.pre # None
    <3>1. k.pre \in {"unique", "once"} /\ Taut(k.on) \in Cond
      BY <1>3, <2>2, CondTypes DEF Behaviour
    <3>2. ask' = [NoQuery EXCEPT !.for = k.pre, !.cond = Taut(k.on)]
      BY <1>1, <2>2
    <3> QED
      BY <3>1, <3>2, NoQueryType DEF Ask, ValueFor
  <2> QED
    BY <2>1, <2>2
<1>8. ControlType'
  BY <1>1, <1>2, <1>7 DEF TypeInv, ControlType, Phases
<1>9. AtNode'
  <2>1. k.pred = "exit" => ~k.enter
    BY WorldAssumption
  <2>2. prog'[hist'] = k /\ hist' \in DOMAIN prog'
    BY <1>1, <1>2
  <2>3. k.pred = "exit" /\ pc' # "crashed" => saved' = << >>
    BY <1>1 DEF solverVars
  <2> QED
    BY <1>1, <1>2, <2>1, <2>2, <2>3 DEF AtNode
<1>10. AskInv'
  <2>1. ask'.for \in ValueFor /\ pc' # "crashed" => saved' = << >>
    BY <1>1, <1>7 DEF None, ValueFor, solverVars
  <2> QED
    BY <1>1, <1>7, <2>1 DEF AskInv, BranchFor, ValueFor, None
<1> QED
  BY <1>4, <1>5, <1>6, <1>8, <1>9, <1>10 DEF TypeInv

\* Entering a restore_path_cond.
LEMMA EnterType == TypeInv /\ Enter => TypeInv'
<1> SUFFICES ASSUME TypeInv, Enter PROVE TypeInv'
  OBVIOUS
<1> DEFINE m == EnsureExtraConditions(Machine)
<1>1. /\ pc = "enter" /\ pc' = "decide"
      /\ Becomes(m)
      /\ saved' = <<[pc |-> m.pc, seen |-> m.seen, bits |-> {}]>> \o saved
      /\ ctx_stack' = <<m.eng>> \o ctx_stack
      /\ UNCHANGED <<cacheVars, treeVars, ask, iter, weird>>
  BY DEF Enter
<1>2. m \in MachineRec
  BY MachineType, EnsureFacts DEF TypeInv
<1> HIDE DEF m
<1>3. m.eng \in Context /\ [pc |-> m.pc, seen |-> m.seen, bits |-> {}] \in Frame
  BY <1>2 DEF MachineRec, Frame
<1>4. saved' \in Seq(Frame) /\ ctx_stack' \in Seq(Context)
  BY <1>1, <1>3, PushedOn DEF TypeInv, SolverType
<1>5. SolverType'
  BY <1>1, <1>2, <1>4, BecomesType DEF SolverType
<1>6. CacheType' /\ TreeType'
  BY <1>1 DEF TypeInv, CacheType, TreeType, cacheVars, treeVars
<1>7. ControlType' /\ AtNode' /\ AskInv'
  BY <1>1 DEF TypeInv, ControlType, AtNode, AskInv, Phases, treeVars, BranchFor, ValueFor, None
<1> QED
  BY <1>5, <1>6, <1>7 DEF TypeInv

\* An uncaught exception changes nothing but the place.
LEMMA FailsType == TypeInv /\ Fails => TypeInv'
<1> SUFFICES ASSUME TypeInv, Fails PROVE TypeInv'
  OBVIOUS
<1>1. pc' = "crashed" /\ UNCHANGED <<solverVars, cacheVars, treeVars, ask, iter, weird>>
  BY DEF Fails
<1>2. SolverType' /\ CacheType' /\ TreeType'
  BY <1>1 DEF TypeInv, SolverType, CacheType, TreeType, solverVars, cacheVars, treeVars
<1>3. ControlType' /\ AtNode' /\ AskInv'
  BY <1>1 DEF TypeInv, ControlType, AtNode, AskInv, Phases, solverVars, treeVars, None
<1> QED
  BY <1>2, <1>3 DEF TypeInv

\* One of the two directions is asked for next.
LEMMA AskOtherType ==
    ASSUME TypeInv, pc = "answered", ask.for = "both",
           NEW f \in {"other_of_sat", "other_of_unsat"}, AskOther(f),
           status' \in [Hist -> [BOOLEAN -> {"unknown", "sat", "unsat"}]]
    PROVE  TypeInv'
<1> DEFINE c == Branch(prog[hist].pred, ~ask.dir)
<1>1. /\ ask' = [NoQuery EXCEPT !.for = f, !.dir = ask.dir, !.cond = c]
      /\ pc' = "try"
      /\ UNCHANGED <<solverVars, cacheVars, hist, prog, iter, weird>>
  BY DEF AskOther
<1>2. prog[hist].pred \in Preds /\ ask.dir \in BOOLEAN /\ hist \in DOMAIN prog
  BY DEF TypeInv, AskInv, BranchFor, ControlType, Ask
<1>3. c \in Cond
  BY <1>2, CondTypes
<1> HIDE DEF c
<1>4. ask' \in Ask /\ ask'.for = f /\ ask'.dir = ask.dir /\ ask'.cond = c
  BY <1>1, <1>2, <1>3, NoQueryType DEF Ask, BranchFor
<1>5. SolverType' /\ CacheType'
  BY <1>1 DEF TypeInv, SolverType, CacheType, solverVars, cacheVars
<1>6. TreeType' /\ ControlType'
  BY <1>1, <1>4 DEF TypeInv, TreeType, ControlType, Phases
<1>7. AtNode'
  BY <1>1 DEF TypeInv, AtNode, solverVars
<1>8. AskInv'
  BY <1>1, <1>2, <1>4 DEF AskInv, BranchFor, ValueFor, None, c
<1> QED
  BY <1>5, <1>6, <1>7, <1>8 DEF TypeInv

\* Recording a direction's status.
LEMMA StatusType ==
    ASSUME TypeInv, NEW b \in BOOLEAN, NEW s \in {"unknown", "sat", "unsat"}
    PROVE  Status(b, s) \in [Hist -> [BOOLEAN -> {"unknown", "sat", "unsat"}]]
BY DEF TypeInv, TreeType, Status

\* Deciding a branch.
LEMMA DecideType ==
    ASSUME TypeInv, TakeKnown \/ AskFirst \/ TryFunc \/ Exit
    PROVE  TypeInv'
<1>1. CASE TakeKnown
  <2>1. PICK b \in BOOLEAN : Take(b)
    BY <1>1 DEF TakeKnown
  <2>2. /\ pc = "decide" /\ prog[hist].pred \in Preds /\ ask.for # "final"
        /\ status' \in [Hist -> [BOOLEAN -> {"unknown", "sat", "unsat"}]]
    BY <1>1 DEF TakeKnown, Decides, TypeInv, AskInv, TreeType, None
  <2> QED
    BY <2>1, <2>2, TakeType
<1>2. CASE AskFirst
  <2>1. PICK b \in BOOLEAN : \E f \in AskFor(b) :
          ask' = [NoQuery EXCEPT !.for = f, !.dir = b, !.cond = Branch(prog[hist].pred, b)]
    BY <1>2 DEF AskFirst
  <2>2. PICK f \in AskFor(b) :
          ask' = [NoQuery EXCEPT !.for = f, !.dir = b, !.cond = Branch(prog[hist].pred, b)]
    BY <2>1
  <2>3. f \in {"both", "boring", "check"}
    BY DEF AskFor
  <2>4. /\ pc = "decide" /\ prog[hist].pred \in Preds /\ pc' = "try"
        /\ UNCHANGED <<solverVars, cacheVars, treeVars, iter, weird>>
    BY <1>2 DEF AskFirst, Decides
  <2> DEFINE c == Branch(prog[hist].pred, b)
  <2>5. c \in Cond
    BY <2>4, CondTypes
  <2> HIDE DEF c
  <2>6. ask' \in Ask /\ ask'.for = f /\ ask'.dir = b /\ ask'.cond = c
    BY <2>2, <2>3, <2>5, NoQueryType DEF Ask, BranchFor, c
  <2>7. SolverType' /\ CacheType' /\ TreeType'
    BY <2>4 DEF TypeInv, SolverType, CacheType, TreeType, solverVars, cacheVars, treeVars
  <2>8. hist \in DOMAIN prog /\ ask.for = None
    BY <2>4 DEF TypeInv, AtNode, AskInv, None
  <2>9. ControlType' /\ AtNode'
    BY <2>4, <2>6, <2>8 DEF TypeInv, ControlType, AtNode, Phases, treeVars, solverVars, None
  <2>10. AskInv'
    BY <2>3, <2>4, <2>6, <2>8 DEF AskInv, BranchFor, ValueFor, None, c, treeVars, solverVars
  <2> QED
    BY <2>7, <2>9, <2>10 DEF TypeInv
<1>3. CASE TryFunc
  <2>1. /\ pc = "try" /\ pc' \in {"query", "answered"}
        /\ ask' = [ask EXCEPT !.sat = (QuickCheck(ask.cond) = "sat")]
        /\ UNCHANGED <<solverVars, cacheVars, treeVars, iter, weird>>
    BY <1>3 DEF TryFunc
  <2>2. /\ ask' \in Ask /\ ask'.for = ask.for /\ ask'.dir = ask.dir /\ ask'.cond = ask.cond
    BY <2>1 DEF TypeInv, ControlType, Ask
  <2>3. SolverType' /\ CacheType' /\ TreeType'
    BY <2>1 DEF TypeInv, SolverType, CacheType, TreeType, solverVars, cacheVars, treeVars
  <2>4. ControlType' /\ AtNode' /\ AskInv'
    BY <2>1, <2>2 DEF TypeInv, ControlType, AtNode, AskInv, Phases, solverVars, treeVars,
                      BranchFor, ValueFor, None
  <2> QED
    BY <2>3, <2>4 DEF TypeInv
<1>4. CASE Exit
  <2>1. /\ pc = "decide" /\ pc' = "finish"
        /\ UNCHANGED <<solverVars, cacheVars, treeVars, ask, iter, weird>>
    BY <1>4 DEF Exit
  <2>2. saved = << >> /\ ask.for = None
    BY <1>4, <2>1 DEF Exit, TypeInv, AtNode, AskInv, None
  <2>3. SolverType' /\ CacheType' /\ TreeType'
    BY <2>1 DEF TypeInv, SolverType, CacheType, TreeType, solverVars, cacheVars, treeVars
  <2>4. ControlType' /\ AtNode' /\ AskInv'
    BY <2>1, <2>2 DEF TypeInv, ControlType, AtNode, AskInv, Phases, solverVars, treeVars,
                      BranchFor, ValueFor, None
  <2> QED
    BY <2>3, <2>4 DEF TypeInv
<1> QED
  BY <1>1, <1>2, <1>3, <1>4

\* The answers to questions about directions.
LEMMA BranchAnsweredType ==
    ASSUME TypeInv, FirstAnswered \/ BothAnswered \/ OneAnswered
    PROVE  TypeInv'
<1>1. CASE Fails
  BY <1>1, FailsType
<1>2. CASE FirstAnswered /\ ~Fails
  <2>1. pc = "answered" /\ ask.for = "both" /\ ask.dir \in BOOLEAN
    BY <1>2 DEF FirstAnswered, TypeInv, ControlType, Ask
  <2>2. \/ AskOther("other_of_sat") /\ UNCHANGED status
        \/ AskOther("other_of_unsat") /\ status' = Status(ask.dir, "unsat")
    BY <1>2 DEF FirstAnswered
  <2>3. status' \in [Hist -> [BOOLEAN -> {"unknown", "sat", "unsat"}]]
    BY <2>1, <2>2, StatusType DEF TypeInv, TreeType
  <2> QED
    BY <2>1, <2>2, <2>3, AskOtherType
<1>3. CASE (BothAnswered \/ OneAnswered) /\ ~Fails
  <2>1. /\ pc = "answered" /\ ask.for \in BranchFor /\ ask.for # "final"
        /\ ask.dir \in BOOLEAN /\ (~ask.dir) \in BOOLEAN
        /\ prog[hist].pred \in Preds
    BY <1>3 DEF BothAnswered, OneAnswered, TypeInv, ControlType, Ask, AskInv, BranchFor
  <2>2. \/ /\ Take(ask.dir)
           /\ status' = [status EXCEPT ![hist] =
                           [b \in BOOLEAN |-> IF b = ask.dir \/ ask.sat THEN "sat" ELSE "unsat"]]
        \/ Take(~ask.dir) /\ status' = Status(~ask.dir, "sat")
        \/ Take(ask.dir) /\ status' = Status(ask.dir, "sat")
        \/ Take(~ask.dir) /\ status' = Status(ask.dir, "unsat")
    BY <1>3 DEF BothAnswered, OneAnswered
  <2>3. [status EXCEPT ![hist] =
            [b \in BOOLEAN |-> IF b = ask.dir \/ ask.sat THEN "sat" ELSE "unsat"]]
          \in [Hist -> [BOOLEAN -> {"unknown", "sat", "unsat"}]]
    BY DEF TypeInv, TreeType
  <2>4. status' \in [Hist -> [BOOLEAN -> {"unknown", "sat", "unsat"}]]
    BY <2>1, <2>2, <2>3, StatusType
  <2> QED
    BY <2>1, <2>2, <2>4, TakeType
<1> QED
  BY <1>1, <1>2, <1>3

\* The answers to questions about values.
LEMMA ValueAnsweredType ==
    ASSUME TypeInv, OnceAnswered \/ UniqueAnswered \/ AnotherAnswered
    PROVE  TypeInv'
<1>0. /\ ask \in Ask /\ ask.for \in ValueFor /\ pc = "answered" /\ saved = << >>
      /\ hist \in DOMAIN prog /\ prog[hist].on \in Preds /\ weird \in 0..1
      /\ prog[hist].pred = "exit" => ~prog[hist].enter
  <2>1. ask \in Ask /\ ask.for \in ValueFor /\ pc = "answered" /\ weird \in 0..1
    BY DEF OnceAnswered, UniqueAnswered, AnotherAnswered, TypeInv, ControlType, ValueFor
  <2>2. hist \in DOMAIN prog /\ saved = << >>
    BY <2>1 DEF TypeInv, AtNode, AskInv, ValueFor
  <2>3. prog[hist] \in Behaviours
    BY <2>2 DEF TypeInv, TreeType
  <2> QED
    BY <2>1, <2>2, <2>3, WorldAssumption DEF Behaviour
<1>1. CASE Fails
  BY <1>1, FailsType
<1>2. CASE OnceAnswered /\ ~Fails
  <2> DEFINE p == prog[hist].on
             c == Equals({[p |-> p, b |-> ask.ce \in Holds[p]]})
  <2>1. /\ Becomes(AddToPathCond(Machine, c))
        /\ working_ce_cache' = Filter(c, path_cond, working_ce_cache)
        /\ ask' = NoQuery
        /\ pc' = IF prog[hist].enter THEN "enter" ELSE "decide"
        /\ UNCHANGED <<ctx_stack, saved, global_ce_cache, new_path, treeVars, iter, weird>>
    BY <1>2 DEF OnceAnswered
  <2>2. c \in Cond
    <3>1. (ask.ce \in Holds[p]) \in BOOLEAN
      OBVIOUS
    <3> QED
      BY <1>0, <3>1, EquationTypes, Zenon
  <2> HIDE DEF c
  <2>3. AddToPathCond(Machine, c) \in MachineRec
    BY <2>2, MachineType, AddFacts DEF TypeInv
  <2>4. SolverType'
    BY <2>1, <2>3, BecomesType DEF TypeInv, SolverType
  <2>5. CacheType'
    BY <2>1, FilterType DEF TypeInv, CacheType
  <2>6. TreeType' /\ ControlType'
    BY <2>1, NoQueryType DEF TypeInv, TreeType, ControlType, treeVars, Phases
  <2>7. AtNode' /\ AskInv'
    BY <1>0, <2>1, NoQueryType DEF TypeInv, AtNode, AskInv, BranchFor, ValueFor, None, treeVars
  <2> QED
    BY <2>4, <2>5, <2>6, <2>7 DEF TypeInv
<1>3. CASE UniqueAnswered /\ ~Fails
  <2> DEFINE p == prog[hist].on
             c(i) == Equals({[p |-> p, b |-> i \notin Holds[p]]})
  <2>1. PICK i : ask' = [NoQuery EXCEPT !.for = "another", !.cond = c(i)]
    BY <1>3 DEF UniqueAnswered
  <2>2. /\ ~LastStraw(ask.sat) /\ weird' = Weird(ask.sat) /\ pc' = "query"
        /\ UNCHANGED <<solverVars, cacheVars, treeVars, iter>>
    BY <1>3 DEF UniqueAnswered
  <2>3. c(i) \in Cond
    <3>1. (i \notin Holds[p]) \in BOOLEAN
      OBVIOUS
    <3> QED
      BY <1>0, <3>1, EquationTypes, Zenon
  <2> HIDE DEF c
  <2>4. ask' \in Ask /\ ask'.for = "another"
    BY <2>1, <2>3, NoQueryType DEF Ask, ValueFor
  <2>5. weird' \in 0..1
    BY <1>0, <2>2 DEF LastStraw, Weird
  <2>6. SolverType' /\ CacheType' /\ TreeType'
    BY <2>2 DEF TypeInv, SolverType, CacheType, TreeType, solverVars, cacheVars, treeVars
  <2>7. ControlType' /\ AtNode' /\ AskInv'
    BY <1>0, <2>2, <2>4, <2>5 DEF TypeInv, ControlType, AtNode, AskInv, Phases, solverVars,
                                  treeVars, BranchFor, ValueFor, None
  <2> QED
    BY <2>6, <2>7 DEF TypeInv
<1>4. CASE AnotherAnswered /\ ~Fails
  <2> DEFINE differs == ask.sat => Agrees(ask.ce, ask.cond)
  <2>1. /\ ~LastStraw(differs) /\ weird' = Weird(differs) /\ ask' = NoQuery
        /\ pc' = IF prog[hist].enter THEN "enter" ELSE "decide"
        /\ UNCHANGED <<solverVars, cacheVars, treeVars, iter>>
    BY <1>4 DEF AnotherAnswered
  <2> HIDE DEF differs
  <2>2. weird' \in 0..1
    BY <1>0, <2>1 DEF LastStraw, Weird
  <2>3. SolverType' /\ CacheType' /\ TreeType'
    BY <2>1 DEF TypeInv, SolverType, CacheType, TreeType, solverVars, cacheVars, treeVars
  <2>4. ControlType' /\ AtNode' /\ AskInv'
    BY <1>0, <2>1, <2>2, NoQueryType
       DEF TypeInv, ControlType, AtNode, AskInv, Phases, solverVars, treeVars,
           BranchFor, ValueFor, None
  <2> QED
    BY <2>3, <2>4 DEF TypeInv
<1> QED
  BY <1>1, <1>2, <1>3, <1>4

\* The caches or the solver answer a query, or the solver fails.
LEMMA QueryType ==
    ASSUME TypeInv, Query \/ SolverAnswers \/ SolverFails
    PROVE  TypeInv'
<1>0. ask \in Ask /\ ask.cond \in Cond /\ Machine \in MachineRec
  BY MachineType DEF TypeInv, ControlType, Ask
<1>1. CASE Fails
  BY <1>1, FailsType
<1>2. CASE Query
  <2> DEFINE m   == EnsureExtraConditions(Machine)
             W   == IF new_path THEN FillWorkingCache(m.pc) ELSE working_ce_cache
             hit == {i \in W : Agrees(i, ask.cond)} \cap Solutions(m.pc)
             new == VarsOf(ask.cond) \ m.seen
             e   == Declare(m.eng, new)
             n   == [m EXCEPT !.seen = @ \cup new,
                              !.eng = IF Incremental
                                      THEN [e EXCEPT !.conds = @ \cup {ask.cond}]
                                      ELSE e]
  <2>1. /\ pc = "query" /\ working_ce_cache' = W /\ new_path' = FALSE
        /\ UNCHANGED <<saved, treeVars, iter, weird>>
        /\ \/ \E i \in hit :
                /\ Becomes(m)
                /\ global_ce_cache' = AddToGlobalCache(global_ce_cache, i)
                /\ ask' = [ask EXCEPT !.sat = TRUE, !.ce = i]
                /\ pc' = "answered"
                /\ UNCHANGED ctx_stack
           \/ /\ Becomes(n)
              /\ ctx_stack' = <<m.eng>> \o ctx_stack
              /\ ask' = [ask EXCEPT !.new = new]
              /\ pc' = "solve"
              /\ UNCHANGED global_ce_cache
    BY <1>2 DEF Query
  <2>2. m \in MachineRec
    BY <1>0, EnsureFacts
  <2>3. W \subseteq Inputs /\ hit \subseteq Inputs
    BY DEF FillWorkingCache, Solutions, TypeInv, CacheType
  <2>4. new \subseteq Vars
    BY <1>0, VarsOfType
  <2> HIDE DEF m, W, hit, new
  <2>5. m.eng \in Context /\ e \in Context
    BY <2>2, <2>4, DeclareFacts DEF MachineRec
  <2> HIDE DEF e
  <2>6. [e EXCEPT !.conds = @ \cup {ask.cond}] \in Context
    BY <1>0, <2>5 DEF Context
  <2>7. n \in MachineRec
    BY <2>2, <2>4, <2>5, <2>6 DEF MachineRec
  <2> HIDE DEF n
  <2>8. path_cond' \subseteq Cond /\ var_seen_hash' \subseteq Vars /\ eng' \in Context
    <3>1. Becomes(m) \/ Becomes(n)
      BY <2>1
    <3> QED
      BY <2>2, <2>7, <3>1, BecomesType
  <2>9. ctx_stack' \in Seq(Context)
    <3>1. ctx_stack \in Seq(Context)
      BY DEF TypeInv, SolverType
    <3>2. ctx_stack' = ctx_stack \/ ctx_stack' = <<m.eng>> \o ctx_stack
      BY <2>1
    <3> QED
      BY <2>5, <3>1, <3>2
  <2>10. SolverType'
    BY <2>1, <2>8, <2>9 DEF TypeInv, SolverType
  <2>11. CacheType'
    <3>1. global_ce_cache' \in [Inputs -> Int]
      BY <2>1, <2>3, GlobalCacheType DEF TypeInv, CacheType
    <3> QED
      BY <2>1, <2>3, <3>1 DEF CacheType
  <2>12. /\ ask' \in Ask /\ ask'.for = ask.for /\ ask'.dir = ask.dir /\ ask'.cond = ask.cond
         /\ pc' \in {"solve", "answered"}
    BY <1>0, <2>1, <2>3, <2>4 DEF Ask
  <2>13. TreeType' /\ ControlType'
    BY <2>1, <2>12 DEF TypeInv, TreeType, ControlType, treeVars, Phases
  <2>14. AtNode' /\ AskInv'
    BY <2>1, <2>12 DEF TypeInv, AtNode, AskInv, BranchFor, ValueFor, None, treeVars
  <2> QED
    BY <2>10, <2>11, <2>13, <2>14 DEF TypeInv
<1>3. CASE SolverAnswers /\ ~Fails
  <2>1. /\ pc = "solve" /\ ctx_stack # << >>
        /\ eng' = Head(ctx_stack) /\ ctx_stack' = Tail(ctx_stack)
        /\ var_seen_hash' = var_seen_hash \ ask.new
        /\ pc' = "answered"
        /\ UNCHANGED <<path_cond, saved, new_path, treeVars, iter, weird>>
    BY <1>3 DEF SolverAnswers, Forget
  <2>2. \/ \E i \in Models :
             /\ ask' = [ask EXCEPT !.sat = TRUE, !.ce = i, !.new = {}]
             /\ working_ce_cache' = IF DisableCECache THEN {}
                                    ELSE working_ce_cache \cup {i}
             /\ global_ce_cache' = IF DisableCECache THEN global_ce_cache
                                   ELSE AddToGlobalCache(global_ce_cache, i)
        \/ /\ ask' = [ask EXCEPT !.sat = FALSE, !.new = {}]
           /\ UNCHANGED <<working_ce_cache, global_ce_cache>>
    BY <1>3 DEF SolverAnswers
  <2>3. Models \subseteq Inputs
    BY WorldAssumption DEF Models, Solutions
  <2>4. SolverType'
    BY <2>1 DEF TypeInv, SolverType
  <2>5. CacheType'
    <3>1. /\ working_ce_cache' \subseteq Inputs
          /\ global_ce_cache' \in [Inputs -> Int]
      BY <2>2, <2>3, GlobalCacheType DEF TypeInv, CacheType
    <3> QED
      BY <2>1, <3>1 DEF TypeInv, CacheType
  <2>6. ask' \in Ask /\ ask'.for = ask.for /\ ask'.dir = ask.dir /\ ask'.cond = ask.cond
    BY <1>0, <2>2, <2>3 DEF Ask
  <2>7. TreeType' /\ ControlType'
    BY <2>1, <2>6 DEF TypeInv, TreeType, ControlType, treeVars, Phases
  <2>8. AtNode' /\ AskInv'
    BY <2>1, <2>6 DEF TypeInv, AtNode, AskInv, BranchFor, ValueFor, None, treeVars
  <2> QED
    BY <2>4, <2>5, <2>7, <2>8 DEF TypeInv
<1>4. CASE SolverFails
  <2>1. /\ pc' \in {"finish", "stopped"} /\ saved' = << >> /\ ask' = NoQuery
        /\ UNCHANGED <<path_cond, var_seen_hash, eng, ctx_stack, cacheVars, treeVars, iter,
                       weird>>
    BY <1>4 DEF SolverFails
  <2>2. SolverType' /\ CacheType' /\ TreeType'
    BY <2>1 DEF TypeInv, SolverType, CacheType, TreeType, cacheVars, treeVars
  <2>3. ControlType' /\ AtNode' /\ AskInv'
    BY <2>1, NoQueryType DEF TypeInv, ControlType, AtNode, AskInv, Phases, BranchFor, ValueFor,
                             None
  <2> QED
    BY <2>2, <2>3 DEF TypeInv
<1> QED
  BY <1>1, <1>2, <1>3, <1>4

\* The end of a path.
LEMMA EndType ==
    ASSUME TypeInv, SolveFinal \/ Reset
    PROVE  TypeInv'
<1>1. CASE Fails
  BY <1>1, FailsType
<1>2. CASE SolveFinal
  <2>1. /\ pc = "finish" /\ SolveFinalPC /\ pc' = "query"
        /\ ask' = [NoQuery EXCEPT !.for = "final"]
        /\ UNCHANGED <<solverVars, cacheVars, treeVars, iter, weird>>
    BY <1>2 DEF SolveFinal
  <2>2. ask' \in Ask /\ ask'.for = "final"
    BY <2>1, NoQueryType DEF Ask
  <2>3. SolverType' /\ CacheType' /\ TreeType'
    BY <2>1 DEF TypeInv, SolverType, CacheType, TreeType, solverVars, cacheVars, treeVars
  <2>4. ControlType' /\ AtNode' /\ AskInv'
    BY <2>1, <2>2 DEF TypeInv, ControlType, AtNode, AskInv, Phases, solverVars, BranchFor,
                      ValueFor, None
  <2> QED
    BY <2>3, <2>4 DEF TypeInv
<1>3. CASE Reset /\ ~Fails
  <2> DEFINE solved == pc = "answered" => ask.sat
  <2>1. /\ path_cond' = {} /\ var_seen_hash' = {}
        /\ eng' = NoContext
        /\ ctx_stack' = IF Incremental THEN << >> ELSE ctx_stack
        /\ saved' = << >>
        /\ working_ce_cache' = {} /\ new_path' = TRUE
        /\ hist' = << >>
        /\ ask' = NoQuery
        /\ iter' = IF Another THEN iter + 1 ELSE iter
        /\ pc' = IF Another THEN "arrive" ELSE "done"
        /\ weird' = Weird(solved) /\ ~LastStraw(solved)
        /\ UNCHANGED <<global_ce_cache, status, prog>>
    BY <1>3 DEF Reset, ResetEngine
  <2> HIDE DEF solved
  <2>2. SolverType'
    BY <2>1 DEF TypeInv, SolverType, NoContext, Context
  <2>3. CacheType' /\ TreeType'
    BY <2>1, HistTypes DEF TypeInv, CacheType, TreeType
  <2>4. iter' \in 1..NumPaths
    <3>1. NumPaths \in Nat /\ iter \in 1..NumPaths
      BY BoundsAssumption DEF TypeInv, ControlType
    <3> QED
      BY <2>1, <3>1 DEF Another
  <2>5. weird' \in 0..1
    BY <2>1 DEF LastStraw, Weird, TypeInv, ControlType
  <2>6. ControlType' /\ AtNode' /\ AskInv'
    BY <2>1, <2>4, <2>5, NoQueryType
       DEF ControlType, AtNode, AskInv, Phases, BranchFor, ValueFor, None
  <2> QED
    BY <2>2, <2>3, <2>6 DEF TypeInv
<1> QED
  BY <1>1, <1>2, <1>3

\* A step that changes nothing keeps whatever holds.
LEMMA StutterType == TypeInv /\ UNCHANGED vars => TypeInv'
<1> SUFFICES ASSUME TypeInv, UNCHANGED vars PROVE TypeInv'
  OBVIOUS
<1>1. SolverType' /\ CacheType' /\ TreeType'
  BY DEF TypeInv, SolverType, CacheType, TreeType, vars, solverVars, cacheVars, treeVars
<1>2. ControlType' /\ AtNode' /\ AskInv'
  BY DEF TypeInv, ControlType, AtNode, AskInv, vars, solverVars, treeVars
<1> QED
  BY <1>1, <1>2 DEF TypeInv

\* Every step keeps the types.
LEMMA TypeStep == TypeInv /\ [Next]_vars => TypeInv'
BY ArriveType, EnterType, DecideType, BranchAnsweredType, ValueAnsweredType, QueryType, EndType,
   StutterType
   DEF Next, Terminated

\* The types of sym_path_frag_machine.ml's state hold on every path of every
\* program, for every solver: no path is run after the last of -num-paths, at
\* most one g_assert failure is survived, and no context, saved local or
\* cached assignment is malformed.
THEOREM PathTypesCorrect == Spec => []TypeOK
<1>1. TypeInv => TypeOK
  <2> SUFFICES ASSUME TypeInv PROVE TypeOK
    OBVIOUS
  <2>1. /\ \A j \in DOMAIN ctx_stack : ctx_stack[j] \in Context
        /\ \A j \in DOMAIN saved : saved[j] \in Frame
    BY DEF TypeInv, SolverType
  <2>2. \A h \in DOMAIN prog : prog[h] \in Behaviours
    BY DEF TypeInv, TreeType
  <2>3. ask.cond \in Cond /\ ask.ce \in Inputs \cup {None}
    BY DEF TypeInv, ControlType, Ask
  <2> QED
    BY <2>1, <2>2, <2>3 DEF TypeInv, SolverType, CacheType, TreeType, ControlType, TypeOK, Frame
<1>2. Spec => []TypeInv
  BY InitType, TypeStep, PTL DEF Spec
<1> QED
  BY <1>1, <1>2, PTL

-----------------------------------------------------------------------------
(* The path condition, the variables taken to be declared and the solver's *)
(* stack of contexts keep step.                                            *)

-----------------------------------------------------------------------------
(* The invariant.  While the solver works, the context that push saved is  *)
(* the one that the path condition belongs to.                             *)

Offset == IF pc = "solve" THEN 1 ELSE 0
Base == IF pc = "solve" THEN Head(ctx_stack) ELSE eng

\* SolverFailure leaves the failed query asserted in a solver that keeps its
\* own formulas, until the next reset.
AbandonsQueries == Incremental /\ NonfatalSolver /\ SolverMayFail /\ ~TimeoutAsUnsat
MayHoldFailed ==
    \/ pc = "stopped"
    \/ (pc = "finish" \/ ask.for = "final") /\ AbandonsQueries

\* Each restore_path_cond in progress has its context on the stack, and what
\* it will put back is what that context was told.
FramesInv ==
    /\ Len(saved) + Offset =< Len(ctx_stack)
    /\ \A j \in 1..Len(saved) :
         /\ Declared(ctx_stack[j + Offset], saved[j].seen)
         /\ ctx_stack[j + Offset].conds = saved[j].pc
         /\ ExtraConds \subseteq saved[j].pc /\ saved[j].pc \subseteq path_cond

DeclInv ==
    /\ Declared(eng, var_seen_hash)
    /\ pc = "solve" => /\ Declared(Head(ctx_stack), var_seen_hash \ ask.new)
                       /\ VarsOf(ask.cond) \subseteq var_seen_hash

EngineInv ==
    /\ path_cond \subseteq Base.conds
    /\ ~MayHoldFailed => Base.conds = path_cond
    /\ pc = "solve" => eng.conds = Base.conds \cup (IF Incremental THEN {ask.cond} ELSE {})

\* -extra-condition is part of every path condition that is not empty.
ExtraInv ==
    /\ path_cond = {} \/ ExtraConds \subseteq path_cond
    /\ pc = "solve" => ExtraConds \subseteq path_cond

SyncInv == FramesInv /\ DeclInv /\ EngineInv /\ ExtraInv

-----------------------------------------------------------------------------
(* What several steps share.                                               *)

\* Steps outside the solver that leave the path condition and the contexts
\* alone.
LEMMA SyncKept ==
    ASSUME SyncInv, UNCHANGED solverVars, pc # "solve", pc' # "solve",
           MayHoldFailed => MayHoldFailed'
    PROVE  SyncInv'
<1>1. /\ UNCHANGED <<path_cond, var_seen_hash, eng, ctx_stack, saved>>
  BY DEF solverVars
<1>2. Offset = 0 /\ Offset' = 0 /\ Base' = Base /\ Base = eng
  BY <1>1 DEF Offset, Base
<1>3. FramesInv'
  BY <1>1, <1>2 DEF SyncInv, FramesInv
<1>4. DeclInv' /\ EngineInv' /\ ExtraInv'
  BY <1>1, <1>2 DEF SyncInv, DeclInv, EngineInv, ExtraInv
<1> QED
  BY <1>3, <1>4 DEF SyncInv

\* Steps outside the solver after which path condition and context are those
\* of a machine that is in step, with the stacks left alone.
LEMMA SyncMachine ==
    ASSUME TypeInv, SyncInv, NEW m \in MachineRec, Becomes(m), pc # "solve", pc' # "solve",
           path_cond \subseteq m.pc, m.pc \subseteq m.eng.conds, Declared(m.eng, m.seen),
           ~MayHoldFailed' => m.eng.conds = m.pc,
           m.pc = {} \/ ExtraConds \subseteq m.pc,
           UNCHANGED ctx_stack, Len(saved') = Len(saved),
           \A j \in 1..Len(saved) : saved'[j].pc = saved[j].pc /\ saved'[j].seen = saved[j].seen
    PROVE  SyncInv'
<1>1. path_cond' = m.pc /\ var_seen_hash' = m.seen /\ eng' = m.eng
  BY DEF Becomes
<1>2. Offset = 0 /\ Offset' = 0 /\ Base' = m.eng
  BY <1>1 DEF Offset, Base
<1>3. FramesInv'
  BY <1>1, <1>2 DEF SyncInv, FramesInv
<1>4. DeclInv' /\ EngineInv' /\ ExtraInv'
  BY <1>1, <1>2 DEF DeclInv, EngineInv, ExtraInv
<1> QED
  BY <1>3, <1>4 DEF SyncInv

\* Outside the solver the methods' view of the state is in step.
LEMMA MachineSync ==
    ASSUME TypeInv, SyncInv, pc # "solve"
    PROVE  /\ Machine \in MachineRec
           /\ Machine.pc = path_cond /\ Machine.seen = var_seen_hash /\ Machine.eng = eng
           /\ Declared(Machine.eng, Machine.seen)
           /\ Machine.pc \subseteq Machine.eng.conds
           /\ ~MayHoldFailed => Machine.eng.conds = Machine.pc
           /\ Machine.pc = {} \/ ExtraConds \subseteq Machine.pc
<1>1. Machine \in MachineRec
  BY MachineType DEF TypeInv
<1>2. Machine.pc = path_cond /\ Machine.seen = var_seen_hash /\ Machine.eng = eng
  BY DEF Machine
<1> QED
  BY <1>1, <1>2 DEF SyncInv, DeclInv, EngineInv, ExtraInv, Base

\* What ensure_extra_conditions leaves is in step.
LEMMA EnsureSync ==
    ASSUME TypeInv, SyncInv, pc # "solve"
    PROVE  LET n == EnsureExtraConditions(Machine)
           IN /\ n \in MachineRec /\ n.eng \in Context /\ n.seen \subseteq Vars
              /\ path_cond \subseteq n.pc /\ n.pc \subseteq n.eng.conds
              /\ Declared(n.eng, n.seen)
              /\ ~MayHoldFailed => n.eng.conds = n.pc
              /\ ExtraConds \subseteq n.pc
<1> DEFINE n == EnsureExtraConditions(Machine)
<1>1. /\ n \in MachineRec
      /\ n.pc = Machine.pc \cup IF Machine.pc = {} THEN ExtraConds ELSE {}
      /\ n.eng.conds = Machine.eng.conds \cup IF Machine.pc = {} THEN ExtraConds ELSE {}
      /\ Declared(Machine.eng, Machine.seen) => Declared(n.eng, n.seen)
  BY MachineSync, EnsureFacts
<1> HIDE DEF n
<1>2. n.eng \in Context /\ n.seen \subseteq Vars
  BY <1>1 DEF MachineRec
<1>3. /\ path_cond \subseteq n.pc /\ n.pc \subseteq n.eng.conds
      /\ Declared(n.eng, n.seen)
      /\ ~MayHoldFailed => n.eng.conds = n.pc
      /\ ExtraConds \subseteq n.pc
  BY <1>1, MachineSync
<1> QED
  BY <1>1, <1>2, <1>3 DEF n

\* What add_to_path_cond leaves is in step.
LEMMA AddSync ==
    ASSUME TypeInv, SyncInv, pc # "solve", NEW c \in Cond
    PROVE  LET n == AddToPathCond(Machine, c)
           IN /\ n \in MachineRec
              /\ path_cond \subseteq n.pc /\ n.pc \subseteq n.eng.conds
              /\ Declared(n.eng, n.seen)
              /\ ~MayHoldFailed => n.eng.conds = n.pc
              /\ ExtraConds \subseteq n.pc
<1> DEFINE n == AddToPathCond(Machine, c)
<1>1. /\ n \in MachineRec
      /\ n.pc = Machine.pc \cup (IF Machine.pc = {} THEN ExtraConds ELSE {}) \cup {c}
      /\ Machine.pc \subseteq Machine.eng.conds =>
           n.eng.conds = Machine.eng.conds \cup (IF Machine.pc = {} THEN ExtraConds ELSE {}) \cup {c}
      /\ Declared(Machine.eng, Machine.seen) => Declared(n.eng, n.seen)
  BY MachineSync, AddFacts
<1> HIDE DEF n
<1>2. /\ path_cond \subseteq n.pc /\ n.pc \subseteq n.eng.conds
      /\ Declared(n.eng, n.seen)
      /\ ~MayHoldFailed => n.eng.conds = n.pc
      /\ ExtraConds \subseteq n.pc
  BY <1>1, MachineSync
<1> QED
  BY <1>1, <1>2 DEF n

-----------------------------------------------------------------------------
(* Every step keeps the invariant.                                         *)

\* Nothing has been told to the solver at first.
LEMMA InitSync == Init => SyncInv
<1> SUFFICES ASSUME Init PROVE SyncInv
  OBVIOUS
<1>1. /\ path_cond = {} /\ var_seen_hash = {} /\ eng = NoContext /\ ctx_stack = << >>
      /\ saved = << >> /\ pc = "arrive"
  BY DEF Init
<1>2. Declared(NoContext, {}) /\ NoContext.conds = {}
  BY DEF Declared, NoContext
<1>3. Offset = 0 /\ Base = NoContext
  BY <1>1 DEF Offset, Base
<1> QED
  BY <1>1, <1>2, <1>3 DEF SyncInv, FramesInv, DeclInv, EngineInv, ExtraInv

\* A decision is added to the path condition and asserted; restore_path_cond
\* will put back what it would have before.
LEMMA TakeSync ==
    ASSUME TypeInv, SyncInv, pc \in {"decide", "answered"}, ask.for # "final",
           prog[hist].pred \in Preds, NEW b \in BOOLEAN, Take(b)
    PROVE  SyncInv'
<1> DEFINE c == Branch(prog[hist].pred, b)
           m == AddToPathCond(Machine, c)
<1>1. /\ Becomes(m) /\ pc' = "arrive" /\ UNCHANGED ctx_stack
      /\ saved' = IF saved = << >> THEN saved
                  ELSE <<[Head(saved) EXCEPT !.bits = @ \cup c.lits]>> \o Tail(saved)
  BY DEF Take
<1>2. c \in Cond
  BY CondTypes
<1>3. /\ m \in MachineRec
      /\ path_cond \subseteq m.pc /\ m.pc \subseteq m.eng.conds
      /\ Declared(m.eng, m.seen)
      /\ ~MayHoldFailed => m.eng.conds = m.pc
      /\ ExtraConds \subseteq m.pc
  BY <1>2, AddSync
<1>4. ~MayHoldFailed
  BY DEF MayHoldFailed
<1>5. /\ Len(saved') = Len(saved)
      /\ \A j \in 1..Len(saved) : saved'[j].pc = saved[j].pc /\ saved'[j].seen = saved[j].seen
  <2>1. CASE saved = << >>
    BY <1>1, <2>1
  <2>2. CASE saved # << >>
    <3> DEFINE f == [Head(saved) EXCEPT !.bits = @ \cup c.lits]
    <3>1. saved \in Seq(Frame) /\ Head(saved) \in Frame /\ Tail(saved) \in Seq(Frame)
      BY <2>2 DEF TypeInv, SolverType
    <3>2. f.pc = saved[1].pc /\ f.seen = saved[1].seen
      BY <3>1 DEF Frame
    <3> HIDE DEF f
    <3>3. saved' = <<f>> \o Tail(saved)
      BY <1>1, <2>2 DEF f
    <3>4. Len(saved') = Len(saved) /\ saved'[1] = f /\ \A j \in 2..Len(saved) : saved'[j] = saved[j]
      BY <2>2, <3>1, <3>3
    <3>5. \A j \in 1..Len(saved) : j = 1 \/ j \in 2..Len(saved)
      BY <3>1
    <3> QED
      BY <3>2, <3>4, <3>5
  <2> QED
    BY <2>1, <2>2
<1> HIDE DEF m
<1> QED
  BY <1>1, <1>3, <1>4, <1>5, SyncMachine

\* Leaving restore_path_cond pops the contexts of the calls in progress and
\* goes on with what the outermost one saved; the stack has them all.
LEMMA ArriveSync == TypeInv /\ SyncInv /\ Arrive => SyncInv'
<1> SUFFICES ASSUME TypeInv, SyncInv, Arrive PROVE SyncInv'
  OBVIOUS
<1>1. PICK k \in Behaviours :
        /\ k.leave => saved # << >>
        /\ IF k.leave /\ ~Underflow
           THEN /\ Becomes(Leave)
                /\ ctx_stack' = SubSeq(ctx_stack, Len(saved) + 1, Len(ctx_stack))
                /\ saved' = << >>
           ELSE UNCHANGED solverVars
        /\ pc' \in {"crashed", "query", "enter", "decide"}
  BY DEF Arrive
<1>2. pc = "arrive" /\ ~MayHoldFailed
  BY DEF Arrive, MayHoldFailed, TypeInv, AskInv, None
<1>3. CASE ~(k.leave /\ ~Underflow)
  BY <1>1, <1>2, <1>3, SyncKept
<1>4. CASE k.leave /\ ~Underflow
  <2> DEFINE n == Len(saved)
             m == [pc |-> Outermost.pc, seen |-> Outermost.seen, eng |-> ctx_stack[n]]
  <2>1. /\ Becomes(Leave) /\ saved' = << >>
        /\ ctx_stack' = SubSeq(ctx_stack, Len(saved) + 1, Len(ctx_stack))
    BY <1>1, <1>4
  <2>2. /\ saved \in Seq(Frame) /\ ctx_stack \in Seq(Context)
        /\ n \in 1..Len(saved) /\ n =< Len(ctx_stack)
    BY <1>1, <1>4 DEF TypeInv, SolverType, Underflow
  <2>3. Outermost \in Frame /\ ctx_stack[n] \in Context
    BY <2>2 DEF Outermost
  <2>4. m \in MachineRec
    BY <2>3 DEF MachineRec, Frame
  <2>5. /\ Declared(ctx_stack[n], Outermost.seen) /\ ctx_stack[n].conds = Outermost.pc
        /\ ExtraConds \subseteq Outermost.pc
    <3>1. Offset = 0 /\ n + 0 = n
      BY <1>2, <2>2 DEF Offset
    <3> QED
      BY <2>2, <3>1 DEF SyncInv, FramesInv, Outermost
  <2>6. m.pc = Outermost.pc /\ m.seen = Outermost.seen /\ m.eng = ctx_stack[n]
    OBVIOUS
  <2>7. Leave = AddToPathCond(m, Chosen) /\ Chosen \in Cond
    BY <2>2, EquationTypes DEF Leave
  <2> HIDE DEF m
  <2>8. /\ Leave \in MachineRec /\ Leave.pc \subseteq Leave.eng.conds
        /\ Leave.eng.conds = Leave.pc /\ Declared(Leave.eng, Leave.seen)
        /\ ExtraConds \subseteq Leave.pc
    <3>1. /\ Leave \in MachineRec
          /\ Leave.pc = m.pc \cup (IF m.pc = {} THEN ExtraConds ELSE {}) \cup {Chosen}
          /\ m.pc \subseteq m.eng.conds =>
               Leave.eng.conds = m.eng.conds \cup (IF m.pc = {} THEN ExtraConds ELSE {})
                                             \cup {Chosen}
          /\ Declared(m.eng, m.seen) => Declared(Leave.eng, Leave.seen)
      BY <2>4, <2>7, AddFacts
    <3> QED
      BY <2>5, <2>6, <3>1
  <2>9. path_cond' = Leave.pc /\ var_seen_hash' = Leave.seen /\ eng' = Leave.eng
    BY <2>1 DEF Becomes
  <2>10. Offset' = 0 /\ Base' = Leave.eng
    BY <1>1, <2>9 DEF Offset, Base
  <2>11. ctx_stack' \in Seq(Context)
    BY <2>1, <2>2
  <2>12. FramesInv'
    BY <2>1, <2>10, <2>11 DEF FramesInv
  <2>13. DeclInv' /\ EngineInv' /\ ExtraInv'
    BY <1>1, <2>8, <2>9, <2>10 DEF DeclInv, EngineInv, ExtraInv
  <2> QED
    BY <2>12, <2>13 DEF SyncInv
<1> QED
  BY <1>3, <1>4

\* restore_path_cond saves the path condition together with its context.
LEMMA EnterSync == TypeInv /\ SyncInv /\ Enter => SyncInv'
<1> SUFFICES ASSUME TypeInv, SyncInv, Enter PROVE SyncInv'
  OBVIOUS
<1> DEFINE m == EnsureExtraConditions(Machine)
           f == [pc |-> m.pc, seen |-> m.seen, bits |-> {}]
<1>1. /\ pc = "enter" /\ pc' = "decide" /\ Becomes(m)
      /\ saved' = <<f>> \o saved
      /\ ctx_stack' = <<m.eng>> \o ctx_stack
  BY DEF Enter
<1>2. ~MayHoldFailed /\ Offset = 0 /\ Offset' = 0
  BY <1>1 DEF MayHoldFailed, TypeInv, AskInv, None, Offset
<1>3. /\ m \in MachineRec /\ m.eng \in Context /\ m.seen \subseteq Vars
      /\ path_cond \subseteq m.pc /\ m.pc \subseteq m.eng.conds
      /\ Declared(m.eng, m.seen)
      /\ m.eng.conds = m.pc
      /\ ExtraConds \subseteq m.pc
  BY <1>1, <1>2, EnsureSync
<1>4. f.pc = m.pc /\ f.seen = m.seen /\ f \in Frame
  BY <1>3 DEF Frame, MachineRec
<1> HIDE DEF m, f
<1>5. path_cond' = m.pc /\ var_seen_hash' = m.seen /\ eng' = m.eng /\ Base' = m.eng
  BY <1>1 DEF Becomes, Base
<1>6. saved \in Seq(Frame) /\ ctx_stack \in Seq(Context)
  BY DEF TypeInv, SolverType
<1>7. /\ Len(saved') = Len(saved) + 1 /\ Len(ctx_stack') = Len(ctx_stack) + 1
      /\ saved'[1] = f /\ ctx_stack'[1] = m.eng
      /\ \A j \in 2..Len(saved') : saved'[j] = saved[j - 1]
      /\ \A j \in 2..Len(ctx_stack') : ctx_stack'[j] = ctx_stack[j - 1]
  BY <1>1, <1>3, <1>4, <1>6
<1>8. FramesInv'
  <2>1. Len(saved) =< Len(ctx_stack) /\ Len(saved) \in Nat /\ Len(ctx_stack) \in Nat
    BY <1>2, <1>6 DEF SyncInv, FramesInv
  <2>2. Len(saved') + Offset' =< Len(ctx_stack')
    BY <1>2, <1>7, <2>1
  <2>3. ASSUME NEW j \in 1..Len(saved')
        PROVE  /\ Declared(ctx_stack'[j], saved'[j].seen)
               /\ ctx_stack'[j].conds = saved'[j].pc
               /\ ExtraConds \subseteq saved'[j].pc /\ saved'[j].pc \subseteq path_cond'
    <3>1. CASE j = 1
      BY <1>3, <1>4, <1>5, <1>7, <3>1
    <3>2. CASE j # 1
      <4>1. j - 1 \in 1..Len(saved) /\ j \in 2..Len(saved') /\ j \in 2..Len(ctx_stack')
        BY <1>7, <2>1, <3>2
      <4>2. (j - 1) + Offset = j - 1
        BY <1>2, <4>1
      <4>3. /\ Declared(ctx_stack[j - 1], saved[j - 1].seen)
            /\ ctx_stack[j - 1].conds = saved[j - 1].pc
            /\ ExtraConds \subseteq saved[j - 1].pc /\ saved[j - 1].pc \subseteq path_cond
        BY <4>1, <4>2 DEF SyncInv, FramesInv
      <4>4. saved'[j] = saved[j - 1] /\ ctx_stack'[j] = ctx_stack[j - 1]
        BY <1>7, <4>1
      <4> QED
        BY <1>3, <1>5, <4>3, <4>4
    <3> QED
      BY <3>1, <3>2
  <2>4. \A j \in 1..Len(saved') : j + Offset' = j
    BY <1>2
  <2> QED
    BY <2>2, <2>3, <2>4 DEF FramesInv
<1>9. DeclInv' /\ EngineInv' /\ ExtraInv'
  BY <1>1, <1>3, <1>5 DEF DeclInv, EngineInv, ExtraInv
<1> QED
  BY <1>8, <1>9 DEF SyncInv

\* An uncaught exception outside the solver changes neither side.
LEMMA FailsSync == SyncInv /\ Fails /\ pc \notin {"solve", "finish", "stopped"} => SyncInv'
<1> SUFFICES ASSUME SyncInv, Fails, pc \notin {"solve", "finish", "stopped"} PROVE SyncInv'
  OBVIOUS
<1>1. pc' = "crashed" /\ UNCHANGED <<solverVars, ask>>
  BY DEF Fails
<1>2. MayHoldFailed => MayHoldFailed'
  BY <1>1 DEF MayHoldFailed
<1> QED
  BY <1>1, <1>2, SyncKept

\* Deciding a branch.
LEMMA DecideSync ==
    ASSUME TypeInv, SyncInv, TakeKnown \/ AskFirst \/ TryFunc \/ Exit
    PROVE  SyncInv'
<1>1. CASE TakeKnown
  <2>1. PICK b \in BOOLEAN : Take(b)
    BY <1>1 DEF TakeKnown
  <2>2. pc = "decide" /\ prog[hist].pred \in Preds /\ ask.for # "final"
    BY <1>1 DEF TakeKnown, Decides, TypeInv, AskInv, None
  <2> QED
    BY <2>1, <2>2, TakeSync
<1>2. CASE AskFirst \/ TryFunc \/ Exit
  <2>1. /\ pc \in {"decide", "try"} /\ pc' \in {"try", "query", "answered", "finish"}
        /\ UNCHANGED solverVars
    BY <1>2 DEF AskFirst, TryFunc, Exit, Decides
  <2>2. ~MayHoldFailed
    BY <2>1 DEF MayHoldFailed, TypeInv, AskInv, BranchFor, None
  <2> QED
    BY <2>1, <2>2, SyncKept
<1> QED
  BY <1>1, <1>2

\* The answers to questions about directions.
LEMMA BranchAnsweredSync ==
    ASSUME TypeInv, SyncInv, FirstAnswered \/ BothAnswered \/ OneAnswered
    PROVE  SyncInv'
<1>1. /\ pc = "answered" /\ ask.for \in BranchFor /\ ask.for # "final"
      /\ ask.dir \in BOOLEAN /\ (~ask.dir) \in BOOLEAN /\ prog[hist].pred \in Preds
  BY DEF FirstAnswered, BothAnswered, OneAnswered, TypeInv, ControlType, Ask, AskInv, BranchFor
<1>2. \/ Fails \/ AskOther("other_of_sat") \/ AskOther("other_of_unsat")
      \/ Take(ask.dir) \/ Take(~ask.dir)
  BY DEF FirstAnswered, BothAnswered, OneAnswered
<1>3. CASE Fails
  BY <1>1, <1>3, FailsSync
<1>4. CASE AskOther("other_of_sat") \/ AskOther("other_of_unsat")
  <2>1. pc' = "try" /\ UNCHANGED solverVars
    BY <1>4 DEF AskOther
  <2>2. ~MayHoldFailed
    BY <1>1 DEF MayHoldFailed
  <2> QED
    BY <1>1, <2>1, <2>2, SyncKept
<1>5. CASE Take(ask.dir) \/ Take(~ask.dir)
  BY <1>1, <1>5, TakeSync
<1> QED
  BY <1>2, <1>3, <1>4, <1>5

\* The answers to questions about values.
LEMMA ValueAnsweredSync ==
    ASSUME TypeInv, SyncInv, OnceAnswered \/ UniqueAnswered \/ AnotherAnswered
    PROVE  SyncInv'
<1>1. pc = "answered" /\ ask.for \in ValueFor /\ ~MayHoldFailed
  BY DEF OnceAnswered, UniqueAnswered, AnotherAnswered, ValueFor, MayHoldFailed
<1>2. CASE Fails
  BY <1>1, <1>2, FailsSync
<1>3. CASE OnceAnswered /\ ~Fails
  <2> DEFINE p == prog[hist].on
             c == Equals({[p |-> p, b |-> ask.ce \in Holds[p]]})
             m == AddToPathCond(Machine, c)
  <2>1. /\ Becomes(m)
        /\ pc' \in {"enter", "decide"}
        /\ UNCHANGED <<ctx_stack, saved>>
    BY <1>3 DEF OnceAnswered
  <2>2. c \in Cond
    <3>1. hist \in DOMAIN prog
      BY <1>1 DEF TypeInv, AtNode, ValueFor
    <3>2. p \in Preds
      BY <3>1, WorldAssumption DEF TypeInv, TreeType, Behaviour
    <3>3. (ask.ce \in Holds[p]) \in BOOLEAN
      OBVIOUS
    <3> QED
      BY <3>2, <3>3, EquationTypes, Zenon
  <2> HIDE DEF c
  <2>3. /\ m \in MachineRec
        /\ path_cond \subseteq m.pc /\ m.pc \subseteq m.eng.conds
        /\ Declared(m.eng, m.seen)
        /\ ~MayHoldFailed => m.eng.conds = m.pc
        /\ ExtraConds \subseteq m.pc
    BY <1>1, <2>2, AddSync
  <2> HIDE DEF m
  <2> QED
    BY <1>1, <2>1, <2>3, SyncMachine
<1>4. CASE (UniqueAnswered \/ AnotherAnswered) /\ ~Fails
  <2>1. pc' \in {"query", "enter", "decide"} /\ UNCHANGED solverVars
    BY <1>4 DEF UniqueAnswered, AnotherAnswered
  <2> QED
    BY <1>1, <2>1, SyncKept
<1> QED
  BY <1>2, <1>3, <1>4

\* A query pushes a context, and declares and asserts in the new one.
LEMMA QuerySync == TypeInv /\ SyncInv /\ Query => SyncInv'
<1> SUFFICES ASSUME TypeInv, SyncInv, Query PROVE SyncInv'
  OBVIOUS
<1> DEFINE m   == EnsureExtraConditions(Machine)
           new == VarsOf(ask.cond) \ m.seen
           e   == Declare(m.eng, new)
           n   == [m EXCEPT !.seen = @ \cup new,
                            !.eng = IF Incremental
                                    THEN [e EXCEPT !.conds = @ \cup {ask.cond}]
                                    ELSE e]
<1>1. /\ pc = "query" /\ UNCHANGED saved
      /\ \/ /\ Becomes(m) /\ pc' = "answered" /\ UNCHANGED ctx_stack
            /\ \E i : ask' = [ask EXCEPT !.sat = TRUE, !.ce = i]
         \/ /\ Becomes(n) /\ pc' = "solve" /\ ctx_stack' = <<m.eng>> \o ctx_stack
            /\ ask' = [ask EXCEPT !.new = new]
  BY DEF Query
<1>2. /\ m \in MachineRec /\ m.eng \in Context /\ m.seen \subseteq Vars
      /\ path_cond \subseteq m.pc /\ m.pc \subseteq m.eng.conds
      /\ Declared(m.eng, m.seen)
      /\ ~MayHoldFailed => m.eng.conds = m.pc
      /\ ExtraConds \subseteq m.pc
  BY <1>1, EnsureSync
<1>3. /\ ask \in Ask /\ ask.cond \in Cond
      /\ saved \in Seq(Frame) /\ ctx_stack \in Seq(Context)
  BY DEF TypeInv, ControlType, Ask, SolverType
<1> HIDE DEF m
<1>4. CASE Becomes(m) /\ pc' = "answered" /\ UNCHANGED ctx_stack
           /\ \E i : ask' = [ask EXCEPT !.sat = TRUE, !.ce = i]
  <2>1. ask'.for = ask.for
    BY <1>3, <1>4 DEF Ask
  <2>2. MayHoldFailed => MayHoldFailed'
    BY <1>1, <1>4, <2>1 DEF MayHoldFailed
  <2> QED
    BY <1>1, <1>2, <1>4, <2>2, SyncMachine
<1>5. CASE /\ Becomes(n) /\ pc' = "solve" /\ ctx_stack' = <<m.eng>> \o ctx_stack
           /\ ask' = [ask EXCEPT !.new = new]
  <2>1. new \subseteq Vars /\ VarsOf(ask.cond) \subseteq m.seen \cup new
        /\ (m.seen \cup new) \ new = m.seen
    BY <1>3, VarsOfType
  <2>2. ask'.for = ask.for /\ ask'.cond = ask.cond /\ ask'.new = new
    BY <1>3, <1>5 DEF Ask
  <2>2a. \A v \in new : v \notin m.seen
    OBVIOUS
  <2> HIDE DEF new
  <2>3. /\ e \in Context /\ e.conds = m.eng.conds
        /\ \A v \in Vars : e.decls[v] = IF v \in new THEN m.eng.decls[v] + 1 ELSE m.eng.decls[v]
    BY <1>2, <2>1, DeclareFacts
  <2> HIDE DEF e
  <2>4. /\ n.pc = m.pc /\ n.seen = m.seen \cup new
        /\ n.eng = IF Incremental THEN [e EXCEPT !.conds = @ \cup {ask.cond}] ELSE e
    BY <1>2 DEF MachineRec
  <2>5. /\ n.eng.decls = e.decls
        /\ n.eng.conds = m.eng.conds \cup (IF Incremental THEN {ask.cond} ELSE {})
    BY <2>3, <2>4 DEF Context
  <2> HIDE DEF n
  <2>6. Declared(n.eng, m.seen \cup new)
    <3>1. \A v \in Vars : n.eng.decls[v] = IF v \in m.seen \cup new THEN 1 ELSE 0
      BY <1>2, <2>2a, <2>3, <2>5 DEF Declared
    <3>2. \A c \in n.eng.conds : VarsOf(c) \subseteq m.seen \cup new
      BY <1>2, <2>1, <2>5 DEF Declared
    <3> QED
      BY <3>1, <3>2 DEF Declared
  <2>7. path_cond' = m.pc /\ var_seen_hash' = m.seen \cup new /\ eng' = n.eng
    BY <1>5, <2>4 DEF Becomes
  <2>8. /\ Len(ctx_stack') = Len(ctx_stack) + 1 /\ Head(ctx_stack') = m.eng
        /\ \A j \in 1..Len(ctx_stack) : ctx_stack'[j + 1] = ctx_stack[j]
    BY <1>2, <1>3, <1>5
  <2>9. Offset = 0 /\ Offset' = 1 /\ Base' = m.eng
    BY <1>1, <1>5, <2>8 DEF Offset, Base
  <2>10. FramesInv'
    <3>1. Len(saved) =< Len(ctx_stack) /\ Len(saved) \in Nat /\ Len(ctx_stack) \in Nat
      BY <1>3, <2>9 DEF SyncInv, FramesInv
    <3>2. Len(saved') + Offset' =< Len(ctx_stack')
      <4>1. Len(saved') = Len(saved) /\ Offset' = 1 /\ Len(ctx_stack') = Len(ctx_stack) + 1
        BY <1>1, <2>8, <2>9
      <4> QED
        BY <3>1, <4>1
    <3>3. \A j \in 1..Len(saved) : j + Offset = j /\ j + Offset' = j + 1 /\ j \in 1..Len(ctx_stack)
      BY <2>9, <3>1
    <3>4. \A j \in 1..Len(saved) :
            /\ Declared(ctx_stack[j], saved[j].seen)
            /\ ctx_stack[j].conds = saved[j].pc
            /\ ExtraConds \subseteq saved[j].pc /\ saved[j].pc \subseteq path_cond
      BY <3>3 DEF SyncInv, FramesInv
    <3>5. \A j \in 1..Len(saved) : saved[j].pc \subseteq path_cond'
      BY <1>2, <2>7, <3>4
    <3>6. \A j \in 1..Len(saved) : ctx_stack'[j + Offset'] = ctx_stack[j]
      BY <2>8, <3>3
    <3> QED
      BY <1>1, <3>2, <3>4, <3>5, <3>6, Zenon DEF FramesInv
  <2>11. DeclInv'
    BY <1>2, <1>5, <2>1, <2>2, <2>6, <2>7, <2>8 DEF DeclInv
  <2>12. EngineInv'
    <3>1. MayHoldFailed => MayHoldFailed'
      BY <1>1, <2>2 DEF MayHoldFailed
    <3> QED
      BY <1>2, <2>2, <2>5, <2>7, <2>9, <3>1 DEF EngineInv
  <2>13. ExtraInv'
    BY <1>2, <2>7 DEF ExtraInv
  <2> QED
    BY <2>10, <2>11, <2>12, <2>13 DEF SyncInv
<1> QED
  BY <1>1, <1>4, <1>5

\* The answer pops the context; the query's own variables are forgotten on
\* both sides.  A failure leaves the context pushed and asserted.
LEMMA SolverSync ==
    ASSUME TypeInv, SyncInv, SolverAnswers \/ SolverFails
    PROVE  SyncInv'
<1>1. /\ pc = "solve" /\ Offset = 1 /\ Base = Head(ctx_stack)
      /\ saved \in Seq(Frame) /\ ctx_stack \in Seq(Context) /\ ask \in Ask
  BY DEF SolverAnswers, SolverFails, Offset, Base, TypeInv, SolverType, ControlType
<1>2. Len(saved) + 1 =< Len(ctx_stack) /\ Len(saved) \in Nat /\ ctx_stack # << >>
  BY <1>1 DEF SyncInv, FramesInv
<1>3. CASE SolverAnswers
  <2>1. /\ eng' = Head(ctx_stack) /\ ctx_stack' = Tail(ctx_stack)
        /\ var_seen_hash' = var_seen_hash \ ask.new
        /\ pc' = "answered" /\ UNCHANGED <<path_cond, saved>>
        /\ \/ \E i : ask' = [ask EXCEPT !.sat = TRUE, !.ce = i, !.new = {}]
           \/ ask' = [ask EXCEPT !.sat = FALSE, !.new = {}]
    BY <1>2, <1>3 DEF SolverAnswers, Forget
  <2>2. ask'.for = ask.for
    BY <1>1, <2>1 DEF Ask
  <2>3. Offset' = 0 /\ Base' = Head(ctx_stack)
    BY <2>1 DEF Offset, Base
  <2>4. /\ Len(ctx_stack') = Len(ctx_stack) - 1
        /\ \A j \in 1..Len(saved) : ctx_stack'[j] = ctx_stack[j + 1]
    <3>1. /\ Len(Tail(ctx_stack)) = Len(ctx_stack) - 1
          /\ \A j \in 1..(Len(ctx_stack) - 1) : Tail(ctx_stack)[j] = ctx_stack[j + 1]
      BY <1>1, <1>2
    <3>2. \A j \in 1..Len(saved) : j \in 1..(Len(ctx_stack) - 1)
      BY <1>1, <1>2
    <3>3. ctx_stack' = Tail(ctx_stack)
      BY <2>1
    <3> QED
      BY <3>1, <3>2, <3>3
  <2>5. FramesInv'
    <3>1. Len(saved') + Offset' =< Len(ctx_stack')
      <4>1. Len(saved') = Len(saved) /\ Offset' = 0 /\ Len(ctx_stack') = Len(ctx_stack) - 1
        BY <2>1, <2>3, <2>4
      <4> QED
        BY <1>1, <1>2, <4>1
    <3>2. \A j \in 1..Len(saved) : j + Offset = j + 1 /\ j + Offset' = j
      BY <1>1, <2>3
    <3>3. \A j \in 1..Len(saved) :
            /\ Declared(ctx_stack[j + 1], saved[j].seen)
            /\ ctx_stack[j + 1].conds = saved[j].pc
            /\ ExtraConds \subseteq saved[j].pc /\ saved[j].pc \subseteq path_cond
      BY <3>2 DEF SyncInv, FramesInv
    <3>4. \A j \in 1..Len(saved) : ctx_stack'[j + Offset'] = ctx_stack[j + 1]
      BY <2>4, <3>2
    <3> QED
      BY <2>1, <3>1, <3>3, <3>4, Zenon DEF FramesInv
  <2>6. DeclInv'
    BY <1>1, <2>1 DEF SyncInv, DeclInv
  <2>7. EngineInv'
    <3>1. MayHoldFailed => MayHoldFailed'
      BY <1>1, <2>2 DEF MayHoldFailed
    <3> QED
      BY <1>1, <2>1, <2>3, <3>1 DEF SyncInv, EngineInv
  <2>8. ExtraInv'
    BY <2>1 DEF SyncInv, ExtraInv
  <2> QED
    BY <2>5, <2>6, <2>7, <2>8 DEF SyncInv
<1>4. CASE SolverFails
  <2>1. /\ pc' = IF NonfatalSolver /\ ask.for # "final" THEN "finish" ELSE "stopped"
        /\ SolverMayFail /\ ~TimeoutAsUnsat
        /\ saved' = << >>
        /\ UNCHANGED <<path_cond, var_seen_hash, eng, ctx_stack>>
    BY <1>4 DEF SolverFails
  <2>2. Offset' = 0 /\ Base' = eng
    BY <2>1 DEF Offset, Base
  <2>3. FramesInv'
    BY <1>1, <2>1, <2>2 DEF FramesInv
  <2>4. DeclInv' /\ ExtraInv'
    BY <1>1, <2>1 DEF SyncInv, DeclInv, ExtraInv
  <2>5. ~MayHoldFailed' => ~Incremental /\ ~MayHoldFailed
    BY <1>1, <2>1 DEF MayHoldFailed, AbandonsQueries
  <2>6. EngineInv'
    BY <1>1, <2>1, <2>2, <2>5 DEF SyncInv, EngineInv
  <2> QED
    BY <2>3, <2>4, <2>6 DEF SyncInv
<1> QED
  BY <1>3, <1>4

\* The end of a path: the engine forgets with the path condition.
LEMMA EndSync ==
    ASSUME TypeInv, SyncInv, SolveFinal \/ Reset
    PROVE  SyncInv'
<1>1. CASE SolveFinal
  <2>1. /\ pc = "finish" /\ pc' = "query" /\ UNCHANGED solverVars
        /\ ask' = [NoQuery EXCEPT !.for = "final"]
    BY <1>1 DEF SolveFinal
  <2>2. ask'.for = "final"
    BY <2>1 DEF NoQuery
  <2>3. MayHoldFailed => MayHoldFailed'
    BY <2>1, <2>2 DEF MayHoldFailed
  <2> QED
    BY <2>1, <2>3, SyncKept
<1>2. CASE Reset
  <2> DEFINE solved == pc = "answered" => ask.sat
  <2>1. /\ pc = "finish" \/ pc = "answered"
        /\ LastStraw(solved) => Fails
        /\ ~LastStraw(solved) =>
             /\ path_cond' = {} /\ var_seen_hash' = {}
             /\ eng' = NoContext
             /\ ctx_stack' = IF Incremental THEN << >> ELSE ctx_stack
             /\ saved' = << >>
             /\ pc' \in {"arrive", "done"}
    BY <1>2 DEF Reset, ResetEngine
  <2>2. CASE LastStraw(solved)
    <3>1. pc = "answered"
      BY <2>1, <2>2 DEF LastStraw, Weird, TypeInv, ControlType
    <3> QED
      BY <2>1, <2>2, <3>1, FailsSync
  <2>3. CASE ~LastStraw(solved)
    <3>1. Declared(NoContext, {}) /\ NoContext.conds = {}
      BY DEF Declared, NoContext
    <3>2. /\ path_cond' = {} /\ var_seen_hash' = {} /\ eng' = NoContext
          /\ ctx_stack' = IF Incremental THEN << >> ELSE ctx_stack
          /\ saved' = << >> /\ pc' \in {"arrive", "done"}
      BY <2>1, <2>3
    <3>3. Offset' = 0 /\ Base' = NoContext
      BY <3>2 DEF Offset, Base
    <3>4. ctx_stack' \in Seq(Context)
      BY <3>2 DEF TypeInv, SolverType
    <3>5. FramesInv'
      BY <3>2, <3>3, <3>4 DEF FramesInv
    <3> QED
      BY <3>1, <3>2, <3>3, <3>5 DEF SyncInv, DeclInv, EngineInv, ExtraInv
  <2> QED
    BY <2>2, <2>3
<1> QED
  BY <1>1, <1>2

\* Every step keeps both sides in step.
LEMMA SyncStep == TypeInv /\ SyncInv /\ [Next]_vars => SyncInv'
<1>1. ASSUME SyncInv, UNCHANGED vars PROVE SyncInv'
  <2>1. UNCHANGED <<path_cond, var_seen_hash, eng, ctx_stack, saved, ask, pc>>
    BY <1>1 DEF vars, solverVars
  <2>2. Offset' = Offset /\ Base' = Base /\ MayHoldFailed' = MayHoldFailed
    BY <2>1 DEF Offset, Base, MayHoldFailed
  <2> QED
    BY <1>1, <2>1, <2>2 DEF SyncInv, FramesInv, DeclInv, EngineInv, ExtraInv
<1> QED
  BY <1>1, ArriveSync, EnterSync, DecideSync, BranchAnsweredSync, ValueAnsweredSync, QuerySync,
     SolverSync, EndSync
     DEF Next, Terminated

\* Both sides are in step throughout.
THEOREM InSync == Spec => [](TypeInv /\ SyncInv)
<1>1. Init => TypeInv /\ SyncInv
  BY InitType, InitSync
<1>2. TypeInv /\ SyncInv /\ [Next]_vars => TypeInv' /\ SyncInv'
  BY TypeStep, SyncStep
<1> QED
  BY <1>1, <1>2, PTL DEF Spec

\* No variable is declared to the solver twice, and every variable of a
\* question is declared: the deletions that query_with_pc_choice makes in
\* var_seen_hash and the copies of it that restore_path_cond puts back follow
\* the pushes and pops, after failures of the solver too.
THEOREM DeclaredOnceAlways == Spec => []DeclaredOnce
<1>1. TypeInv /\ SyncInv => DeclaredOnce
  <2> SUFFICES ASSUME TypeInv, SyncInv PROVE DeclaredOnce
    OBVIOUS
  <2>1. Declared(eng, var_seen_hash)
    BY DEF SyncInv, DeclInv
  <2>2. \A v \in Vars : eng.decls[v] =< 1
    BY <2>1 DEF Declared
  <2>3. ASSUME pc = "solve", NEW c \in Question, NEW v \in VarsOf(c)
        PROVE  eng.decls[v] = 1
    <3>1. VarsOf(c) \subseteq var_seen_hash
      BY <2>1, <2>3 DEF Question, SyncInv, DeclInv, Declared
    <3>2. v \in Vars
      BY <3>1 DEF TypeInv, SolverType
    <3> QED
      BY <2>1, <3>1, <3>2 DEF Declared
  <2> QED
    BY <2>2, <2>3 DEF DeclaredOnce
<1> QED
  BY <1>1, InSync, PTL

\* A failed query never reaches the one that -solve-final-pc makes.  It can
\* when the solver keeps its formulas, may fail, and neither exits on failure
\* nor takes it for an answer: finish_path then asks a context that still
\* holds the query that failed.
FinalIsClean == ~(SolveFinalPC /\ AbandonsQueries)

\* Whenever the solver is called, what it has been told is the path condition
\* and the query: for every program, nesting of restore_path_cond, solver and
\* caching option except the combination that FinalIsClean names.
THEOREM AsksPathConditionAlways ==
    ASSUME FinalIsClean
    PROVE  Spec => []AsksPathCondition
<1>1. TypeInv /\ SyncInv => AsksPathCondition
  <2> SUFFICES ASSUME TypeInv, SyncInv, pc = "solve" PROVE Question = path_cond \cup {ask.cond}
    BY DEF AsksPathCondition
  <2>1. ~MayHoldFailed
    BY FinalIsClean DEF MayHoldFailed, FinalIsClean, TypeInv, AskInv
  <2> QED
    BY <2>1 DEF SyncInv, EngineInv, Question
<1> QED
  BY <1>1, InSync, PTL

\* Under the remaining combination the solver is still asked nothing less
\* than the path condition: an "unsatisfiable" may be wrong, a model never is.
AsksAtLeastPathCondition == pc = "solve" => path_cond \cup {ask.cond} \subseteq Question

\* ... which holds without any assumption.
THEOREM AsksAtLeastAlways == Spec => []AsksAtLeastPathCondition
<1>1. SyncInv => AsksAtLeastPathCondition
  BY DEF SyncInv, EngineInv, Question, AsksAtLeastPathCondition
<1> QED
  BY <1>1, InSync, PTL

-----------------------------------------------------------------------------
(* The working cache.                                                      *)

\* The cached assignments solve the path condition, and there are none before
\* -extra-condition is part of it, nor with -disable-ce-cache.
CacheInv ==
    /\ working_ce_cache \subseteq Solutions(path_cond)
    /\ working_ce_cache # {} => ExtraConds \subseteq path_cond /\ ~DisableCECache

\* Steps that leave the cache and the path condition alone.
LEMMA CacheKept == CacheInv /\ UNCHANGED <<working_ce_cache, path_cond>> => CacheInv'
BY DEF CacheInv

\* filter_working_cache keeps step with add_to_path_cond, to whichever
\* part of the path condition a condition is added.
LEMMA FilterFits ==
    ASSUME CacheInv, NEW old, NEW new, NEW c,
           old \cup {c} \subseteq new, new \subseteq old \cup ExtraConds \cup {c},
           old \subseteq path_cond \cup ExtraConds,
           path_cond' = new, working_ce_cache' = Filter(c, old, working_ce_cache),
           working_ce_cache # {} => ExtraConds \subseteq new
    PROVE  CacheInv'
<1>1. CASE working_ce_cache = {}
  <2>1. working_ce_cache' = {}
    BY <1>1 DEF Filter
  <2> QED
    BY <2>1 DEF CacheInv
<1>2. CASE working_ce_cache # {}
  <2>1. /\ ExtraConds \subseteq path_cond /\ ~DisableCECache
        /\ working_ce_cache \subseteq Solutions(path_cond)
        /\ ExtraConds \subseteq new
    BY <1>2 DEF CacheInv
  <2>2. working_ce_cache \subseteq Solutions(old \cup ExtraConds)
    <3>1. old \cup ExtraConds \subseteq path_cond
      BY <2>1
    <3> QED
      BY <2>1, <3>1, SolutionsFacts
  <2>3. working_ce_cache' \subseteq Solutions(old \cup ExtraConds)
    BY <2>2 DEF Filter
  <2>4. \A i \in working_ce_cache' : Agrees(i, c)
    <3>1. CASE c \in old
      BY <2>3, <3>1 DEF Solutions
    <3>2. CASE c \notin old
      BY <2>1, <3>2 DEF Filter, Solutions
    <3> QED
      BY <3>1, <3>2
  <2>5. working_ce_cache' \subseteq Solutions(new)
    <3>1. working_ce_cache' \subseteq Solutions(old \cup ExtraConds \cup {c})
      BY <2>3, <2>4, SolutionsFacts
    <3> QED
      BY <3>1, SolutionsFacts
  <2> QED
    BY <2>1, <2>5 DEF CacheInv
<1> QED
  BY <1>1, <1>2

\* A decision, an address fixed once or the end of restore_path_cond.
LEMMA AddFits ==
    ASSUME TypeInv, SyncInv, CacheInv,
           TakeKnown \/ BothAnswered \/ OneAnswered \/ OnceAnswered \/ Arrive
    PROVE  CacheInv'
<1>0. Machine \in MachineRec /\ Machine.pc = path_cond
  BY MachineType DEF TypeInv, Machine
<1>1. ASSUME NEW b \in BOOLEAN, Take(b), prog[hist].pred \in Preds PROVE CacheInv'
  <2> DEFINE c == Branch(prog[hist].pred, b)
             m == EnsureExtraConditions(Machine)
             n == AddToPathCond(Machine, c)
  <2>1. Becomes(n) /\ working_ce_cache' = Filter(c, m.pc, working_ce_cache)
    BY <1>1 DEF Take
  <2>2. c \in Cond
    BY <1>1, CondTypes
  <2>3. m.pc = path_cond \cup IF path_cond = {} THEN ExtraConds ELSE {}
    BY <1>0, EnsureFacts
  <2>4. n.pc = path_cond \cup (IF path_cond = {} THEN ExtraConds ELSE {}) \cup {c}
    BY <1>0, <2>2, AddFacts
  <2> HIDE DEF c, m, n
  <2>5. path_cond' = n.pc
    BY <2>1 DEF Becomes
  <2>6. working_ce_cache # {} => ExtraConds \subseteq n.pc
    BY <2>4 DEF CacheInv
  <2>7. m.pc \cup {c} \subseteq n.pc /\ n.pc \subseteq m.pc \cup ExtraConds \cup {c}
        /\ m.pc \subseteq path_cond \cup ExtraConds
    BY <2>3, <2>4
  <2> QED
    BY <2>1, <2>5, <2>6, <2>7, FilterFits
<1>2. CASE Fails
  BY <1>2, CacheKept DEF Fails, solverVars, cacheVars
<1>3. CASE TakeKnown \/ ((BothAnswered \/ OneAnswered) /\ ~Fails)
  <2>1. \E b \in BOOLEAN : Take(b)
    <3>1. ask.dir \in BOOLEAN /\ (~ask.dir) \in BOOLEAN
      BY DEF TypeInv, ControlType, Ask
    <3> QED
      BY <1>3, <3>1 DEF TakeKnown, BothAnswered, OneAnswered
  <2>2. prog[hist].pred \in Preds
    BY <1>3 DEF TakeKnown, Decides, BothAnswered, OneAnswered, TypeInv, AskInv, BranchFor
  <2> QED
    BY <1>1, <2>1, <2>2
<1>4. CASE OnceAnswered /\ ~Fails
  <2> DEFINE p == prog[hist].on
             c == Equals({[p |-> p, b |-> ask.ce \in Holds[p]]})
             n == AddToPathCond(Machine, c)
  <2>1. Becomes(n) /\ working_ce_cache' = Filter(c, path_cond, working_ce_cache)
    BY <1>4 DEF OnceAnswered
  <2>2. c \in Cond
    <3>1. hist \in DOMAIN prog
      BY <1>4 DEF OnceAnswered, TypeInv, AtNode
    <3>2. p \in Preds
      BY <3>1, WorldAssumption DEF TypeInv, TreeType, Behaviour
    <3>3. (ask.ce \in Holds[p]) \in BOOLEAN
      OBVIOUS
    <3> QED
      BY <3>2, <3>3, EquationTypes, Zenon
  <2> HIDE DEF c
  <2>3. n.pc = path_cond \cup (IF path_cond = {} THEN ExtraConds ELSE {}) \cup {c}
    BY <1>0, <2>2, AddFacts
  <2> HIDE DEF n
  <2>4. path_cond' = n.pc
    BY <2>1 DEF Becomes
  <2>5. working_ce_cache # {} => ExtraConds \subseteq n.pc
    BY <2>3 DEF CacheInv
  <2>6. path_cond \cup {c} \subseteq n.pc /\ n.pc \subseteq path_cond \cup ExtraConds \cup {c}
    BY <2>3
  <2> QED
    BY <2>1, <2>4, <2>5, <2>6, FilterFits
<1>5. CASE Arrive
  <2>1. PICK k \in Behaviours :
          /\ k.leave => saved # << >>
          /\ IF k.leave /\ ~Underflow
             THEN /\ Becomes(Leave)
                  /\ working_ce_cache' = Filter(Chosen, Outermost.pc, working_ce_cache)
             ELSE UNCHANGED <<solverVars, working_ce_cache>>
    BY <1>5 DEF Arrive
  <2>2. CASE ~(k.leave /\ ~Underflow)
    BY <2>1, <2>2, CacheKept DEF solverVars
  <2>3. CASE k.leave /\ ~Underflow
    <3> DEFINE m == [pc |-> Outermost.pc, seen |-> Outermost.seen, eng |-> ctx_stack[Len(saved)]]
    <3>1. Becomes(Leave) /\ working_ce_cache' = Filter(Chosen, Outermost.pc, working_ce_cache)
      BY <2>1, <2>3
    <3>2. /\ saved \in Seq(Frame) /\ ctx_stack \in Seq(Context)
          /\ Len(saved) \in 1..Len(saved) /\ Len(saved) =< Len(ctx_stack)
      BY <2>1, <2>3 DEF TypeInv, SolverType, Underflow
    <3>3. Outermost \in Frame /\ ctx_stack[Len(saved)] \in Context
      BY <3>2 DEF Outermost
    <3>4. m \in MachineRec /\ m.pc = Outermost.pc
      BY <3>3 DEF MachineRec, Frame
    <3>5. Outermost.pc \subseteq path_cond /\ ExtraConds \subseteq Outermost.pc
      BY <3>2 DEF SyncInv, FramesInv, Outermost
    <3>6. Leave = AddToPathCond(m, Chosen) /\ Chosen \in Cond
      BY <3>2, EquationTypes DEF Leave
    <3> HIDE DEF m
    <3>7. Leave.pc = Outermost.pc \cup (IF Outermost.pc = {} THEN ExtraConds ELSE {})
                                  \cup {Chosen}
      BY <3>4, <3>6, AddFacts
    <3>8. path_cond' = Leave.pc
      BY <3>1 DEF Becomes
    <3>9. /\ Outermost.pc \cup {Chosen} \subseteq Leave.pc /\ ExtraConds \subseteq Leave.pc
          /\ Leave.pc \subseteq Outermost.pc \cup ExtraConds \cup {Chosen}
      BY <3>5, <3>7
    <3> QED
      BY <3>1, <3>5, <3>8, <3>9, FilterFits
  <2> QED
    BY <2>2, <2>3
<1> QED
  BY <1>2, <1>3, <1>4, <1>5

\* fill_working_cache, and the solver's models.
LEMMA QueryFits ==
    ASSUME TypeInv, SyncInv, CacheInv, Query \/ SolverAnswers
    PROVE  CacheInv'
<1>1. CASE Query
  <2> DEFINE m == EnsureExtraConditions(Machine)
             W == IF new_path THEN FillWorkingCache(m.pc) ELSE working_ce_cache
  <2>1. pc = "query" /\ working_ce_cache' = W /\ path_cond' = m.pc
    <3>1. m \in MachineRec
      BY MachineType, EnsureFacts DEF TypeInv
    <3>2. \A s, e : [m EXCEPT !.seen = s, !.eng = e].pc = m.pc
      BY <3>1 DEF MachineRec
    <3> QED
      <4> DEFINE new == VarsOf(ask.cond) \ m.seen
                 e == Declare(m.eng, new)
                 n == [m EXCEPT !.seen = @ \cup new,
                                !.eng = IF Incremental
                                        THEN [e EXCEPT !.conds = @ \cup {ask.cond}]
                                        ELSE e]
      <4>1. pc = "query" /\ working_ce_cache' = W /\ (Becomes(m) \/ Becomes(n))
        BY <1>1 DEF Query
      <4>2. n.pc = m.pc
        BY <3>2
      <4> QED
        BY <4>1, <4>2 DEF Becomes
  <2>2. path_cond \subseteq m.pc /\ ExtraConds \subseteq m.pc
    BY <2>1, EnsureSync
  <2>3. m.pc \subseteq path_cond \cup ExtraConds
    <3>1. Machine \in MachineRec /\ Machine.pc = path_cond
      BY MachineType DEF TypeInv, Machine
    <3> QED
      BY <3>1, EnsureFacts
  <2> HIDE DEF m
  <2>4. working_ce_cache \subseteq Solutions(m.pc)
    <3>1. CASE working_ce_cache = {}
      BY <3>1
    <3>2. CASE working_ce_cache # {}
      <4>1. m.pc \subseteq path_cond
        BY <2>3, <3>2 DEF CacheInv
      <4> QED
        BY <4>1, SolutionsFacts DEF CacheInv
    <3> QED
      BY <3>1, <3>2
  <2>5. W \subseteq Solutions(m.pc)
    BY <2>4 DEF FillWorkingCache
  <2>6. DisableCECache => W = {}
    BY DEF FillWorkingCache, CacheInv
  <2> QED
    BY <2>1, <2>2, <2>5, <2>6 DEF CacheInv
<1>2. CASE Fails
  BY <1>2, CacheKept DEF Fails, solverVars, cacheVars
<1>3. CASE SolverAnswers /\ ~Fails
  <2>1. /\ pc = "solve" /\ UNCHANGED path_cond
        /\ \/ \E i \in Models : working_ce_cache' = IF DisableCECache THEN {}
                                                    ELSE working_ce_cache \cup {i}
           \/ UNCHANGED working_ce_cache
    BY <1>3 DEF SolverAnswers
  <2>2. path_cond \subseteq Question /\ ExtraConds \subseteq path_cond
    BY <2>1 DEF SyncInv, EngineInv, ExtraInv, Question
  <2>3. Models \subseteq Solutions(Question)
    <3>1. CASE Solutions(Question) = {}
      BY <3>1 DEF Models
    <3>2. CASE Solutions(Question) # {}
      <4>1. Solutions(Question) \in (SUBSET Inputs) \ {{}}
        BY <3>2, SolutionsFacts
      <4> QED
        BY <3>2, <4>1, WorldAssumption DEF Models
    <3> QED
      BY <3>1, <3>2
  <2>4. Models \subseteq Solutions(path_cond)
    BY <2>2, <2>3, SolutionsFacts
  <2> QED
    BY <2>1, <2>2, <2>4 DEF CacheInv
<1> QED
  BY <1>1, <1>2, <1>3

\* Every step keeps the working cache in step with the path condition.
LEMMA CacheStep == TypeInv /\ SyncInv /\ CacheInv /\ [Next]_vars => CacheInv'
<1> SUFFICES ASSUME TypeInv, SyncInv, CacheInv, [Next]_vars PROVE CacheInv'
  OBVIOUS
<1>1. CASE Enter
  <2>1. path_cond' = EnsureExtraConditions(Machine).pc /\ UNCHANGED working_ce_cache
    BY <1>1 DEF Enter, Becomes, cacheVars
  <2>2. Machine \in MachineRec /\ Machine.pc = path_cond
    BY MachineType DEF TypeInv, Machine
  <2>3. path_cond' = path_cond \cup IF path_cond = {} THEN ExtraConds ELSE {}
    BY <2>1, <2>2, EnsureFacts
  <2>4. CASE working_ce_cache = {}
    BY <2>1, <2>4 DEF CacheInv
  <2>5. CASE working_ce_cache # {}
    <3>1. path_cond' = path_cond
      BY <2>3, <2>5 DEF CacheInv
    <3> QED
      BY <2>1, <3>1, CacheKept
  <2> QED
    BY <2>4, <2>5
<1>2. CASE Reset /\ ~Fails
  <2>1. working_ce_cache' = {}
    BY <1>2 DEF Reset
  <2> QED
    BY <2>1 DEF CacheInv
<1>3. CASE Fails \/ UNCHANGED vars \/ Exit \/ AskFirst \/ TryFunc \/ FirstAnswered \/ SolverFails
           \/ SolveFinal
  BY <1>3, CacheKept
     DEF Fails, vars, Exit, AskFirst, TryFunc, FirstAnswered, AskOther, SolverFails, SolveFinal,
         solverVars, cacheVars
<1>4. CASE (UniqueAnswered \/ AnotherAnswered) /\ ~Fails
  BY <1>4, CacheKept DEF UniqueAnswered, AnotherAnswered, solverVars, cacheVars
<1> QED
  BY <1>1, <1>2, <1>3, <1>4, AddFits, QueryFits DEF Next, Terminated

\* The working cache holds solutions of the path condition only, for every
\* interleaving of fills, filters, models, restored conditions and failures:
\* the half of CachesFit that is about a path.
THEOREM WorkingCacheFitsAlways == Spec => []WorkingCacheFits
<1>1. Init => TypeInv /\ SyncInv /\ CacheInv
  BY InitType, InitSync DEF Init, CacheInv
<1>2. TypeInv /\ SyncInv /\ CacheInv /\ [Next]_vars => (TypeInv /\ SyncInv /\ CacheInv)'
  BY TypeStep, SyncStep, CacheStep
<1>3. CacheInv => WorkingCacheFits
  BY DEF CacheInv, WorkingCacheFits
<1> QED
  BY <1>1, <1>2, <1>3, PTL DEF Spec

-----------------------------------------------------------------------------
(* prune_global_cache ends within its goal.                                *)

\* Induction over a set of numbers.
LEMMA AllNumbers ==
    ASSUME NEW X, 0 \in X, \A n \in Nat : n \in X => n + 1 \in X
    PROVE  Nat \subseteq X
<1> DEFINE T == {n \in Nat : n \notin X}
<1>1. SUFFICES ASSUME T # {} PROVE FALSE
  OBVIOUS
<1>2. IsWellFoundedOn(OpToRel(<, Nat), Nat)
  BY NatLessThanWellFounded
<1>3. PICK m \in T : \A j \in T : ~(<<j, m>> \in OpToRel(<, Nat))
  BY <1>1, <1>2, WFMin
<1>4. \A j \in T : ~(j < m)
  BY <1>3 DEF OpToRel
<1>5. m \in Nat /\ m # 0 /\ m \notin X
  OBVIOUS
<1>6. m - 1 \in Nat /\ m - 1 < m /\ (m - 1) + 1 = m
  BY <1>5
<1>7. m - 1 \in X
  BY <1>4, <1>6
<1> QED  BY <1>5, <1>6, <1>7

\* A set of numbers that is not empty has a least member.
LEMMA LeastNumber ==
    ASSUME NEW X \in SUBSET Nat, X # {}
    PROVE  \E m \in X : \A j \in X : m =< j
<1>1. IsWellFoundedOn(OpToRel(<, Nat), Nat)
  BY NatLessThanWellFounded
<1>2. PICK m \in X : \A j \in X : ~(<<j, m>> \in OpToRel(<, Nat))
  BY <1>1, WFMin
<1>3. \A j \in X : ~(j < m)
  BY <1>2 DEF OpToRel
<1> QED  BY <1>3

\* f lists the cutoffs of the turns up to the n-th.
CutoffsTo(f, n) ==
    /\ f \in [0..n -> Nat]
    /\ f[0] = 1
    /\ \A k \in 1..n : f[k] = 2 * f[k - 1]

LEMMA CutoffsExist == \A n \in Nat : \E f \in [0..n -> Nat] : CutoffsTo(f, n)
<1> DEFINE X == {n \in Nat : \E f \in [0..n -> Nat] : CutoffsTo(f, n)}
<1>1. 0 \in X
  <2> DEFINE f == [k \in 0..0 |-> 1]
  <2>1. f \in [0..0 -> Nat] /\ CutoffsTo(f, 0)
    BY DEF CutoffsTo
  <2> QED  BY <2>1
<1>2. ASSUME NEW n \in Nat, n \in X PROVE n + 1 \in X
  <2>1. PICK f \in [0..n -> Nat] : CutoffsTo(f, n)
    BY <1>2
  <2> DEFINE g == [k \in 0..(n + 1) |-> IF k = n + 1 THEN 2 * f[n] ELSE f[k]]
  <2>2. g \in [0..(n + 1) -> Nat]
    <3>1. \A k \in 0..(n + 1) : (IF k = n + 1 THEN 2 * f[n] ELSE f[k]) \in Nat
      OBVIOUS
    <3> QED  BY <3>1
  <2>3. g[0] = 1
    BY <2>1 DEF CutoffsTo
  <2>4. ASSUME NEW k \in 1..(n + 1) PROVE g[k] = 2 * g[k - 1]
    <3>1. CASE k = n + 1
      BY <3>1
    <3>2. CASE k # n + 1
      <4>1. k \in 1..n /\ k - 1 \in 0..(n + 1) /\ k - 1 # n + 1 /\ k \in 0..(n + 1)
        BY <3>2
      <4>2. f[k] = 2 * f[k - 1]
        BY <2>1, <4>1 DEF CutoffsTo
      <4> QED  BY <3>2, <4>1, <4>2
    <3> QED  BY <3>1, <3>2
  <2> HIDE DEF g
  <2>5. CutoffsTo(g, n + 1)
    BY <2>2, <2>3, <2>4 DEF CutoffsTo
  <2> QED  BY <2>2, <2>5
<1> HIDE DEF X
<1>3. Nat \subseteq X
  BY <1>1, <1>2, AllNumbers
<1> QED  BY <1>3 DEF X

\* There is one such list only, as far as it goes.
LEMMA CutoffsAgree ==
    ASSUME NEW n \in Nat, NEW m \in Nat, n =< m,
           NEW f, NEW g, CutoffsTo(f, n), CutoffsTo(g, m)
    PROVE  \A k \in 0..n : f[k] = g[k]
<1> DEFINE X == {k \in Nat : k =< n => f[k] = g[k]}
<1>1. 0 \in X
  BY DEF CutoffsTo
<1>2. ASSUME NEW k \in Nat, k \in X PROVE k + 1 \in X
  <2> SUFFICES ASSUME k + 1 =< n PROVE f[k + 1] = g[k + 1]
    BY DEF X
  <2>1. f[k] = g[k]
    BY <1>2
  <2>2. k + 1 \in 1..n /\ k + 1 \in 1..m /\ (k + 1) - 1 = k
    OBVIOUS
  <2>3. f[k + 1] = 2 * f[(k + 1) - 1] /\ g[k + 1] = 2 * g[(k + 1) - 1]
    BY <2>2 DEF CutoffsTo
  <2> QED  BY <2>1, <2>2, <2>3
<1> HIDE DEF X
<1>3. Nat \subseteq X
  BY <1>1, <1>2, AllNumbers
<1> QED  BY <1>3 DEF X

\* The recursion that defines Cutoff has a solution.
LEMMA CutoffRule ==
    /\ Cutoff \in [Nat -> Nat] /\ Cutoff[0] = 1
    /\ \A k \in Nat : Cutoff[k + 1] = 2 * Cutoff[k]
<1> DEFINE L(n) == CHOOSE f \in [0..n -> Nat] : CutoffsTo(f, n)
           F == [n \in Nat |-> L(n)[n]]
<1>1. ASSUME NEW n \in Nat PROVE CutoffsTo(L(n), n) /\ L(n) \in [0..n -> Nat]
  BY CutoffsExist
<1> HIDE DEF L
<1>2. F \in [Nat -> Nat]
  <2>1. \A n \in Nat : n \in 0..n
    OBVIOUS
  <2>2. \A n \in Nat : L(n)[n] \in Nat
    BY <1>1, <2>1
  <2> QED  BY <2>2
<1>3. F[0] = 1
  BY <1>1 DEF CutoffsTo
<1>4. ASSUME NEW k \in Nat PROVE F[k + 1] = 2 * F[k]
  <2>1. k + 1 \in Nat /\ k =< k + 1 /\ k + 1 \in 1..(k + 1) /\ k \in 0..k /\ (k + 1) - 1 = k
    OBVIOUS
  <2>2. L(k + 1)[k + 1] = 2 * L(k + 1)[(k + 1) - 1]
    BY <1>1, <2>1 DEF CutoffsTo
  <2>3. L(k)[k] = L(k + 1)[k]
    BY <1>1, <2>1, CutoffsAgree
  <2> QED  BY <2>1, <2>2, <2>3
<1> HIDE DEF F
<1>5. \A k \in Nat : k # 0 => k - 1 \in Nat /\ (k - 1) + 1 = k
  OBVIOUS
<1>6. \A k \in Nat : F[k] = IF k = 0 THEN 1 ELSE 2 * F[k - 1]
  BY <1>3, <1>4, <1>5
<1>7. F = [k \in Nat |-> IF k = 0 THEN 1 ELSE 2 * F[k - 1]]
  BY <1>2, <1>6
<1>8. Cutoff = [k \in Nat |-> IF k = 0 THEN 1 ELSE 2 * Cutoff[k - 1]]
  BY <1>7 DEF Cutoff
<1>9. Cutoff[0] = 1
  BY <1>8
<1>10. ASSUME NEW k \in Nat PROVE Cutoff[k + 1] = 2 * Cutoff[k]
  <2>1. k + 1 \in Nat /\ k + 1 # 0 /\ (k + 1) - 1 = k
    OBVIOUS
  <2>2. Cutoff[k + 1] = 2 * Cutoff[(k + 1) - 1]
    BY <1>8, <2>1
  <2> QED  BY <2>1, <2>2
<1>11. \A k \in Nat : Cutoff[k] \in Nat
  <2> DEFINE X == {k \in Nat : Cutoff[k] \in Nat}
  <2>1. 0 \in X
    BY <1>9
  <2>2. \A k \in Nat : k \in X => k + 1 \in X
    BY <1>10
  <2> HIDE DEF X
  <2>3. Nat \subseteq X
    BY <2>1, <2>2, AllNumbers
  <2> QED  BY <2>3 DEF X
<1>12. Cutoff \in [Nat -> Nat]
  BY <1>8, <1>11
<1> QED  BY <1>9, <1>10, <1>12

\* Doubling gets past every count.
LEMMA CutoffGrows == \A k \in Nat : Cutoff[k] > k
<1> DEFINE X == {k \in Nat : Cutoff[k] > k}
<1>1. 0 \in X
  BY CutoffRule
<1>2. ASSUME NEW k \in Nat, k \in X PROVE k + 1 \in X
  <2>1. Cutoff[k] > k /\ Cutoff[k] \in Nat /\ Cutoff[k + 1] = 2 * Cutoff[k]
    BY <1>2, CutoffRule
  <2>2. Cutoff[k + 1] > k + 1
    BY <2>1
  <2> QED  BY <2>2
<1> HIDE DEF X
<1>3. Nat \subseteq X
  BY <1>1, <1>2, AllNumbers
<1> QED  BY <1>3 DEF X

\* The sets of assignments that the cache is about are finite.
LEMMA CountOf ==
    ASSUME NEW S \in SUBSET Inputs
    PROVE  IsFiniteSet(S) /\ Cardinality(S) \in Nat
BY WorldAssumption, FS_Subset, FS_CardinalityType

\* No count exceeds M.
Below(g, M) == \A i \in Inputs : g[i] =< M

\* The loop has a last turn, and then the table is within its goal.
LEMMA LastTurnExists ==
    ASSUME NEW g \in [Inputs -> Int], NEW M \in Nat, Below(g, M),
           NEW e \in Inputs, g[e] >= 0
    PROVE  AtGoal(g, LastTurn(g))
<1> DEFINE B == {m \in Nat : Below(g, m)}
<1>1. PICK m \in B : \A j \in B : m =< j
  <2>1. B \in SUBSET Nat /\ B # {}
    OBVIOUS
  <2> HIDE DEF B
  <2> QED  BY <2>1, LeastNumber
<1>2. m \in Nat /\ Below(g, m)
  OBVIOUS
<1>3. PICK i \in Inputs : g[i] = m
  <2>1. CASE m = 0
    <3>1. g[e] =< 0 /\ g[e] \in Int
      BY <1>2, <2>1 DEF Below
    <3> QED  BY <2>1, <3>1
  <2>2. CASE m # 0
    <3>1. m - 1 \in Nat /\ ~(m =< m - 1)
      BY <1>2, <2>2
    <3>2. ~Below(g, m - 1)
      BY <1>1, <3>1
    <3>3. PICK i \in Inputs : ~(g[i] =< m - 1)
      BY <3>2 DEF Below
    <3>4. g[i] \in Int /\ g[i] =< m
      BY <1>2 DEF Below
    <3>5. g[i] = m
      BY <1>2, <3>3, <3>4
    <3> QED  BY <3>5
  <2> QED  BY <2>1, <2>2
<1>4. LeftOf(g, m) = {}
  <2> SUFFICES ASSUME NEW j \in Inputs, g[j] >= Cutoff[m] PROVE FALSE
    BY DEF LeftOf
  <2>1. g[j] =< m /\ g[j] \in Int /\ Cutoff[m] > m /\ Cutoff[m] \in Nat
    BY <1>2, CutoffGrows, CutoffRule DEF Below
  <2> QED  BY <1>2, <2>1
<1>5. AtGoal(g, m)
  <2>1. Cardinality({}) = 0
    BY FS_EmptySet
  <2>2. GlobalCELimit \div 2 >= 0
    BY BoundsAssumption
  <2> QED  BY <1>4, <2>1, <2>2 DEF AtGoal
<1> DEFINE K == {k \in Nat : AtGoal(g, k)}
<1>6. PICK k \in K : \A j \in K : k =< j
  <2>1. K \in SUBSET Nat /\ K # {}
    BY <1>2, <1>5
  <2> HIDE DEF K
  <2> QED  BY <2>1, LeastNumber
<1>7. k \in Nat /\ k =< m /\ AtGoal(g, k)
  BY <1>2, <1>5, <1>6
<1>8. \A j \in 0..(k - 1) : ~AtGoal(g, j)
  <2> SUFFICES ASSUME NEW j \in 0..(k - 1), AtGoal(g, j) PROVE FALSE
    OBVIOUS
  <2>1. j \in Nat /\ ~(k =< j)
    BY <1>7
  <2> QED  BY <1>6, <2>1
<1>9. k \in UNION {0..g[j] : j \in Inputs}
  BY <1>2, <1>3, <1>7
<1> HIDE DEF K, B
<1>10. \E x \in UNION {0..g[j] : j \in Inputs} :
          AtGoal(g, x) /\ \A j \in 0..(x - 1) : ~AtGoal(g, j)
  BY <1>7, <1>8, <1>9
<1> QED  BY <1>10 DEF LastTurn

-----------------------------------------------------------------------------
(* The global cache.                                                       *)

Cached(g) == {i \in Inputs : g[i] >= 0}

\* The table is within its limit, and no count is out of all bounds.
GlobalFits(g) ==
    /\ Cardinality(Cached(g)) =< GlobalCELimit
    /\ \E M \in Nat : Below(g, M)

LEMMA PruneFits ==
    ASSUME NEW g \in [Inputs -> Int], NEW M \in Nat, Below(g, M), CacheFull(g)
    PROVE  GlobalFits(Prune(g))
<1>1. PICK e \in Inputs : g[e] >= 0
  <2> SUFFICES ASSUME \A i \in Inputs : ~(g[i] >= 0) PROVE FALSE
    OBVIOUS
  <2>1. {i \in Inputs : g[i] >= 0} = {}
    OBVIOUS
  <2>2. Cardinality({}) = 0
    BY FS_EmptySet
  <2> QED  BY <2>1, <2>2, BoundsAssumption DEF CacheFull
<1>2. AtGoal(g, LastTurn(g))
  BY <1>1, LastTurnExists
<1> DEFINE S == LeftOf(g, LastTurn(g))
           h == [i \in Inputs |-> IF i \in S THEN 0 ELSE -1]
<1>3. Prune(g) = h
  BY DEF Prune
<1>4. S \in SUBSET Inputs
  BY DEF LeftOf
<1>5. Cardinality(S) =< GlobalCELimit
  <2>1. Cardinality(S) =< GlobalCELimit \div 2 /\ Cardinality(S) \in Nat
    BY <1>2, <1>4, CountOf DEF AtGoal
  <2>2. GlobalCELimit \div 2 =< GlobalCELimit /\ GlobalCELimit \div 2 \in Int
    BY BoundsAssumption
  <2> HIDE DEF S
  <2> QED  BY <2>1, <2>2, BoundsAssumption
<1> HIDE DEF S
<1>6. Cached(h) = S
  BY <1>4 DEF Cached
<1>7. Below(h, 0)
  BY DEF Below
<1> HIDE DEF h
<1> QED  BY <1>3, <1>5, <1>6, <1>7 DEF GlobalFits

\* add_to_global_cache prunes in time.
LEMMA AddToGlobalFits ==
    ASSUME NEW g \in [Inputs -> Int], NEW i \in Inputs, GlobalFits(g)
    PROVE  GlobalFits(AddToGlobalCache(g, i))
<1> DEFINE h == [g EXCEPT ![i] = @ + 1]
<1>1. h \in [Inputs -> Int]
  OBVIOUS
<1>2. PICK M \in Nat : Below(g, M)
  BY DEF GlobalFits
<1>3. Below(h, M + 1) /\ M + 1 \in Nat
  BY <1>2 DEF Below
<1>4. CASE g[i] < 0 /\ CacheFull(h)
  <2>1. AddToGlobalCache(g, i) = Prune(h)
    BY <1>4 DEF AddToGlobalCache
  <2> HIDE DEF h
  <2> QED  BY <1>1, <1>3, <1>4, <2>1, PruneFits
<1>5. CASE g[i] < 0 /\ ~CacheFull(h)
  <2>1. AddToGlobalCache(g, i) = h
    BY <1>5 DEF AddToGlobalCache
  <2>2. Cached(h) \in SUBSET Inputs
    BY DEF Cached
  <2> HIDE DEF h
  <2>3. Cardinality(Cached(h)) \in Nat
    BY <2>2, CountOf
  <2>4. Cardinality(Cached(h)) =< GlobalCELimit
    BY <1>5, <2>3, BoundsAssumption DEF CacheFull, Cached
  <2> QED  BY <1>3, <2>1, <2>4 DEF GlobalFits
<1>6. CASE ~(g[i] < 0)
  <2>1. AddToGlobalCache(g, i) = h
    BY <1>6 DEF AddToGlobalCache
  <2>2. Cached(h) = Cached(g)
    BY <1>6 DEF Cached
  <2> HIDE DEF h
  <2> QED  BY <1>3, <2>1, <2>2 DEF GlobalFits
<1> QED  BY <1>4, <1>5, <1>6

\* Every step keeps the global cache within its limit.
LEMMA GlobalStep ==
    ASSUME TypeInv, GlobalFits(global_ce_cache), [Next]_vars
    PROVE  GlobalFits(global_ce_cache')
<1>1. CASE UNCHANGED global_ce_cache
  BY <1>1
<1>2. CASE \E i \in Inputs : global_ce_cache' = AddToGlobalCache(global_ce_cache, i)
  BY <1>2, AddToGlobalFits DEF TypeInv, CacheType
<1>3. CASE Fails \/ UNCHANGED vars \/ Exit \/ AskFirst \/ TryFunc \/ FirstAnswered \/ SolverFails
           \/ SolveFinal
  BY <1>3, <1>1
     DEF Fails, vars, Exit, AskFirst, TryFunc, FirstAnswered, AskOther, SolverFails, SolveFinal,
         solverVars, cacheVars
<1>4. CASE (Arrive \/ Enter \/ Reset) /\ ~Fails
  <2>1. UNCHANGED global_ce_cache
    BY <1>4 DEF Arrive, Enter, Reset, cacheVars
  <2> QED  BY <1>1, <2>1
<1>5. CASE (TakeKnown \/ BothAnswered \/ OneAnswered \/ OnceAnswered \/ UniqueAnswered
              \/ AnotherAnswered) /\ ~Fails
  <2>1. ASSUME NEW b, Take(b) PROVE UNCHANGED global_ce_cache
    BY <2>1 DEF Take
  <2>2. CASE TakeKnown \/ BothAnswered \/ OneAnswered
    BY <1>1, <1>5, <2>1, <2>2 DEF TakeKnown, BothAnswered, OneAnswered
  <2>3. CASE OnceAnswered \/ UniqueAnswered \/ AnotherAnswered
    BY <1>1, <1>5, <2>3 DEF OnceAnswered, UniqueAnswered, AnotherAnswered, cacheVars
  <2> QED  BY <1>5, <2>2, <2>3
<1>6. CASE Query
  <2>1. ASSUME NEW i \in Solutions(EnsureExtraConditions(Machine).pc),
               global_ce_cache' = AddToGlobalCache(global_ce_cache, i)
        PROVE  GlobalFits(global_ce_cache')
    BY <1>2, <2>1 DEF Solutions
  <2>2. \/ UNCHANGED global_ce_cache
        \/ \E i \in Solutions(EnsureExtraConditions(Machine).pc) :
             global_ce_cache' = AddToGlobalCache(global_ce_cache, i)
    BY <1>6 DEF Query
  <2> QED  BY <1>1, <2>1, <2>2
<1>7. CASE SolverAnswers /\ ~Fails
  <2>1. Models \subseteq Inputs
    <3>1. Solutions(Question) \in SUBSET Inputs
      BY DEF Solutions
    <3>2. Solutions(Question) # {} => ModelsOf(Solutions(Question)) \subseteq Solutions(Question)
      BY <3>1, WorldAssumption
    <3> QED  BY <3>1, <3>2 DEF Models
  <2>2. UNCHANGED global_ce_cache \/ \E i \in Models :
             global_ce_cache' = AddToGlobalCache(global_ce_cache, i)
    BY <1>7 DEF SolverAnswers
  <2> QED  BY <1>1, <1>2, <2>1, <2>2
<1> QED
  BY <1>1, <1>3, <1>4, <1>5, <1>6, <1>7 DEF Next, Terminated

\* Both caches keep within their limits, in every interleaving of queries,
\* failures and paths: the global cache is pruned in time, and the working
\* cache holds solutions of the path condition only.
THEOREM CachesFitAlways == Spec => []CachesFit
<1>1. Init => TypeInv
  BY InitType
<1>2. Init => GlobalFits(global_ce_cache)
  <2> SUFFICES ASSUME Init PROVE GlobalFits(global_ce_cache)
    OBVIOUS
  <2>1. \A i \in Inputs : global_ce_cache[i] = -1
    BY DEF Init
  <2>2. Cached(global_ce_cache) = {} /\ Below(global_ce_cache, 0)
    BY <2>1 DEF Cached, Below
  <2>3. Cardinality({}) = 0
    BY FS_EmptySet
  <2> QED  BY <2>2, <2>3, BoundsAssumption DEF GlobalFits
<1>3. TypeInv /\ [Next]_vars => TypeInv'
  BY TypeStep
<1>4. TypeInv /\ GlobalFits(global_ce_cache) /\ [Next]_vars => GlobalFits(global_ce_cache)'
  BY GlobalStep
<1>5. GlobalFits(global_ce_cache) => GlobalCacheFits
  BY DEF GlobalFits, Cached, GlobalCacheFits
<1> QED
  BY <1>1, <1>2, <1>3, <1>4, <1>5, WorkingCacheFitsAlways, PTL DEF Spec, CachesFit

=============================================================================
