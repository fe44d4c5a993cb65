---------------------------- MODULE DecisionTree ----------------------------
(***************************************************************************)
(* The decision tree of FuzzBALL's path exploration                        *)
(* (execution/binary_decision_tree.ml), driven the way                     *)
(* sym_path_frag_machine.ml and exec_fuzzloop.ml drive it.                 *)
(*                                                                         *)
(* A node is named by its history, the sequence of branch directions that  *)
(* leads to it (what get_hist computes); the numeric ident of the code is  *)
(* a table index and is left out.  `store' is the node table: every read   *)
(* of it (get_dt_node) decodes a fresh copy and every write                *)
(* (update_dt_node) replaces a whole record.  `cur' and `cur_query' are    *)
(* in-memory records which outlive other writes to the same node, so the   *)
(* model keeps their contents apart from the table's.                      *)
(*                                                                         *)
(* The program under analysis and the solver are the environment: `prog'   *)
(* and `feas' are chosen the first time a node is reached and do not       *)
(* change afterwards (re-execution is deterministic).                      *)
(***************************************************************************)
EXTENDS Integers, Sequences, FiniteSets

CONSTANTS
    PathDepthLimit,     \* opt_path_depth_limit
    QueryBranchLimit,   \* opt_query_branch_limit
    CountModulus,       \* 2^16: width of the encoded query_children field
    Scores,             \* values set_heur is called with before a path ends
    MaxBranchings,      \* bound: nodes of the program with two feasible directions
    SolverMayFail,      \* a solver call may time out or crash
    FailureDepths,      \* bound: the branches at which it does, by history length
    TimeoutAsUnsat,     \* opt_timeout_as_unsat
    NonfatalSolver,     \* opt_nonfatal_solver
    Concolic,           \* opt_concolic_prob <> None
    OtherQueries        \* the program makes queries that decide no branch

ASSUME LimitsAssumption ==
    /\ PathDepthLimit \in Nat
    /\ QueryBranchLimit \in Nat \ {0}
    /\ CountModulus \in Nat \ {0, 1}
    /\ Scores \subseteq Nat
    /\ MaxBranchings \in Nat

ASSUME ModesAssumption ==
    /\ SolverMayFail \in BOOLEAN
    /\ TimeoutAsUnsat \in BOOLEAN
    /\ NonfatalSolver \in BOOLEAN
    /\ Concolic \in BOOLEAN
    /\ OtherQueries \in BOOLEAN

VARIABLES
    store,              \* the node table
    cur, curRec,        \* the current node and the record held in `cur'
    qry, qryRec,        \* the same for `cur_query'
    inq,                \* between start_new_query and count_query
    pc,                 \* what the single thread of control does next
    todo,               \* pending calls of mark_all_seen_node's loop
    cur_heur, best_heur,
    iteration_count,
    prog, feas,         \* the program under analysis
    explored,           \* nodes at which a path has ended
    weird               \* failed g_asserts (each one costs 100)

treeVars == <<store, cur, curRec, qry, qryRec>>
heurVars == <<cur_heur, best_heur>>
envVars  == <<prog, feas>>
pathVars == <<iteration_count, explored>>
vars == <<treeVars, inq, pc, todo, heurVars, pathVars, envVars, weird>>

-----------------------------------------------------------------------------
(* Nodes.                                                                  *)

Nodes == UNION {[1..k -> BOOLEAN] : k \in 0..(PathDepthLimit + 1)}
Root == << >>
Kid(n, b) == Append(n, b)
Parent(n) == SubSeq(n, 1, Len(n) - 1)

\* m is in the subtree rooted at n.
Below(n, m) == Len(n) =< Len(m) /\ \A i \in 1..Len(n) : n[i] = m[i]

None == -1
NoHeurMin == 1073741823          \* 0x3fffffff
ChildStatus == {"unknown", "unsat", "sat"}

NodeRec == [child : [BOOLEAN -> ChildStatus],
            all_seen : BOOLEAN,
            query_children : Int,
            query_counted : BOOLEAN,
            heur_min : Int,
            heur_max : Int]

FreshNode == [child |-> [b \in BOOLEAN |-> "unknown"],
              all_seen |-> FALSE,
              query_children |-> None,
              query_counted |-> FALSE,
              heur_min |-> NoHeurMin,
              heur_max |-> -1]

\* dt_node_to_string then string_to_dt_node.  The count is written modulo
\* 2^16 and all ones is read back as None; the other fields survive.
StoredCount(k) ==
    IF k = None \/ k % CountModulus = CountModulus - 1
    THEN None ELSE k % CountModulus
Stored(r) == [r EXCEPT !.query_children = StoredCount(r.query_children)]

Created(S, n) == n = Root \/ S[Parent(n)].child[n[Len(n)]] = "sat"
Seen(S, n, b) == S[n].child[b] = "sat" /\ S[Kid(n, b)].all_seen

\* Fault: one exhausted direction is taken for both.
Closed_OneKid(S, n) == \E b \in BOOLEAN : Seen(S, n, b)

\* No direction of n is left to explore.
Closed(S, n) == \A b \in BOOLEAN : S[n].child[b] = "unsat" \/ Seen(S, n, b)

IsQuery(r) == r.query_children # None

\* Fault: off by one at the branch limit.
Limited_OffByOne(r) == IsQuery(r) /\ r.query_children > QueryBranchLimit

Limited(r) == IsQuery(r) /\ r.query_children >= QueryBranchLimit

-----------------------------------------------------------------------------
(* Control.                                                                *)

\* g_assert costs 100 a failure and raises Failure beyond 100 in total.
TooWeird(k) == weird + k > 1
FailedIf(P) == IF P THEN 1 ELSE 0

\* failwith, or the g_assert that is the last straw: nothing catches it.
Crash ==
    /\ pc' = "crashed"
    /\ UNCHANGED <<treeVars, weird>>

Init ==
    /\ store = [n \in Nodes |-> IF n = Root
                                THEN [FreshNode EXCEPT !.query_children = 0]
                                ELSE FreshNode]
    /\ cur = Root /\ curRec = store[Root]
    /\ qry = Root /\ qryRec = store[Root]
    /\ inq = FALSE /\ pc = "run" /\ todo = << >>
    /\ cur_heur = -1 /\ best_heur = -1
    /\ iteration_count = 0
    /\ prog = [n \in Nodes |-> "unknown"]
    /\ feas = [n \in Nodes |-> {}]
    /\ explored = {}
    /\ weird = 0

\* What the program does at node n: decide one more bit of the query it is
\* in ("inner"), start a query ("query"), or stop ("leaf").
Does(n, kind) ==
    /\ prog[n] \in {"unknown", kind}
    /\ prog' = [prog EXCEPT ![n] = kind]

\* Write record r of node `cur' back.  While cur = qry the two are one object.
SetCur(r) ==
    /\ curRec' = r
    /\ qryRec' = IF cur = qry THEN r ELSE qryRec

StartNewQuery ==
    /\ pc = "run" /\ ~inq
    /\ Does(cur, "query")
    /\ LET k == FailedIf(~IsQuery(curRec))
       IN IF TooWeird(k)
          THEN Crash
          ELSE /\ qry' = cur /\ qryRec' = curRec
               /\ weird' = weird + k
               /\ pc' = "try"
               /\ UNCHANGED <<store, cur, curRec>>
    /\ inq' = TRUE
    /\ UNCHANGED <<todo, heurVars, pathVars, feas>>

\* A multi-way choice goes on with another binary one.
NextBit ==
    /\ pc = "run" /\ inq /\ cur # qry
    /\ Does(cur, "inner")
    /\ pc' = "try"
    /\ UNCHANGED <<treeVars, inq, todo, heurVars, pathVars, feas, weird>>

-----------------------------------------------------------------------------
(* try_extend.                                                             *)

\* The solver's answers for the two directions, when F are the feasible ones.
Answers(F) ==
    {a \in [BOOLEAN -> {"sat", "unsat", "fail"}] :
        \A b \in BOOLEAN : /\ a[b] = "sat" => b \in F
                           /\ a[b] = "unsat" => b \notin F
                           /\ a[b] = "fail" => SolverMayFail /\ Len(cur) \in FailureDepths}

Raises(a, b) == a[b] = "fail" /\ ~TimeoutAsUnsat
Refused(a, b) == a[b] # "sat" /\ ~Raises(a, b)

\* The feasible directions of `cur' are fixed when they are first asked for.
Consult(F) ==
    /\ F \in (SUBSET BOOLEAN) \ {{}}
    /\ feas[cur] \in {{}, F}
    /\ feas' = [feas EXCEPT ![cur] = F]
    /\ Cardinality({n \in Nodes : feas'[n] = BOOLEAN}) =< MaxBranchings

\* extend (with add_kid): r is the record of `cur', `fails' counts the
\* assertions that have failed in this call before.
Extend(b, r, fails) ==
    LET k  == fails + FailedIf(r.all_seen)
        r2 == [r EXCEPT !.child[b] = "sat"]
    IN IF TooWeird(k) \/ r.child[b] = "unsat"
       THEN Crash
       ELSE /\ store' = [store EXCEPT ![cur] = Stored(r2)]
            /\ cur' = Kid(cur, b)
            /\ curRec' = store[Kid(cur, b)]
            /\ qryRec' = IF cur = qry THEN r2 ELSE qryRec
            /\ weird' = weird + k
            /\ pc' = IF Len(cur) >= PathDepthLimit THEN "finish" ELSE "run"
            /\ UNCHANGED qry

\* The SolverFailure exception: caught by fuzz_runloop with -nonfatal-solver,
\* ends the exploration otherwise.
SolverFailure(r) ==
    /\ store' = [store EXCEPT ![cur] = Stored(r)]
    /\ SetCur(r)
    /\ pc' = IF NonfatalSolver THEN "finish" ELSE "stopped"
    /\ UNCHANGED <<cur, qry, weird>>

RecordUnsat(r, b) == [r EXCEPT !.child[b] = "unsat"]
ForgetUnsat(r, b) == [r EXCEPT !.child[b] = "unknown"]

\* both_fail_func and what try_both does with its answer.
BothFail(b, r, fails) ==
    IF TimeoutAsUnsat /\ Concolic
    THEN Extend(b, ForgetUnsat(r, b), fails)
    ELSE pc' = "double_unsat" /\ UNCHANGED <<treeVars, weird>>

\* Fault: all_seen is not looked at when a direction is chosen.
KidSeen_Ignored(b) == curRec.child[b] = "sat" /\ cur \notin Nodes

KidSeen(b) == curRec.child[b] = "sat" /\ store[Kid(cur, b)].all_seen

\* Shapes for which direction b is taken without asking the solver (`known').
KnownShape(b) ==
    /\ curRec.child[b] = "sat"
    /\ CASE curRec.child[~b] = "unsat" -> TRUE
         [] curRec.child[~b] = "unknown" -> Limited(qryRec)
         [] OTHER -> \/ ~KidSeen(b)
                     \/ KidSeen(b) /\ KidSeen(~b) /\ curRec.all_seen

\* The shapes try_extend rejects with failwith.
BadShape ==
    \/ \A b \in BOOLEAN : KidSeen(b) /\ ~curRec.all_seen
    \/ \A b \in BOOLEAN : curRec.child[b] = "unsat"
    \/ Limited(qryRec) /\ \A b \in BOOLEAN : curRec.child[b] = "unknown"

TryExtendKnown ==
    /\ pc = "try"
    /\ IF BadShape
       THEN Crash
       ELSE \E b \in BOOLEAN :
                /\ KnownShape(b)
                /\ Extend(b, curRec,
                          FailedIf(curRec.all_seen) +
                          FailedIf(curRec.child[~b] = "unsat" /\ KidSeen(b)))
    /\ UNCHANGED <<inq, todo, heurVars, pathVars, envVars>>

\* try_both, for a node with an unknown direction and none exhausted: b is
\* tried first.  record_unsat fails on a direction known to be sat.
BothShape(b) ==
    /\ ~Limited(qryRec)
    /\ {curRec.child[b], curRec.child[~b]} \in {{"unknown"}, {"unknown", "sat"}}
    /\ ~KidSeen(b) /\ ~KidSeen(~b)

TryBoth(a, b) ==
    LET fails == FailedIf(curRec.all_seen)
        r     == RecordUnsat(curRec, b)
    IN CASE Raises(a, b) \/ (a[b] = "sat" /\ Raises(a, ~b)) -> SolverFailure(curRec)
         [] a[b] = "sat" /\ a[~b] = "sat" ->
              Extend(b, [curRec EXCEPT !.child[~b] = "sat"], 2 * fails)
         [] a[b] = "sat" /\ Refused(a, ~b) ->
              IF curRec.child[~b] = "sat"
              THEN Crash ELSE Extend(b, RecordUnsat(curRec, ~b), fails)
         [] Refused(a, b) /\ curRec.child[b] = "sat" -> Crash
         [] Refused(a, b) /\ curRec.child[b] # "sat" ->
              IF Raises(a, ~b) THEN SolverFailure(r)
              ELSE IF a[~b] = "sat" THEN Extend(~b, r, fails)
              ELSE BothFail(b, r, fails)

\* try_or_boring, for a node whose other direction is exhausted.  When b is
\* refused the node is marked all_seen, then left through the exhausted kid.
BoringShape(b) ==
    ~Limited(qryRec) /\ curRec.child[b] = "unknown" /\ KidSeen(~b)

TryOrBoring(a, b) ==
    IF Raises(a, b)
    THEN SolverFailure(curRec)
    ELSE IF a[b] = "sat"
    THEN Extend(b, curRec, FailedIf(curRec.all_seen))
    ELSE /\ store' = [store EXCEPT ![cur] = Stored(RecordUnsat(curRec, b))]
         /\ SetCur(RecordUnsat(curRec, b))
         /\ pc' = "boring"
         /\ UNCHANGED <<cur, qry, weird>>

\* known_check: the other direction is refused, so this one must not be.
CheckShape(b) == curRec.child[b] = "unknown" /\ curRec.child[~b] = "unsat"

KnownCheck(a, b) ==
    IF Raises(a, b)
    THEN SolverFailure(curRec)
    ELSE IF a[b] = "sat"
    THEN Extend(b, curRec, FailedIf(curRec.all_seen))
    ELSE Crash

TryExtendAsk ==
    /\ pc = "try"
    /\ \E F \in SUBSET BOOLEAN, b \in BOOLEAN :
        /\ BothShape(b) \/ BoringShape(b) \/ CheckShape(b)
        /\ Consult(F)
        /\ \E a \in Answers(F) :
            CASE BothShape(b) -> TryBoth(a, b)
              [] BoringShape(b) -> TryOrBoring(a, b)
              [] CheckShape(b) -> KnownCheck(a, b)
    /\ todo' = IF pc' = "boring" THEN <<[op |-> "loop", node |-> cur]>> ELSE todo
    /\ UNCHANGED <<inq, heurVars, pathVars, prog>>

\* The end of try_or_boring, after mark_all_seen_node: known (not b).
LeaveBoring ==
    /\ pc = "boring" /\ todo = << >>
    /\ \E b \in BOOLEAN : curRec.child[b] = "sat" /\ Extend(b, curRec, 0)
    /\ UNCHANGED <<inq, todo, heurVars, pathVars, envVars>>

-----------------------------------------------------------------------------
(* count_query.                                                            *)

\* m is reached from n without passing through another node that `stops'
\* the descent: the nodes from n down to m, m excluded, n included.
Between(n, m) == {a \in Nodes : Below(n, a) /\ Below(a, m) /\ a # m}

\* The nodes of the multi-way choice rooted at q: finish_internal_nodes
\* descends through nodes that are not query nodes themselves.
Internal(S, q) ==
    {m \in Nodes :
        /\ Below(q, m) /\ Created(S, m)
        /\ \A a \in {m} \cup Between(q, m) : a = q \/ ~IsQuery(S[a])}

\* Fault: only the kids of n are looked at.
Open_Shallow(S, q, n) ==
    \E b \in BOOLEAN : /\ S[n].child[b] = "sat"
                       /\ IsQuery(S[Kid(n, b)]) /\ ~S[Kid(n, b)].all_seen

\* Something is left to explore in the part of q's choice below n: a live
\* query node that internal_nodes_check reaches from n.
Open(S, q, n) ==
    \E m \in Nodes :
        /\ Below(n, m) /\ Created(S, m) /\ m # q
        /\ IsQuery(S[m]) /\ ~S[m].all_seen
        /\ \A a \in Between(n, m) : ~S[a].all_seen /\ (a = q \/ ~IsQuery(S[a]))

FillUnknown(r) ==
    [r EXCEPT !.child = [b \in BOOLEAN |-> IF r.child[b] = "unknown"
                                           THEN "unsat" ELSE r.child[b]]]

\* count_query up to finish_internal_nodes: both records are written whole.
CountQuery ==
    /\ pc = "run" /\ inq /\ cur # qry
    /\ \E kind \in {"query", "leaf"} : Does(cur, kind)
    /\ LET k     == qryRec.query_children
           fails == FailedIf(~curRec.query_counted /\ k >= QueryBranchLimit)
           newq  == IF curRec.query_counted
                    THEN qryRec ELSE [qryRec EXCEPT !.query_children = k + 1]
           newc  == [curRec EXCEPT !.query_counted = TRUE,
                                   !.query_children = IF @ = None THEN 0 ELSE @]
       IN IF TooWeird(fails) \/ k = None
          THEN Crash /\ UNCHANGED inq
          ELSE /\ store' = [store EXCEPT
                    ![qry] = IF curRec.query_counted THEN @ ELSE Stored(newq),
                    ![cur] = Stored(newc)]
               /\ qryRec' = newq
               /\ curRec' = newc
               /\ weird' = weird + fails
               /\ pc' = IF Limited(newq) THEN "internal" ELSE "run"
               /\ inq' = FALSE
               /\ UNCHANGED <<cur, qry>>
    /\ UNCHANGED <<todo, heurVars, pathVars, feas>>

\* finish_internal_nodes: once the limit is reached no further direction of
\* this choice will be tried, and what is exhausted by that is marked.  This
\* is what the recursion comes to; TreeWrites takes it write by write, and its
\* property Implements compares the two.
FinishInternalNodes ==
    /\ pc = "internal"
    /\ LET I == Internal(store, qry)
           F == [n \in Nodes |-> IF n \in I THEN FillUnknown(store[n]) ELSE store[n]]
           S == [n \in Nodes |-> IF n \in I \ {qry} /\ ~Open(F, qry, n)
                                 THEN [F[n] EXCEPT !.all_seen = TRUE] ELSE F[n]]
       IN /\ store' = S
          /\ qryRec' = FillUnknown(qryRec)
          /\ todo' = IF Closed(S, qry)
                     THEN <<[op |-> "loop", node |-> qry]>> ELSE << >>
          /\ pc' = "count"
    /\ UNCHANGED <<cur, curRec, qry, inq, heurVars, pathVars, envVars, weird>>

CountQueryReturns ==
    /\ pc = "count" /\ todo = << >>
    /\ pc' = "run"
    /\ UNCHANGED <<treeVars, inq, todo, heurVars, pathVars, envVars, weird>>

-----------------------------------------------------------------------------
(* mark_all_seen_node.  `todo' is the stack of calls still to be made:      *)
(* loop(n), and the check of n's query node that follows a call for a kid. *)

MarkOp == [op : {"loop", "query"}, node : Nodes]
LoopOp(n) == [op |-> "loop", node |-> n]
QueryOp(n) == [op |-> "query", node |-> n]

\* Fault: mark uses cur_query's record although a later write superseded it.
MarkObject_Stale(n) ==
    IF n = cur THEN curRec ELSE IF n = qry THEN qryRec ELSE store[n]

\* The record that `mark' updates: the caller's own object for the node the
\* marking starts at, a fresh copy for every other one.
MarkObject(n) ==
    IF n = cur THEN curRec
    ELSE IF n = qry /\ pc = "count" THEN qryRec ELSE store[n]

MarkLoop ==
    /\ pc \in {"mark", "count", "boring"}
    /\ todo # << >> /\ Head(todo).op = "loop"
    /\ LET n == Head(todo).node
           r == [MarkObject(n) EXCEPT !.all_seen = TRUE]
           S == [store EXCEPT ![n] = Stored(r)]
           fails == Cardinality({b \in BOOLEAN : /\ r.child[b] = "sat"
                                                 /\ ~store[Kid(n, b)].all_seen})
           up == IF n = Root THEN << >>
                 ELSE IF ~S[Parent(n)].all_seen /\ Closed(S, Parent(n))
                      THEN <<LoopOp(Parent(n)), QueryOp(Parent(n))>>
                      ELSE <<QueryOp(Parent(n))>>
       IN IF TooWeird(fails)
          THEN Crash /\ UNCHANGED todo
          ELSE /\ store' = S
               /\ curRec' = IF n = cur THEN r ELSE curRec
               /\ qryRec' = IF n = qry /\ (n = cur \/ pc = "count") THEN r ELSE qryRec
               /\ todo' = up \o Tail(todo)
               /\ weird' = weird + fails
               /\ UNCHANGED <<cur, qry, pc>>
    /\ UNCHANGED <<inq, heurVars, pathVars, envVars>>

\* The nodes internal_nodes_check marks under q.  It looks at the false kid
\* first and at the true kid only if nothing is left below the false one.
ReachedByCheck(S, q) ==
    {n \in Nodes :
        /\ Below(q, n) /\ Created(S, n)
        /\ \A a \in {n} \cup Between(q, n) :
            ~S[a].all_seen /\ (a = q \/ ~IsQuery(S[a]))
        /\ \A a \in Between(q, n) :
            n[Len(a) + 1] => \/ S[a].child[FALSE] # "sat"
                             \/ ~Open(S, q, Kid(a, FALSE))}

InternalNodesCheck(S, q) ==
    [n \in Nodes |-> IF n \in ReachedByCheck(S, q) /\ ~Open(S, q, n)
                     THEN [S[n] EXCEPT !.all_seen = TRUE] ELSE S[n]]

\* query_parent climbs to the nearest query node at or above n ...
QueryParent ==
    /\ pc \in {"mark", "count", "boring"}
    /\ todo # << >> /\ Head(todo).op = "query"
    /\ ~IsQuery(store[Head(todo).node])
    /\ IF Head(todo).node = Root
       THEN Crash /\ UNCHANGED todo
       ELSE /\ todo' = <<QueryOp(Parent(Head(todo).node))>> \o Tail(todo)
            /\ UNCHANGED <<treeVars, pc, weird>>
    /\ UNCHANGED <<inq, heurVars, pathVars, envVars>>

\* ... which, once it is limited, is marked together with the nodes of its
\* choice when nothing is left below.
MarkQuery ==
    /\ pc \in {"mark", "count", "boring"}
    /\ todo # << >> /\ Head(todo).op = "query"
    /\ IsQuery(store[Head(todo).node])
    /\ LET q == Head(todo).node
           fails == FailedIf(store[q].query_children > QueryBranchLimit)
       IN IF ~Limited(store[q])
          THEN todo' = Tail(todo) /\ UNCHANGED <<treeVars, pc, weird>>
          ELSE IF TooWeird(fails)
          THEN Crash /\ UNCHANGED todo
          ELSE /\ store' = InternalNodesCheck(store, q)
               /\ todo' = (IF Open(store, q, q) THEN << >> ELSE <<LoopOp(q)>>)
                          \o Tail(todo)
               /\ weird' = weird + fails
               /\ UNCHANGED <<cur, curRec, qry, qryRec, pc>>
    /\ UNCHANGED <<inq, heurVars, pathVars, envVars>>

-----------------------------------------------------------------------------
(* Heuristic scores and the exploration loop.                              *)

MinOf(i, j) == IF i < j THEN i ELSE j
MaxOf(i, j) == IF i > j THEN i ELSE j

\* Fault: `and' for `or' in the test of propagate_heur.
InHeurRange_Or(h, r) == r.heur_min =< h \/ h =< r.heur_max

InHeurRange(h, r) == r.heur_min =< h /\ h =< r.heur_max
Widen(r, h) == [r EXCEPT !.heur_min = MinOf(@, h), !.heur_max = MaxOf(@, h)]

\* propagate_heur: widen `cur' and its ancestors up to the first one whose
\* range already holds the score.
Widened(h) ==
    {n \in Nodes :
        /\ Below(n, cur)
        /\ \A a \in Nodes : Below(n, a) /\ Below(a, cur) =>
            ~InHeurRange(h, IF a = cur THEN curRec ELSE store[a])}

PropagateHeur(h) ==
    /\ store' = [n \in Nodes |->
                    IF n \notin Widened(h) THEN store[n]
                    ELSE IF n = cur THEN Stored(Widen(curRec, h))
                    ELSE Widen(store[n], h)]
    /\ SetCur(IF cur \in Widened(h) THEN Widen(curRec, h) ELSE curRec)

SetHeur(h) ==
    /\ cur_heur' = h
    /\ best_heur' = MaxOf(h, best_heur)
    /\ PropagateHeur(h)

\* target_solve: a store into the target region scores the path.
ScorePath ==
    /\ pc = "run" /\ ~inq
    /\ \E h \in Scores : cur_heur # h /\ SetHeur(h)
    /\ UNCHANGED <<cur, qry, inq, pc, todo, pathVars, envVars, weird>>

\* A query that decides no branch (is this address unique, how many values can
\* it have) fails between two operations of the tree, and ends the path: those
\* of exec_influence raise SolverFailure under -timeout-as-unsat as well.
\* Signals, which come in the middle of an operation too, are in TreeWrites.
OtherQueryFails ==
    /\ OtherQueries /\ SolverMayFail
    /\ pc = "run"
    /\ pc' = IF NonfatalSolver THEN "finish" ELSE "stopped"
    /\ UNCHANGED <<treeVars, inq, todo, heurVars, pathVars, envVars, weird>>

\* The path ends at a leaf of the program, or where an exception ended it.
PathEnds ==
    \/ pc = "finish" /\ UNCHANGED prog
    \/ pc = "run" /\ ~inq /\ Does(cur, "leaf")

\* finish_path: set_heur 1, then mark_all_seen.  (The propagate_heur at the
\* end of mark_all_seen finds the score in range already.)
FinishPath ==
    /\ PathEnds
    /\ SetHeur(1)
    /\ explored' = explored \cup {cur}
    /\ todo' = <<LoopOp(cur)>>
    /\ pc' = "mark"
    /\ UNCHANGED <<cur, qry, inq, iteration_count, feas, weird>>

\* try_again_p, then reset (or the end of the loop).
Reset ==
    /\ pc = "mark" /\ todo = << >>
    /\ ~store[Root].all_seen
    /\ cur' = Root /\ curRec' = store[Root]
    /\ qry' = Root /\ qryRec' = store[Root]
    /\ cur_heur' = -1
    /\ iteration_count' = iteration_count + 1
    /\ inq' = FALSE /\ pc' = "run"
    /\ UNCHANGED <<store, todo, best_heur, explored, envVars, weird>>

LastIteration ==
    /\ pc = "mark" /\ todo = << >>
    /\ store[Root].all_seen
    /\ pc' = "done"
    /\ UNCHANGED <<treeVars, inq, todo, heurVars, pathVars, envVars, weird>>

Ended == {"done", "stopped", "double_unsat", "crashed"}
Terminated == pc \in Ended /\ UNCHANGED vars

Next ==
    \/ StartNewQuery \/ NextBit
    \/ TryExtendKnown \/ TryExtendAsk \/ LeaveBoring
    \/ CountQuery \/ FinishInternalNodes \/ CountQueryReturns
    \/ MarkLoop \/ QueryParent \/ MarkQuery
    \/ ScorePath \/ OtherQueryFails
    \/ FinishPath \/ Reset \/ LastIteration
    \/ Terminated

Spec == Init /\ [][Next]_vars

\* The loop is one thread: it goes on as long as it has a step to take, and
\* every solver call returns (an answer or a failure).
FairSpec == Spec /\ WF_vars(Next)

-----------------------------------------------------------------------------
(* Properties.                                                             *)

\* Every record held in memory or in the table, every index and every counter
\* has its type; the program never runs on after a second failed g_assert.
TypeOK ==
    /\ store \in [Nodes -> NodeRec]
    /\ cur \in Nodes /\ curRec \in NodeRec
    /\ qry \in Nodes /\ qryRec \in NodeRec
    /\ inq \in BOOLEAN
    /\ pc \in Ended \cup {"run", "try", "boring", "internal", "count", "mark", "finish"}
    /\ todo \in Seq(MarkOp)
    /\ cur_heur \in Int /\ best_heur \in Int
    /\ iteration_count \in Nat
    /\ prog \in [Nodes -> {"unknown", "inner", "query", "leaf"}]
    /\ feas \in [Nodes -> SUBSET BOOLEAN]
    /\ explored \subseteq Nodes
    /\ weird \in 0..1

\* No g_assert of the tree fails and no failwith is reached: the shapes that
\* try_extend, add_kid, record_unsat, mark and count_query call impossible.
AssertionsHold == weird = 0 /\ pc # "crashed"

\* "the full subtree rooted at this node has been completely explored"
\* (all_seen in the node type): nothing below an all_seen node is live.
AllSeenSubtree ==
    \A n \in Nodes : store[n].all_seen => \A m \in Nodes :
        Below(n, m) /\ Created(store, m) => store[m].all_seen

\* Each iteration of the fuzzing loop ends at a place no earlier one ended at.
DifferentPaths ==
    pc \in {"mark", "done"} => Cardinality(explored) = iteration_count + 1

\* The query node whose multi-way choice n belongs to.
NearestQuery(n) ==
    CHOOSE q \in Nodes :
        /\ Below(q, n) /\ IsQuery(store[q])
        /\ \A a \in Nodes : Below(q, a) /\ Below(a, n) /\ IsQuery(store[a]) => a = q

\* When the loop gives up, every feasible direction of every node reached has
\* been followed, except where a path ended or the branch limit cut it off.
Complete ==
    pc = "done" =>
        \A n \in Nodes : Created(store, n) =>
            \/ n \in explored
            \/ Limited(store[NearestQuery(n)])
            \/ feas[n] # {} /\ \A b \in feas[n] : store[n].child[b] = "sat"

\* query_children is the number of counted nodes whose nearest query node
\* above is this one, and does not exceed the limit.
CountsExact ==
    \A q \in Nodes : IsQuery(store[q]) =>
        /\ store[q].query_children =
             Cardinality({m \in Nodes \ {q} : /\ Below(q, m)
                                             /\ store[m].query_counted
                                             /\ NearestQuery(Parent(m)) = q})
        /\ store[q].query_children =< QueryBranchLimit

\* The score range of a node holds the ranges of its kids, which is what makes
\* propagate_heur's early stop right.  (This is about whole operations: a
\* signal between two writes of propagate_heur leaves a kid's range wider.)
HeurRangesNest ==
    \A n \in Nodes : n # Root =>
        /\ store[Parent(n)].heur_min =< store[n].heur_min
        /\ store[Parent(n)].heur_max >= store[n].heur_max

\* The exploration of a program with finitely many paths comes to an end,
\* and to its regular end.
Termination == <>(pc = "done")

=============================================================================
