------------------------- MODULE DecisionTreeProofs -------------------------
(* Theorems about DecisionTree for every value of its constants: its types *)
(* and the nesting of the score ranges; and the agreement of the records   *)
(* in memory with the table, which TreeWritesProofs and ExplorationProofs  *)
(* rest on.                                                                *)
EXTENDS DecisionTree, FiniteSetTheorems, SequenceTheorems, TLAPS

-----------------------------------------------------------------------------
(* Nodes.                                                                  *)

\* A node is a sequence of directions no longer than the depth limit allows.
LEMMA NodesAreSequences ==
    ASSUME NEW n
    PROVE  n \in Nodes <=> n \in Seq(BOOLEAN) /\ Len(n) =< PathDepthLimit + 1
<1>0. PathDepthLimit \in Nat
  BY LimitsAssumption
<1>1. ASSUME n \in Nodes
      PROVE  n \in Seq(BOOLEAN) /\ Len(n) =< PathDepthLimit + 1
  <2>1. PICK k \in 0..(PathDepthLimit + 1) : n \in [1..k -> BOOLEAN]
    BY <1>1 DEF Nodes
  <2>2. k \in Nat /\ k =< PathDepthLimit + 1
    BY <1>0
  <2>3. n \in Seq(BOOLEAN) /\ Len(n) = k
    BY <2>1, <2>2
  <2> QED
    BY <2>2, <2>3
<1>2. ASSUME n \in Seq(BOOLEAN), Len(n) =< PathDepthLimit + 1
      PROVE  n \in Nodes
  <2>1. n \in [1..Len(n) -> BOOLEAN] /\ Len(n) \in 0..(PathDepthLimit + 1)
    BY <1>0, <1>2
  <2> QED
    BY <2>1 DEF Nodes
<1> QED
  BY <1>1, <1>2

\* The root, the kids of a node above the depth limit (extend) and the parent
\* of a node other than the root (get_parent) are nodes.
LEMMA RootIsNode == Root \in Nodes
<1>1. Root \in [1..0 -> BOOLEAN] /\ 0 \in 0..(PathDepthLimit + 1)
  BY LimitsAssumption DEF Root
<1> QED
  BY <1>1 DEF Nodes

\* extend stays within the tree: a kid of a node within the depth limit is a
\* node.
LEMMA KidIsNode ==
    ASSUME NEW n \in Nodes, NEW b \in BOOLEAN, Len(n) =< PathDepthLimit
    PROVE  Kid(n, b) \in Nodes
<1>1. n \in Seq(BOOLEAN)
  BY NodesAreSequences
<1>2. Kid(n, b) \in Seq(BOOLEAN) /\ Len(Kid(n, b)) = Len(n) + 1
  BY <1>1 DEF Kid
<1> QED
  BY <1>1, <1>2, NodesAreSequences, LimitsAssumption

\* get_parent of a node other than the root is a node.
LEMMA ParentIsNode ==
    ASSUME NEW n \in Nodes, n # Root
    PROVE  Parent(n) \in Nodes
<1>1. n \in Seq(BOOLEAN) /\ Len(n) =< PathDepthLimit + 1 /\ Len(n) > 0
  BY NodesAreSequences DEF Root
<1>2. Parent(n) \in Seq(BOOLEAN) /\ Len(Parent(n)) =< PathDepthLimit + 1
  BY <1>1, LimitsAssumption DEF Parent
<1> QED
  BY <1>2, NodesAreSequences

-----------------------------------------------------------------------------
(* Records.                                                                *)

\* A record read back from the table (string_to_dt_node after
\* dt_node_to_string) is a record.
LEMMA StoredType ==
    ASSUME NEW r \in NodeRec
    PROVE  /\ Stored(r) \in NodeRec
           /\ Stored(r).all_seen = r.all_seen
           /\ Stored(r).child = r.child
           /\ Stored(r).heur_min = r.heur_min
           /\ Stored(r).heur_max = r.heur_max
<1>1. StoredCount(r.query_children) \in Int
  BY LimitsAssumption DEF NodeRec, StoredCount, None
<1> QED
  BY <1>1 DEF Stored, NodeRec

\* new_dt_node makes a record.
LEMMA FreshNodeType == FreshNode \in NodeRec
BY DEF FreshNode, NodeRec, ChildStatus, None, NoHeurMin

\* Setting the status of one direction, as record_unsat and add_kid do.
LEMMA ChildUpdateType ==
    ASSUME NEW r \in NodeRec, NEW b \in BOOLEAN, NEW c \in ChildStatus
    PROVE  /\ [r EXCEPT !.child[b] = c] \in NodeRec
           /\ [r EXCEPT !.child[b] = c].heur_min = r.heur_min
           /\ [r EXCEPT !.child[b] = c].heur_max = r.heur_max
BY DEF NodeRec

\* finish_internal_nodes writes a record when it closes unknown directions.
LEMMA FillUnknownType ==
    ASSUME NEW r \in NodeRec
    PROVE  /\ FillUnknown(r) \in NodeRec
           /\ FillUnknown(r).heur_min = r.heur_min
           /\ FillUnknown(r).heur_max = r.heur_max
BY DEF NodeRec, FillUnknown, ChildStatus

\* mark writes a record when it sets all_seen.
LEMMA AllSeenUpdateType ==
    ASSUME NEW r \in NodeRec
    PROVE  /\ [r EXCEPT !.all_seen = TRUE] \in NodeRec
           /\ [r EXCEPT !.all_seen = TRUE].heur_min = r.heur_min
           /\ [r EXCEPT !.all_seen = TRUE].heur_max = r.heur_max
BY DEF NodeRec

\* propagate_heur writes a record when it widens a score range.
LEMMA WidenType ==
    ASSUME NEW r \in NodeRec, NEW h \in Int
    PROVE  /\ Widen(r, h) \in NodeRec
           /\ Widen(r, h).heur_min = MinOf(r.heur_min, h)
           /\ Widen(r, h).heur_max = MaxOf(r.heur_max, h)
BY DEF NodeRec, Widen, MinOf, MaxOf

-----------------------------------------------------------------------------
(* Type correctness.  A path that is still running has not passed the depth *)
(* limit: extend raises DeepPath when it does.                              *)

DepthOK ==
    pc \in {"run", "try", "boring", "internal", "count"} => Len(cur) =< PathDepthLimit

TreeTypeOK ==
    /\ store \in [Nodes -> NodeRec]
    /\ cur \in Nodes /\ curRec \in NodeRec
    /\ qry \in Nodes /\ qryRec \in NodeRec
    /\ pc \in Ended \cup {"run", "try", "boring", "internal", "count", "mark", "finish"}
    /\ weird \in 0..1
    /\ DepthOK

RestTypeOK ==
    /\ inq \in BOOLEAN
    /\ todo \in Seq(MarkOp)
    /\ cur_heur \in Int /\ best_heur \in Int
    /\ iteration_count \in Nat
    /\ prog \in [Nodes -> {"unknown", "inner", "query", "leaf"}]
    /\ feas \in [Nodes -> SUBSET BOOLEAN]
    /\ explored \subseteq Nodes

TypeInv == TreeTypeOK /\ RestTypeOK

\* The inductive invariant is at least the type invariant.
LEMMA TypeInvImpliesTypeOK == TypeInv => TypeOK
BY DEF TypeInv, TreeTypeOK, RestTypeOK, TypeOK

\* The tree starts as the root alone, with the types in order.
LEMMA InitType == Init => TypeInv
<1> SUFFICES ASSUME Init PROVE TypeInv
  OBVIOUS
<1>1. FreshNode \in NodeRec /\ [FreshNode EXCEPT !.query_children = 0] \in NodeRec
  BY FreshNodeType DEF NodeRec
<1>2. Root \in Nodes /\ Len(Root) = 0
  BY RootIsNode DEF Root
<1>3. store \in [Nodes -> NodeRec]
  BY <1>1 DEF Init
<1>4. TreeTypeOK
  BY <1>2, <1>3, LimitsAssumption DEF Init, TreeTypeOK, DepthOK, Ended
<1>5. todo \in Seq(MarkOp) /\ explored \subseteq Nodes
  BY DEF Init
<1>6. /\ prog \in [Nodes -> {"unknown", "inner", "query", "leaf"}]
      /\ feas \in [Nodes -> SUBSET BOOLEAN]
  BY DEF Init
<1>7. inq \in BOOLEAN
  BY DEF Init
<1>8. cur_heur \in Int /\ best_heur \in Int /\ iteration_count \in Nat
  BY DEF Init
<1>9. RestTypeOK
  BY <1>5, <1>6, <1>7, <1>8 DEF RestTypeOK
<1> QED
  BY <1>4, <1>9 DEF TypeInv

\* A g_assert counts as at most one failure.
LEMMA FailedIfNat == \A P \in BOOLEAN : FailedIf(P) \in 0..1
BY DEF FailedIf

\* extend keeps the types and ends the path at the depth limit.
LEMMA ExtendType ==
    ASSUME TreeTypeOK, pc \in {"try", "boring"},
           NEW b \in BOOLEAN, NEW r \in NodeRec, NEW fails \in Nat,
           Extend(b, r, fails)
    PROVE  TreeTypeOK' /\ pc' # "boring"
<1> DEFINE k == fails + FailedIf(r.all_seen)
           r2 == [r EXCEPT !.child[b] = "sat"]
<1>1. CASE TooWeird(k) \/ r.child[b] = "unsat"
  <2>1. pc' = "crashed" /\ UNCHANGED <<treeVars, weird>>
    BY <1>1 DEF Extend, Crash
  <2> QED
    BY <2>1 DEF TreeTypeOK, DepthOK, treeVars, Ended
<1>2. CASE ~(TooWeird(k) \/ r.child[b] = "unsat")
  <2>1. /\ store' = [store EXCEPT ![cur] = Stored(r2)]
        /\ cur' = Kid(cur, b)
        /\ curRec' = store[Kid(cur, b)]
        /\ qryRec' = IF cur = qry THEN r2 ELSE qryRec
        /\ weird' = weird + k
        /\ pc' = IF Len(cur) >= PathDepthLimit THEN "finish" ELSE "run"
        /\ qry' = qry
    BY <1>2 DEF Extend
  <2>2. r2 \in NodeRec
    BY ChildUpdateType DEF ChildStatus
  <2>3. Stored(r2) \in NodeRec
    BY <2>2, StoredType
  <2>4. Len(cur) =< PathDepthLimit /\ cur \in Nodes
    BY DEF TreeTypeOK, DepthOK
  <2>5. Kid(cur, b) \in Nodes
    BY <2>4, KidIsNode
  <2>6. k \in Nat
    BY FailedIfNat DEF NodeRec
  <2>7. weird' \in 0..1
    BY <1>2, <2>1, <2>6 DEF TreeTypeOK, TooWeird
  <2>8. pc' = "run" => Len(cur') =< PathDepthLimit
    <3>1. cur \in Seq(BOOLEAN)
      BY <2>4, NodesAreSequences
    <3>2. Len(Kid(cur, b)) = Len(cur) + 1 /\ Len(cur) \in Nat
      BY <3>1 DEF Kid
    <3> QED
      BY <2>1, <3>2, LimitsAssumption
  <2>9. store' \in [Nodes -> NodeRec] /\ curRec' \in NodeRec
    BY <2>1, <2>3, <2>4, <2>5 DEF TreeTypeOK
  <2>10. qry' \in Nodes /\ qryRec' \in NodeRec
    BY <2>1, <2>2 DEF TreeTypeOK
  <2>11. pc' \in {"run", "finish"}
    BY <2>1
  <2> QED
    BY <2>1, <2>5, <2>7, <2>8, <2>9, <2>10, <2>11 DEF TreeTypeOK, DepthOK
<1> QED
  BY <1>1, <1>2

\* failwith leaves the tree as it was.
LEMMA CrashType ==
    ASSUME TreeTypeOK, Crash
    PROVE  TreeTypeOK' /\ pc' # "boring"
BY DEF TreeTypeOK, Crash, DepthOK, treeVars, Ended

\* SolverFailure leaves a record of `cur' behind, and ends the path or the
\* exploration.
LEMMA SolverFailureType ==
    ASSUME TreeTypeOK, NEW r \in NodeRec, SolverFailure(r)
    PROVE  TreeTypeOK' /\ pc' # "boring"
<1>1. Stored(r) \in NodeRec
  BY StoredType
<1>2. store' \in [Nodes -> NodeRec] /\ pc' \in {"finish", "stopped"}
  BY <1>1 DEF SolverFailure, TreeTypeOK
<1> QED
  BY <1>2 DEF SolverFailure, SetCur, TreeTypeOK, DepthOK, Ended

\* The operators try_extend is made of keep the types.
LEMMA BothFailType ==
    ASSUME TreeTypeOK, pc = "try", NEW b \in BOOLEAN, NEW r \in NodeRec,
           NEW fails \in Nat, BothFail(b, r, fails)
    PROVE  TreeTypeOK' /\ pc' # "boring"
<1>1. ForgetUnsat(r, b) \in NodeRec
  BY ChildUpdateType DEF ForgetUnsat, ChildStatus
<1>2. CASE TimeoutAsUnsat /\ Concolic
  <2>1. Extend(b, ForgetUnsat(r, b), fails)
    BY <1>2 DEF BothFail
  <2> QED
    BY <1>1, <2>1, ExtendType
<1>3. CASE ~(TimeoutAsUnsat /\ Concolic)
  <2>1. pc' = "double_unsat" /\ UNCHANGED <<treeVars, weird>>
    BY <1>3 DEF BothFail
  <2> QED
    BY <2>1 DEF TreeTypeOK, DepthOK, treeVars, Ended
<1> QED
  BY <1>2, <1>3

\* try_both keeps the types for every pair of solver answers.
LEMMA TryBothType ==
    ASSUME TreeTypeOK, pc = "try", NEW b \in BOOLEAN, NEW F, NEW a \in Answers(F),
           TryBoth(a, b)
    PROVE  TreeTypeOK' /\ pc' # "boring"
<1> DEFINE fails == FailedIf(curRec.all_seen)
           r == RecordUnsat(curRec, b)
<1>1. curRec \in NodeRec /\ (~b) \in BOOLEAN
  BY DEF TreeTypeOK
<1>2. /\ r \in NodeRec
      /\ RecordUnsat(curRec, ~b) \in NodeRec
      /\ [curRec EXCEPT !.child[~b] = "sat"] \in NodeRec
  BY <1>1, ChildUpdateType DEF RecordUnsat, ChildStatus
<1>3. fails \in Nat /\ 2 * fails \in Nat
  BY <1>1, FailedIfNat DEF NodeRec
<1>4. \/ SolverFailure(curRec)
      \/ Extend(b, [curRec EXCEPT !.child[~b] = "sat"], 2 * fails)
      \/ Crash
      \/ Extend(b, RecordUnsat(curRec, ~b), fails)
      \/ SolverFailure(r)
      \/ Extend(~b, r, fails)
      \/ BothFail(b, r, fails)
  <2>1. a[b] \in {"sat", "unsat", "fail"} /\ a[~b] \in {"sat", "unsat", "fail"}
    BY <1>1 DEF Answers
  <2> HIDE DEF fails, r
  <2> QED
    BY <2>1 DEF TryBoth, Raises, Refused, fails, r
<1> HIDE DEF fails, r
<1>5. CASE SolverFailure(curRec)
  BY <1>1, <1>5, SolverFailureType
<1>6. CASE Extend(b, [curRec EXCEPT !.child[~b] = "sat"], 2 * fails)
  BY <1>2, <1>3, <1>6, ExtendType
<1>7. CASE Crash
  BY <1>7, CrashType
<1>8. CASE Extend(b, RecordUnsat(curRec, ~b), fails)
  BY <1>2, <1>3, <1>8, ExtendType
<1>9. CASE SolverFailure(r)
  BY <1>2, <1>9, SolverFailureType
<1>10. CASE Extend(~b, r, fails)
  BY <1>1, <1>2, <1>3, <1>10, ExtendType
<1>11. CASE BothFail(b, r, fails)
  BY <1>2, <1>3, <1>11, BothFailType
<1> QED
  BY <1>4, <1>5, <1>6, <1>7, <1>8, <1>9, <1>10, <1>11

\* try_or_boring keeps the types for every solver answer.
LEMMA TryOrBoringType ==
    ASSUME TreeTypeOK, pc = "try", NEW b \in BOOLEAN, NEW a, TryOrBoring(a, b)
    PROVE  TreeTypeOK'
<1>1. curRec \in NodeRec /\ FailedIf(curRec.all_seen) \in Nat
  BY FailedIfNat DEF TreeTypeOK, NodeRec
<1>2. CASE Raises(a, b)
  BY <1>1, <1>2, SolverFailureType DEF TryOrBoring
<1>3. CASE ~Raises(a, b) /\ a[b] = "sat"
  BY <1>1, <1>3, ExtendType DEF TryOrBoring
<1>4. CASE ~Raises(a, b) /\ a[b] # "sat"
  <2> DEFINE r == RecordUnsat(curRec, b)
  <2>1. r \in NodeRec
    BY <1>1, ChildUpdateType DEF RecordUnsat, ChildStatus
  <2>2. Stored(r) \in NodeRec
    BY <2>1, StoredType
  <2>3. /\ store' = [store EXCEPT ![cur] = Stored(r)]
        /\ curRec' = r /\ qryRec' = IF cur = qry THEN r ELSE qryRec
        /\ pc' = "boring"
        /\ UNCHANGED <<cur, qry, weird>>
    BY <1>4 DEF TryOrBoring, SetCur
  <2> HIDE DEF r
  <2> QED
    BY <2>1, <2>2, <2>3 DEF TreeTypeOK, DepthOK
<1> QED
  BY <1>2, <1>3, <1>4

\* known_check keeps the types for every solver answer.
LEMMA KnownCheckType ==
    ASSUME TreeTypeOK, pc = "try", NEW b \in BOOLEAN, NEW a, KnownCheck(a, b)
    PROVE  TreeTypeOK'
<1>1. curRec \in NodeRec /\ FailedIf(curRec.all_seen) \in Nat
  BY FailedIfNat DEF TreeTypeOK, NodeRec
<1>2. CASE Raises(a, b)
  BY <1>1, <1>2, SolverFailureType DEF KnownCheck
<1>3. CASE ~Raises(a, b) /\ a[b] = "sat"
  BY <1>1, <1>3, ExtendType DEF KnownCheck
<1>4. CASE ~Raises(a, b) /\ a[b] # "sat"
  BY <1>4, CrashType DEF KnownCheck
<1> QED
  BY <1>2, <1>3, <1>4

-----------------------------------------------------------------------------
(* Each action keeps the types.                                            *)

\* What the program does at a node is one of the three kinds.
LEMMA DoesType ==
    ASSUME NEW n \in Nodes, NEW kind \in {"inner", "query", "leaf"},
           prog \in [Nodes -> {"unknown", "inner", "query", "leaf"}], Does(n, kind)
    PROVE  prog' \in [Nodes -> {"unknown", "inner", "query", "leaf"}]
BY DEF Does

\* start_new_query, the next bit of a choice and count_query keep the types.
LEMMA QueryActionsType ==
    ASSUME TypeInv, StartNewQuery \/ NextBit \/ CountQuery
    PROVE  TypeInv'
<1>1. CASE StartNewQuery
  <2> DEFINE k == FailedIf(~IsQuery(curRec))
  <2>1. RestTypeOK'
    <3>1. prog' \in [Nodes -> {"unknown", "inner", "query", "leaf"}]
      BY <1>1, DoesType DEF StartNewQuery, TypeInv, TreeTypeOK, RestTypeOK
    <3>2. inq' \in BOOLEAN
      BY <1>1 DEF StartNewQuery
    <3>3. UNCHANGED <<todo, cur_heur, best_heur, iteration_count, explored, feas>>
      BY <1>1 DEF StartNewQuery, heurVars, pathVars
    <3> QED
      BY <3>1, <3>2, <3>3 DEF RestTypeOK, TypeInv
  <2>2. TreeTypeOK'
    <3>1. CASE TooWeird(k)
      BY <1>1, <3>1, CrashType DEF StartNewQuery, TypeInv
    <3>2. CASE ~TooWeird(k)
      <4>1. /\ qry' = cur /\ qryRec' = curRec
            /\ weird' = weird + k
            /\ pc' = "try" /\ pc = "run"
            /\ UNCHANGED <<store, cur, curRec>>
        BY <1>1, <3>2 DEF StartNewQuery
      <4>2. k \in Nat
        BY DEF FailedIf
      <4> HIDE DEF k
      <4>3. weird' \in 0..1
        BY <3>2, <4>1, <4>2 DEF TooWeird, TypeInv, TreeTypeOK
      <4> QED
        BY <4>1, <4>3 DEF TypeInv, TreeTypeOK, DepthOK
    <3> QED
      BY <3>1, <3>2
  <2> QED
    BY <2>1, <2>2 DEF TypeInv
<1>2. CASE NextBit
  <2>1. prog' \in [Nodes -> {"unknown", "inner", "query", "leaf"}]
    BY <1>2, DoesType DEF NextBit, TypeInv, TreeTypeOK, RestTypeOK
  <2>2. RestTypeOK'
    BY <1>2, <2>1 DEF NextBit, TypeInv, RestTypeOK, heurVars, pathVars
  <2>3. TreeTypeOK'
    BY <1>2 DEF NextBit, TypeInv, TreeTypeOK, DepthOK, treeVars
  <2> QED
    BY <2>2, <2>3 DEF TypeInv
<1>3. CASE CountQuery
  <2> DEFINE k == qryRec.query_children
             fails == FailedIf(~curRec.query_counted /\ k >= QueryBranchLimit)
             newq == IF curRec.query_counted
                     THEN qryRec ELSE [qryRec EXCEPT !.query_children = k + 1]
             newc == [curRec EXCEPT !.query_counted = TRUE,
                                    !.query_children = IF @ = None THEN 0 ELSE @]
  <2>1. curRec \in NodeRec /\ qryRec \in NodeRec /\ cur \in Nodes /\ qry \in Nodes
    BY DEF TypeInv, TreeTypeOK
  <2>2. newq \in NodeRec /\ newc \in NodeRec
    <3>1. k \in Int /\ k + 1 \in Int
      BY <2>1 DEF NodeRec
    <3> HIDE DEF k
    <3>2. [qryRec EXCEPT !.query_children = k + 1] \in NodeRec
      BY <2>1, <3>1 DEF NodeRec
    <3>3. newc \in NodeRec
      <4> DEFINE kc == IF curRec.query_children = None THEN 0 ELSE curRec.query_children
      <4>1. kc \in Int
        BY <2>1 DEF NodeRec
      <4>2. newc = [curRec EXCEPT !.query_counted = TRUE, !.query_children = kc]
        BY <2>1 DEF NodeRec
      <4> HIDE DEF kc, newc
      <4>3. [curRec EXCEPT !.query_counted = TRUE, !.query_children = kc] \in NodeRec
        BY <2>1, <4>1 DEF NodeRec
      <4> QED
        BY <4>2, <4>3
    <3> QED
      BY <2>1, <3>2, <3>3
  <2>3. Stored(newq) \in NodeRec /\ Stored(newc) \in NodeRec
    BY <2>2, StoredType
  <2>4. RestTypeOK'
    <3>1. prog' \in [Nodes -> {"unknown", "inner", "query", "leaf"}]
      BY <1>3, DoesType DEF CountQuery, TypeInv, TreeTypeOK, RestTypeOK
    <3>2. inq' \in BOOLEAN
      BY <1>3 DEF CountQuery, TypeInv, RestTypeOK
    <3>3. UNCHANGED <<todo, cur_heur, best_heur, iteration_count, explored, feas>>
      BY <1>3 DEF CountQuery, heurVars, pathVars
    <3> QED
      BY <3>1, <3>2, <3>3 DEF RestTypeOK, TypeInv
  <2>5. TreeTypeOK'
    <3>1. CASE TooWeird(fails) \/ k = None
      BY <1>3, <3>1, CrashType DEF CountQuery, TypeInv
    <3>2. CASE ~(TooWeird(fails) \/ k = None)
      <4>1. /\ store' = [store EXCEPT
                    ![qry] = IF curRec.query_counted THEN @ ELSE Stored(newq),
                    ![cur] = Stored(newc)]
            /\ qryRec' = newq
            /\ curRec' = newc
            /\ weird' = weird + fails
            /\ pc = "run"
            /\ pc' = IF Limited(newq) THEN "internal" ELSE "run"
            /\ UNCHANGED <<cur, qry>>
        BY <1>3, <3>2 DEF CountQuery
      <4>2. fails \in Nat
        BY DEF FailedIf
      <4> HIDE DEF newq, newc, fails, k
      <4>3. weird' \in 0..1
        BY <3>2, <4>1, <4>2 DEF TooWeird, TypeInv, TreeTypeOK
      <4>4. store' \in [Nodes -> NodeRec]
        BY <4>1, <2>1, <2>3 DEF TypeInv, TreeTypeOK
      <4>5. pc' \in {"internal", "run"} /\ Len(cur') =< PathDepthLimit
        BY <4>1 DEF TypeInv, TreeTypeOK, DepthOK
      <4> QED
        BY <4>1, <4>3, <4>4, <4>5, <2>1, <2>2 DEF TreeTypeOK, DepthOK
    <3> QED
      BY <3>1, <3>2
  <2> QED
    BY <2>4, <2>5 DEF TypeInv
<1> QED
  BY <1>1, <1>2, <1>3

\* try_extend keeps the types, whichever shape it finds.
LEMMA TryExtendType ==
    ASSUME TypeInv, TryExtendKnown \/ TryExtendAsk \/ LeaveBoring
    PROVE  TypeInv'
<1> USE DEF TypeInv
<1>0. curRec \in NodeRec /\ FailedIf(curRec.all_seen) \in Nat
  BY FailedIfNat DEF TreeTypeOK, NodeRec
<1>1. CASE TryExtendKnown
  <2>1. RestTypeOK'
    BY <1>1 DEF TryExtendKnown, RestTypeOK, heurVars, pathVars, envVars
  <2>2. CASE BadShape
    BY <1>1, <2>1, <2>2, CrashType DEF TryExtendKnown
  <2>3. CASE ~BadShape
    <3>1. PICK b \in BOOLEAN :
            Extend(b, curRec, FailedIf(curRec.all_seen) +
                              FailedIf(curRec.child[~b] = "unsat" /\ KidSeen(b)))
      BY <1>1, <2>3 DEF TryExtendKnown
    <3>2. FailedIf(curRec.child[~b] = "unsat" /\ KidSeen(b)) \in Nat
      BY DEF FailedIf
    <3>3. FailedIf(curRec.all_seen) +
          FailedIf(curRec.child[~b] = "unsat" /\ KidSeen(b)) \in Nat
      BY <1>0, <3>2
    <3>4. pc = "try"
      BY <1>1 DEF TryExtendKnown
    <3>5. TreeTypeOK'
      BY <1>0, <3>1, <3>3, <3>4, ExtendType
    <3> QED
      BY <2>1, <3>5
  <2> QED
    BY <2>2, <2>3
<1>2. CASE TryExtendAsk
  <2>1. PICK F \in SUBSET BOOLEAN, b \in BOOLEAN :
          /\ Consult(F)
          /\ \E a \in Answers(F) :
               CASE BothShape(b) -> TryBoth(a, b)
                 [] BoringShape(b) -> TryOrBoring(a, b)
                 [] CheckShape(b) -> KnownCheck(a, b)
          /\ BothShape(b) \/ BoringShape(b) \/ CheckShape(b)
    BY <1>2 DEF TryExtendAsk
  <2>2. PICK a \in Answers(F) :
          CASE BothShape(b) -> TryBoth(a, b)
            [] BoringShape(b) -> TryOrBoring(a, b)
            [] CheckShape(b) -> KnownCheck(a, b)
    BY <2>1
  <2>3. TryBoth(a, b) \/ TryOrBoring(a, b) \/ KnownCheck(a, b)
    BY <2>1, <2>2
  <2>4. pc = "try"
    BY <1>2 DEF TryExtendAsk
  <2>5. TreeTypeOK'
    BY <2>3, <2>4, TryBothType, TryOrBoringType, KnownCheckType
  <2>6. feas' \in [Nodes -> SUBSET BOOLEAN]
    BY <2>1 DEF Consult, RestTypeOK, TreeTypeOK
  <2>7. todo' \in Seq(MarkOp)
    <3>1. [op |-> "loop", node |-> cur] \in MarkOp
      BY DEF MarkOp, TreeTypeOK
    <3> QED
      BY <1>2, <3>1 DEF TryExtendAsk, RestTypeOK
  <2>8. UNCHANGED <<inq, cur_heur, best_heur, iteration_count, explored, prog>>
    BY <1>2 DEF TryExtendAsk, heurVars, pathVars
  <2>9. RestTypeOK'
    BY <2>6, <2>7, <2>8 DEF RestTypeOK
  <2> QED
    BY <2>5, <2>9
<1>3. CASE LeaveBoring
  <2>1. RestTypeOK'
    BY <1>3 DEF LeaveBoring, RestTypeOK, heurVars, pathVars, envVars
  <2>2. PICK b \in BOOLEAN : Extend(b, curRec, 0)
    BY <1>3 DEF LeaveBoring
  <2>3. pc = "boring"
    BY <1>3 DEF LeaveBoring
  <2>4. TreeTypeOK'
    BY <1>0, <2>2, <2>3, ExtendType
  <2> QED
    BY <2>1, <2>4
<1> QED
  BY <1>1, <1>2, <1>3

\* finish_internal_nodes and the rest of count_query keep the types.
LEMMA CountQueryMarksType ==
    ASSUME TypeInv, FinishInternalNodes \/ CountQueryReturns
    PROVE  TypeInv'
<1> USE DEF TypeInv
<1>1. CASE FinishInternalNodes
  <2> DEFINE I == Internal(store, qry)
             F == [n \in Nodes |-> IF n \in I THEN FillUnknown(store[n]) ELSE store[n]]
             S == [n \in Nodes |-> IF n \in I \ {qry} /\ ~Open(F, qry, n)
                                   THEN [F[n] EXCEPT !.all_seen = TRUE] ELSE F[n]]
  <2>1. /\ store' = S /\ qryRec' = FillUnknown(qryRec)
        /\ todo' = IF Closed(S, qry) THEN <<[op |-> "loop", node |-> qry]>> ELSE << >>
        /\ pc = "internal" /\ pc' = "count"
        /\ UNCHANGED <<cur, curRec, qry, inq, cur_heur, best_heur, iteration_count,
                       explored, prog, feas, weird>>
    BY <1>1 DEF FinishInternalNodes, heurVars, pathVars, envVars
  <2>2. ASSUME NEW n \in Nodes
        PROVE  F[n] \in NodeRec
    BY FillUnknownType DEF TreeTypeOK
  <2>3. S \in [Nodes -> NodeRec]
    <3> HIDE DEF F, I
    <3>1. ASSUME NEW n \in Nodes
          PROVE  [F[n] EXCEPT !.all_seen = TRUE] \in NodeRec
      BY <2>2, AllSeenUpdateType
    <3> QED
      BY <2>2, <3>1
  <2>4. qryRec' \in NodeRec
    BY <2>1, FillUnknownType DEF TreeTypeOK
  <2>5. todo' \in Seq(MarkOp)
    <3>1. [op |-> "loop", node |-> qry] \in MarkOp
      BY DEF MarkOp, TreeTypeOK
    <3> HIDE DEF S
    <3> QED
      BY <2>1, <3>1
  <2> HIDE DEF S
  <2>6. TreeTypeOK'
    BY <2>1, <2>3, <2>4 DEF TreeTypeOK, DepthOK
  <2>7. RestTypeOK'
    BY <2>1, <2>5 DEF RestTypeOK
  <2> QED
    BY <2>6, <2>7
<1>2. CASE CountQueryReturns
  <2>1. TreeTypeOK'
    BY <1>2 DEF CountQueryReturns, TreeTypeOK, DepthOK, treeVars
  <2>2. RestTypeOK'
    BY <1>2 DEF CountQueryReturns, RestTypeOK, heurVars, pathVars, envVars
  <2> QED
    BY <2>1, <2>2
<1> QED
  BY <1>1, <1>2

\* The stack of pending calls stays a sequence of calls when its head is
\* replaced by the calls that follow from it.
LEMMA TodoType ==
    ASSUME todo \in Seq(MarkOp), todo # << >>, NEW up \in Seq(MarkOp)
    PROVE  /\ Head(todo) \in MarkOp
           /\ Tail(todo) \in Seq(MarkOp)
           /\ up \o Tail(todo) \in Seq(MarkOp)
OBVIOUS

\* The calls mark_all_seen_node makes are about nodes.
LEMMA MarkOpType ==
    ASSUME NEW n \in Nodes
    PROVE  LoopOp(n) \in MarkOp /\ QueryOp(n) \in MarkOp
BY DEF LoopOp, QueryOp, MarkOp

\* mark_all_seen_node's loop and query_parent keep the types.
LEMMA MarkActionsType ==
    ASSUME TypeInv, MarkLoop \/ QueryParent \/ MarkQuery
    PROVE  TypeInv'
<1> USE DEF TypeInv
<1>0. /\ todo \in Seq(MarkOp) /\ todo # << >>
      /\ UNCHANGED <<inq, cur_heur, best_heur, iteration_count, explored, prog, feas>>
  BY DEF MarkLoop, QueryParent, MarkQuery, RestTypeOK, heurVars, pathVars, envVars
<1>1. Head(todo).node \in Nodes /\ Tail(todo) \in Seq(MarkOp)
  <2>1. Head(todo) \in MarkOp /\ Tail(todo) \in Seq(MarkOp)
    BY <1>0
  <2> QED
    BY <2>1 DEF MarkOp
<1>2. ASSUME todo' \in Seq(MarkOp)
      PROVE  RestTypeOK'
  BY <1>0, <1>2 DEF RestTypeOK
<1>3. ASSUME Crash, UNCHANGED todo
      PROVE  TreeTypeOK' /\ RestTypeOK'
  BY <1>0, <1>2, <1>3, CrashType
<1>4. CASE MarkLoop
  <2> DEFINE n == Head(todo).node
             r == [MarkObject(n) EXCEPT !.all_seen = TRUE]
             S == [store EXCEPT ![n] = Stored(r)]
             fails == Cardinality({b \in BOOLEAN : /\ r.child[b] = "sat"
                                                   /\ ~store[Kid(n, b)].all_seen})
             up == IF n = Root THEN << >>
                   ELSE IF ~S[Parent(n)].all_seen /\ Closed(S, Parent(n))
                        THEN <<LoopOp(Parent(n)), QueryOp(Parent(n))>>
                        ELSE <<QueryOp(Parent(n))>>
  <2>1. n \in Nodes /\ MarkObject(n) \in NodeRec
    BY <1>1 DEF MarkObject, TreeTypeOK
  <2>2. r \in NodeRec
    BY <2>1, AllSeenUpdateType
  <2>3. S \in [Nodes -> NodeRec]
    BY <2>1, <2>2, StoredType DEF TreeTypeOK
  <2>4. up \in Seq(MarkOp)
    <3>1. ASSUME n # Root
          PROVE  LoopOp(Parent(n)) \in MarkOp /\ QueryOp(Parent(n)) \in MarkOp
      BY <2>1, <3>1, ParentIsNode, MarkOpType
    <3> HIDE DEF n, S
    <3> QED
      BY <3>1
  <2>5. fails \in Nat
    <3>1. {b \in BOOLEAN : r.child[b] = "sat" /\ ~store[Kid(n, b)].all_seen}
            \in SUBSET BOOLEAN
      OBVIOUS
    <3>2. ASSUME NEW B \in SUBSET BOOLEAN
          PROVE  Cardinality(B) \in Nat
      <4>1. IsFiniteSet(BOOLEAN)
        <5>1. IsFiniteSet({TRUE})
          BY FS_Singleton
        <5>2. IsFiniteSet({TRUE} \cup {FALSE})
          BY <5>1, FS_AddElement
        <5>3. BOOLEAN = {TRUE} \cup {FALSE}
          OBVIOUS
        <5> QED
          BY <5>2, <5>3
      <4>2. IsFiniteSet(B)
        BY <4>1, FS_Subset
      <4> QED
        BY <4>2, FS_CardinalityType
    <3> QED
      BY <3>1, <3>2
  <2>6. \/ Crash /\ UNCHANGED todo
        \/ /\ ~TooWeird(fails)
           /\ store' = S
           /\ curRec' = IF n = cur THEN r ELSE curRec
           /\ qryRec' = IF n = qry /\ (n = cur \/ pc = "count") THEN r ELSE qryRec
           /\ todo' = up \o Tail(todo)
           /\ weird' = weird + fails
           /\ UNCHANGED <<cur, qry, pc>>
    BY <1>4 DEF MarkLoop
  <2> HIDE DEF n, r, S, fails, up
  <2>7. CASE Crash /\ UNCHANGED todo
    BY <1>3, <2>7
  <2>8. CASE /\ ~TooWeird(fails)
             /\ store' = S
             /\ curRec' = IF n = cur THEN r ELSE curRec
             /\ qryRec' = IF n = qry /\ (n = cur \/ pc = "count") THEN r ELSE qryRec
             /\ todo' = up \o Tail(todo)
             /\ weird' = weird + fails
             /\ UNCHANGED <<cur, qry, pc>>
    <3>1. todo' \in Seq(MarkOp)
      BY <1>1, <2>4, <2>8
    <3>2. weird' \in 0..1
      BY <2>5, <2>8 DEF TooWeird, TreeTypeOK
    <3>3. curRec' \in NodeRec /\ qryRec' \in NodeRec
      BY <2>2, <2>8 DEF TreeTypeOK
    <3>4. TreeTypeOK'
      BY <2>3, <2>8, <3>2, <3>3 DEF TreeTypeOK, DepthOK
    <3> QED
      BY <1>2, <3>1, <3>4
  <2> QED
    BY <2>6, <2>7, <2>8
<1>5. CASE QueryParent
  <2>1. CASE Head(todo).node = Root
    BY <1>3, <1>5, <2>1 DEF QueryParent
  <2>2. CASE Head(todo).node # Root
    <3>1. /\ todo' = <<QueryOp(Parent(Head(todo).node))>> \o Tail(todo)
          /\ UNCHANGED <<treeVars, pc, weird>>
      BY <1>5, <2>2 DEF QueryParent
    <3>2. QueryOp(Parent(Head(todo).node)) \in MarkOp
      BY <1>1, <2>2, ParentIsNode, MarkOpType
    <3>3. todo' \in Seq(MarkOp)
      BY <1>1, <3>1, <3>2
    <3>4. TreeTypeOK'
      BY <3>1 DEF TreeTypeOK, DepthOK, treeVars
    <3> QED
      BY <1>2, <3>3, <3>4
  <2> QED
    BY <2>1, <2>2
<1>6. CASE MarkQuery
  <2> DEFINE q == Head(todo).node
             fails == FailedIf(store[q].query_children > QueryBranchLimit)
  <2>1. CASE ~Limited(store[q])
    <3>1. todo' = Tail(todo) /\ UNCHANGED <<treeVars, pc, weird>>
      BY <1>6, <2>1 DEF MarkQuery
    <3>2. TreeTypeOK'
      BY <3>1 DEF TreeTypeOK, DepthOK, treeVars
    <3> QED
      BY <1>1, <1>2, <3>1, <3>2
  <2>2. CASE Limited(store[q]) /\ TooWeird(fails)
    BY <1>3, <1>6, <2>2 DEF MarkQuery
  <2>3. CASE Limited(store[q]) /\ ~TooWeird(fails)
    <3>1. /\ store' = InternalNodesCheck(store, q)
          /\ todo' = (IF Open(store, q, q) THEN << >> ELSE <<LoopOp(q)>>) \o Tail(todo)
          /\ weird' = weird + fails
          /\ UNCHANGED <<cur, curRec, qry, qryRec, pc>>
      BY <1>6, <2>3 DEF MarkQuery
    <3>2. todo' \in Seq(MarkOp)
      <4> DEFINE up == IF Open(store, q, q) THEN << >> ELSE <<LoopOp(q)>>
      <4>1. LoopOp(q) \in MarkOp
        BY <1>1, MarkOpType
      <4>2. up \in Seq(MarkOp)
        BY <4>1
      <4> HIDE DEF up
      <4>3. up \o Tail(todo) \in Seq(MarkOp)
        BY <1>1, <4>2
      <4> QED
        BY <3>1, <4>3 DEF up
    <3>3. fails \in Nat
      BY DEF FailedIf
    <3>4. weird' \in 0..1
      BY <2>3, <3>1, <3>3 DEF TooWeird, TreeTypeOK
    <3>5. store' \in [Nodes -> NodeRec]
      <4>1. ASSUME NEW m \in Nodes
            PROVE  [store[m] EXCEPT !.all_seen = TRUE] \in NodeRec /\ store[m] \in NodeRec
        BY AllSeenUpdateType DEF TreeTypeOK
      <4> QED
        BY <3>1, <4>1 DEF InternalNodesCheck
    <3>6. TreeTypeOK'
      BY <3>1, <3>4, <3>5 DEF TreeTypeOK, DepthOK
    <3> QED
      BY <1>2, <3>2, <3>6
  <2> QED
    BY <2>1, <2>2, <2>3
<1> QED
  BY <1>4, <1>5, <1>6

\* set_heur and propagate_heur keep the types.
LEMMA SetHeurType ==
    ASSUME TypeInv, NEW h \in Nat, SetHeur(h)
    PROVE  /\ store' \in [Nodes -> NodeRec]
           /\ curRec' \in NodeRec /\ qryRec' \in NodeRec
           /\ cur_heur' \in Int /\ best_heur' \in Int
<1> USE DEF TypeInv
<1>1. Widen(curRec, h) \in NodeRec /\ Stored(Widen(curRec, h)) \in NodeRec
  <2>1. Widen(curRec, h) \in NodeRec
    BY WidenType DEF TreeTypeOK
  <2> QED
    BY <2>1, StoredType
<1>2. \A n \in Nodes : store[n] \in NodeRec /\ Widen(store[n], h) \in NodeRec
  BY WidenType DEF TreeTypeOK
<1>3. PropagateHeur(h)
  BY DEF SetHeur
<1>4. store' \in [Nodes -> NodeRec]
  BY <1>1, <1>2, <1>3 DEF PropagateHeur
<1>5. curRec' \in NodeRec /\ qryRec' \in NodeRec
  BY <1>1, <1>3 DEF PropagateHeur, SetCur, TreeTypeOK
<1>6. cur_heur' \in Int /\ best_heur' \in Int
  BY DEF SetHeur, MaxOf, RestTypeOK
<1> QED
  BY <1>4, <1>5, <1>6

\* Scoring, failing, finishing and resetting a path keep the types.
LEMMA LoopActionsType ==
    ASSUME TypeInv,
           ScorePath \/ OtherQueryFails \/ FinishPath \/ Reset \/ LastIteration \/ Terminated
    PROVE  TypeInv'
<1> USE DEF TypeInv
<1>1. CASE ScorePath
  <2>1. PICK h \in Scores : SetHeur(h)
    BY <1>1 DEF ScorePath
  <2>2. h \in Nat
    BY LimitsAssumption
  <2>3. UNCHANGED <<cur, qry, inq, pc, todo, iteration_count, explored, prog, feas, weird>>
    BY <1>1 DEF ScorePath, pathVars, envVars
  <2> QED
    BY <2>1, <2>2, <2>3, SetHeurType DEF TreeTypeOK, RestTypeOK, DepthOK
<1>2. CASE OtherQueryFails
  <2>1. TreeTypeOK'
    BY <1>2 DEF OtherQueryFails, TreeTypeOK, DepthOK, treeVars, Ended
  <2>2. RestTypeOK'
    BY <1>2 DEF OtherQueryFails, RestTypeOK, heurVars, pathVars, envVars
  <2> QED
    BY <2>1, <2>2
<1>3. CASE FinishPath
  <2>1. /\ store' \in [Nodes -> NodeRec]
        /\ curRec' \in NodeRec /\ qryRec' \in NodeRec
        /\ cur_heur' \in Int /\ best_heur' \in Int
    BY <1>3, SetHeurType DEF FinishPath
  <2>2. prog' \in [Nodes -> {"unknown", "inner", "query", "leaf"}]
    BY <1>3, DoesType DEF FinishPath, PathEnds, TreeTypeOK, RestTypeOK
  <2>3. /\ explored' = explored \cup {cur} /\ todo' = <<LoopOp(cur)>> /\ pc' = "mark"
        /\ UNCHANGED <<cur, qry, inq, iteration_count, feas, weird>>
    BY <1>3 DEF FinishPath
  <2>4. cur \in Nodes /\ LoopOp(cur) \in MarkOp
    BY MarkOpType DEF TreeTypeOK
  <2>5. TreeTypeOK'
    BY <2>1, <2>3 DEF TreeTypeOK, DepthOK
  <2>6. todo' \in Seq(MarkOp) /\ explored' \subseteq Nodes
    BY <2>3, <2>4 DEF RestTypeOK
  <2>7. RestTypeOK'
    BY <2>1, <2>2, <2>3, <2>6 DEF RestTypeOK
  <2> QED
    BY <2>5, <2>7
<1>4. CASE Reset
  <2>1. /\ cur' = Root /\ curRec' = store[Root]
        /\ qry' = Root /\ qryRec' = store[Root]
        /\ cur_heur' = -1
        /\ iteration_count' = iteration_count + 1
        /\ pc' = "run"
        /\ UNCHANGED <<store, todo, best_heur, explored, prog, feas, weird>>
    BY <1>4 DEF Reset, envVars
  <2>2. inq' \in BOOLEAN
    BY <1>4 DEF Reset
  <2>3. Root \in Nodes /\ Len(Root) =< PathDepthLimit
    BY RootIsNode, LimitsAssumption DEF Root
  <2>4. TreeTypeOK'
    BY <2>1, <2>3 DEF TreeTypeOK, DepthOK
  <2>5. RestTypeOK'
    BY <2>1, <2>2 DEF RestTypeOK
  <2> QED
    BY <2>4, <2>5
<1>5. CASE LastIteration
  <2>1. TreeTypeOK'
    BY <1>5 DEF LastIteration, TreeTypeOK, DepthOK, treeVars, Ended
  <2>2. RestTypeOK'
    BY <1>5 DEF LastIteration, RestTypeOK, heurVars, pathVars, envVars
  <2> QED
    BY <2>1, <2>2
<1>6. CASE Terminated
  <2>1. TreeTypeOK'
    BY <1>6 DEF Terminated, vars, TreeTypeOK, DepthOK, treeVars
  <2>2. RestTypeOK'
    BY <1>6 DEF Terminated, vars, RestTypeOK, heurVars, pathVars, envVars
  <2> QED
    BY <2>1, <2>2
<1> QED
  BY <1>1, <1>2, <1>3, <1>4, <1>5, <1>6

\* Every step of the exploration keeps the types and the depth limit.
LEMMA NextType == TypeInv /\ [Next]_vars => TypeInv'
<1> SUFFICES ASSUME TypeInv, [Next]_vars PROVE TypeInv'
  OBVIOUS
<1>1. CASE Next
  <2>1. \/ StartNewQuery \/ NextBit \/ CountQuery
        \/ TryExtendKnown \/ TryExtendAsk \/ LeaveBoring
        \/ FinishInternalNodes \/ CountQueryReturns
        \/ MarkLoop \/ QueryParent \/ MarkQuery
        \/ ScorePath \/ OtherQueryFails \/ FinishPath \/ Reset \/ LastIteration \/ Terminated
    BY <1>1 DEF Next
  <2> QED
    BY <2>1, QueryActionsType, TryExtendType, CountQueryMarksType, MarkActionsType,
       LoopActionsType
<1>2. CASE UNCHANGED vars
  <2>1. TreeTypeOK'
    BY <1>2 DEF vars, TypeInv, TreeTypeOK, DepthOK, treeVars
  <2>2. RestTypeOK'
    BY <1>2 DEF vars, TypeInv, RestTypeOK, heurVars, pathVars, envVars
  <2> QED
    BY <2>1, <2>2 DEF TypeInv
<1> QED
  BY <1>1, <1>2

\* Every node record, index and counter of the tree stays within its type, in
\* every mode and for every limit; in particular a second failed g_assert is
\* never survived (weird \in 0..1) and no path outgrows the depth limit.
THEOREM TypeCorrect == Spec => []TypeOK
<1>1. Spec => []TypeInv
  BY InitType, NextType, PTL DEF Spec
<1> QED
  BY <1>1, TypeInvImpliesTypeOK, PTL

-----------------------------------------------------------------------------
(* The score ranges kept in the tree nest.                                 *)

SameHeur(r, s) == r.heur_min = s.heur_min /\ r.heur_max = s.heur_max

\* `cur_query' will still be written back: its record must not be stale.
QueryHeld == \/ inq /\ pc \in {"run", "try", "boring"}
             \/ pc \in {"internal", "count"}

\* The records held in memory agree with the table about the scores.
HeurSync ==
    /\ SameHeur(curRec, store[cur])
    /\ QueryHeld => SameHeur(qryRec, store[qry])

HeurInv == HeurSync /\ HeurRangesNest

\* No score range changes in this step.
HeurFrame == \A n \in Nodes : SameHeur(store'[n], store[n])

-----------------------------------------------------------------------------
(* Histories.                                                              *)

\* A node's parent is the node's history without its last direction.
LEMMA ParentDropsLast ==
    ASSUME NEW n \in Nodes, n # Root
    PROVE  /\ n \in Seq(BOOLEAN) /\ Len(n) \in Nat /\ Len(n) > 0
           /\ Parent(n) \in Seq(BOOLEAN) /\ Len(Parent(n)) = Len(n) - 1
           /\ \A i \in 1..(Len(n) - 1) : Parent(n)[i] = n[i]
<1>1. n \in Seq(BOOLEAN) /\ Len(n) \in Nat /\ Len(n) > 0
  BY NodesAreSequences DEF Root
<1> DEFINE k == Len(n) - 1
<1>2. k \in Nat /\ 1 \in Int /\ \A i \in 1..k : n[i] \in BOOLEAN
  BY <1>1
<1> HIDE DEF k
<1>3. /\ SubSeq(n, 1, k) \in Seq(BOOLEAN)
      /\ Len(SubSeq(n, 1, k)) = IF 1 <= k THEN k - 1 + 1 ELSE 0
      /\ \A i \in 1..(k - 1 + 1) : SubSeq(n, 1, k)[i] = n[1 + i - 1]
  BY <1>2, SubSeqProperties
<1>4. Len(SubSeq(n, 1, k)) = k
  BY <1>2, <1>3
<1>5. \A i \in 1..k : SubSeq(n, 1, k)[i] = n[i]
  BY <1>2, <1>3
<1> QED
  BY <1>1, <1>3, <1>4, <1>5 DEF Parent, k

\* On the way from a node's parent down to `cur', the nodes that are not
\* below the node itself are just the parent.
LEMMA OnlyTheParent ==
    ASSUME NEW n \in Nodes, n # Root, NEW c \in Nodes, NEW a \in Nodes,
           Below(n, c), Below(Parent(n), a), Below(a, c), ~Below(n, a)
    PROVE  a = Parent(n)
<1>1. /\ n \in Seq(BOOLEAN) /\ c \in Seq(BOOLEAN) /\ a \in Seq(BOOLEAN)
      /\ Len(n) > 0
  BY NodesAreSequences, ParentDropsLast
<1>2. /\ Parent(n) \in Seq(BOOLEAN) /\ Len(Parent(n)) = Len(n) - 1
      /\ \A i \in 1..(Len(n) - 1) : Parent(n)[i] = n[i]
  BY ParentDropsLast
<1>3. Len(a) < Len(n)
  BY <1>1 DEF Below
<1>4. Len(a) = Len(Parent(n))
  BY <1>1, <1>2, <1>3 DEF Below
<1>5. \A i \in 1..Len(a) : a[i] = Parent(n)[i]
  BY <1>4 DEF Below
<1> QED
  BY <1>1, <1>2, <1>4, <1>5

\* An ancestor's parent is an ancestor, and shorter than the node it is the
\* parent of.
LEMMA ParentOnPath ==
    ASSUME NEW n \in Nodes, n # Root, NEW c \in Nodes, Below(n, c)
    PROVE  Below(Parent(n), c) /\ Parent(n) # c
<1>1. n \in Seq(BOOLEAN) /\ c \in Seq(BOOLEAN) /\ Len(n) > 0
  BY NodesAreSequences, ParentDropsLast
<1>2. /\ Parent(n) \in Seq(BOOLEAN) /\ Len(Parent(n)) = Len(n) - 1
      /\ \A i \in 1..(Len(n) - 1) : Parent(n)[i] = n[i]
  BY ParentDropsLast
<1> QED
  BY <1>1, <1>2 DEF Below

\* A kid is not its own parent: extend writes the node it leaves and reads the
\* one it enters.
LEMMA KidDiffers ==
    ASSUME NEW n \in Nodes, NEW b \in BOOLEAN
    PROVE  Kid(n, b) # n
<1>1. n \in Seq(BOOLEAN)
  BY NodesAreSequences
<1>2. Len(Kid(n, b)) = Len(n) + 1 /\ Len(n) \in Nat
  BY <1>1 DEF Kid
<1> QED
  BY <1>2

-----------------------------------------------------------------------------
(* Steps that leave the ranges alone.                                      *)

\* A step that changes no score range keeps the ranges nested.
LEMMA FrameKeepsNest ==
    ASSUME TypeInv, HeurRangesNest, HeurFrame
    PROVE  HeurRangesNest'
<1> SUFFICES ASSUME NEW n \in Nodes, n # Root
             PROVE  /\ store'[Parent(n)].heur_min =< store'[n].heur_min
                    /\ store'[Parent(n)].heur_max >= store'[n].heur_max
  BY DEF HeurRangesNest
<1>1. Parent(n) \in Nodes
  BY ParentIsNode
<1> QED
  BY <1>1 DEF HeurRangesNest, HeurFrame, SameHeur

\* A step that changes neither the tree nor the records in memory, and does
\* not take up an old `cur_query' again.
LEMMA TreeUnchangedHeur ==
    ASSUME HeurInv, UNCHANGED treeVars, QueryHeld' => QueryHeld
    PROVE  HeurInv'
BY DEF HeurInv, HeurSync, HeurRangesNest, SameHeur, treeVars

\* A failed assertion ends the exploration.
LEMMA CrashHeur ==
    ASSUME HeurInv, Crash
    PROVE  HeurInv'
<1>1. UNCHANGED treeVars /\ ~QueryHeld'
  BY DEF Crash, QueryHeld
<1> QED
  BY <1>1, TreeUnchangedHeur

\* extend writes back a record whose range is the table's.
LEMMA ExtendHeur ==
    ASSUME TypeInv, HeurInv, pc \in {"try", "boring"}, UNCHANGED inq,
           NEW b \in BOOLEAN, NEW r \in NodeRec, NEW fails, SameHeur(r, curRec),
           Extend(b, r, fails)
    PROVE  HeurInv'
<1> DEFINE k == fails + FailedIf(r.all_seen)
           r2 == [r EXCEPT !.child[b] = "sat"]
<1>1. CASE TooWeird(k) \/ r.child[b] = "unsat"
  BY <1>1, CrashHeur DEF Extend
<1>2. CASE ~(TooWeird(k) \/ r.child[b] = "unsat")
  <2>1. /\ store' = [store EXCEPT ![cur] = Stored(r2)]
        /\ cur' = Kid(cur, b)
        /\ curRec' = store[Kid(cur, b)]
        /\ qryRec' = IF cur = qry THEN r2 ELSE qryRec
        /\ pc' \in {"run", "finish"}
        /\ qry' = qry
    BY <1>2 DEF Extend
  <2>2. r2 \in NodeRec /\ SameHeur(r2, r)
    BY ChildUpdateType DEF ChildStatus, SameHeur
  <2>3. SameHeur(Stored(r2), r2)
    BY <2>2, StoredType DEF SameHeur
  <2> HIDE DEF r2
  <2>4. /\ cur \in Nodes /\ qry \in Nodes /\ store \in [Nodes -> NodeRec]
        /\ Len(cur) =< PathDepthLimit
    BY DEF TypeInv, TreeTypeOK, DepthOK
  <2>5. Kid(cur, b) \in Nodes /\ Kid(cur, b) # cur
    BY <2>4, KidIsNode, KidDiffers
  <2>6. SameHeur(Stored(r2), store[cur]) /\ SameHeur(r2, store[cur])
    BY <2>2, <2>3 DEF SameHeur, HeurInv, HeurSync
  <2>7. HeurFrame
    BY <2>1, <2>4, <2>6 DEF HeurFrame, SameHeur
  <2>8. SameHeur(curRec', store'[cur'])
    BY <2>1, <2>4, <2>5 DEF SameHeur
  <2>9. QueryHeld' => SameHeur(qryRec', store'[qry'])
    <3>1. QueryHeld' => QueryHeld
      BY <2>1 DEF QueryHeld
    <3> QED
      BY <2>1, <2>3, <2>4, <2>6, <3>1 DEF SameHeur, HeurInv, HeurSync
  <2> QED
    BY <2>7, <2>8, <2>9, FrameKeepsNest DEF HeurInv, HeurSync
<1> QED
  BY <1>1, <1>2

\* `cur' is written back with another status of its directions: what a solver
\* failure and try_or_boring do.
LEMMA WriteCurHeur ==
    ASSUME TypeInv, HeurInv, NEW r \in NodeRec, SameHeur(r, curRec),
           store' = [store EXCEPT ![cur] = Stored(r)], SetCur(r),
           UNCHANGED <<cur, qry>>, QueryHeld' => QueryHeld
    PROVE  HeurInv'
<1>1. SameHeur(Stored(r), r)
  BY StoredType DEF SameHeur
<1>2. cur \in Nodes /\ qry \in Nodes /\ store \in [Nodes -> NodeRec]
  BY DEF TypeInv, TreeTypeOK
<1>3. HeurFrame
  BY <1>1, <1>2 DEF HeurFrame, SameHeur, HeurInv, HeurSync
<1>4. SameHeur(curRec', store'[cur'])
  BY <1>1, <1>2 DEF SetCur, SameHeur
<1>5. QueryHeld' => SameHeur(qryRec', store'[qry'])
  BY <1>1, <1>2 DEF SetCur, SameHeur, HeurInv, HeurSync
<1> QED
  BY <1>3, <1>4, <1>5, FrameKeepsNest DEF HeurInv, HeurSync

\* try_extend in all its shapes.
LEMMA TryExtendHeur ==
    ASSUME TypeInv, HeurInv, TryExtendKnown \/ TryExtendAsk \/ LeaveBoring
    PROVE  HeurInv'
<1>0. /\ curRec \in NodeRec /\ SameHeur(curRec, curRec) /\ UNCHANGED inq
      /\ pc \in {"try", "boring"}
  BY DEF TypeInv, TreeTypeOK, SameHeur, TryExtendKnown, TryExtendAsk, LeaveBoring
<1>1. CASE TryExtendKnown
  <2>1. CASE BadShape
    BY <1>1, <2>1, CrashHeur DEF TryExtendKnown
  <2>2. CASE ~BadShape
    BY <1>0, <1>1, <2>2, ExtendHeur DEF TryExtendKnown
  <2> QED
    BY <2>1, <2>2
<1>2. CASE LeaveBoring
  BY <1>0, <1>2, ExtendHeur DEF LeaveBoring
<1>3. CASE TryExtendAsk
  <2>1. PICK F \in SUBSET BOOLEAN, b \in BOOLEAN :
          /\ BothShape(b) \/ BoringShape(b) \/ CheckShape(b)
          /\ \E a \in Answers(F) :
               CASE BothShape(b) -> TryBoth(a, b)
                 [] BoringShape(b) -> TryOrBoring(a, b)
                 [] CheckShape(b) -> KnownCheck(a, b)
    BY <1>3 DEF TryExtendAsk
  <2>2. PICK a \in Answers(F) :
          CASE BothShape(b) -> TryBoth(a, b)
            [] BoringShape(b) -> TryOrBoring(a, b)
            [] CheckShape(b) -> KnownCheck(a, b)
    BY <2>1
  <2>3. pc = "try" /\ (~b) \in BOOLEAN
    BY <1>3 DEF TryExtendAsk
  <2> DEFINE r == RecordUnsat(curRec, b)
             fails == FailedIf(curRec.all_seen)
  <2>4. /\ r \in NodeRec /\ SameHeur(r, curRec)
        /\ RecordUnsat(curRec, ~b) \in NodeRec
        /\ SameHeur(RecordUnsat(curRec, ~b), curRec)
        /\ [curRec EXCEPT !.child[~b] = "sat"] \in NodeRec
        /\ SameHeur([curRec EXCEPT !.child[~b] = "sat"], curRec)
    BY <1>0, <2>3, ChildUpdateType DEF RecordUnsat, ChildStatus, SameHeur
  <2>5. ForgetUnsat(r, b) \in NodeRec /\ SameHeur(ForgetUnsat(r, b), curRec)
    BY <2>4, ChildUpdateType DEF ForgetUnsat, ChildStatus, SameHeur
  <2>6. \/ SolverFailure(curRec)
        \/ SolverFailure(r)
        \/ Crash
        \/ Extend(b, [curRec EXCEPT !.child[~b] = "sat"], 2 * fails)
        \/ Extend(b, RecordUnsat(curRec, ~b), fails)
        \/ Extend(~b, r, fails)
        \/ BothFail(b, r, fails)
        \/ Extend(b, curRec, fails)
        \/ /\ store' = [store EXCEPT ![cur] = Stored(r)]
           /\ SetCur(r) /\ pc' = "boring" /\ UNCHANGED <<cur, qry, weird>>
    <3>1. CASE TryBoth(a, b)
      <4>1. a[b] \in {"sat", "unsat", "fail"} /\ a[~b] \in {"sat", "unsat", "fail"}
        BY <2>3 DEF Answers
      <4> HIDE DEF fails, r
      <4> QED
        BY <3>1, <4>1 DEF TryBoth, Raises, Refused, fails, r
    <3>2. CASE TryOrBoring(a, b)
      <4> HIDE DEF fails, r
      <4> QED
        BY <3>2 DEF TryOrBoring, fails, r
    <3>3. CASE KnownCheck(a, b)
      <4> HIDE DEF fails, r
      <4> QED
        BY <3>3 DEF KnownCheck, fails, r
    <3> QED
      BY <2>1, <2>2, <3>1, <3>2, <3>3
  <2> HIDE DEF r, fails
  <2>7. ASSUME NEW s \in NodeRec, SameHeur(s, curRec), SolverFailure(s)
        PROVE  HeurInv'
    <3>1. /\ store' = [store EXCEPT ![cur] = Stored(s)] /\ SetCur(s)
          /\ UNCHANGED <<cur, qry>> /\ ~QueryHeld'
      BY <2>7 DEF SolverFailure, QueryHeld
    <3> QED
      BY <2>7, <3>1, WriteCurHeur
  <2>8. CASE SolverFailure(curRec) \/ SolverFailure(r)
    BY <1>0, <2>4, <2>7, <2>8
  <2>9. CASE Crash
    BY <2>9, CrashHeur
  <2>10. CASE \/ Extend(b, [curRec EXCEPT !.child[~b] = "sat"], 2 * fails)
              \/ Extend(b, RecordUnsat(curRec, ~b), fails)
              \/ Extend(~b, r, fails)
              \/ Extend(b, curRec, fails)
    BY <1>0, <2>3, <2>4, <2>10, ExtendHeur
  <2>11. CASE BothFail(b, r, fails)
    <3>1. CASE TimeoutAsUnsat /\ Concolic
      BY <1>0, <2>5, <2>11, <3>1, ExtendHeur DEF BothFail
    <3>2. CASE ~(TimeoutAsUnsat /\ Concolic)
      <4>1. UNCHANGED treeVars /\ ~QueryHeld'
        BY <2>11, <3>2 DEF BothFail, QueryHeld
      <4> QED
        BY <4>1, TreeUnchangedHeur
    <3> QED
      BY <3>1, <3>2
  <2>12. CASE /\ store' = [store EXCEPT ![cur] = Stored(r)]
              /\ SetCur(r) /\ pc' = "boring" /\ UNCHANGED <<cur, qry, weird>>
    <3>1. QueryHeld' => QueryHeld
      BY <1>0, <2>3, <2>12 DEF QueryHeld
    <3> QED
      BY <2>4, <2>12, <3>1, WriteCurHeur
  <2> QED
    BY <2>6, <2>8, <2>9, <2>10, <2>11, <2>12
<1> QED
  BY <1>1, <1>2, <1>3

\* start_new_query takes `cur' for `cur_query'; count_query writes both back.
LEMMA QueryActionsHeur ==
    ASSUME TypeInv, HeurInv, StartNewQuery \/ NextBit \/ CountQuery
    PROVE  HeurInv'
<1>1. CASE StartNewQuery
  <2>1. CASE Crash
    BY <2>1, CrashHeur
  <2>2. CASE ~Crash
    <3>1. qry' = cur /\ qryRec' = curRec /\ UNCHANGED <<store, cur, curRec>>
      BY <1>1, <2>2 DEF StartNewQuery
    <3> QED
      BY <3>1 DEF HeurInv, HeurSync, HeurRangesNest, SameHeur
  <2> QED
    BY <2>1, <2>2
<1>2. CASE NextBit
  <2>1. UNCHANGED treeVars /\ (QueryHeld' => QueryHeld)
    BY <1>2 DEF NextBit, QueryHeld
  <2> QED
    BY <2>1, TreeUnchangedHeur
<1>3. CASE CountQuery
  <2> DEFINE k == qryRec.query_children
             newq == IF curRec.query_counted
                     THEN qryRec ELSE [qryRec EXCEPT !.query_children = k + 1]
             newc == [curRec EXCEPT !.query_counted = TRUE,
                                    !.query_children = IF @ = None THEN 0 ELSE @]
  <2>1. CASE Crash
    BY <2>1, CrashHeur
  <2>2. CASE ~Crash
    <3>1. /\ store' = [store EXCEPT
                    ![qry] = IF curRec.query_counted THEN @ ELSE Stored(newq),
                    ![cur] = Stored(newc)]
          /\ qryRec' = newq
          /\ curRec' = newc
          /\ cur # qry /\ pc = "run" /\ inq
          /\ UNCHANGED <<cur, qry>>
      BY <1>3, <2>2 DEF CountQuery
    <3>2. /\ cur \in Nodes /\ qry \in Nodes /\ store \in [Nodes -> NodeRec]
          /\ curRec \in NodeRec /\ qryRec \in NodeRec
      BY DEF TypeInv, TreeTypeOK
    <3>3. SameHeur(qryRec, store[qry]) /\ SameHeur(curRec, store[cur])
      BY <3>1 DEF HeurInv, HeurSync, QueryHeld
    <3>4. SameHeur(newq, qryRec) /\ newq \in NodeRec
      <4>1. k \in Int /\ k + 1 \in Int
        BY <3>2 DEF NodeRec
      <4> HIDE DEF k
      <4> QED
        BY <3>2, <4>1 DEF NodeRec, SameHeur
    <3>5. SameHeur(newc, curRec) /\ newc \in NodeRec
      <4> DEFINE kc == IF curRec.query_children = None THEN 0 ELSE curRec.query_children
      <4>1. kc \in Int
        BY <3>2 DEF NodeRec
      <4>2. newc = [curRec EXCEPT !.query_counted = TRUE, !.query_children = kc]
        BY <3>2 DEF NodeRec
      <4> HIDE DEF kc, newc
      <4>3. [curRec EXCEPT !.query_counted = TRUE, !.query_children = kc] \in NodeRec
        BY <3>2, <4>1 DEF NodeRec
      <4>4. SameHeur([curRec EXCEPT !.query_counted = TRUE, !.query_children = kc], curRec)
        BY <3>2 DEF NodeRec, SameHeur
      <4> QED
        BY <4>2, <4>3, <4>4
    <3>6. SameHeur(Stored(newq), newq) /\ SameHeur(Stored(newc), newc)
      BY <3>4, <3>5, StoredType DEF SameHeur
    <3> HIDE DEF newq, newc
    <3>7. /\ SameHeur(store'[qry], store[qry]) /\ SameHeur(store'[cur], store[cur])
          /\ \A n \in Nodes \ {qry, cur} : store'[n] = store[n]
      BY <3>1, <3>2, <3>3, <3>4, <3>5, <3>6 DEF SameHeur
    <3>8. HeurFrame
      BY <3>7 DEF HeurFrame, SameHeur
    <3>9. SameHeur(curRec', store'[cur']) /\ SameHeur(qryRec', store'[qry'])
      BY <3>1, <3>3, <3>4, <3>5, <3>7 DEF SameHeur
    <3> QED
      BY <3>8, <3>9, FrameKeepsNest DEF HeurInv, HeurSync
  <2> QED
    BY <2>1, <2>2
<1> QED
  BY <1>1, <1>2, <1>3

\* The rest of count_query.
LEMMA CountQueryMarksHeur ==
    ASSUME TypeInv, HeurInv, FinishInternalNodes \/ CountQueryReturns
    PROVE  HeurInv'
<1>1. CASE FinishInternalNodes
  <2> DEFINE I == Internal(store, qry)
             F == [n \in Nodes |-> IF n \in I THEN FillUnknown(store[n]) ELSE store[n]]
             S == [n \in Nodes |-> IF n \in I \ {qry} /\ ~Open(F, qry, n)
                                   THEN [F[n] EXCEPT !.all_seen = TRUE] ELSE F[n]]
  <2>1. /\ store' = S /\ qryRec' = FillUnknown(qryRec) /\ pc = "internal"
        /\ UNCHANGED <<cur, curRec, qry>>
    BY <1>1 DEF FinishInternalNodes
  <2>2. /\ store \in [Nodes -> NodeRec] /\ qryRec \in NodeRec
        /\ cur \in Nodes /\ qry \in Nodes
    BY DEF TypeInv, TreeTypeOK
  <2>3. ASSUME NEW n \in Nodes
        PROVE  F[n] \in NodeRec /\ SameHeur(F[n], store[n])
    BY <2>2, FillUnknownType DEF SameHeur
  <2>4. ASSUME NEW n \in Nodes
        PROVE  SameHeur(S[n], store[n])
    <3> HIDE DEF F, I
    <3>1. SameHeur([F[n] EXCEPT !.all_seen = TRUE], F[n])
      BY <2>3, AllSeenUpdateType DEF SameHeur
    <3> QED
      BY <2>3, <3>1 DEF SameHeur
  <2> HIDE DEF S
  <2>5. HeurFrame
    BY <2>1, <2>4 DEF HeurFrame
  <2>6. SameHeur(qryRec', qryRec)
    BY <2>1, <2>2, FillUnknownType DEF SameHeur
  <2>7. SameHeur(curRec', store'[cur']) /\ SameHeur(qryRec', store'[qry'])
    BY <2>1, <2>2, <2>5, <2>6 DEF HeurFrame, SameHeur, HeurInv, HeurSync, QueryHeld
  <2> QED
    BY <2>5, <2>7, FrameKeepsNest DEF HeurInv, HeurSync
<1>2. CASE CountQueryReturns
  <2>1. UNCHANGED treeVars /\ (QueryHeld' => QueryHeld)
    BY <1>2 DEF CountQueryReturns, QueryHeld
  <2> QED
    BY <2>1, TreeUnchangedHeur
<1> QED
  BY <1>1, <1>2

\* mark_all_seen_node writes all_seen into records whose scores are current.
LEMMA MarkActionsHeur ==
    ASSUME TypeInv, HeurInv, MarkLoop \/ QueryParent \/ MarkQuery
    PROVE  HeurInv'
<1>0. /\ store \in [Nodes -> NodeRec] /\ curRec \in NodeRec /\ qryRec \in NodeRec
      /\ cur \in Nodes /\ qry \in Nodes /\ UNCHANGED inq
  BY DEF TypeInv, TreeTypeOK, MarkLoop, QueryParent, MarkQuery
<1>1. Head(todo).node \in Nodes
  <2>1. todo \in Seq(MarkOp) /\ todo # << >>
    BY DEF MarkLoop, QueryParent, MarkQuery, TypeInv, RestTypeOK
  <2>2. Head(todo) \in MarkOp
    BY <2>1
  <2> QED
    BY <2>2 DEF MarkOp
<1>2. ASSUME Crash
      PROVE  HeurInv'
  BY <1>2, CrashHeur
<1>3. ASSUME UNCHANGED <<treeVars, pc>>
      PROVE  HeurInv'
  <2>1. QueryHeld' => QueryHeld
    BY <1>0, <1>3 DEF QueryHeld
  <2> QED
    BY <1>3, <2>1, TreeUnchangedHeur
<1>4. CASE MarkLoop
  <2> DEFINE n == Head(todo).node
             r == [MarkObject(n) EXCEPT !.all_seen = TRUE]
  <2>1. \/ Crash
        \/ /\ store' = [store EXCEPT ![n] = Stored(r)]
           /\ curRec' = IF n = cur THEN r ELSE curRec
           /\ qryRec' = IF n = qry /\ (n = cur \/ pc = "count") THEN r ELSE qryRec
           /\ UNCHANGED <<cur, qry, pc>>
    BY <1>4 DEF MarkLoop
  <2>2. MarkObject(n) \in NodeRec /\ SameHeur(MarkObject(n), store[n])
    BY <1>0, <1>1 DEF MarkObject, SameHeur, HeurInv, HeurSync, QueryHeld
  <2>3. r \in NodeRec /\ SameHeur(r, store[n])
    BY <2>2, AllSeenUpdateType DEF SameHeur
  <2>4. SameHeur(Stored(r), r)
    BY <2>3, StoredType DEF SameHeur
  <2> HIDE DEF r
  <2>5. CASE Crash
    BY <1>2, <2>5
  <2>6. CASE /\ store' = [store EXCEPT ![n] = Stored(r)]
             /\ curRec' = IF n = cur THEN r ELSE curRec
             /\ qryRec' = IF n = qry /\ (n = cur \/ pc = "count") THEN r ELSE qryRec
             /\ UNCHANGED <<cur, qry, pc>>
    <3>1. HeurFrame
      BY <1>0, <1>1, <2>3, <2>4, <2>6 DEF HeurFrame, SameHeur
    <3>2. SameHeur(curRec', store'[cur'])
      BY <1>0, <2>3, <2>6, <3>1 DEF HeurFrame, SameHeur, HeurInv, HeurSync
    <3>3. QueryHeld' => QueryHeld
      BY <1>0, <2>6 DEF QueryHeld
    <3>4. QueryHeld' => SameHeur(qryRec', store'[qry'])
      BY <1>0, <2>3, <2>6, <3>1, <3>3 DEF HeurFrame, SameHeur, HeurInv, HeurSync
    <3> QED
      BY <3>1, <3>2, <3>4, FrameKeepsNest DEF HeurInv, HeurSync
  <2> QED
    BY <2>1, <2>5, <2>6
<1>5. CASE QueryParent
  BY <1>2, <1>3, <1>5 DEF QueryParent
<1>6. CASE MarkQuery
  <2> DEFINE q == Head(todo).node
  <2>1. \/ UNCHANGED <<treeVars, pc>>
        \/ Crash
        \/ /\ store' = InternalNodesCheck(store, q)
           /\ UNCHANGED <<cur, curRec, qry, qryRec, pc>>
    BY <1>6 DEF MarkQuery
  <2>2. CASE store' = InternalNodesCheck(store, q) /\ UNCHANGED <<cur, curRec, qry, qryRec, pc>>
    <3>1. ASSUME NEW m \in Nodes
          PROVE  SameHeur(store'[m], store[m])
      <4>1. SameHeur([store[m] EXCEPT !.all_seen = TRUE], store[m])
        BY <1>0, AllSeenUpdateType DEF SameHeur
      <4> QED
        BY <2>2, <4>1 DEF InternalNodesCheck, SameHeur
    <3>2. HeurFrame
      BY <3>1 DEF HeurFrame
    <3>3. QueryHeld' => QueryHeld
      BY <1>0, <2>2 DEF QueryHeld
    <3>4. HeurSync'
      BY <1>0, <2>2, <3>1, <3>3 DEF HeurInv, HeurSync, SameHeur
    <3> QED
      BY <3>2, <3>4, FrameKeepsNest DEF HeurInv
  <2> QED
    BY <1>2, <1>3, <2>1, <2>2
<1> QED
  BY <1>4, <1>5, <1>6

-----------------------------------------------------------------------------
(* The step that changes the ranges.                                       *)

\* propagate_heur keeps the ranges nested: where it stops, the node's range
\* holds the score already.
LEMMA PropagateHeurNests ==
    ASSUME TypeInv, HeurInv, NEW h \in Nat, PropagateHeur(h)
    PROVE  /\ HeurRangesNest'
           /\ SameHeur(curRec', store'[cur])
<1> DEFINE W == Widened(h)
<1>0. /\ store \in [Nodes -> NodeRec] /\ curRec \in NodeRec /\ cur \in Nodes
      /\ SameHeur(curRec, store[cur])
  BY DEF TypeInv, TreeTypeOK, HeurInv, HeurSync
<1>1. ASSUME NEW n \in Nodes
      PROVE  /\ store[n].heur_min \in Int /\ store[n].heur_max \in Int
             /\ n \in W => /\ store'[n].heur_min = MinOf(store[n].heur_min, h)
                           /\ store'[n].heur_max = MaxOf(store[n].heur_max, h)
             /\ n \notin W => SameHeur(store'[n], store[n])
  <2>1. store[n] \in NodeRec
    BY <1>0
  <2>2. store'[n] = IF n \notin W THEN store[n]
                    ELSE IF n = cur THEN Stored(Widen(curRec, h))
                    ELSE Widen(store[n], h)
    BY DEF PropagateHeur
  <2>3. /\ Widen(store[n], h).heur_min = MinOf(store[n].heur_min, h)
        /\ Widen(store[n], h).heur_max = MaxOf(store[n].heur_max, h)
    BY <2>1, WidenType
  <2>4. /\ Widen(curRec, h) \in NodeRec
        /\ Widen(curRec, h).heur_min = MinOf(curRec.heur_min, h)
        /\ Widen(curRec, h).heur_max = MaxOf(curRec.heur_max, h)
    BY <1>0, WidenType
  <2>5. SameHeur(Stored(Widen(curRec, h)), Widen(curRec, h))
    BY <2>4, StoredType DEF SameHeur
  <2>6. store[n].heur_min \in Int /\ store[n].heur_max \in Int
    BY <2>1 DEF NodeRec
  <2> HIDE DEF W
  <2>7. n \in W => /\ store'[n].heur_min = MinOf(store[n].heur_min, h)
                   /\ store'[n].heur_max = MaxOf(store[n].heur_max, h)
    BY <1>0, <2>2, <2>3, <2>4, <2>5 DEF SameHeur
  <2>8. n \notin W => SameHeur(store'[n], store[n])
    BY <2>2 DEF SameHeur
  <2> QED
    BY <2>6, <2>7, <2>8
<1>2. ASSUME NEW n \in Nodes, n # Root, n \in W, Parent(n) \notin W
      PROVE  store[Parent(n)].heur_min =< h /\ h =< store[Parent(n)].heur_max
  <2>1. Parent(n) \in Nodes /\ Below(n, cur)
    BY <1>2, ParentIsNode DEF Widened
  <2>2. Below(Parent(n), cur) /\ Parent(n) # cur
    BY <1>0, <1>2, <2>1, ParentOnPath
  <2>3. PICK a \in Nodes : /\ Below(Parent(n), a) /\ Below(a, cur)
                           /\ InHeurRange(h, IF a = cur THEN curRec ELSE store[a])
    BY <1>2, <2>1, <2>2 DEF Widened
  <2>4. ~Below(n, a)
    BY <1>2, <2>3 DEF Widened
  <2>5. a = Parent(n)
    BY <1>0, <1>2, <2>1, <2>3, <2>4, OnlyTheParent
  <2> QED
    BY <2>2, <2>3, <2>5 DEF InHeurRange
<1> HIDE DEF W
<1>3. ASSUME NEW n \in Nodes, n # Root
      PROVE  /\ store'[Parent(n)].heur_min =< store'[n].heur_min
             /\ store'[Parent(n)].heur_max >= store'[n].heur_max
  <2>1. Parent(n) \in Nodes
    BY <1>3, ParentIsNode
  <2>2. /\ store[Parent(n)].heur_min =< store[n].heur_min
        /\ store[Parent(n)].heur_max >= store[n].heur_max
    BY <1>3 DEF HeurInv, HeurRangesNest
  <2>3. CASE n \notin W
    BY <1>1, <2>1, <2>2, <2>3 DEF SameHeur, MinOf, MaxOf
  <2>4. CASE n \in W /\ Parent(n) \in W
    BY <1>1, <2>1, <2>2, <2>4 DEF MinOf, MaxOf
  <2>5. CASE n \in W /\ Parent(n) \notin W
    BY <1>1, <1>2, <1>3, <2>1, <2>2, <2>5 DEF SameHeur, MinOf, MaxOf
  <2> QED
    BY <2>3, <2>4, <2>5
<1>4. SameHeur(curRec', store'[cur])
  <2>1. curRec' = IF cur \in W THEN Widen(curRec, h) ELSE curRec
    BY DEF PropagateHeur, SetCur, W
  <2>2. /\ Widen(curRec, h).heur_min = MinOf(curRec.heur_min, h)
        /\ Widen(curRec, h).heur_max = MaxOf(curRec.heur_max, h)
    BY <1>0, WidenType
  <2> QED
    BY <1>0, <1>1, <2>1, <2>2 DEF SameHeur
<1> QED
  BY <1>3, <1>4 DEF HeurRangesNest

\* The exploration loop: scores, the end of a path, and the next one.
LEMMA LoopActionsHeur ==
    ASSUME TypeInv, HeurInv,
           ScorePath \/ OtherQueryFails \/ FinishPath \/ Reset \/ LastIteration \/ Terminated
    PROVE  HeurInv'
<1>1. ASSUME NEW h \in Nat, SetHeur(h), UNCHANGED cur, ~QueryHeld'
      PROVE  HeurInv'
  <2>1. HeurRangesNest' /\ SameHeur(curRec', store'[cur])
    BY <1>1, PropagateHeurNests DEF SetHeur
  <2> QED
    BY <1>1, <2>1 DEF HeurInv, HeurSync
<1>2. CASE ScorePath
  <2>1. PICK h \in Scores : SetHeur(h)
    BY <1>2 DEF ScorePath
  <2>2. h \in Nat /\ UNCHANGED cur /\ ~QueryHeld'
    BY <1>2, LimitsAssumption DEF ScorePath, QueryHeld
  <2> QED
    BY <1>1, <2>1, <2>2
<1>3. CASE FinishPath
  <2>1. SetHeur(1) /\ 1 \in Nat /\ UNCHANGED cur /\ ~QueryHeld'
    BY <1>3 DEF FinishPath, QueryHeld
  <2> QED
    BY <1>1, <2>1
<1>4. CASE OtherQueryFails
  <2>1. UNCHANGED treeVars /\ (QueryHeld' => QueryHeld)
    BY <1>4 DEF OtherQueryFails, QueryHeld
  <2> QED
    BY <2>1, TreeUnchangedHeur
<1>5. CASE Reset
  <2>1. /\ cur' = Root /\ curRec' = store[Root] /\ store' = store
        /\ ~QueryHeld'
    BY <1>5 DEF Reset, QueryHeld
  <2> QED
    BY <2>1 DEF HeurInv, HeurSync, HeurRangesNest, SameHeur
<1>6. CASE LastIteration
  <2>1. UNCHANGED treeVars /\ (QueryHeld' => QueryHeld)
    BY <1>6 DEF LastIteration, QueryHeld
  <2> QED
    BY <2>1, TreeUnchangedHeur
<1>7. CASE Terminated
  <2>1. UNCHANGED treeVars /\ (QueryHeld' => QueryHeld)
    BY <1>7 DEF Terminated, vars, QueryHeld
  <2> QED
    BY <2>1, TreeUnchangedHeur
<1> QED
  BY <1>2, <1>3, <1>4, <1>5, <1>6, <1>7

\* Initially no node has a score.
LEMMA InitHeur == Init => HeurInv
<1> SUFFICES ASSUME Init PROVE HeurInv
  OBVIOUS
<1>1. ASSUME NEW n \in Nodes
      PROVE  store[n].heur_min = NoHeurMin /\ store[n].heur_max = -1
  BY DEF Init, FreshNode
<1>2. HeurRangesNest
  <2> SUFFICES ASSUME NEW n \in Nodes, n # Root
               PROVE  /\ store[Parent(n)].heur_min =< store[n].heur_min
                      /\ store[Parent(n)].heur_max >= store[n].heur_max
    BY DEF HeurRangesNest
  <2>1. Parent(n) \in Nodes
    BY ParentIsNode
  <2> QED
    BY <1>1, <2>1 DEF NoHeurMin
<1>3. HeurSync
  BY DEF Init, HeurSync, SameHeur
<1> QED
  BY <1>2, <1>3 DEF HeurInv

\* At every moment, in every mode and for every score, the range a node
\* advertises holds the ranges of its kids, so that propagate_heur may stop at
\* the first ancestor whose range holds the new score.
THEOREM HeurRangesNestAlways == Spec => []HeurRangesNest
<1>1. TypeInv /\ HeurInv /\ [Next]_vars => HeurInv'
  <2> SUFFICES ASSUME TypeInv, HeurInv, [Next]_vars PROVE HeurInv'
    OBVIOUS
  <2>1. CASE Next
    <3>1. \/ StartNewQuery \/ NextBit \/ CountQuery
          \/ TryExtendKnown \/ TryExtendAsk \/ LeaveBoring
          \/ FinishInternalNodes \/ CountQueryReturns
          \/ MarkLoop \/ QueryParent \/ MarkQuery
          \/ ScorePath \/ OtherQueryFails \/ FinishPath \/ Reset \/ LastIteration \/ Terminated
      BY <2>1 DEF Next
    <3> QED
      BY <3>1, QueryActionsHeur, TryExtendHeur, CountQueryMarksHeur, MarkActionsHeur,
         LoopActionsHeur
  <2>2. CASE UNCHANGED vars
    <3>1. UNCHANGED treeVars /\ (QueryHeld' => QueryHeld)
      BY <2>2 DEF vars, QueryHeld
    <3> QED
      BY <3>1, TreeUnchangedHeur
  <2> QED
    BY <2>1, <2>2
<1>2. Spec => [](TypeInv /\ HeurInv)
  BY <1>1, InitType, NextType, InitHeur, PTL DEF Spec
<1>3. HeurInv => HeurRangesNest
  BY DEF HeurInv
<1> QED
  BY <1>2, <1>3, PTL

-----------------------------------------------------------------------------
(* The records in memory agree with the table.  `cur' always agrees;       *)
(* `cur_query' agrees as long as it may still be written, unless           *)
(* try_or_boring has marked its node behind its back, and that path leaves *)
(* an all_seen node, which is a failed g_assert.                           *)

\* Record s holds every fact that record r does.
HoldsAll(r, s) ==
    /\ r.all_seen => s.all_seen
    /\ r.query_counted => s.query_counted
    /\ r.query_children =< s.query_children
    /\ s.heur_min =< r.heur_min
    /\ r.heur_max =< s.heur_max
    /\ \A b \in BOOLEAN : r.child[b] # "unknown" => s.child[b] = r.child[b]

\* What the width of the count demands: no multi-way choice has so many
\* counted kids that one more cannot be written.
Countable == \A n \in Nodes : store[n].query_children < CountModulus - 2

\* A count in the table is read back as it is.
CountsRead ==
    \A n \in Nodes : StoredCount(store[n].query_children) = store[n].query_children

CurAgrees == curRec = store[cur]

\* `cur' is the query node or a node below it.
QueryAbove == cur = qry \/ Len(qry) < Len(cur)

QueryOpen ==
    inq /\ pc \in {"run", "try", "boring"} =>
        QueryAbove /\ (weird = 0 /\ pc # "boring" => qryRec = store[qry])

\* count_query, before finish_internal_nodes and while marks climb from qry.
QueryClosing ==
    pc \in {"internal", "count"} =>
        /\ ~inq /\ IsQuery(curRec) /\ Len(qry) < Len(cur)
        /\ weird = 0 => /\ HoldsAll(store[qry], qryRec)
                        /\ qryRec.query_children = store[qry].query_children
                        /\ pc = "internal" => qryRec = store[qry]

\* The marking starts at qry, respectively cur, and climbs from there.
MarksFromQuery ==
    pc = "count" =>
        /\ \A i \in 1..Len(todo) : Len(todo[i].node) =< Len(qry)
        /\ todo \in {<< >>, <<LoopOp(qry)>>} \/ store[qry].all_seen

MarksFromCur ==
    pc \in {"mark", "boring"} => todo = <<LoopOp(cur)>> \/ store[cur].all_seen

WriteInv ==
    /\ CountsRead /\ CurAgrees
    /\ QueryOpen /\ QueryClosing
    /\ MarksFromQuery /\ MarksFromCur

\* The step loses nothing.
LosesNothing == weird = 0 => \A n \in Nodes : HoldsAll(store[n], store'[n])

-----------------------------------------------------------------------------
(* Records and counts.                                                     *)

\* What has been written and read once is read back as it is.
LEMMA StoredTwice ==
    ASSUME NEW k \in Int
    PROVE  StoredCount(StoredCount(k)) = StoredCount(k)
<1>1. CountModulus \in Nat /\ CountModulus > 1
  BY LimitsAssumption
<1>2. k % CountModulus \in 0..(CountModulus - 1)
  BY <1>1
<1>3. \A j \in 0..(CountModulus - 1) : j % CountModulus = j
  BY <1>1
<1>4. \/ StoredCount(k) = None
      \/ StoredCount(k) = k % CountModulus /\ k % CountModulus # CountModulus - 1
  BY DEF StoredCount
<1> QED  BY <1>1, <1>2, <1>3, <1>4 DEF StoredCount, None

\* A count below 2^16 - 1 survives the encoding.
LEMMA SmallCountStored ==
    ASSUME NEW k \in Int, k >= 0, k < CountModulus - 1
    PROVE  StoredCount(k) = k
<1>1. CountModulus \in Nat /\ CountModulus > 1
  BY LimitsAssumption
<1>2. \A j \in 0..(CountModulus - 1) : j % CountModulus = j
  BY <1>1
<1> QED  BY <1>1, <1>2 DEF StoredCount, None

\* A record whose count survives the encoding survives it as a whole.
LEMMA StoredSame ==
    ASSUME NEW r \in NodeRec, StoredCount(r.query_children) = r.query_children
    PROVE  Stored(r) = r
BY DEF Stored, NodeRec

\* The count of a stored record is read back as it is.
LEMMA StoredReads ==
    ASSUME NEW r \in NodeRec
    PROVE  StoredCount(Stored(r).query_children) = Stored(r).query_children
<1>1. Stored(r).query_children = StoredCount(r.query_children)
  BY DEF Stored, NodeRec
<1>2. r.query_children \in Int
  BY DEF NodeRec
<1> QED  BY <1>1, <1>2, StoredTwice

\* A record holds what it holds itself.
LEMMA HoldsItself ==
    ASSUME NEW r \in NodeRec
    PROVE  HoldsAll(r, r)
BY DEF HoldsAll, NodeRec

\* add_kid and record_unsat settle a direction that is open or was settled
\* the same way.
LEMMA SettledHolds ==
    ASSUME NEW r \in NodeRec, NEW b \in BOOLEAN, NEW c \in ChildStatus,
           r.child[b] \in {"unknown", c}
    PROVE  /\ HoldsAll(r, [r EXCEPT !.child[b] = c])
           /\ [r EXCEPT !.child[b] = c].query_children = r.query_children
           /\ [r EXCEPT !.child[b] = c].all_seen = r.all_seen
           /\ [r EXCEPT !.child[b] = c].child[b] = c
           /\ [r EXCEPT !.child[b] = c].child[~b] = r.child[~b]
BY DEF HoldsAll, NodeRec

\* Facts are kept along two writes.
LEMMA HoldsChain ==
    ASSUME NEW r \in NodeRec, NEW s \in NodeRec, NEW t \in NodeRec,
           HoldsAll(r, s), HoldsAll(s, t)
    PROVE  HoldsAll(r, t)
BY DEF HoldsAll, NodeRec

\* mark adds to a record,
LEMMA MarkHolds ==
    ASSUME NEW r \in NodeRec, NEW s \in NodeRec, HoldsAll(r, s)
    PROVE  /\ HoldsAll(r, [s EXCEPT !.all_seen = TRUE])
           /\ [s EXCEPT !.all_seen = TRUE].query_children = s.query_children
BY DEF HoldsAll, NodeRec

\* finish_internal_nodes does,
LEMMA FillHolds ==
    ASSUME NEW r \in NodeRec, NEW s \in NodeRec, HoldsAll(r, s)
    PROVE  /\ HoldsAll(r, FillUnknown(s))
           /\ FillUnknown(s).query_children = s.query_children
BY DEF HoldsAll, NodeRec, FillUnknown

\* and so does propagate_heur.
LEMMA WidenHolds ==
    ASSUME NEW r \in NodeRec, NEW s \in NodeRec, HoldsAll(r, s), NEW h \in Int
    PROVE  /\ HoldsAll(r, Widen(s, h))
           /\ Widen(s, h).query_children = s.query_children
BY DEF HoldsAll, NodeRec, Widen, MinOf, MaxOf

-----------------------------------------------------------------------------
(* Steps.                                                                  *)

\* A step that writes nothing loses nothing.
LEMMA NoWrite ==
    ASSUME TypeInv, UNCHANGED store
    PROVE  LosesNothing
<1>1. \A n \in Nodes : HoldsAll(store[n], store[n])
  BY HoldsItself DEF TypeInv, TreeTypeOK
<1> QED  BY <1>1 DEF LosesNothing

\* A path that ends in an exception or a failed assertion leaves the tree.
LEMMA PathOver ==
    ASSUME TypeInv, WriteInv, UNCHANGED treeVars, pc' \in Ended \cup {"finish"}
    PROVE  WriteInv' /\ LosesNothing
<1>1. UNCHANGED <<store, cur, curRec>>
  BY DEF treeVars
<1>2. CountsRead' /\ CurAgrees' /\ LosesNothing
  BY <1>1, NoWrite DEF WriteInv, CountsRead, CurAgrees
<1>3. QueryOpen' /\ QueryClosing' /\ MarksFromQuery' /\ MarksFromCur'
  BY DEF QueryOpen, QueryClosing, MarksFromQuery, MarksFromCur, Ended
<1> QED  BY <1>2, <1>3 DEF WriteInv

\* `cur' is written back with facts added.
LEMMA WriteCur ==
    ASSUME TypeInv, CountsRead, CurAgrees, NEW r \in NodeRec, HoldsAll(curRec, r),
           r.query_children = curRec.query_children,
           store' = [store EXCEPT ![cur] = Stored(r)]
    PROVE  /\ Stored(r) = r /\ store'[cur] = r
           /\ \A n \in Nodes \ {cur} : store'[n] = store[n]
           /\ CountsRead' /\ LosesNothing
<1>1. cur \in Nodes /\ store \in [Nodes -> NodeRec]
  BY DEF TypeInv, TreeTypeOK
<1>2. Stored(r) = r
  BY <1>1, StoredSame DEF CountsRead, CurAgrees
<1>3. store'[cur] = r /\ \A n \in Nodes \ {cur} : store'[n] = store[n]
  BY <1>1, <1>2
<1>4. CountsRead'
  BY <1>1, <1>3 DEF CountsRead, CurAgrees
<1>5. \A n \in Nodes : HoldsAll(store[n], store'[n])
  BY <1>1, <1>3, HoldsItself DEF CurAgrees
<1> QED  BY <1>2, <1>3, <1>4, <1>5 DEF LosesNothing

\* A kid is one decision further from the root.
LEMMA KidIsDeeper ==
    ASSUME NEW n \in Nodes, NEW b \in BOOLEAN
    PROVE  Len(n) \in Nat /\ Len(Kid(n, b)) = Len(n) + 1
<1>1. n \in Seq(BOOLEAN)
  BY NodesAreSequences
<1> QED  BY <1>1 DEF Kid

\* extend (with add_kid) writes a record that agrees with the table; from a
\* node that is all_seen it fails an assertion.
LEMMA ExtendWrites ==
    ASSUME TypeInv, WriteInv, pc \in {"try", "boring"}, UNCHANGED inq,
           NEW b \in BOOLEAN, NEW r \in NodeRec, NEW fails \in Nat,
           HoldsAll(curRec, r), r.query_children = curRec.query_children,
           pc = "boring" => r.all_seen, Extend(b, r, fails)
    PROVE  WriteInv' /\ LosesNothing
<1> DEFINE k == fails + FailedIf(r.all_seen)
           r2 == [r EXCEPT !.child[b] = "sat"]
<1>1. CASE TooWeird(k) \/ r.child[b] = "unsat"
  <2>1. UNCHANGED treeVars /\ pc' = "crashed"
    BY <1>1 DEF Extend, Crash
  <2> QED  BY <2>1, PathOver DEF Ended
<1>2. CASE ~(TooWeird(k) \/ r.child[b] = "unsat")
  <2>1. /\ store' = [store EXCEPT ![cur] = Stored(r2)]
        /\ cur' = Kid(cur, b)
        /\ curRec' = store[Kid(cur, b)]
        /\ qryRec' = IF cur = qry THEN r2 ELSE qryRec
        /\ weird' = weird + k
        /\ pc' \in {"run", "finish"}
        /\ qry' = qry
    BY <1>2 DEF Extend
  <2>2. /\ cur \in Nodes /\ qry \in Nodes /\ store \in [Nodes -> NodeRec]
        /\ curRec \in NodeRec /\ Len(cur) =< PathDepthLimit /\ weird \in Nat
    BY DEF TypeInv, TreeTypeOK, DepthOK
  <2>3. r.child[b] \in {"unknown", "sat"} /\ r.all_seen \in BOOLEAN
    BY <1>2 DEF NodeRec, ChildStatus
  <2>4. r2 \in NodeRec /\ HoldsAll(r, r2) /\ r2.query_children = r.query_children
    <3>1. "sat" \in ChildStatus
      BY DEF ChildStatus
    <3> QED  BY <2>3, <3>1, SettledHolds, ChildUpdateType
  <2>5. weird' = 0 => weird = 0 /\ pc = "try"
    BY <2>1, <2>2, <2>3 DEF FailedIf
  <2> HIDE DEF r2, k
  <2>6. HoldsAll(curRec, r2)
    BY <2>2, <2>4, HoldsChain
  <2>7. /\ store'[cur] = r2 /\ \A n \in Nodes \ {cur} : store'[n] = store[n]
        /\ CountsRead' /\ LosesNothing
    BY <2>1, <2>4, <2>6, WriteCur DEF WriteInv
  <2>8. Kid(cur, b) \in Nodes /\ Kid(cur, b) # cur
    BY <2>2, KidIsNode, KidDiffers
  <2>9. CurAgrees'
    BY <2>1, <2>7, <2>8 DEF CurAgrees
  <2>10. QueryOpen'
    <3> SUFFICES ASSUME inq, pc' = "run"
                 PROVE  QueryAbove' /\ (weird' = 0 => qryRec' = store'[qry])
      BY <2>1 DEF QueryOpen
    <3>1. QueryAbove
      BY DEF WriteInv, QueryOpen
    <3>2. Len(qry) < Len(cur')
      BY <2>1, <2>2, <3>1, KidIsDeeper DEF QueryAbove
    <3>3. weird' = 0 => qryRec' = store'[qry]
      BY <2>1, <2>2, <2>5, <2>7 DEF WriteInv, QueryOpen
    <3> QED  BY <2>1, <3>2, <3>3 DEF QueryAbove
  <2>11. QueryClosing' /\ MarksFromQuery' /\ MarksFromCur'
    BY <2>1 DEF QueryClosing, MarksFromQuery, MarksFromCur
  <2> QED  BY <2>7, <2>9, <2>10, <2>11 DEF WriteInv
<1> QED  BY <1>1, <1>2

\* SolverFailure and the first half of try_or_boring.
LEMMA SetCurWrites ==
    ASSUME TypeInv, WriteInv, NEW r \in NodeRec,
           HoldsAll(curRec, r), r.query_children = curRec.query_children,
           store' = [store EXCEPT ![cur] = Stored(r)], SetCur(r),
           UNCHANGED <<cur, qry, weird, inq>>, pc = "try",
           pc' \in {"finish", "stopped", "boring"},
           pc' = "boring" => todo' = <<LoopOp(cur)>>
    PROVE  WriteInv' /\ LosesNothing
<1>1. store'[cur] = r /\ CountsRead' /\ LosesNothing
  BY WriteCur DEF WriteInv
<1>2. CurAgrees'
  BY <1>1 DEF CurAgrees, SetCur
<1>3. QueryOpen'
  BY DEF WriteInv, QueryOpen, QueryAbove
<1>4. QueryClosing' /\ MarksFromQuery' /\ MarksFromCur'
  BY DEF QueryClosing, MarksFromQuery, MarksFromCur
<1> QED  BY <1>1, <1>2, <1>3, <1>4 DEF WriteInv

\* try_extend in all its shapes only settles directions that are open.
LEMMA TryExtendWrites ==
    ASSUME TypeInv, WriteInv, TryExtendKnown \/ TryExtendAsk \/ LeaveBoring
    PROVE  WriteInv' /\ LosesNothing
<1>0. /\ curRec \in NodeRec /\ UNCHANGED inq /\ pc \in {"try", "boring"}
      /\ curRec.all_seen \in BOOLEAN
  BY DEF TypeInv, TreeTypeOK, NodeRec, TryExtendKnown, TryExtendAsk, LeaveBoring
<1>01. HoldsAll(curRec, curRec)
  BY <1>0, HoldsItself
<1>02. ASSUME Crash PROVE WriteInv' /\ LosesNothing
  BY <1>02, PathOver DEF Crash, Ended
<1>03. "sat" \in ChildStatus /\ "unsat" \in ChildStatus
  BY DEF ChildStatus
<1>04. ASSUME NEW c \in BOOLEAN, NEW v \in ChildStatus, curRec.child[c] \in {"unknown", v}
       PROVE  /\ [curRec EXCEPT !.child[c] = v] \in NodeRec
              /\ HoldsAll(curRec, [curRec EXCEPT !.child[c] = v])
              /\ [curRec EXCEPT !.child[c] = v].query_children = curRec.query_children
  BY <1>0, <1>04, SettledHolds, ChildUpdateType
<1>1. CASE TryExtendKnown
  <2>1. CASE BadShape
    BY <1>1, <1>02, <2>1 DEF TryExtendKnown
  <2>2. CASE ~BadShape
    <3>1. PICK b \in BOOLEAN :
            Extend(b, curRec, FailedIf(curRec.all_seen) +
                              FailedIf(curRec.child[~b] = "unsat" /\ KidSeen(b)))
      BY <1>1, <2>2 DEF TryExtendKnown
    <3>2. /\ FailedIf(curRec.all_seen) + FailedIf(curRec.child[~b] = "unsat" /\ KidSeen(b))
               \in Nat
          /\ pc = "try"
      BY <1>1 DEF FailedIf, TryExtendKnown
    <3> QED  BY <1>0, <1>01, <3>1, <3>2, ExtendWrites
  <2> QED  BY <2>1, <2>2
<1>2. CASE LeaveBoring
  <2>1. PICK b \in BOOLEAN : Extend(b, curRec, 0)
    BY <1>2 DEF LeaveBoring
  <2>2. pc = "boring" /\ todo = << >>
    BY <1>2 DEF LeaveBoring
  <2>3. curRec.all_seen
    BY <2>2 DEF WriteInv, MarksFromCur, CurAgrees
  <2> QED  BY <1>0, <1>01, <2>1, <2>3, ExtendWrites
<1>3. CASE TryExtendAsk
  <2>1. PICK F \in SUBSET BOOLEAN, b \in BOOLEAN :
          /\ BothShape(b) \/ BoringShape(b) \/ CheckShape(b)
          /\ \E a \in Answers(F) :
               CASE BothShape(b) -> TryBoth(a, b)
                 [] BoringShape(b) -> TryOrBoring(a, b)
                 [] CheckShape(b) -> KnownCheck(a, b)
    BY <1>3 DEF TryExtendAsk
  <2>2. PICK a \in Answers(F) :
          CASE BothShape(b) -> TryBoth(a, b)
            [] BoringShape(b) -> TryOrBoring(a, b)
            [] CheckShape(b) -> KnownCheck(a, b)
    BY <2>1
  <2>3. pc = "try" /\ (~b) \in BOOLEAN
    BY <1>3 DEF TryExtendAsk
  <2>4. curRec.child[b] \in ChildStatus /\ curRec.child[~b] \in ChildStatus
    BY <1>0, <2>3 DEF NodeRec
  <2> DEFINE r == RecordUnsat(curRec, b)
             fails == FailedIf(curRec.all_seen)
  <2>5. \/ SolverFailure(curRec)
        \/ Crash
        \/ Extend(b, curRec, fails)
        \/ /\ curRec.child[~b] \in {"unknown", "sat"}
           /\ Extend(b, [curRec EXCEPT !.child[~b] = "sat"], 2 * fails)
        \/ /\ curRec.child[~b] = "unknown"
           /\ Extend(b, RecordUnsat(curRec, ~b), fails)
        \/ /\ curRec.child[b] = "unknown"
           /\ \/ SolverFailure(r)
              \/ Extend(~b, r, fails)
              \/ BothFail(b, r, fails)
              \/ /\ store' = [store EXCEPT ![cur] = Stored(r)]
                 /\ SetCur(r) /\ pc' = "boring" /\ UNCHANGED <<cur, qry, weird>>
    <3>1. CASE BothShape(b)
      <4>1. a[b] \in {"sat", "unsat", "fail"} /\ a[~b] \in {"sat", "unsat", "fail"}
        BY <2>3 DEF Answers
      <4>2. /\ curRec.child[b] \in {"unknown", "sat"}
            /\ curRec.child[~b] \in {"unknown", "sat"}
        BY <2>4, <3>1 DEF BothShape
      <4>3. TryBoth(a, b)
        <5>1. ~BoringShape(b) /\ ~CheckShape(b)
          BY <3>1, <4>2 DEF BothShape, BoringShape, CheckShape
        <5> QED  BY <2>2, <3>1, <5>1
      <4> HIDE DEF fails, r
      <4> QED
        BY <4>1, <4>2, <4>3 DEF TryBoth, Raises, Refused, fails, r
    <3>2. CASE ~BothShape(b) /\ BoringShape(b)
      <4>1. ~CheckShape(b)
        BY <3>2 DEF CheckShape, BoringShape, KidSeen
      <4>2. TryOrBoring(a, b)
        BY <2>2, <3>2, <4>1
      <4> HIDE DEF fails, r
      <4> QED
        BY <3>2, <4>2 DEF TryOrBoring, BoringShape, fails, r
    <3>3. CASE ~BothShape(b) /\ ~BoringShape(b) /\ CheckShape(b)
      <4>1. KnownCheck(a, b)
        BY <2>2, <3>3
      <4> HIDE DEF fails, r
      <4> QED
        BY <4>1 DEF KnownCheck, fails, r
    <3> QED  BY <2>1, <3>1, <3>2, <3>3
  <2>6. fails \in Nat /\ 2 * fails \in Nat
    BY DEF FailedIf
  <2>7. ASSUME curRec.child[b] = "unknown"
        PROVE  /\ r \in NodeRec /\ HoldsAll(curRec, r)
               /\ r.query_children = curRec.query_children
    BY <1>03, <1>04, <2>7 DEF RecordUnsat
  <2>8. ASSUME curRec.child[b] = "unknown"
        PROVE  ForgetUnsat(r, b) = curRec
    BY <1>0, <2>8 DEF ForgetUnsat, RecordUnsat, NodeRec
  <2> HIDE DEF r, fails
  <2>9. ASSUME NEW s \in NodeRec, HoldsAll(curRec, s),
               s.query_children = curRec.query_children, SolverFailure(s)
        PROVE  WriteInv' /\ LosesNothing
    <3>1. /\ store' = [store EXCEPT ![cur] = Stored(s)] /\ SetCur(s)
          /\ UNCHANGED <<cur, qry, weird>> /\ pc' \in {"finish", "stopped"}
      BY <2>9 DEF SolverFailure
    <3> QED  BY <1>0, <2>3, <2>9, <3>1, SetCurWrites
  <2>10. CASE SolverFailure(curRec)
    BY <1>0, <1>01, <2>9, <2>10
  <2>11. CASE Crash
    BY <1>02, <2>11
  <2>12. CASE Extend(b, curRec, fails)
    BY <1>0, <1>01, <2>3, <2>6, <2>12, ExtendWrites
  <2>13. CASE /\ curRec.child[~b] \in {"unknown", "sat"}
              /\ Extend(b, [curRec EXCEPT !.child[~b] = "sat"], 2 * fails)
    <3> DEFINE s == [curRec EXCEPT !.child[~b] = "sat"]
    <3>1. /\ s \in NodeRec /\ HoldsAll(curRec, s)
          /\ s.query_children = curRec.query_children
      BY <1>03, <1>04, <2>3, <2>13
    <3> HIDE DEF s
    <3> QED  BY <1>0, <2>3, <2>6, <2>13, <3>1, ExtendWrites DEF s
  <2>14. CASE /\ curRec.child[~b] = "unknown"
              /\ Extend(b, RecordUnsat(curRec, ~b), fails)
    <3> DEFINE s == RecordUnsat(curRec, ~b)
    <3>1. /\ s \in NodeRec /\ HoldsAll(curRec, s)
          /\ s.query_children = curRec.query_children
      BY <1>03, <1>04, <2>3, <2>14 DEF RecordUnsat
    <3> HIDE DEF s
    <3> QED  BY <1>0, <2>3, <2>6, <2>14, <3>1, ExtendWrites DEF s
  <2>15. CASE curRec.child[b] = "unknown" /\ SolverFailure(r)
    BY <2>7, <2>9, <2>15
  <2>16. CASE curRec.child[b] = "unknown" /\ Extend(~b, r, fails)
    BY <1>0, <2>3, <2>6, <2>7, <2>16, ExtendWrites
  <2>17. CASE curRec.child[b] = "unknown" /\ BothFail(b, r, fails)
    <3>1. CASE TimeoutAsUnsat /\ Concolic
      BY <1>0, <1>01, <2>3, <2>6, <2>8, <2>17, <3>1, ExtendWrites DEF BothFail
    <3>2. CASE ~(TimeoutAsUnsat /\ Concolic)
      BY <2>17, <3>2, PathOver DEF BothFail, Ended
    <3> QED  BY <3>1, <3>2
  <2>18. CASE /\ curRec.child[b] = "unknown"
              /\ store' = [store EXCEPT ![cur] = Stored(r)]
              /\ SetCur(r) /\ pc' = "boring" /\ UNCHANGED <<cur, qry, weird>>
    <3>1. todo' = <<LoopOp(cur)>>
      BY <1>3, <2>18 DEF TryExtendAsk, LoopOp
    <3> QED  BY <1>0, <2>3, <2>7, <2>18, <3>1, SetCurWrites
  <2> QED
    BY <2>5, <2>10, <2>11, <2>12, <2>13, <2>14, <2>15, <2>16, <2>17, <2>18
<1> QED  BY <1>1, <1>2, <1>3

\* start_new_query takes `cur', which agrees with the table, for `cur_query'.
LEMMA StartQueryWrites ==
    ASSUME TypeInv, WriteInv, StartNewQuery \/ NextBit
    PROVE  WriteInv' /\ LosesNothing
<1>1. ASSUME Crash PROVE WriteInv' /\ LosesNothing
  BY <1>1, PathOver DEF Crash, Ended
<1>2. ASSUME UNCHANGED <<store, cur, curRec>>, pc' = "try", QueryAbove',
             weird' = 0 => qryRec' = store[qry']
      PROVE  WriteInv' /\ LosesNothing
  <2>1. CountsRead' /\ CurAgrees' /\ LosesNothing
    BY <1>2, NoWrite DEF WriteInv, CountsRead, CurAgrees
  <2>2. QueryOpen'
    BY <1>2 DEF QueryOpen
  <2>3. QueryClosing' /\ MarksFromQuery' /\ MarksFromCur'
    BY <1>2 DEF QueryClosing, MarksFromQuery, MarksFromCur
  <2> QED  BY <2>1, <2>2, <2>3 DEF WriteInv
<1>3. CASE StartNewQuery
  <2> DEFINE k == FailedIf(~IsQuery(curRec))
  <2>1. CASE TooWeird(k)
    BY <1>1, <1>3, <2>1 DEF StartNewQuery
  <2>2. CASE ~TooWeird(k)
    BY <1>2, <1>3, <2>2 DEF StartNewQuery, QueryAbove, WriteInv, CurAgrees
  <2> QED  BY <2>1, <2>2
<1>4. CASE NextBit
  BY <1>2, <1>4 DEF NextBit, treeVars, QueryAbove, WriteInv, QueryOpen
<1> QED  BY <1>3, <1>4

\* count_query writes `cur_query' and `cur' back: while no assertion has
\* failed both agree with the table, and the count has room for one more.
LEMMA CountQueryWrites ==
    ASSUME TypeInv, WriteInv, Countable, CountQuery
    PROVE  WriteInv' /\ LosesNothing
<1> DEFINE k     == qryRec.query_children
           fails == FailedIf(~curRec.query_counted /\ k >= QueryBranchLimit)
           newq  == IF curRec.query_counted
                    THEN qryRec ELSE [qryRec EXCEPT !.query_children = k + 1]
           newc  == [curRec EXCEPT !.query_counted = TRUE,
                                   !.query_children = IF @ = None THEN 0 ELSE @]
<1>1. /\ cur \in Nodes /\ qry \in Nodes /\ store \in [Nodes -> NodeRec]
      /\ curRec \in NodeRec /\ qryRec \in NodeRec /\ weird \in Nat
  BY DEF TypeInv, TreeTypeOK
<1>2. pc = "run" /\ inq /\ cur # qry
  BY DEF CountQuery
<1>3. CASE TooWeird(fails) \/ k = None
  <2>1. Crash
    BY <1>3 DEF CountQuery
  <2> QED  BY <2>1, PathOver DEF Crash, Ended
<1>4. CASE ~(TooWeird(fails) \/ k = None)
  <2>1. /\ store' = [store EXCEPT
              ![qry] = IF curRec.query_counted THEN @ ELSE Stored(newq),
              ![cur] = Stored(newc)]
        /\ qryRec' = newq
        /\ curRec' = newc
        /\ weird' = weird + fails
        /\ pc' \in {"internal", "run"}
        /\ inq' = FALSE
        /\ UNCHANGED <<cur, qry>>
    BY <1>4 DEF CountQuery
  <2>2. fails \in Nat /\ k \in Int /\ k # None
    BY <1>1, <1>4 DEF FailedIf, NodeRec
  <2>3. newc \in NodeRec /\ HoldsAll(curRec, newc) /\ IsQuery(newc)
        /\ StoredCount(newc.query_children) = newc.query_children
    <3>1. newc \in NodeRec /\ IsQuery(newc)
      <4>1. ASSUME NEW c \in Int, c # None
            PROVE  LET s == [curRec EXCEPT !.query_counted = TRUE, !.query_children = c]
                   IN s \in NodeRec /\ IsQuery(s)
        BY <1>1, <4>1 DEF NodeRec, IsQuery
      <4>2. curRec.query_children \in Int
        BY <1>1 DEF NodeRec
      <4>3. (IF curRec.query_children = None THEN 0 ELSE curRec.query_children)
              \in Int \ {None}
        BY <4>2 DEF None
      <4> QED  BY <4>1, <4>3
    <3>2. StoredCount(curRec.query_children) = curRec.query_children
      BY <1>1 DEF WriteInv, CountsRead, CurAgrees
    <3>3. StoredCount(0) = 0
      BY SmallCountStored, LimitsAssumption
    <3>4. newc.query_children \in {0, curRec.query_children}
      BY <1>1 DEF NodeRec
    <3>5. curRec.query_children =< newc.query_children
      BY <1>1 DEF NodeRec, None
    <3>6. HoldsAll(curRec, newc)
      BY <1>1, <3>5 DEF HoldsAll, NodeRec
    <3> QED  BY <3>1, <3>2, <3>3, <3>4, <3>6
  <2>4. newq \in NodeRec
    BY <1>1, <2>2 DEF NodeRec
  <2>5. ASSUME weird = 0
        PROVE  HoldsAll(store[qry], newq) /\ Stored(newq) = newq
    <3>1. qryRec = store[qry]
      BY <1>2, <2>5 DEF WriteInv, QueryOpen
    <3>2. CASE curRec.query_counted
      <4>1. newq = store[qry]
        BY <3>1, <3>2
      <4> HIDE DEF newq
      <4> QED  BY <1>1, <4>1, HoldsItself, StoredSame DEF WriteInv, CountsRead
    <3>3. CASE ~curRec.query_counted
      <4>1. k >= 0
        <5>1. StoredCount(k) = k
          BY <1>1, <3>1 DEF WriteInv, CountsRead
        <5>2. CountModulus \in Nat \ {0}
          BY LimitsAssumption
        <5>3. k % CountModulus >= 0
          BY <2>2, <5>2
        <5> QED  BY <2>2, <5>1, <5>3 DEF StoredCount
      <4>2. k + 1 < CountModulus - 1
        BY <1>1, <2>2, <3>1, LimitsAssumption DEF Countable
      <4>3. StoredCount(k + 1) = k + 1
        BY <2>2, <4>1, <4>2, SmallCountStored
      <4>4. newq.query_children = k + 1 /\ HoldsAll(qryRec, newq)
        BY <1>1, <2>2, <3>3 DEF HoldsAll, NodeRec
      <4> HIDE DEF newq, k
      <4> QED  BY <2>4, <3>1, <4>3, <4>4, StoredSame
    <3> QED  BY <3>2, <3>3
  <2>6. Stored(newc) = newc
    BY <2>3, StoredSame
  <2> HIDE DEF newq, newc, fails, k
  <2>7. /\ store'[cur] = newc
        /\ store'[qry] = IF curRec.query_counted THEN store[qry] ELSE Stored(newq)
        /\ \A n \in Nodes \ {cur, qry} : store'[n] = store[n]
    BY <1>1, <1>2, <2>1, <2>6
  <2>8. CountsRead'
    BY <1>1, <2>3, <2>4, <2>7, StoredReads DEF WriteInv, CountsRead
  <2>9. CurAgrees'
    BY <2>1, <2>7 DEF CurAgrees
  <2>10. ASSUME weird = 0
         PROVE  store'[qry] = newq
    BY <1>2, <2>5, <2>7, <2>10 DEF WriteInv, QueryOpen, newq
  <2>11. LosesNothing
    <3> SUFFICES ASSUME weird = 0, NEW n \in Nodes
                 PROVE  HoldsAll(store[n], store'[n])
      BY DEF LosesNothing
    <3>1. CASE n = cur
      BY <2>3, <2>7, <3>1 DEF WriteInv, CurAgrees
    <3>2. CASE n = qry
      BY <2>5, <2>10, <3>2
    <3>3. CASE n \notin {cur, qry}
      BY <1>1, <2>7, <3>3, HoldsItself
    <3> QED  BY <3>1, <3>2, <3>3
  <2>12. QueryOpen' /\ MarksFromQuery' /\ MarksFromCur'
    BY <2>1 DEF QueryOpen, MarksFromQuery, MarksFromCur
  <2>13. QueryClosing'
    <3>1. ~inq' /\ IsQuery(curRec') /\ Len(qry') < Len(cur')
      BY <1>2, <2>1, <2>3 DEF WriteInv, QueryOpen, QueryAbove
    <3>2. weird' = 0 => weird = 0
      BY <1>1, <2>1, <2>2
    <3>3. weird' = 0 => qryRec' = store'[qry'] /\ qryRec' \in NodeRec
      BY <2>1, <2>4, <2>10, <3>2
    <3> QED  BY <3>1, <3>3, HoldsItself DEF QueryClosing
  <2> QED  BY <2>8, <2>9, <2>11, <2>12, <2>13 DEF WriteInv
<1> QED  BY <1>3, <1>4

\* finish_internal_nodes closes and marks nodes of cur_query's choice.  `cur'
\* has just become a query node, so it is not one of them.
LEMMA FinishInternalWrites ==
    ASSUME TypeInv, WriteInv, FinishInternalNodes
    PROVE  WriteInv' /\ LosesNothing
<1> DEFINE I == Internal(store, qry)
           F == [n \in Nodes |-> IF n \in I THEN FillUnknown(store[n]) ELSE store[n]]
           S == [n \in Nodes |-> IF n \in I \ {qry} /\ ~Open(F, qry, n)
                                 THEN [F[n] EXCEPT !.all_seen = TRUE] ELSE F[n]]
<1>1. /\ cur \in Nodes /\ qry \in Nodes /\ store \in [Nodes -> NodeRec]
      /\ curRec \in NodeRec /\ qryRec \in NodeRec
  BY DEF TypeInv, TreeTypeOK
<1>2. /\ pc = "internal" /\ pc' = "count" /\ store' = S
      /\ qryRec' = FillUnknown(qryRec)
      /\ todo' \in {<< >>, <<LoopOp(qry)>>}
      /\ UNCHANGED <<cur, curRec, qry, inq, weird>>
  BY DEF FinishInternalNodes, LoopOp
<1>3. cur \notin I
  <2>1. IsQuery(store[cur]) /\ cur # qry
    BY <1>2 DEF WriteInv, QueryClosing, CurAgrees
  <2> QED  BY <2>1 DEF Internal
<1>4. ASSUME NEW n \in Nodes
      PROVE  /\ F[n] \in NodeRec /\ HoldsAll(store[n], F[n])
             /\ F[n].query_children = store[n].query_children
  <2>1. F[n] \in {store[n], FillUnknown(store[n])}
    OBVIOUS
  <2> HIDE DEF F
  <2>2. store[n] \in NodeRec /\ HoldsAll(store[n], store[n])
    BY <1>1, HoldsItself
  <2> QED  BY <2>1, <2>2, FillHolds, FillUnknownType
<1>5. ASSUME NEW n \in Nodes
      PROVE  /\ HoldsAll(store[n], store'[n])
             /\ store'[n].query_children = store[n].query_children
  <2>1. store'[n] \in {F[n], [F[n] EXCEPT !.all_seen = TRUE]}
    BY <1>2
  <2> HIDE DEF F
  <2>2. store[n] \in NodeRec
    BY <1>1
  <2> QED  BY <1>4, <2>1, <2>2, MarkHolds
<1>6. store'[cur] = store[cur]
  BY <1>1, <1>2, <1>3
<1>7. store'[qry] \in {store[qry], FillUnknown(store[qry])}
  BY <1>1, <1>2
<1> HIDE DEF S, F, I
<1>8. CountsRead'
  BY <1>5 DEF WriteInv, CountsRead
<1>9. CurAgrees'
  BY <1>2, <1>6 DEF WriteInv, CurAgrees
<1>10. QueryClosing'
  <2>1. ~inq' /\ IsQuery(curRec') /\ Len(qry') < Len(cur')
    BY <1>2 DEF WriteInv, QueryClosing
  <2>2. ASSUME weird = 0
        PROVE  /\ HoldsAll(store'[qry], FillUnknown(qryRec))
               /\ FillUnknown(qryRec).query_children = store'[qry].query_children
    <3>1. qryRec = store[qry] /\ FillUnknown(qryRec) \in NodeRec
      BY <1>1, <1>2, <2>2, FillUnknownType DEF WriteInv, QueryClosing
    <3> QED  BY <1>1, <1>7, <3>1, HoldsItself, FillHolds
  <2> QED  BY <1>2, <2>1, <2>2 DEF QueryClosing
<1>11. MarksFromQuery'
  <2>1. Len(qry) \in Nat
    BY <1>1, NodesAreSequences
  <2>2. \A i \in 1..Len(todo') : todo'[i] = LoopOp(qry)
    BY <1>2
  <2>3. LoopOp(qry).node = qry
    BY DEF LoopOp
  <2> QED  BY <1>2, <2>1, <2>2, <2>3 DEF MarksFromQuery, LoopOp
<1>12. QueryOpen' /\ MarksFromCur'
  BY <1>2 DEF QueryOpen, MarksFromCur
<1> QED  BY <1>5, <1>8, <1>9, <1>10, <1>11, <1>12 DEF WriteInv, LosesNothing

\* count_query is over: cur_query will not be written before it is replaced.
LEMMA CountReturnsWrites ==
    ASSUME TypeInv, WriteInv, CountQueryReturns
    PROVE  WriteInv' /\ LosesNothing
<1>1. UNCHANGED <<store, cur, curRec>> /\ pc' = "run" /\ ~inq'
  BY DEF CountQueryReturns, treeVars, WriteInv, QueryClosing
<1>2. CountsRead' /\ CurAgrees' /\ LosesNothing
  BY <1>1, NoWrite DEF WriteInv, CountsRead, CurAgrees
<1>3. QueryOpen' /\ QueryClosing' /\ MarksFromQuery' /\ MarksFromCur'
  BY <1>1 DEF QueryOpen, QueryClosing, MarksFromQuery, MarksFromCur
<1> QED  BY <1>2, <1>3 DEF WriteInv

-----------------------------------------------------------------------------
(* Marking.                                                                *)

\* The pending calls stay at or above a depth when the calls that replace the
\* first one do.
LEMMA TodoClimbs ==
    ASSUME todo \in Seq(MarkOp), todo # << >>, NEW up \in Seq(MarkOp), NEW L \in Nat,
           \A i \in 1..Len(up) : Len(up[i].node) =< L,
           \A i \in 1..Len(todo) : Len(todo[i].node) =< L
    PROVE  \A i \in 1..Len(up \o Tail(todo)) : Len((up \o Tail(todo))[i].node) =< L
<1>1. /\ Tail(todo) \in Seq(MarkOp) /\ Len(Tail(todo)) = Len(todo) - 1
      /\ \A i \in 1..Len(Tail(todo)) : Tail(todo)[i] = todo[i + 1]
  OBVIOUS
<1>2. \A i \in 1..Len(Tail(todo)) : Len(Tail(todo)[i].node) =< L
  <2> TAKE i \in 1..Len(Tail(todo))
  <2>1. i + 1 \in 1..Len(todo)
    BY <1>1
  <2> QED  BY <1>1, <2>1
<1> DEFINE t == Tail(todo)
<1> HIDE DEF t
<1>3. t \in Seq(MarkOp) /\ \A i \in 1..Len(t) : Len(t[i].node) =< L
  BY <1>1, <1>2 DEF t
<1>4. \A i \in 1..Len(up \o t) : Len((up \o t)[i].node) =< L
  <2> TAKE i \in 1..Len(up \o t)
  <2>1. (up \o t)[i] = IF i =< Len(up) THEN up[i] ELSE t[i - Len(up)]
    BY <1>3
  <2>2. i \in 1..(Len(up) + Len(t))
    BY <1>3
  <2>3. CASE i =< Len(up)
    BY <2>1, <2>2, <2>3
  <2>4. CASE i > Len(up)
    <3>1. i - Len(up) \in 1..Len(t)
      BY <1>3, <2>2, <2>4
    <3>2. (up \o t)[i] = t[i - Len(up)]
      BY <2>1, <2>2, <2>4
    <3> QED  BY <1>3, <3>1, <3>2
  <2> QED  BY <2>2, <2>3, <2>4
<1> QED  BY <1>4 DEF t

\* mark updates a record that agrees with the table: `cur', `cur_query' at the
\* end of count_query, or a fresh copy.
LEMMA MarkLoopWrites ==
    ASSUME TypeInv, WriteInv, MarkLoop
    PROVE  WriteInv' /\ LosesNothing
<1> DEFINE n == Head(todo).node
           r == [MarkObject(n) EXCEPT !.all_seen = TRUE]
           S == [store EXCEPT ![n] = Stored(r)]
           fails == Cardinality({b \in BOOLEAN : /\ r.child[b] = "sat"
                                                 /\ ~store[Kid(n, b)].all_seen})
           up == IF n = Root THEN << >>
                 ELSE IF ~S[Parent(n)].all_seen /\ Closed(S, Parent(n))
                      THEN <<LoopOp(Parent(n)), QueryOp(Parent(n))>>
                      ELSE <<QueryOp(Parent(n))>>
<1>1. /\ cur \in Nodes /\ qry \in Nodes /\ store \in [Nodes -> NodeRec]
      /\ curRec \in NodeRec /\ qryRec \in NodeRec /\ weird \in Nat
  BY DEF TypeInv, TreeTypeOK
<1>2. /\ pc \in {"mark", "count", "boring"} /\ Head(todo).op = "loop"
      /\ todo \in Seq(MarkOp) /\ todo # << >>
  BY DEF MarkLoop, TypeInv, RestTypeOK
<1>3. n \in Nodes /\ Head(todo) = LoopOp(n) /\ Head(todo) = todo[1] /\ 1 \in 1..Len(todo)
  <2>1. Head(todo) \in MarkOp /\ Head(todo) = todo[1] /\ 1 \in 1..Len(todo)
    BY <1>2
  <2> QED  BY <1>2, <2>1 DEF MarkOp, LoopOp
<1>4. \/ Crash
      \/ /\ store' = S
         /\ curRec' = IF n = cur THEN r ELSE curRec
         /\ qryRec' = IF n = qry /\ (n = cur \/ pc = "count") THEN r ELSE qryRec
         /\ todo' = up \o Tail(todo)
         /\ weird' = weird + fails
         /\ UNCHANGED <<cur, qry, pc, inq>>
  BY DEF MarkLoop
<1>5. CASE Crash
  BY <1>5, PathOver DEF Crash, Ended
<1>6. CASE /\ store' = S
           /\ curRec' = IF n = cur THEN r ELSE curRec
           /\ qryRec' = IF n = qry /\ (n = cur \/ pc = "count") THEN r ELSE qryRec
           /\ todo' = up \o Tail(todo)
           /\ weird' = weird + fails
           /\ UNCHANGED <<cur, qry, pc, inq>>
  <2>1. MarkObject(n) \in NodeRec /\ r \in NodeRec
    BY <1>1, <1>3, AllSeenUpdateType DEF MarkObject
  <2>2. r.all_seen /\ Stored(r) \in NodeRec /\ Stored(r).all_seen
    <3>1. r.all_seen
      BY <2>1 DEF NodeRec
    <3> QED  BY <2>1, <3>1, StoredType
  <2>3. weird' = 0 => weird = 0
    <3>1. fails \in Nat
      <4>1. IsFiniteSet(BOOLEAN)
        <5>1. IsFiniteSet({TRUE})
          BY FS_Singleton
        <5>2. IsFiniteSet({TRUE} \cup {FALSE})
          BY <5>1, FS_AddElement
        <5>3. BOOLEAN = {TRUE} \cup {FALSE}
          OBVIOUS
        <5> QED  BY <5>2, <5>3
      <4>2. \A B \in SUBSET BOOLEAN : Cardinality(B) \in Nat
        BY <4>1, FS_Subset, FS_CardinalityType
      <4> QED  BY <4>2
    <3>2. weird' = weird + fails
      BY <1>6
    <3> HIDE DEF fails, n, r, S, up
    <3> QED  BY <1>1, <3>1, <3>2
  <2>4. pc = "count" => n # cur
    <3>1. pc = "count" => Len(n) =< Len(qry) /\ Len(qry) < Len(cur)
      BY <1>3 DEF WriteInv, MarksFromQuery, QueryClosing
    <3>2. Len(n) \in Nat /\ Len(qry) \in Nat
      BY <1>1, <1>3, NodesAreSequences
    <3> QED  BY <3>1, <3>2
  <2>5. ASSUME weird = 0 \/ n = cur \/ ~(n = qry /\ pc = "count")
        PROVE  /\ HoldsAll(store[n], r)
               /\ r.query_children = store[n].query_children
               /\ Stored(r) = r
    <3>1. /\ HoldsAll(store[n], MarkObject(n))
          /\ MarkObject(n).query_children = store[n].query_children
      <4>1. store[n] \in NodeRec /\ HoldsAll(store[n], store[n])
        BY <1>1, <1>3, HoldsItself
      <4>2. CASE n = cur
        BY <4>1, <4>2 DEF MarkObject, WriteInv, CurAgrees
      <4>3. CASE n # cur /\ n = qry /\ pc = "count"
        BY <2>5, <4>3 DEF MarkObject, WriteInv, QueryClosing
      <4>4. CASE n # cur /\ ~(n = qry /\ pc = "count")
        BY <4>1, <4>4 DEF MarkObject
      <4> QED  BY <4>2, <4>3, <4>4
    <3>2. HoldsAll(store[n], r) /\ r.query_children = store[n].query_children
      BY <1>1, <1>3, <2>1, <3>1, MarkHolds
    <3>3. StoredCount(store[n].query_children) = store[n].query_children
      BY <1>3 DEF WriteInv, CountsRead
    <3> HIDE DEF r
    <3> QED  BY <2>1, <3>2, <3>3, StoredSame
  <2> HIDE DEF n, r
  <2>6. store'[n] = Stored(r) /\ \A m \in Nodes \ {n} : store'[m] = store[m]
    BY <1>1, <1>3, <1>6
  <2>7. CountsRead'
    BY <1>1, <1>3, <2>1, <2>6, StoredReads DEF WriteInv, CountsRead
  <2>8. CurAgrees'
    <3>1. CASE n = cur
      BY <1>6, <2>5, <2>6, <3>1 DEF CurAgrees
    <3>2. CASE n # cur
      BY <1>1, <1>6, <2>6, <3>2 DEF CurAgrees, WriteInv
    <3> QED  BY <3>1, <3>2
  <2>9. LosesNothing
    <3> SUFFICES ASSUME weird = 0, NEW m \in Nodes
                 PROVE  HoldsAll(store[m], store'[m])
      BY DEF LosesNothing
    <3>1. CASE m = n
      BY <2>5, <2>6, <3>1
    <3>2. CASE m # n
      BY <1>1, <2>6, <3>2, HoldsItself
    <3> QED  BY <3>1, <3>2
  <2>10. QueryOpen'
    BY <1>2, <1>6, <2>3 DEF WriteInv, QueryOpen, QueryAbove
  <2>11. QueryClosing'
    <3> SUFFICES ASSUME pc = "count" PROVE QueryClosing'
      BY <1>2, <1>6 DEF QueryClosing
    <3>1. ~inq /\ IsQuery(curRec') /\ Len(qry) < Len(cur)
      BY <1>6, <2>4 DEF WriteInv, QueryClosing
    <3>2. ASSUME weird = 0
          PROVE  /\ HoldsAll(store'[qry], qryRec')
                 /\ qryRec'.query_children = store'[qry].query_children
      <4>1. CASE n = qry
        BY <1>6, <2>1, <2>5, <2>6, <3>2, <4>1, HoldsItself
      <4>2. CASE n # qry
        BY <1>1, <1>6, <2>6, <3>2, <4>2 DEF WriteInv, QueryClosing
      <4> QED  BY <4>1, <4>2
    <3> QED  BY <1>6, <2>3, <3>1, <3>2 DEF QueryClosing
  <2>12. MarksFromQuery'
    <3> SUFFICES ASSUME pc = "count" PROVE MarksFromQuery'
      BY <1>6 DEF MarksFromQuery
    <3>1. Len(qry) \in Nat /\ Len(n) =< Len(qry) /\ Len(n) \in Nat
      BY <1>1, <1>3, NodesAreSequences DEF WriteInv, MarksFromQuery, n
    <3>2. up \in Seq(MarkOp) /\ \A i \in 1..Len(up) : Len(up[i].node) =< Len(qry)
      <4>1. CASE n = Root
        BY <4>1
      <4>2. CASE n # Root
        <5> DEFINE p == Parent(n)
        <5>1. p \in Nodes /\ Len(p) =< Len(qry)
          BY <1>3, <3>1, <4>2, ParentIsNode, ParentDropsLast
        <5>2. /\ LoopOp(p) \in MarkOp /\ QueryOp(p) \in MarkOp
              /\ LoopOp(p).node = p /\ QueryOp(p).node = p
          BY <5>1, MarkOpType DEF LoopOp, QueryOp
        <5>3. up \in {<<LoopOp(p), QueryOp(p)>>, <<QueryOp(p)>>}
          BY <4>2
        <5> HIDE DEF p, up
        <5>4. CASE up = <<LoopOp(p), QueryOp(p)>>
          BY <5>1, <5>2, <5>4
        <5>5. CASE up = <<QueryOp(p)>>
          BY <5>1, <5>2, <5>5
        <5> QED  BY <5>3, <5>4, <5>5
      <4> QED  BY <4>1, <4>2
    <3> HIDE DEF up
    <3>3. \A i \in 1..Len(todo') : Len(todo'[i].node) =< Len(qry)
      BY <1>2, <1>6, <3>1, <3>2, TodoClimbs DEF WriteInv, MarksFromQuery
    <3>4. store'[qry].all_seen
      <4>1. CASE n = qry
        BY <2>2, <2>6, <4>1
      <4>2. CASE n # qry
        <5>1. todo # << >> /\ todo # <<LoopOp(qry)>>
          BY <1>2, <1>3, <4>2 DEF LoopOp
        <5>2. store[qry].all_seen
          BY <5>1 DEF WriteInv, MarksFromQuery
        <5> QED  BY <1>1, <2>6, <4>2, <5>2
      <4> QED  BY <4>1, <4>2
    <3> QED  BY <1>6, <3>3, <3>4 DEF MarksFromQuery
  <2>13. MarksFromCur'
    <3> SUFFICES ASSUME pc \in {"mark", "boring"} PROVE store'[cur].all_seen
      BY <1>6 DEF MarksFromCur
    <3>1. CASE n = cur
      BY <2>2, <2>6, <3>1
    <3>2. CASE n # cur
      <4>1. todo # <<LoopOp(cur)>>
        BY <1>2, <1>3, <3>2 DEF LoopOp
      <4>2. store[cur].all_seen
        BY <4>1 DEF WriteInv, MarksFromCur
      <4> QED  BY <1>1, <2>6, <3>2, <4>2
    <3> QED  BY <3>1, <3>2
  <2> QED
    BY <2>7, <2>8, <2>9, <2>10, <2>11, <2>12, <2>13 DEF WriteInv
<1> QED  BY <1>4, <1>5, <1>6

\* query_parent climbs, and a query node below the limit is left alone.
LEMMA ClimbWrites ==
    ASSUME TypeInv, WriteInv, UNCHANGED <<treeVars, pc, weird, inq>>,
           pc \in {"mark", "count", "boring"}, Head(todo).op = "query", todo # << >>,
           pc = "count" => \A i \in 1..Len(todo') : Len(todo'[i].node) =< Len(qry)
    PROVE  WriteInv' /\ LosesNothing
<1>1. UNCHANGED <<store, cur, curRec, qry, qryRec>>
  BY DEF treeVars
<1>2. /\ CountsRead' /\ CurAgrees' /\ LosesNothing
      /\ QueryOpen' /\ QueryClosing'
  BY <1>1, NoWrite DEF WriteInv, CountsRead, CurAgrees, QueryOpen, QueryAbove, QueryClosing
<1>3. \A n \in Nodes : todo \notin {<< >>, <<LoopOp(n)>>}
  BY DEF LoopOp
<1>4. cur \in Nodes /\ qry \in Nodes
  BY DEF TypeInv, TreeTypeOK
<1>5. MarksFromQuery' /\ MarksFromCur'
  BY <1>1, <1>3, <1>4 DEF WriteInv, MarksFromQuery, MarksFromCur
<1> QED  BY <1>2, <1>5 DEF WriteInv

\* internal_nodes_check marks nodes that are not all_seen yet, query nodes
\* only where it starts.
LEMMA MarkQueryWrites ==
    ASSUME TypeInv, WriteInv, QueryParent \/ MarkQuery
    PROVE  WriteInv' /\ LosesNothing
<1> DEFINE q == Head(todo).node
<1>1. /\ cur \in Nodes /\ qry \in Nodes /\ store \in [Nodes -> NodeRec]
      /\ curRec \in NodeRec /\ qryRec \in NodeRec /\ weird \in Nat
  BY DEF TypeInv, TreeTypeOK
<1>2. /\ pc \in {"mark", "count", "boring"} /\ Head(todo).op = "query"
      /\ todo \in Seq(MarkOp) /\ todo # << >> /\ UNCHANGED inq
  BY DEF QueryParent, MarkQuery, TypeInv, RestTypeOK
<1>3. q \in Nodes /\ Head(todo) = todo[1] /\ 1 \in 1..Len(todo)
  <2>1. Head(todo) \in MarkOp /\ Head(todo) = todo[1] /\ 1 \in 1..Len(todo)
    BY <1>2
  <2> QED  BY <2>1 DEF MarkOp
<1>4. Len(qry) \in Nat /\ Len(q) \in Nat /\ Len(cur) \in Nat
  BY <1>1, <1>3, NodesAreSequences
<1>5. pc = "count" => Len(q) =< Len(qry)
  BY <1>3 DEF WriteInv, MarksFromQuery
<1>6. ASSUME NEW up \in Seq(MarkOp), \A i \in 1..Len(up) : Len(up[i].node) =< Len(q),
             pc = "count"
      PROVE  \A i \in 1..Len(up \o Tail(todo)) : Len((up \o Tail(todo))[i].node) =< Len(qry)
  <2>1. \A i \in 1..Len(up) : Len(up[i].node) =< Len(qry)
    <3> TAKE i \in 1..Len(up)
    <3>1. up[i].node \in Nodes
      <4>1. up[i] \in MarkOp
        BY <1>6
      <4> QED  BY <4>1 DEF MarkOp
    <3>2. Len(up[i].node) \in Nat
      BY <3>1, NodesAreSequences
    <3> QED  BY <1>4, <1>5, <1>6, <3>2
  <2> QED  BY <1>2, <1>4, <1>6, <2>1, TodoClimbs DEF WriteInv, MarksFromQuery
<1>7. Tail(todo) = << >> \o Tail(todo)
  BY <1>2
<1>8. ASSUME Crash PROVE WriteInv' /\ LosesNothing
  BY <1>8, PathOver DEF Crash, Ended
<1>9. CASE QueryParent
  <2>1. CASE q = Root
    BY <1>8, <1>9, <2>1 DEF QueryParent
  <2>2. CASE q # Root
    <3>1. /\ todo' = <<QueryOp(Parent(q))>> \o Tail(todo)
          /\ UNCHANGED <<treeVars, pc, weird>>
      BY <1>9, <2>2 DEF QueryParent
    <3>2. Parent(q) \in Nodes /\ Len(Parent(q)) =< Len(q)
      BY <1>3, <2>2, ParentIsNode, ParentDropsLast
    <3>3. QueryOp(Parent(q)) \in MarkOp /\ QueryOp(Parent(q)).node = Parent(q)
      BY <3>2, MarkOpType DEF QueryOp
    <3> DEFINE up == <<QueryOp(Parent(q))>>
    <3>4. up \in Seq(MarkOp) /\ \A i \in 1..Len(up) : Len(up[i].node) =< Len(q)
      BY <3>2, <3>3
    <3> HIDE DEF up, q
    <3>5. pc = "count" => \A i \in 1..Len(todo') : Len(todo'[i].node) =< Len(qry)
      BY <1>6, <3>1, <3>4 DEF up
    <3> QED  BY <1>2, <3>1, <3>5, ClimbWrites
  <2> QED  BY <2>1, <2>2
<1>10. CASE MarkQuery
  <2> DEFINE fails == FailedIf(store[q].query_children > QueryBranchLimit)
  <2>1. CASE ~Limited(store[q])
    <3>1. todo' = Tail(todo) /\ UNCHANGED <<treeVars, pc, weird>>
      BY <1>10, <2>1 DEF MarkQuery
    <3> DEFINE up == << >>
    <3>2. up \in Seq(MarkOp) /\ \A i \in 1..Len(up) : Len(up[i].node) =< Len(q)
      OBVIOUS
    <3>3. todo' = up \o Tail(todo)
      BY <1>7, <3>1
    <3> HIDE DEF up, q
    <3>4. pc = "count" => \A i \in 1..Len(todo') : Len(todo'[i].node) =< Len(qry)
      BY <1>6, <3>2, <3>3
    <3> QED  BY <1>2, <3>1, <3>4, ClimbWrites
  <2>2. CASE Limited(store[q]) /\ TooWeird(fails)
    BY <1>8, <1>10, <2>2 DEF MarkQuery
  <2>3. CASE Limited(store[q]) /\ ~TooWeird(fails)
    <3> DEFINE up == IF Open(store, q, q) THEN << >> ELSE <<LoopOp(q)>>
    <3>1. /\ store' = InternalNodesCheck(store, q)
          /\ todo' = up \o Tail(todo)
          /\ weird' = weird + fails
          /\ UNCHANGED <<cur, curRec, qry, qryRec, pc>>
      BY <1>10, <2>3 DEF MarkQuery
    <3>2. weird' = 0 => weird = 0
      BY <1>1, <3>1 DEF FailedIf
    <3>3. up \in Seq(MarkOp) /\ \A i \in 1..Len(up) : Len(up[i].node) =< Len(q)
      <4>1. LoopOp(q) \in MarkOp /\ LoopOp(q).node = q
        BY <1>3, MarkOpType DEF LoopOp
      <4>2. up \in {<< >>, <<LoopOp(q)>>}
        OBVIOUS
      <4> HIDE DEF up, q
      <4>3. CASE up = << >>
        BY <4>3
      <4>4. CASE up = <<LoopOp(q)>>
        <5>1. Len(up) = 1 /\ up[1] = LoopOp(q) /\ up \in Seq(MarkOp)
          BY <4>1, <4>4
        <5>2. Len(up[1].node) =< Len(q)
          BY <1>4, <4>1, <5>1
        <5> QED  BY <5>1, <5>2
      <4> QED  BY <4>2, <4>3, <4>4
    <3> HIDE DEF up, fails
    <3>4. ASSUME NEW n \in Nodes
          PROVE  /\ HoldsAll(store[n], store'[n])
                 /\ store'[n].query_children = store[n].query_children
                 /\ store[n].all_seen => store'[n] = store[n]
      <4>1. \/ store'[n] = store[n]
            \/ ~store[n].all_seen /\ store'[n] = [store[n] EXCEPT !.all_seen = TRUE]
        <5>1. n \in ReachedByCheck(store, q) => ~store[n].all_seen
          BY DEF ReachedByCheck
        <5> QED  BY <3>1, <5>1 DEF InternalNodesCheck
      <4>2. store[n] \in NodeRec /\ HoldsAll(store[n], store[n])
        BY <1>1, HoldsItself
      <4> QED  BY <4>1, <4>2, MarkHolds
    <3>5. \A m \in Nodes : todo # <<LoopOp(m)>>
      BY <1>2 DEF LoopOp
    <3>6. store'[cur] = store[cur]
      <4>1. CASE pc = "count"
        <5>1. IsQuery(store[cur]) /\ cur # q
          BY <1>4, <1>5, <4>1 DEF WriteInv, QueryClosing, CurAgrees
        <5>2. cur \notin ReachedByCheck(store, q)
          BY <5>1 DEF ReachedByCheck
        <5> QED  BY <1>1, <3>1, <5>2 DEF InternalNodesCheck
      <4>2. CASE pc # "count"
        <5>1. store[cur].all_seen
          BY <1>1, <1>2, <3>5, <4>2 DEF WriteInv, MarksFromCur
        <5> QED  BY <1>1, <3>4, <5>1
      <4> QED  BY <4>1, <4>2
    <3>7. pc = "count" => store[qry].all_seen /\ store'[qry] = store[qry]
      <4>1. pc = "count" => store[qry].all_seen
        BY <1>1, <1>2, <3>5 DEF WriteInv, MarksFromQuery
      <4> QED  BY <1>1, <3>4, <4>1
    <3>8. CountsRead' /\ LosesNothing
      BY <3>4 DEF WriteInv, CountsRead, LosesNothing
    <3>9. CurAgrees'
      BY <3>1, <3>6 DEF WriteInv, CurAgrees
    <3>10. QueryOpen'
      BY <1>2, <3>1 DEF WriteInv, QueryOpen, QueryAbove
    <3>11. QueryClosing'
      <4> SUFFICES ASSUME pc = "count" PROVE QueryClosing'
        BY <1>2, <3>1 DEF QueryClosing
      <4> QED  BY <1>2, <3>1, <3>2, <3>7 DEF WriteInv, QueryClosing
    <3>12. MarksFromQuery'
      BY <1>6, <3>1, <3>3, <3>7 DEF MarksFromQuery
    <3>13. MarksFromCur'
      BY <1>1, <3>1, <3>5, <3>6, <1>2 DEF WriteInv, MarksFromCur
    <3> QED  BY <3>8, <3>9, <3>10, <3>11, <3>12, <3>13 DEF WriteInv
  <2> QED  BY <2>1, <2>2, <2>3
<1> QED  BY <1>9, <1>10

-----------------------------------------------------------------------------
(* Scores, paths and iterations.                                           *)

\* set_heur writes `cur' from memory, its ancestors from the table.
LEMMA SetHeurTable ==
    ASSUME TypeInv, WriteInv, NEW h \in Nat, SetHeur(h), UNCHANGED cur
    PROVE  /\ \A n \in Nodes :
                /\ store'[n] = IF n \in Widened(h) THEN Widen(store[n], h) ELSE store[n]
                /\ HoldsAll(store[n], store'[n])
                /\ store'[n].query_children = store[n].query_children
           /\ curRec' = store'[cur]
<1>1. cur \in Nodes /\ store \in [Nodes -> NodeRec] /\ curRec = store[cur]
  BY DEF TypeInv, TreeTypeOK, WriteInv, CurAgrees
<1>2. PropagateHeur(h)
  BY DEF SetHeur
<1>3. ASSUME NEW n \in Nodes
      PROVE  /\ Widen(store[n], h) \in NodeRec
             /\ HoldsAll(store[n], Widen(store[n], h))
             /\ Widen(store[n], h).query_children = store[n].query_children
             /\ Stored(Widen(store[n], h)) = Widen(store[n], h)
  <2>1. store[n] \in NodeRec /\ h \in Int
    BY <1>1
  <2>2. /\ Widen(store[n], h) \in NodeRec
        /\ HoldsAll(store[n], Widen(store[n], h))
        /\ Widen(store[n], h).query_children = store[n].query_children
    BY <2>1, WidenType, WidenHolds, HoldsItself
  <2>3. StoredCount(store[n].query_children) = store[n].query_children
    BY DEF WriteInv, CountsRead
  <2> QED  BY <2>2, <2>3, StoredSame
<1>4. \A n \in Nodes :
        store'[n] = IF n \in Widened(h) THEN Widen(store[n], h) ELSE store[n]
  BY <1>1, <1>2, <1>3 DEF PropagateHeur
<1>5. curRec' = store'[cur]
  BY <1>1, <1>2, <1>4 DEF PropagateHeur, SetCur
<1>6. \A n \in Nodes : HoldsAll(store[n], store'[n])
                       /\ store'[n].query_children = store[n].query_children
  BY <1>1, <1>3, <1>4, HoldsItself
<1> QED  BY <1>4, <1>5, <1>6

LEMMA SetHeurWrites ==
    ASSUME TypeInv, WriteInv, NEW h \in Nat, SetHeur(h), UNCHANGED cur
    PROVE  CountsRead' /\ CurAgrees' /\ LosesNothing
BY SetHeurTable DEF WriteInv, CountsRead, CurAgrees, LosesNothing

\* The loop around the paths.
LEMMA LoopActionsWrites ==
    ASSUME TypeInv, WriteInv,
           ScorePath \/ OtherQueryFails \/ FinishPath \/ Reset \/ LastIteration \/ Terminated
    PROVE  WriteInv' /\ LosesNothing
<1>1. CASE ScorePath
  <2>1. PICK h \in Scores : SetHeur(h)
    BY <1>1 DEF ScorePath
  <2>2. h \in Nat /\ UNCHANGED <<cur, inq, pc, todo>> /\ pc = "run" /\ ~inq
    BY <1>1, LimitsAssumption DEF ScorePath
  <2>3. QueryOpen' /\ QueryClosing' /\ MarksFromQuery' /\ MarksFromCur'
    BY <2>2 DEF QueryOpen, QueryClosing, MarksFromQuery, MarksFromCur
  <2> QED  BY <2>1, <2>2, <2>3, SetHeurWrites DEF WriteInv
<1>2. CASE OtherQueryFails
  BY <1>2, PathOver DEF OtherQueryFails, Ended
<1>3. CASE FinishPath
  <2>1. SetHeur(1) /\ UNCHANGED <<cur, qry>> /\ pc' = "mark" /\ todo' = <<LoopOp(cur)>>
    BY <1>3 DEF FinishPath
  <2>2. QueryOpen' /\ QueryClosing' /\ MarksFromQuery' /\ MarksFromCur'
    BY <2>1 DEF QueryOpen, QueryClosing, MarksFromQuery, MarksFromCur
  <2> QED  BY <2>1, <2>2, SetHeurWrites DEF WriteInv
<1>4. CASE Reset
  <2>1. /\ cur' = Root /\ curRec' = store[Root] /\ UNCHANGED store
        /\ ~inq' /\ pc' = "run"
    BY <1>4 DEF Reset
  <2>2. CountsRead' /\ CurAgrees' /\ LosesNothing
    BY <2>1, NoWrite DEF WriteInv, CountsRead, CurAgrees
  <2>3. QueryOpen' /\ QueryClosing' /\ MarksFromQuery' /\ MarksFromCur'
    BY <2>1 DEF QueryOpen, QueryClosing, MarksFromQuery, MarksFromCur
  <2> QED  BY <2>2, <2>3 DEF WriteInv
<1>5. CASE LastIteration
  BY <1>5, PathOver DEF LastIteration, Ended
<1>6. CASE Terminated
  BY <1>6, PathOver DEF Terminated, vars
<1> QED  BY <1>1, <1>2, <1>3, <1>4, <1>5, <1>6

\* The root starts with the count 0, every other node without one.
LEMMA InitWrites == Init => WriteInv
<1> SUFFICES ASSUME Init PROVE WriteInv
  OBVIOUS
<1>1. StoredCount(0) = 0 /\ StoredCount(None) = None
  BY SmallCountStored, LimitsAssumption DEF StoredCount
<1>2. \A n \in Nodes : store[n].query_children \in {0, None}
  BY DEF Init, FreshNode
<1>3. CountsRead
  BY <1>1, <1>2 DEF CountsRead
<1>4. CurAgrees /\ pc = "run" /\ ~inq
  BY DEF Init, CurAgrees
<1> QED
  BY <1>3, <1>4
     DEF WriteInv, QueryOpen, QueryClosing, MarksFromQuery, MarksFromCur

\* Every step keeps WriteInv, and loses nothing.
LEMMA NextWrites ==
    ASSUME TypeInv, WriteInv, Countable, [Next]_vars
    PROVE  WriteInv' /\ LosesNothing
<1>1. CASE Next
  <2>1. \/ StartNewQuery \/ NextBit \/ CountQuery
        \/ TryExtendKnown \/ TryExtendAsk \/ LeaveBoring
        \/ FinishInternalNodes \/ CountQueryReturns
        \/ MarkLoop \/ QueryParent \/ MarkQuery
        \/ ScorePath \/ OtherQueryFails \/ FinishPath \/ Reset \/ LastIteration \/ Terminated
    BY <1>1 DEF Next
  <2> QED
    BY <2>1, StartQueryWrites, CountQueryWrites, TryExtendWrites, FinishInternalWrites,
       CountReturnsWrites, MarkLoopWrites, MarkQueryWrites, LoopActionsWrites
<1>2. CASE UNCHANGED vars
  <2>1. UNCHANGED <<store, cur, curRec, qry, qryRec, inq, pc, todo, weird>>
    BY <1>2 DEF vars, treeVars
  <2>2. WriteInv'
    BY <2>1 DEF WriteInv, CountsRead, CurAgrees, QueryOpen, QueryAbove, QueryClosing,
                MarksFromQuery, MarksFromCur
  <2> QED  BY <2>1, <2>2, NoWrite
<1> QED  BY <1>1, <1>2

=============================================================================
