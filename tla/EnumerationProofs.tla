--------------------------- MODULE EnumerationProofs ---------------------------
(***************************************************************************)
(* What the exploration loop achieves, in the settings of ExploreInv: no   *)
(* path is run twice, the tree's bookkeeping implements PathEnumeration,   *)
(* the loop gives up only when every feasible direction has been followed, *)
(* and query_children counts what it is said to count.                     *)
(*                                                                         *)
(* ExploreInv says what all_seen implies about the tree; EndInv adds why a *)
(* node got it: a path ended there, or both of its directions are gone.    *)
(***************************************************************************)
EXTENDS ExplorationProofs, MCDecisionTree, FiniteSetTheorems

-----------------------------------------------------------------------------
(* The invariants.                                                         *)

\* n has been marked, or is what mark_all_seen_node marks next.
Gone(n) == store[n].all_seen \/ Pending(n)

\* There are as many ended paths as iterations.
PathsCounted ==
    /\ IsFiniteSet(explored)
    /\ Cardinality(explored) = iteration_count + (IF pc \in {"mark", "done"} THEN 1 ELSE 0)

\* A path ends where the tree does, and its last node is never live again.
ExploredGone == \A n \in explored : Gone(n) /\ ~HasKid(store[n])

WhyGone == \A n \in Nodes : Gone(n) => n \in explored \/ Closed(store, n)

RootGone == pc = "done" => store[Root].all_seen

EndInv == PathsCounted /\ ExploredGone /\ WhyGone /\ RootGone

-----------------------------------------------------------------------------
(* What a step does to the tree.                                           *)

\* Neither a direction nor a mark changes.
SameTree ==
    \A n \in Nodes : /\ store'[n].child = store[n].child
                     /\ store'[n].all_seen = store[n].all_seen

\* A known direction is written back as it is.
LEMMA KnownSameTable ==
    ASSUME TypeInv, WriteInv, ExploreInv, TryExtendKnown
    PROVE  \A n \in Nodes : store'[n] = store[n]
<1>1. pc = "try"
  BY DEF TryExtendKnown
<1>2. /\ store \in [Nodes -> NodeRec] /\ cur \in Nodes
      /\ curRec = store[cur] /\ curRec \in NodeRec /\ weird = 0 /\ ~curRec.all_seen
  BY <1>1, AtTry
<1>3. PICK b \in BOOLEAN : curRec.child[b] = "sat" /\ Extend(b, curRec, 0)
  BY KnownStep
<1> DEFINE r == [curRec EXCEPT !.child[b] = "sat"]
<1>4. store' = [store EXCEPT ![cur] = Stored(r)]
  BY <1>2, <1>3 DEF Extend, TooWeird, FailedIf
<1>5. r = curRec
  BY <1>2, <1>3 DEF NodeRec
<1> HIDE DEF r
<1>6. HoldsAll(curRec, r) /\ r.query_children = curRec.query_children /\ r \in NodeRec
  BY <1>2, <1>5, HoldsItself
<1>7. store'[cur] = r /\ \A n \in Nodes \ {cur} : store'[n] = store[n]
  BY <1>4, <1>6, WriteCur DEF WriteInv
<1> QED  BY <1>2, <1>5, <1>7

\* Only three steps change more of the table than scores and counts.
LEMMA QuietSteps ==
    ASSUME Steady, TypeInv, WriteInv, Countable, ExploreInv, [Next]_vars
    PROVE  SameTree \/ TryExtendAsk \/ FinishInternalNodes \/ MarkLoop
<1>1. ~LeaveBoring /\ ~OtherQueryFails
  BY DEF LeaveBoring, OtherQueryFails, ExploreInv, NothingFails, Steady
<1>2. ASSUME UNCHANGED store PROVE SameTree
  BY <1>2 DEF SameTree
<1>3. ASSUME UNCHANGED vars PROVE SameTree
  BY <1>2, <1>3 DEF vars, treeVars
<1>4. ASSUME Terminated PROVE SameTree
  BY <1>3, <1>4 DEF Terminated
<1>5. ASSUME StartNewQuery PROVE SameTree
  BY <1>2, <1>5 DEF StartNewQuery, Crash, treeVars
<1>6. ASSUME NextBit \/ CountQueryReturns \/ LastIteration PROVE SameTree
  BY <1>2, <1>6 DEF NextBit, CountQueryReturns, LastIteration, treeVars
<1>7. ASSUME Reset PROVE SameTree
  BY <1>2, <1>7 DEF Reset
<1>8. ASSUME QueryParent \/ MarkQuery PROVE SameTree
  BY <1>2, <1>8, QueryStep
<1>9. ASSUME CountQuery PROVE SameTree
  BY <1>9, CountTable DEF SameTree
<1>10. ASSUME NEW h \in Nat, SetHeur(h), Created(store, cur), UNCHANGED cur PROVE SameTree
  BY <1>10, ScoredTable DEF SameTree
<1>11. ASSUME ScorePath PROVE SameTree
  <2>1. PICK h \in Scores : SetHeur(h)
    BY <1>11 DEF ScorePath
  <2>2. h \in Nat /\ pc = "run" /\ UNCHANGED cur
    BY <1>11, LimitsAssumption DEF ScorePath
  <2> QED  BY <1>10, <2>1, <2>2, AtRun
<1>12. ASSUME FinishPath PROVE SameTree
  <2>1. SetHeur(1) /\ UNCHANGED cur /\ pc \in {"run", "finish"}
    BY <1>12 DEF FinishPath, PathEnds
  <2>2. Created(store, cur)
    BY <2>1 DEF ExploreInv, CurLive
  <2> QED  BY <1>10, <2>1, <2>2
<1>13. ASSUME TryExtendKnown PROVE SameTree
  BY <1>13, KnownSameTable DEF SameTree
<1> QED
  BY <1>1, <1>3, <1>4, <1>5, <1>6, <1>7, <1>8, <1>9, <1>11, <1>12, <1>13
     DEF Next

\* try_extend settles directions of the current node, and of no other, by what
\* the solver has answered.
LEMMA AskTree ==
    ASSUME Steady, TypeInv, WriteInv, ExploreInv, TryExtendAsk
    PROVE  /\ \A n \in Nodes \ {cur} : store'[n] = store[n]
           /\ store'[cur].all_seen = store[cur].all_seen
           /\ store'[cur].query_children = store[cur].query_children
           /\ store'[cur].query_counted = store[cur].query_counted
           /\ ~Gone(cur) /\ cur \in Nodes
           /\ \A b \in BOOLEAN : store[cur].child[b] = "unknown"
           /\ pc = "try" /\ pc' # "mark" /\ pc' # "done"
           /\ \E F \in SUBSET BOOLEAN : \E a \in Answers(F) :
                /\ Consult(F)
                /\ \A b \in BOOLEAN : /\ store'[cur].child[b] = "sat" => a[b] = "sat"
                                      /\ store'[cur].child[b] = "unsat" => Refused(a, b)
<1>1. /\ pc = "try" /\ UNCHANGED <<inq, prog>>
      /\ \A c \in BOOLEAN : curRec.child[c] = "unknown"
  BY AskStep
<1>2. /\ cur \in Nodes /\ curRec = store[cur] /\ curRec \in NodeRec
      /\ ~curRec.all_seen /\ weird = 0 /\ store \in [Nodes -> NodeRec]
      /\ \A n : ~Pending(n)
  BY <1>1, AtTry
<1> DEFINE Way(F, a, c) ==
        /\ Consult(F)
        /\ \/ SolverFailure(curRec)
           \/ Refused(a, c) /\ SolverFailure(RecordUnsat(curRec, c))
           \/ /\ a[c] = "sat" /\ a[~c] = "sat"
              /\ Extend(~c, [curRec EXCEPT !.child[c] = "sat"], 0)
           \/ /\ Refused(a, c) /\ a[~c] = "sat"
              /\ Extend(~c, RecordUnsat(curRec, c), 0)
           \/ /\ Refused(a, c) /\ Refused(a, ~c)
              /\ pc' = "double_unsat" /\ UNCHANGED <<treeVars, weird>>
<1>0. PICK F \in SUBSET BOOLEAN : \E a \in Answers(F), c \in BOOLEAN : Way(F, a, c)
  BY AskStep
<1>3. PICK a \in Answers(F), c \in BOOLEAN : Way(F, a, c)
  BY <1>0
<1>4. "sat" \in ChildStatus /\ "unsat" \in ChildStatus /\ (~c) \in BOOLEAN
      /\ \A b \in BOOLEAN : b = c \/ b = ~c
  BY DEF ChildStatus
<1> DEFINE Tells(r) == \A b \in BOOLEAN : /\ r.child[b] = "sat" => a[b] = "sat"
                                          /\ r.child[b] = "unsat" => Refused(a, b)
           Done == /\ \A n \in Nodes \ {cur} : store'[n] = store[n]
                   /\ store'[cur].all_seen = store[cur].all_seen
                   /\ store'[cur].query_children = store[cur].query_children
                   /\ store'[cur].query_counted = store[cur].query_counted
                   /\ pc' # "mark" /\ pc' # "done" /\ Tells(store'[cur])
<1>5. ASSUME NEW r \in NodeRec, HoldsAll(curRec, r), r.all_seen = curRec.all_seen,
             r.query_children = curRec.query_children,
             r.query_counted = curRec.query_counted, Tells(r),
             store' = [store EXCEPT ![cur] = Stored(r)], pc' # "mark", pc' # "done"
      PROVE  Done
  <2>1. store'[cur] = r /\ \A n \in Nodes \ {cur} : store'[n] = store[n]
    BY <1>5, WriteCur DEF WriteInv
  <2> HIDE DEF Tells
  <2> QED  BY <1>2, <1>5, <2>1
<1>6. ASSUME NEW v \in {"sat", "unsat"}
      PROVE  /\ [curRec EXCEPT !.child[c] = v] \in NodeRec
             /\ HoldsAll(curRec, [curRec EXCEPT !.child[c] = v])
             /\ [curRec EXCEPT !.child[c] = v].all_seen = curRec.all_seen
             /\ [curRec EXCEPT !.child[c] = v].query_children = curRec.query_children
             /\ [curRec EXCEPT !.child[c] = v].query_counted = curRec.query_counted
             /\ [curRec EXCEPT !.child[c] = v].child[c] = v
             /\ [curRec EXCEPT !.child[c] = v].child[~c] = "unknown"
  <2>0. [curRec EXCEPT !.child[c] = v].query_counted = curRec.query_counted
    BY <1>2 DEF NodeRec
  <2>1. curRec.child[c] = "unknown" /\ curRec.child[~c] = "unknown" /\ v \in ChildStatus
    BY <1>1, <1>4
  <2>2. [curRec EXCEPT !.child[c] = v] \in NodeRec
    BY <1>2, <2>1, ChildUpdateType
  <2>3. /\ HoldsAll(curRec, [curRec EXCEPT !.child[c] = v])
        /\ [curRec EXCEPT !.child[c] = v].query_children = curRec.query_children
        /\ [curRec EXCEPT !.child[c] = v].all_seen = curRec.all_seen
        /\ [curRec EXCEPT !.child[c] = v].child[c] = v
        /\ [curRec EXCEPT !.child[c] = v].child[~c] = curRec.child[~c]
    BY <1>2, <2>1, SettledHolds
  <2> QED  BY <2>0, <2>1, <2>2, <2>3
<1>7. CASE SolverFailure(curRec)
  <2>1. store' = [store EXCEPT ![cur] = Stored(curRec)] /\ pc' \in {"finish", "stopped"}
    BY <1>7 DEF SolverFailure
  <2>2. Tells(curRec) /\ HoldsAll(curRec, curRec)
    BY <1>1, <1>2, HoldsItself
  <2> HIDE DEF Tells, Done
  <2>3. Done
    BY <1>2, <1>5, <2>1, <2>2
  <2> QED  BY <1>1, <1>2, <1>3, <2>3 DEF Done, Tells, Gone
<1>8. CASE Refused(a, c) /\ SolverFailure(RecordUnsat(curRec, c))
  <2> DEFINE s == RecordUnsat(curRec, c)
  <2>1. store' = [store EXCEPT ![cur] = Stored(s)] /\ pc' \in {"finish", "stopped"}
    BY <1>8 DEF SolverFailure
  <2>2. /\ s \in NodeRec /\ HoldsAll(curRec, s) /\ s.all_seen = curRec.all_seen
        /\ s.query_children = curRec.query_children
        /\ s.query_counted = curRec.query_counted
        /\ s.child[c] = "unsat" /\ s.child[~c] = "unknown"
    BY <1>6 DEF RecordUnsat
  <2> HIDE DEF s
  <2>3. Tells(s)
    BY <1>4, <1>8, <2>2
  <2> HIDE DEF Tells, Done
  <2>4. Done
    BY <1>5, <2>1, <2>2, <2>3
  <2> QED  BY <1>1, <1>2, <1>3, <2>4 DEF Done, Tells, Gone
<1>9. ASSUME NEW v \in {"sat", "unsat"}, NEW d \in BOOLEAN, d = ~c, a[d] = "sat",
             v = "sat" => a[c] = "sat", v = "unsat" => Refused(a, c),
             Extend(d, [curRec EXCEPT !.child[c] = v], 0)
      PROVE  Done
  <2> DEFINE s == [curRec EXCEPT !.child[c] = v]
             t == [s EXCEPT !.child[d] = "sat"]
  <2>1. /\ s \in NodeRec /\ HoldsAll(curRec, s) /\ s.all_seen = curRec.all_seen
        /\ s.query_children = curRec.query_children /\ s.child[d] = "unknown"
        /\ s.query_counted = curRec.query_counted /\ s.child[c] = v
    BY <1>6, <1>9
  <2> HIDE DEF s
  <2>2. /\ t \in NodeRec /\ HoldsAll(s, t) /\ t.all_seen = curRec.all_seen
        /\ t.query_children = curRec.query_children
        /\ t.query_counted = curRec.query_counted
        /\ t.child[d] = "sat" /\ t.child[~d] = s.child[~d]
    <3>1. t \in NodeRec
      BY <1>4, <2>1, ChildUpdateType
    <3>2. /\ HoldsAll(s, t) /\ t.all_seen = s.all_seen
          /\ t.query_children = s.query_children
          /\ t.child[d] = "sat" /\ t.child[~d] = s.child[~d]
      <4>1. s.child[d] \in {"unknown", "sat"}
        BY <2>1
      <4> QED  BY <1>4, <2>1, <4>1, SettledHolds
    <3>3. t.query_counted = s.query_counted
      BY <2>1 DEF NodeRec
    <3> QED  BY <2>1, <3>1, <3>2, <3>3
  <2>3. /\ store' = [store EXCEPT ![cur] = Stored(t)] /\ pc' \in {"finish", "run"}
    BY <1>2, <1>9, <2>1 DEF Extend, TooWeird, FailedIf, s
  <2> HIDE DEF t
  <2>4. HoldsAll(curRec, t)
    BY <1>2, <2>1, <2>2, HoldsChain
  <2>5. (~d) = c /\ t.child[c] = v /\ t.child[d] = "sat" /\ \A b \in BOOLEAN : b = c \/ b = d
    BY <1>9, <2>1, <2>2
  <2>6. Tells(t)
    BY <1>9, <2>5
  <2> HIDE DEF Tells, Done
  <2> QED  BY <1>5, <2>2, <2>3, <2>4, <2>6
<1>10. CASE pc' = "double_unsat" /\ UNCHANGED <<treeVars, weird>>
  <2>1. store' = store
    BY <1>10 DEF treeVars
  <2> QED  BY <1>1, <1>2, <1>3, <1>10, <2>1 DEF Gone
<1>11. CASE \/ /\ a[c] = "sat" /\ a[~c] = "sat"
               /\ Extend(~c, [curRec EXCEPT !.child[c] = "sat"], 0)
            \/ /\ Refused(a, c) /\ a[~c] = "sat"
               /\ Extend(~c, RecordUnsat(curRec, c), 0)
  <2>1. Done
    <3> HIDE DEF Done
    <3> QED  BY <1>4, <1>9, <1>11 DEF RecordUnsat
  <2> HIDE DEF Tells
  <2> QED  BY <1>1, <1>2, <1>3, <2>1 DEF Tells, Gone
<1> QED  BY <1>3, <1>7, <1>8, <1>10, <1>11

\* A pending mark is the next thing done, and is put there by the end of a
\* path or by the mark of a kid.
LEMMA PendingSteps ==
    ASSUME Steady, TypeInv, WriteInv, Countable, ExploreInv, [Next]_vars
    PROVE  /\ \A n : Pending(n) => MarkLoop \/ UNCHANGED <<pc, todo>>
           /\ \A n \in Nodes : Pending(n)' =>
                \/ MarkLoop \/ Pending(n) \/ store[n].all_seen
                \/ FinishPath /\ n = cur
<1>1. ~LeaveBoring /\ ~OtherQueryFails
  BY DEF LeaveBoring, OtherQueryFails, ExploreInv, NothingFails, Steady
<1> DEFINE Before == \A n : Pending(n) => MarkLoop \/ UNCHANGED <<pc, todo>>
           After == \A n \in Nodes : (pc' = "mark" /\ todo' # << >> /\ Head(todo') = LoopOp(n)) =>
                      \/ MarkLoop \/ Pending(n) \/ store[n].all_seen
                      \/ FinishPath /\ n = cur
<1>2. ASSUME UNCHANGED <<pc, todo>> PROVE Before /\ After
  BY <1>2 DEF Pending
<1>3. ASSUME Terminated \/ UNCHANGED vars PROVE Before /\ After
  BY <1>2, <1>3 DEF Terminated, vars
<1>4. ASSUME pc # "mark", pc' # "mark" PROVE Before /\ After
  BY <1>4 DEF Pending
<1>5. ASSUME StartNewQuery \/ NextBit \/ CountQueryReturns PROVE Before /\ After
  <2>1. pc # "mark" /\ pc' # "mark"
    BY <1>5 DEF StartNewQuery, NextBit, CountQueryReturns, Crash
  <2> QED  BY <1>4, <2>1
<1>6. ASSUME TryExtendKnown PROVE Before /\ After
  <2>1. pc = "try" /\ pc' # "mark"
    BY <1>6, KnownStep DEF TryExtendKnown, Extend, Crash
  <2> QED  BY <1>4, <2>1
<1>7. ASSUME TryExtendAsk PROVE Before /\ After
  <2>1. pc # "mark" /\ pc' # "mark"
    BY <1>7, AskTree
  <2> QED  BY <1>4, <2>1
<1>8. ASSUME CountQuery PROVE Before /\ After
  <2>1. pc = "run" /\ pc' \in {"internal", "run"}
    BY <1>8, CountTable
  <2> QED  BY <1>4, <2>1
<1>9. ASSUME FinishInternalNodes PROVE Before /\ After
  <2>1. pc = "internal" /\ pc' = "count"
    BY <1>9, FillStep
  <2> QED  BY <1>4, <2>1
<1>10. ASSUME MarkLoop PROVE Before /\ After
  BY <1>10
<1>11. ASSUME QueryParent \/ MarkQuery PROVE Before /\ After
  <2>1. /\ \A n : ~Pending(n)
        /\ \A m \in Nodes : todo' # << >> /\ Head(todo') = LoopOp(m) => store[m].all_seen
    BY <1>11, QueryStep
  <2> QED  BY <2>1
<1>12. ASSUME ScorePath PROVE Before /\ After
  BY <1>2, <1>12 DEF ScorePath
<1>13. ASSUME FinishPath PROVE Before /\ After
  <2>1. pc # "mark" /\ todo' = <<LoopOp(cur)>>
    BY <1>13 DEF FinishPath, PathEnds
  <2>2. \A n : LoopOp(n).node = n
    BY DEF LoopOp
  <2>3. \A n : Head(todo') = LoopOp(n) => n = cur
    <3> TAKE n
    <3> HAVE Head(todo') = LoopOp(n)
    <3>1. LoopOp(cur) = LoopOp(n)
      BY <2>1
    <3> QED  BY <2>2, <3>1
  <2> QED  BY <1>13, <2>1, <2>3 DEF Pending
<1>14. ASSUME Reset \/ LastIteration PROVE Before /\ After
  <2>1. pc = "mark" /\ todo = << >> /\ pc' # "mark"
    BY <1>14 DEF Reset, LastIteration
  <2> QED  BY <2>1 DEF Pending
<1>15. Before /\ After
  <2> HIDE DEF Before, After
  <2> QED
    BY <1>1, <1>3, <1>5, <1>6, <1>7, <1>8, <1>9, <1>10, <1>11, <1>12, <1>13, <1>14
       DEF Next
<1> QED  BY <1>15 DEF Pending

\* Directions are settled for good, marks stay, and a node is marked when a
\* path has ended there or when both its directions are gone.
LEMMA TreeGrows ==
    ASSUME Steady, TypeInv, WriteInv, Countable, ExploreInv, [Next]_vars, TypeInv'
    PROVE  /\ \A n \in Nodes, b \in BOOLEAN :
                store[n].child[b] # "unknown" => store'[n].child[b] = store[n].child[b]
           /\ \A n \in Nodes : store[n].all_seen => store'[n].all_seen
           /\ \A n \in Nodes : HasKid(store'[n]) => HasKid(store[n]) \/ ~Gone(n)
           /\ \A n \in Nodes : Closed(store, n) => Closed(store', n)
           /\ \A n \in Nodes : Gone(n) => Gone(n)'
           /\ \A n \in Nodes : Gone(n)' =>
                Gone(n) \/ Closed(store', n) \/ (FinishPath /\ n = cur)
<1>1. \A n \in Nodes : HoldsAll(store[n], store'[n])
  BY NextWrites DEF LosesNothing, ExploreInv, NothingFails
<1>2. \A n \in Nodes, b \in BOOLEAN :
        store[n].child[b] # "unknown" => store'[n].child[b] = store[n].child[b]
  BY <1>1 DEF HoldsAll
<1>3. \A n \in Nodes : store[n].all_seen => store'[n].all_seen
  BY <1>1 DEF HoldsAll
<1>4. \A n \in Nodes, b \in BOOLEAN : store[n].child[b] = "sat" => Kid(n, b) \in Nodes
  BY KidIsNode DEF ExploreInv, TreeShape, KidsExist, HasKid
<1>5. \A n \in Nodes : Closed(store, n) => Closed(store', n)
  BY <1>2, <1>3, <1>4 DEF Closed, Seen
<1>6. SameTree \/ TryExtendAsk \/ FinishInternalNodes \/ MarkLoop
  BY QuietSteps
<1>7. \A n \in Nodes : HasKid(store'[n]) => HasKid(store[n]) \/ ~Gone(n)
  <2>1. CASE SameTree
    BY <2>1 DEF SameTree, HasKid
  <2>2. CASE TryExtendAsk
    BY <2>2, AskTree
  <2>3. CASE FinishInternalNodes
    <3>1. \A n \in Nodes, b \in BOOLEAN :
            store'[n].child[b] = "sat" => store[n].child[b] = "sat"
      BY <2>3, FillStep
    <3> QED  BY <3>1 DEF HasKid
  <2>4. CASE MarkLoop
    BY <2>4, MarkLoopStep DEF HasKid
  <2> QED  BY <1>6, <2>1, <2>2, <2>3, <2>4
<1>8. \A n \in Nodes : store'[n].all_seen => Gone(n) \/ Closed(store', n)
  <2>1. CASE SameTree
    BY <2>1 DEF SameTree, Gone
  <2>2. CASE TryExtendAsk
    BY <2>2, AskTree DEF Gone
  <2>3. CASE FinishInternalNodes
    <3> SUFFICES ASSUME NEW n \in Nodes, store'[n].all_seen, ~store[n].all_seen
                 PROVE  Closed(store', n)
      BY DEF Gone
    <3>1. n \in Internal(store, qry) /\ KidsSeen(store')
      BY <2>3, FillStep
    <3>2. \A b \in BOOLEAN : store'[n].child[b] =
            IF store[n].child[b] = "unknown" THEN "unsat" ELSE store[n].child[b]
      BY <2>3, <3>1, FillStep
    <3>3. \A b \in BOOLEAN : store[n].child[b] \in ChildStatus
      BY DEF TypeInv, TreeTypeOK, NodeRec
    <3>4. \A b \in BOOLEAN : store'[n].child[b] \in {"sat", "unsat"}
      BY <3>2, <3>3 DEF ChildStatus
    <3> QED  BY <3>1, <3>4 DEF Closed, Seen, KidsSeen
  <2>4. CASE MarkLoop
    BY <2>4, MarkLoopStep DEF Gone
  <2> QED  BY <1>6, <2>1, <2>2, <2>3, <2>4
<1>9. \A n \in Nodes : MarkLoop => /\ Pending(n) => store'[n].all_seen
                                   /\ Pending(n)' => Closed(store', n)
  BY MarkLoopStep
<1>10. \A n \in Nodes : Pending(n) => store'[n].all_seen \/ Pending(n)'
  <2>1. \A n \in Nodes : Pending(n) => MarkLoop \/ UNCHANGED <<pc, todo>>
    BY PendingSteps
  <2>2. ASSUME NEW n \in Nodes, Pending(n), UNCHANGED <<pc, todo>> PROVE Pending(n)'
    BY <2>2 DEF Pending
  <2> QED  BY <1>9, <2>1, <2>2
<1>11. \A n \in Nodes : Pending(n)' =>
         Gone(n) \/ Closed(store', n) \/ (FinishPath /\ n = cur)
  BY <1>9, PendingSteps DEF Gone
<1> QED  BY <1>2, <1>3, <1>5, <1>7, <1>8, <1>10, <1>11 DEF Gone

-----------------------------------------------------------------------------
(* No path is run twice.                                                   *)

\* Where a path ends the tree is live and goes no further.
LEMMA EndsLive ==
    ASSUME TypeInv, WriteInv, ExploreInv, EndInv, FinishPath
    PROVE  /\ cur \in Nodes /\ cur \notin explored /\ ~Gone(cur)
           /\ Created(store, cur) /\ ~HasKid(store[cur]) /\ ~Closed(store, cur)
           /\ pc \notin {"mark", "done"}
<1>1. /\ pc \in {"run", "finish"}
      /\ pc = "run" => Does(cur, "leaf")
  BY DEF FinishPath, PathEnds
<1>2. /\ cur \in Nodes /\ Created(store, cur) /\ ~store[cur].all_seen
      /\ \A n : ~Pending(n)
  BY <1>1 DEF TypeInv, TreeTypeOK, ExploreInv, CurLive, Pending
<1>3. ~Gone(cur) /\ ~Closed(store, cur)
  BY <1>2 DEF Gone, ExploreInv, ClosedSeen
<1>4. ~HasKid(store[cur])
  <2>1. pc = "finish" => ~HasKid(store[cur])
    BY DEF ExploreInv, FinishClean
  <2>2. NodeMatches(store, prog, cur)
    BY <1>2 DEF ExploreInv, ProgMatch
  <2>3. pc = "run" => prog[cur] \in {"unknown", "leaf"}
    BY <1>1 DEF Does
  <2> QED  BY <1>1, <2>1, <2>2, <2>3 DEF NodeMatches
<1>5. cur \notin explored
  BY <1>3 DEF EndInv, ExploredGone
<1> QED  BY <1>1, <1>2, <1>3, <1>4, <1>5

LEMMA InitEnds == Init => EndInv
<1> SUFFICES ASSUME Init PROVE EndInv
  OBVIOUS
<1>1. explored = {} /\ iteration_count = 0 /\ pc = "run"
  BY DEF Init
<1>2. PathsCounted
  BY <1>1, FS_EmptySet DEF PathsCounted
<1>3. \A n \in Nodes : ~Gone(n)
  BY <1>1 DEF Init, FreshNode, Gone, Pending
<1> QED  BY <1>1, <1>2, <1>3 DEF EndInv, ExploredGone, WhyGone, RootGone

\* Only the end of a path is added, and only a new path begins an iteration.
LEMMA CountSteps ==
    ASSUME Steady, TypeInv, WriteInv, Countable, ExploreInv, [Next]_vars
    PROVE  /\ \/ FinishPath
              \/ /\ explored' = explored /\ ~FinishPath
                 /\ \/ /\ iteration_count' = iteration_count
                       /\ pc' \in {"mark", "done"} <=> pc \in {"mark", "done"}
                    \/ Reset
           /\ pc' = "done" => pc = "done" \/ LastIteration
<1> SUFFICES ASSUME ~FinishPath, ~Reset
             PROVE  /\ explored' = explored /\ iteration_count' = iteration_count
                    /\ pc' \in {"mark", "done"} <=> pc \in {"mark", "done"}
                    /\ pc' = "done" => pc = "done" \/ LastIteration
  BY DEF Reset, FinishPath
<1>1. ~LeaveBoring /\ ~OtherQueryFails
  BY DEF LeaveBoring, OtherQueryFails, ExploreInv, NothingFails, Steady
<1>2. CASE Terminated \/ UNCHANGED vars
  BY <1>2 DEF Terminated, vars, pathVars
<1>3. CASE StartNewQuery \/ NextBit \/ CountQueryReturns \/ ScorePath \/ LastIteration
  BY <1>3 DEF StartNewQuery, NextBit, CountQueryReturns, ScorePath, LastIteration,
              Crash, pathVars
<1>4. CASE TryExtendKnown
  <2>1. pc = "try" /\ pc' \notin {"mark", "done"}
    BY <1>4, KnownStep DEF TryExtendKnown, Extend, Crash
  <2> QED  BY <1>4, <2>1 DEF TryExtendKnown, pathVars
<1>5. CASE TryExtendAsk
  <2>1. pc = "try" /\ pc' \notin {"mark", "done"}
    BY <1>5, AskTree
  <2> QED  BY <1>5, <2>1 DEF TryExtendAsk, pathVars
<1>6. CASE CountQuery
  <2>1. pc = "run" /\ pc' \in {"internal", "run"}
    BY <1>6, CountTable
  <2> QED  BY <1>6, <2>1 DEF CountQuery, pathVars
<1>7. CASE FinishInternalNodes
  BY <1>7 DEF FinishInternalNodes, pathVars
<1>8. CASE MarkLoop
  <2>1. pc = "mark" /\ pc' = "mark"
    BY <1>8, MarkLoopStep
  <2> QED  BY <1>8, <2>1 DEF MarkLoop, pathVars
<1>9. CASE QueryParent \/ MarkQuery
  <2>1. UNCHANGED pc
    BY <1>9, QueryStep
  <2> QED  BY <1>9, <2>1 DEF QueryParent, MarkQuery, pathVars
<1> QED
  BY <1>1, <1>2, <1>3, <1>4, <1>5, <1>6, <1>7, <1>8, <1>9 DEF Next

LEMMA NextEnds ==
    ASSUME Steady, TypeInv, WriteInv, Countable, ExploreInv, EndInv, [Next]_vars,
           TypeInv'
    PROVE  EndInv'
<1>1. /\ \A n \in Nodes : store[n].all_seen => store'[n].all_seen
      /\ \A n \in Nodes : HasKid(store'[n]) => HasKid(store[n]) \/ ~Gone(n)
      /\ \A n \in Nodes : Closed(store, n) => Closed(store', n)
      /\ \A n \in Nodes : Gone(n) => Gone(n)'
      /\ \A n \in Nodes : Gone(n)' =>
           Gone(n) \/ Closed(store', n) \/ (FinishPath /\ n = cur)
  BY TreeGrows
<1>2. explored \subseteq Nodes /\ iteration_count \in Nat
  BY DEF TypeInv, RestTypeOK
<1>3. ASSUME NEW n \in explored PROVE Gone(n)' /\ ~HasKid(store'[n])
  BY <1>1, <1>2 DEF EndInv, ExploredGone
<1>4. CASE FinishPath
  <2>1. /\ cur \notin explored /\ cur \in Nodes /\ ~HasKid(store[cur])
        /\ pc \notin {"mark", "done"}
    BY <1>4, EndsLive
  <2>2. /\ explored' = explored \cup {cur} /\ pc' = "mark" /\ todo' = <<LoopOp(cur)>>
        /\ iteration_count' = iteration_count /\ cur' = cur
    BY <1>4 DEF FinishPath
  <2>3. PathsCounted'
    <3>1. IsFiniteSet(explored) /\ Cardinality(explored) = iteration_count
      BY <1>2, <2>1 DEF EndInv, PathsCounted
    <3>2. IsFiniteSet(explored') /\ Cardinality(explored') = iteration_count + 1
      BY <2>1, <2>2, <3>1, FS_AddElement
    <3> QED  BY <2>2, <3>2 DEF PathsCounted
  <2>4. ExploredGone'
    <3>1. \A n \in Nodes : n = cur => Pending(n)'
      BY <2>2 DEF Pending
    <3>2. \A n \in Nodes : n = cur => Gone(n)'
      BY <3>1 DEF Gone
    <3>3. SameTree
      <4>1. ~TryExtendAsk /\ ~FinishInternalNodes /\ ~MarkLoop
        BY <1>4 DEF FinishPath, PathEnds, TryExtendAsk, FinishInternalNodes, MarkLoop
      <4> QED  BY <4>1, QuietSteps
    <3>4. ~HasKid(store'[cur])
      BY <2>1, <3>3 DEF SameTree, HasKid
    <3>5. \A n \in explored' : n \in explored \/ n = cur
      BY <2>2
    <3> QED  BY <1>3, <2>1, <3>2, <3>4, <3>5 DEF ExploredGone
  <2>5. WhyGone'
    BY <1>1, <2>2 DEF EndInv, WhyGone
  <2>6. RootGone'
    BY <2>2 DEF RootGone
  <2> QED  BY <2>3, <2>4, <2>5, <2>6 DEF EndInv
<1>5. CASE /\ explored' = explored /\ ~FinishPath
           /\ \/ /\ iteration_count' = iteration_count
                 /\ pc' \in {"mark", "done"} <=> pc \in {"mark", "done"}
              \/ Reset
  <2>1. PathsCounted'
    <3>1. Reset => /\ pc = "mark" /\ pc' = "run"
                   /\ iteration_count' = iteration_count + 1
      BY DEF Reset
    <3> QED  BY <1>2, <1>5, <3>1 DEF EndInv, PathsCounted
  <2>2. ExploredGone'
    BY <1>3, <1>5 DEF ExploredGone
  <2>3. WhyGone'
    BY <1>1, <1>5 DEF EndInv, WhyGone
  <2>4. RootGone'
    BY <1>1, CountSteps, RootIsNode DEF EndInv, RootGone, LastIteration
  <2> QED  BY <2>1, <2>2, <2>3, <2>4 DEF EndInv
<1> QED  BY <1>4, <1>5, CountSteps

LEMMA EndsAlways ==
    ASSUME Steady
    PROVE  Spec /\ []Countable => []EndInv
<1>1. TypeInv /\ WriteInv /\ ExploreInv /\ Countable /\ EndInv /\ [Next]_vars /\ TypeInv' =>
        EndInv'
  BY NextEnds
<1> QED  BY <1>1, InitEnds, ExploresAlways, PTL DEF Spec

\* Each iteration of the fuzzing loop ends at a place no earlier one ended at,
\* as long as no query but a branch's fails and no direction is pretended.
THEOREM DifferentPathsAlways ==
    ASSUME Steady
    PROVE  Spec /\ []Countable => []DifferentPaths
<1>1. EndInv => DifferentPaths
  BY DEF EndInv, PathsCounted, DifferentPaths
<1> QED  BY <1>1, EndsAlways, PTL

\* A count stays below what its 16 bits can hold when the branch limit does,
\* so that []Countable is about unlimited queries only.
THEOREM LimitedCountable ==
    ASSUME Steady, QueryBranchLimit < CountModulus - 2
    PROVE  Spec => []Countable
<1>1. TypeInv /\ ExploreInv => Countable
  BY LimitsAssumption DEF ExploreInv, CountsLimited, Countable, TypeInv, TreeTypeOK, NodeRec
<1>2. TypeInv /\ WriteInv /\ ExploreInv /\ [Next]_vars =>
        TypeInv' /\ WriteInv' /\ ExploreInv'
  BY <1>1, NextType, NextWrites, NextExplores
<1> QED
  BY <1>1, <1>2, InitType, InitWrites, InitExplores, PTL DEF Spec

-----------------------------------------------------------------------------
(* The refinement of PathEnumeration.                                      *)

\* What will not be tried, as MCDecisionTree maps it to PathEnumeration.
Untried == Refusals \cup (CutOff \ explored)

LEMMA UntriedIn ==
    ASSUME NEW p \in Nodes
    PROVE  p \in Untried <=>
             \/ p # Root /\ store[Parent(p)].child[p[Len(p)]] = "unsat"
             \/ p \notin explored /\ \A b \in BOOLEAN : store[p].child[b] = "unsat"
BY DEF Untried, Refusals, CutOff

\* No path leads to or through a history that is not tried.
LEMMA UntriedAhead ==
    ASSUME ExploreInv, NEW p \in Untried, NEW n \in Nodes, Created(store, n),
           Below(p, n)
    PROVE  p = n /\ p \notin explored /\ \A b \in BOOLEAN : store[p].child[b] = "unsat"
<1>1. p \in Nodes /\ FreshBelow(store)
  BY DEF Untried, Refusals, CutOff, ExploreInv, TreeShape
<1>2. Created(store, p)
  BY <1>1, CreatedAbove
<1>3. p \notin explored /\ \A b \in BOOLEAN : store[p].child[b] = "unsat"
  BY <1>1, <1>2, UntriedIn DEF Created
<1>4. p = n
  <2>0. SUFFICES ASSUME p # n PROVE FALSE
    OBVIOUS
  <2>1. \E b \in BOOLEAN : store[p].child[b] = "sat"
    BY <1>1, <2>0, WayDown
  <2> QED  BY <1>3, <2>1
<1> QED  BY <1>3, <1>4

\* Ended paths are in the tree.
LEMMA ExploredCreated ==
    ASSUME TypeInv, ExploreInv, EndInv
    PROVE  \A n \in explored : n \in Nodes /\ Created(store, n)
<1> TAKE n \in explored
<1>1. n \in Nodes /\ Gone(n)
  BY DEF TypeInv, RestTypeOK, EndInv, ExploredGone
<1> QED  BY <1>1, KnownIsCreated DEF Gone, ExploreInv, LoopReady, TreeShape

\* The end of a path explores a new history.
LEMMA FinishExploresNew ==
    ASSUME Steady, TypeInv, WriteInv, Countable, ExploreInv, EndInv, FinishPath
    PROVE  /\ \A r \in explored : ~Below(cur, r) /\ ~Below(r, cur)
           /\ ~\E r \in Untried : Below(r, cur)
           /\ Untried' = Untried /\ pc # "done" /\ pc' # "done"
           /\ cur \in Nodes /\ explored' = explored \cup {cur}
<1>1. /\ cur \in Nodes /\ cur \notin explored /\ ~Gone(cur)
      /\ Created(store, cur) /\ ~HasKid(store[cur]) /\ ~Closed(store, cur)
      /\ pc \notin {"mark", "done"}
  BY EndsLive
<1>2. explored' = explored \cup {cur} /\ pc' = "mark"
  BY DEF FinishPath
<1>3. FreshBelow(store) /\ KidsSeen(store)
  BY DEF ExploreInv, TreeShape
<1>4. ASSUME NEW r \in explored PROVE ~Below(cur, r) /\ ~Below(r, cur)
  <2>1. r \in Nodes /\ Created(store, r) /\ r # cur
    BY <1>1, ExploredCreated
  <2>2. ~Below(cur, r)
    BY <1>1, <1>3, <2>1, WayDown DEF HasKid
  <2>3. store[r].all_seen
    BY <1>1, <1>4 DEF EndInv, ExploredGone, Gone, Pending
  <2>4. ~Below(r, cur)
    BY <1>1, <1>3, <2>1, <2>3, SeenSubtree DEF Gone
  <2> QED  BY <2>2, <2>4
<1>5. ASSUME NEW r \in Untried, Below(r, cur) PROVE FALSE
  <2>1. r = cur /\ \A b \in BOOLEAN : store[r].child[b] = "unsat"
    BY <1>1, <1>5, UntriedAhead
  <2> QED  BY <1>1, <2>1 DEF Closed
<1>6. SameTree
  <2>1. [Next]_vars /\ ~TryExtendAsk /\ ~FinishInternalNodes /\ ~MarkLoop
    BY DEF Next, FinishPath, PathEnds, TryExtendAsk, FinishInternalNodes, MarkLoop
  <2> QED  BY <2>1, QuietSteps
<1>7. Untried' = Untried
  <2>1. Refusals' = Refusals
    <3>1. \A m \in Nodes \ {Root} : store'[Parent(m)].child = store[Parent(m)].child
      BY <1>6, ParentHistory DEF SameTree
    <3> QED  BY <3>1 DEF Refusals
  <2>2. CutOff' = CutOff
    BY <1>6 DEF SameTree, CutOff
  <2>3. cur \notin CutOff
    BY <1>1 DEF CutOff, Closed
  <2> QED  BY <1>2, <2>1, <2>2, <2>3 DEF Untried
<1> QED  BY <1>1, <1>2, <1>4, <1>5, <1>7

\* What is not tried stays so, and is never what has been tried.
LEMMA UntriedGrows ==
    ASSUME Steady, TypeInv, WriteInv, Countable, ExploreInv, EndInv, [Next]_vars,
           TypeInv', ExploreInv', ~FinishPath
    PROVE  /\ Untried \subseteq Untried' /\ Untried' \subseteq Nodes
           /\ \A p \in Untried', r \in explored : ~Below(p, r)
           /\ explored' = explored
<1>1. explored' = explored
  BY CountSteps
<1>2. \A n \in Nodes, b \in BOOLEAN :
        store[n].child[b] # "unknown" => store'[n].child[b] = store[n].child[b]
  BY TreeGrows
<1>3. Refusals \subseteq Refusals'
  <2>1. \A m \in Nodes \ {Root} : Parent(m) \in Nodes /\ m[Len(m)] \in BOOLEAN
    BY ParentHistory
  <2> QED  BY <1>2, <2>1 DEF Refusals
<1>4. CutOff \subseteq CutOff'
  BY <1>2 DEF CutOff
<1>5. Untried \subseteq Untried'
  BY <1>1, <1>3, <1>4 DEF Untried
<1>6. Untried' \subseteq Nodes
  BY DEF Untried, Refusals, CutOff
<1>7. ASSUME NEW p \in Untried', NEW r \in explored, Below(p, r) PROVE FALSE
  <2>1. r \in Nodes /\ Created(store', r)
    <3>1. r \in Nodes /\ Created(store, r)
      BY ExploredCreated
    <3>2. r # Root => Parent(r) \in Nodes /\ r[Len(r)] \in BOOLEAN
      BY <3>1, ParentHistory
    <3> QED  BY <1>2, <3>1, <3>2 DEF Created
  <2>2. p \in Nodes /\ FreshBelow(store')
    BY <1>6 DEF ExploreInv, TreeShape
  <2>3. Created(store', p)
    BY <1>7, <2>1, <2>2, CreatedAbove
  <2>4. p \notin explored /\ \A b \in BOOLEAN : store'[p].child[b] = "unsat"
    BY <1>1, <2>2, <2>3 DEF Created, Untried, Refusals, CutOff
  <2>5. p # r
    BY <2>4
  <2>6. \E b \in BOOLEAN : store'[p].child[b] = "sat"
    BY <1>7, <2>1, <2>2, <2>5, WayDown
  <2> QED  BY <2>4, <2>6
<1> QED  BY <1>1, <1>5, <1>6, <1>7

\* When the root is exhausted, every history of full length has been ended
\* or given up above.
LEMMA LastCovers ==
    ASSUME TypeInv, ExploreInv, EndInv, LastIteration,
           NEW r \in [1..(PathDepthLimit + 1) -> BOOLEAN]
    PROVE  \E p \in explored \cup Untried : Below(p, r)
<1>0. store[Root].all_seen /\ pc = "mark" /\ todo = << >>
  BY DEF LastIteration
<1>1. r \in Nodes
  BY LimitsAssumption DEF Nodes
<1>2. FreshBelow(store) /\ KidsSeen(store) /\ KidsExist(store)
  BY DEF ExploreInv, TreeShape
<1> DEFINE X == {a \in Nodes : Below(a, r) /\ Created(store, a)}
<1>3. Root \in X
  BY <1>1, RootIsNode, BelowOrder DEF Created
<1>4. PICK x \in X : \A y \in X : Len(y) =< Len(x)
  BY <1>3, Extremes
<1>5. x \in Nodes /\ Below(x, r) /\ Created(store, x)
  OBVIOUS
<1>6. store[x].all_seen
  BY <1>0, <1>2, <1>5, RootIsNode, BelowOrder, SeenSubtree
<1>7. x \in explored \/ Closed(store, x)
  BY <1>5, <1>6 DEF EndInv, WhyGone, Gone
<1>8. CASE x \notin explored /\ x = r
  <2>1. Len(r) = PathDepthLimit + 1
    BY LimitsAssumption
  <2>2. ~HasKid(store[x])
    BY <1>2, <1>5, <1>8, <2>1, LimitsAssumption DEF KidsExist
  <2>3. \A b \in BOOLEAN : store[x].child[b] = "unsat"
    BY <1>7, <1>8, <2>2 DEF Closed, Seen, HasKid
  <2> QED  BY <1>5, <1>8, <2>3, UntriedIn
<1>9. CASE x \notin explored /\ x # r
  <2>1. PICK b \in BOOLEAN : Below(Kid(x, b), r)
    BY <1>1, <1>5, <1>9, FirstStep
  <2>2. Len(x) =< PathDepthLimit
    BY <1>1, <1>5, <1>9, FirstStep
  <2> DEFINE k == Kid(x, b)
  <2>3. /\ k \in Nodes /\ Len(k) = Len(x) + 1 /\ Len(x) \in Nat
        /\ k # Root /\ Parent(k) = x /\ k[Len(k)] = b
    BY <1>5, <2>2, KidHistory, NodesAreSequences
  <2> HIDE DEF k
  <2>4. k \notin X
    BY <1>4, <2>3
  <2>5. store[x].child[b] # "sat"
    BY <2>1, <2>3, <2>4 DEF Created, k
  <2>6. store[x].child[b] = "unsat"
    BY <1>7, <1>9, <2>5 DEF Closed, Seen
  <2>7. k \in Untried
    BY <2>3, <2>6, UntriedIn
  <2> QED  BY <2>1, <2>7 DEF k
<1> QED  BY <1>5, <1>8, <1>9

\* The steps of the tree are steps of the enumeration.
LEMMA EnumerationInit == Init => Enumeration!Init
<1> SUFFICES ASSUME Init PROVE Enumeration!Init
  OBVIOUS
<1>1. explored = {} /\ pc = "run"
  BY DEF Init
<1>2. \A n \in Nodes, b \in BOOLEAN : store[n].child[b] = "unknown"
  BY DEF Init, FreshNode
<1>3. Refusals = {}
  BY <1>2, ParentHistory DEF Refusals
<1>4. CutOff = {}
  BY <1>2 DEF CutOff
<1> QED  BY <1>1, <1>3, <1>4 DEF Enumeration!Init

LEMMA EnumerationStep ==
    ASSUME Steady, TypeInv, WriteInv, Countable, ExploreInv, EndInv, [Next]_vars,
           TypeInv', ExploreInv'
    PROVE  [Enumeration!Next]_Enumeration!evars
<1> DEFINE pruned   == Refusals \cup (CutOff \ explored)
           finished == pc = "done"
<1>0. pruned = Untried /\ pruned' = Untried'
  BY DEF Untried
<1>1. Enumeration!Histories = Nodes
  BY DEF Enumeration!Histories, Nodes
<1>2. \A p, r : Enumeration!Prefix(p, r) <=> Below(p, r)
  BY DEF Enumeration!Prefix, Below
<1> HIDE DEF pruned
<1>3. CASE FinishPath
  <2>1. /\ \A r \in explored : ~Below(cur, r) /\ ~Below(r, cur)
        /\ ~\E r \in pruned : Below(r, cur)
        /\ pruned' = pruned /\ pc # "done" /\ pc' # "done"
        /\ cur \in Nodes /\ explored' = explored \cup {cur}
    BY <1>0, <1>3, FinishExploresNew
  <2>2. Enumeration!Explore(cur)
    BY <1>2, <2>1 DEF Enumeration!Explore, Enumeration!Apart, pruned
  <2>3. cur \in Enumeration!Histories
    BY <1>1, <2>1
  <2> QED  BY <2>2, <2>3 DEF Enumeration!Next
<1>4. CASE LastIteration
  <2>1. pc # "done" /\ pc' = "done" /\ explored' = explored /\ store' = store
    BY <1>4 DEF LastIteration, pathVars, treeVars
  <2>2. pruned' = pruned
    BY <2>1 DEF pruned, Refusals, CutOff
  <2>3. Enumeration!Covered(explored \cup pruned)
    BY <1>0, <1>2, <1>4, LastCovers DEF Enumeration!Covered
  <2>4. Enumeration!Finish
    BY <2>1, <2>2, <2>3 DEF Enumeration!Finish, pruned
  <2> QED  BY <2>4 DEF Enumeration!Next
<1>5. CASE ~FinishPath /\ ~LastIteration
  <2>1. /\ pruned \subseteq pruned' /\ pruned' \subseteq Nodes
        /\ \A p \in pruned', r \in explored : ~Below(p, r)
        /\ explored' = explored
    BY <1>0, <1>5, UntriedGrows
  <2>2. CASE pc # "done"
    <3>1. pc' # "done"
      BY <1>5, <2>2, CountSteps
    <3>2. Enumeration!Prune
      BY <1>1, <1>2, <2>1, <2>2, <3>1 DEF Enumeration!Prune, pruned
    <3> QED  BY <3>2 DEF Enumeration!Next
  <2>3. CASE pc = "done"
    <3>1. UNCHANGED <<store, explored, pc>>
      BY <2>3 DEF Next, StartNewQuery, NextBit, TryExtendKnown, TryExtendAsk, LeaveBoring,
         CountQuery, FinishInternalNodes, CountQueryReturns, MarkLoop, QueryParent,
         MarkQuery, ScorePath, OtherQueryFails, FinishPath, PathEnds, Reset, LastIteration,
         Terminated, vars, treeVars, pathVars
    <3>2. pruned' = pruned
      BY <3>1 DEF pruned, Refusals, CutOff
    <3> QED  BY <3>1, <3>2 DEF Enumeration!evars, pruned
  <2> QED  BY <2>2, <2>3
<1> QED  BY <1>3, <1>4, <1>5

\* The tree's bookkeeping implements path enumeration: no path is run twice or
\* continues another, nothing given up is run, and the loop reports the end
\* only when every history has been run or given up.
THEOREM EnumeratesPathsHolds ==
    ASSUME Steady
    PROVE  Spec /\ []Countable => EnumeratesPaths
<1>1. TypeInv /\ WriteInv /\ ExploreInv /\ Countable /\ EndInv /\ [Next]_vars /\
      TypeInv' /\ ExploreInv' =>
        [Enumeration!Next]_Enumeration!evars
  BY EnumerationStep
<1>2. Spec /\ []Countable => Enumeration!Spec
  BY <1>1, EnumerationInit, EndsAlways, ExploresAlways, PTL DEF Spec, Enumeration!Spec
<1> QED  BY <1>2 DEF EnumeratesPaths

-----------------------------------------------------------------------------
(* What a step does to the counts.                                         *)

SameCounts ==
    \A n \in Nodes : /\ store'[n].query_children = store[n].query_children
                     /\ store'[n].query_counted = store[n].query_counted

\* Only count_query counts.
LEMMA CountingStep ==
    ASSUME Steady, TypeInv, WriteInv, Countable, ExploreInv, [Next]_vars
    PROVE  SameCounts \/ CountQuery
<1>1. ~LeaveBoring /\ ~OtherQueryFails
  BY DEF LeaveBoring, OtherQueryFails, ExploreInv, NothingFails, Steady
<1>2. ASSUME UNCHANGED store PROVE SameCounts
  BY <1>2 DEF SameCounts
<1>3. ASSUME UNCHANGED vars PROVE SameCounts
  BY <1>2, <1>3 DEF vars, treeVars
<1>4. ASSUME Terminated PROVE SameCounts
  BY <1>3, <1>4 DEF Terminated
<1>5. ASSUME StartNewQuery PROVE SameCounts
  BY <1>2, <1>5 DEF StartNewQuery, Crash, treeVars
<1>6. ASSUME NextBit \/ CountQueryReturns \/ LastIteration PROVE SameCounts
  BY <1>2, <1>6 DEF NextBit, CountQueryReturns, LastIteration, treeVars
<1>7. ASSUME Reset PROVE SameCounts
  BY <1>2, <1>7 DEF Reset
<1>8. ASSUME QueryParent \/ MarkQuery PROVE SameCounts
  BY <1>2, <1>8, QueryStep
<1>9. ASSUME NEW h \in Nat, SetHeur(h), Created(store, cur), UNCHANGED cur PROVE SameCounts
  BY <1>9, ScoredTable, SetHeurTable DEF SameCounts
<1>10. ASSUME ScorePath PROVE SameCounts
  <2>1. PICK h \in Scores : SetHeur(h)
    BY <1>10 DEF ScorePath
  <2>2. h \in Nat /\ pc = "run" /\ UNCHANGED cur
    BY <1>10, LimitsAssumption DEF ScorePath
  <2> QED  BY <1>9, <2>1, <2>2, AtRun
<1>11. ASSUME FinishPath PROVE SameCounts
  <2>1. SetHeur(1) /\ UNCHANGED cur /\ pc \in {"run", "finish"}
    BY <1>11 DEF FinishPath, PathEnds
  <2>2. Created(store, cur)
    BY <2>1 DEF ExploreInv, CurLive
  <2> QED  BY <1>9, <2>1, <2>2
<1>12. ASSUME TryExtendKnown PROVE SameCounts
  BY <1>12, KnownSameTable DEF SameCounts
<1>13. ASSUME TryExtendAsk PROVE SameCounts
  BY <1>13, AskTree DEF SameCounts
<1>14. ASSUME FinishInternalNodes PROVE SameCounts
  BY <1>14, FillStep DEF SameCounts
<1>15. ASSUME MarkLoop PROVE SameCounts
  BY <1>15, MarkLoopStep DEF SameCounts
<1> QED
  BY <1>1, <1>3, <1>4, <1>5, <1>6, <1>7, <1>8, <1>10, <1>11, <1>12, <1>13, <1>14,
     <1>15 DEF Next

-----------------------------------------------------------------------------
(* The exploration is complete.                                            *)

\* No query that decides no branch fails, and no timeout is taken for a refusal.
Truthful == ~OtherQueries /\ ~(SolverMayFail /\ TimeoutAsUnsat)

\* n is in a choice that the branch limit has cut short.
UnderLimit(n) == \E q \in Nodes : Limited(store[q]) /\ n \in Internal(store, q)

\* Directions are followed when they are feasible and refused when they are
\* not, unless the limit has cut them off.
FeasTrue ==
    \A n \in Nodes, b \in BOOLEAN :
        /\ store[n].child[b] = "sat" => b \in feas[n]
        /\ store[n].child[b] = "unsat" =>
             UnderLimit(n) \/ (feas[n] # {} /\ b \notin feas[n])

FeasInv ==
    /\ FeasTrue
    /\ pc = "internal" => Limited(store[qry])

\* A choice that is full stays full, and what belongs to it stays in it.
LEMMA LimitStays ==
    ASSUME Steady, TypeInv, WriteInv, Countable, ExploreInv, [Next]_vars, TypeInv',
           NEW n \in Nodes, UnderLimit(n)
    PROVE  UnderLimit(n)'
<1>1. PICK q \in Nodes : Limited(store[q]) /\ n \in Internal(store, q)
  BY DEF UnderLimit
<1>2. \A m \in Nodes : HoldsAll(store[m], store'[m])
  BY NextWrites DEF LosesNothing, ExploreInv, NothingFails
<1>3. Limited(store'[q])
  <2>1. store[q].query_children =< store'[q].query_children
    BY <1>2 DEF HoldsAll
  <2>2. store[q].query_children \in Int /\ store'[q].query_children \in Int
    BY DEF TypeInv, TreeTypeOK, NodeRec
  <2> QED  BY <1>1, <2>1, <2>2, LimitsAssumption DEF Limited, IsQuery, None
<1>4. \A m \in Nodes : Created(store, m) => Created(store', m)
  <2> TAKE m \in Nodes
  <2>1. m # Root => Parent(m) \in Nodes /\ m[Len(m)] \in BOOLEAN
    BY ParentHistory
  <2> QED  BY <1>2, <2>1 DEF Created, HoldsAll
<1>5. ASSUME NEW a \in {n} \cup Between(q, n), a # q PROVE ~IsQuery(store'[a])
  <2>1. a \in Nodes /\ ~IsQuery(store[a]) /\ Below(q, a) /\ Below(a, n)
    BY <1>1, <1>5, BelowOrder DEF Internal, Between
  <2>2. CASE SameCounts
    BY <2>1, <2>2 DEF SameCounts, IsQuery
  <2>3. CASE CountQuery
    <3>1. /\ pc = "run" /\ inq /\ cur # qry
          /\ \A m \in Nodes \ {cur, qry} : store'[m] = store[m]
          /\ ~store[cur].query_counted =>
               \A p \in Nodes : Limited(store[p]) => cur \notin Internal(store, p)
          /\ store'[cur].query_children =
               IF IsQuery(store[cur]) THEN store[cur].query_children ELSE 0
      BY <2>3, CountTable
    <3>2. IsQuery(store[qry]) /\ cur \in Nodes /\ qry \in Nodes
      BY <3>1, AtRun
    <3>3. CASE a = cur
      <4>1. a \in Internal(store, q)
        <5>1. Created(store, a)
          BY <1>1, <2>1, CreatedAbove DEF Internal, ExploreInv, TreeShape
        <5>2. Between(q, a) \subseteq Between(q, n)
          BY <2>1, BelowOrder DEF Between
        <5>3. \A d \in Between(q, n) : d = q \/ ~IsQuery(store[d])
          BY <1>1 DEF Internal
        <5> QED  BY <2>1, <5>1, <5>2, <5>3 DEF Internal
      <4>2. store[cur].query_counted
        BY <1>1, <3>1, <3>3, <4>1
      <4>3. cur # Root
        BY <3>1, <3>2, AtRun, RootIsNode, BelowOrder
      <4>4. IsQuery(store[cur])
        BY <3>2, <4>2, <4>3 DEF ExploreInv, ProgMatch, NodeMatches
      <4> QED  BY <2>1, <3>3, <4>4
    <3>4. CASE a # cur
      BY <2>1, <3>1, <3>2, <3>4
    <3> QED  BY <3>3, <3>4
  <2> QED  BY <2>2, <2>3, CountingStep
<1>6. n \in Internal(store', q)
  <2>1. Below(q, n) /\ Created(store', n)
    BY <1>1, <1>4 DEF Internal
  <2> QED  BY <1>5, <2>1 DEF Internal
<1> QED  BY <1>3, <1>6 DEF UnderLimit

\* What a program can do at a node is chosen where the solver is asked.
LEMMA FeasChosen ==
    ASSUME Steady, ExploreInv, [Next]_vars
    PROVE  TryExtendAsk \/ feas' = feas
<1>1. ~LeaveBoring /\ ~OtherQueryFails
  BY DEF LeaveBoring, OtherQueryFails, ExploreInv, NothingFails, Steady
<1>2. CASE Terminated \/ UNCHANGED vars
  BY <1>2 DEF Terminated, vars, envVars
<1>3. CASE StartNewQuery \/ NextBit \/ TryExtendKnown \/ CountQuery
  BY <1>3 DEF StartNewQuery, NextBit, TryExtendKnown, CountQuery, envVars
<1>4. CASE FinishInternalNodes \/ CountQueryReturns \/ MarkLoop \/ QueryParent \/ MarkQuery
  BY <1>4 DEF FinishInternalNodes, CountQueryReturns, MarkLoop, QueryParent, MarkQuery,
              envVars
<1>5. CASE ScorePath \/ FinishPath \/ Reset \/ LastIteration
  BY <1>5 DEF ScorePath, FinishPath, Reset, LastIteration, envVars
<1> QED  BY <1>1, <1>2, <1>3, <1>4, <1>5 DEF Next

\* A choice is filled up because it is full.
LEMMA FillsFull ==
    ASSUME Steady, TypeInv, WriteInv, Countable, ExploreInv, [Next]_vars, pc' = "internal",
           pc = "internal" => Limited(store[qry])
    PROVE  Limited(store'[qry'])
<1>1. ~LeaveBoring /\ ~OtherQueryFails
  BY DEF LeaveBoring, OtherQueryFails, ExploreInv, NothingFails, Steady
<1>2. CASE Terminated \/ UNCHANGED vars
  BY <1>2 DEF Terminated, vars, treeVars
<1>3. CASE CountQuery
  BY <1>3, CountTable
<1>4. ~StartNewQuery /\ ~NextBit /\ ~CountQueryReturns
  BY DEF StartNewQuery, NextBit, CountQueryReturns, Crash
<1>5. ~TryExtendKnown
  BY KnownStep DEF Extend, Crash
<1>6. ~TryExtendAsk
  BY AskStep DEF SolverFailure, Extend, Crash
<1>7. ~FinishInternalNodes /\ ~ScorePath /\ ~FinishPath /\ ~Reset /\ ~LastIteration
  BY DEF FinishInternalNodes, ScorePath, FinishPath, Reset, LastIteration
<1>8. ~MarkLoop /\ ~QueryParent /\ ~MarkQuery
  BY MarkLoopStep, QueryStep
<1> QED
  BY <1>1, <1>2, <1>3, <1>4, <1>5, <1>6, <1>7, <1>8 DEF Next

LEMMA NextFeas ==
    ASSUME Truthful, TypeInv, WriteInv, Countable, ExploreInv, FeasInv, [Next]_vars,
           TypeInv'
    PROVE  FeasInv'
<1>0. Steady
  BY DEF Truthful, Steady
<1>1. \A n \in Nodes : UnderLimit(n) => UnderLimit(n)'
  BY <1>0, LimitStays
<1>2. \A n \in Nodes, b \in BOOLEAN :
        /\ store[n].child[b] = "sat" => b \in feas[n]
        /\ store[n].child[b] = "unsat" =>
             UnderLimit(n) \/ (feas[n] # {} /\ b \notin feas[n])
  BY DEF FeasInv, FeasTrue
<1>3. FeasTrue'
  <2>1. CASE feas' = feas /\ SameTree
    <3>1. \A n \in Nodes, b \in BOOLEAN : store'[n].child[b] = store[n].child[b]
      BY <2>1 DEF SameTree
    <3> QED  BY <1>1, <1>2, <2>1, <3>1 DEF FeasTrue
  <2>2. CASE feas' = feas /\ MarkLoop
    <3>1. \A n \in Nodes, b \in BOOLEAN : store'[n].child[b] = store[n].child[b]
      BY <2>2, MarkLoopStep
    <3> QED  BY <1>1, <1>2, <2>2, <3>1 DEF FeasTrue
  <2>3. CASE feas' = feas /\ FinishInternalNodes
    <3>1. pc = "internal" /\ qry \in Nodes
      BY <2>3 DEF FinishInternalNodes, TypeInv, TreeTypeOK
    <3>2. \A n \in Nodes, b \in BOOLEAN :
            store'[n].child[b] =
              IF n \in Internal(store, qry) /\ store[n].child[b] = "unknown"
              THEN "unsat" ELSE store[n].child[b]
      BY <2>3, FillStep
    <3>3. \A n \in Nodes : n \in Internal(store, qry) => UnderLimit(n)
      BY <3>1 DEF FeasInv, UnderLimit
    <3> QED  BY <1>1, <1>2, <2>3, <3>2, <3>3 DEF FeasTrue
  <2>4. CASE TryExtendAsk
    <3>1. /\ \A n \in Nodes \ {cur} : store'[n] = store[n]
          /\ cur \in Nodes
          /\ \E F \in SUBSET BOOLEAN : \E a \in Answers(F) :
               /\ Consult(F)
               /\ \A b \in BOOLEAN : /\ store'[cur].child[b] = "sat" => a[b] = "sat"
                                     /\ store'[cur].child[b] = "unsat" => Refused(a, b)
      BY <1>0, <2>4, AskTree
    <3>2. PICK F \in SUBSET BOOLEAN : \E a \in Answers(F) :
            /\ Consult(F)
            /\ \A b \in BOOLEAN : /\ store'[cur].child[b] = "sat" => a[b] = "sat"
                                  /\ store'[cur].child[b] = "unsat" => Refused(a, b)
      BY <3>1
    <3>3. PICK a \in Answers(F) :
            /\ Consult(F)
            /\ \A b \in BOOLEAN : /\ store'[cur].child[b] = "sat" => a[b] = "sat"
                                  /\ store'[cur].child[b] = "unsat" => Refused(a, b)
      BY <3>2
    <3>4. F # {} /\ feas' = [feas EXCEPT ![cur] = F]
      BY <3>3 DEF Consult
    <3>5. feas'[cur] = F /\ \A n \in Nodes \ {cur} : feas'[n] = feas[n]
      BY <3>1, <3>4 DEF TypeInv, RestTypeOK
    <3>6. \A b \in BOOLEAN : a[b] \in {"sat", "unsat", "fail"}
                             /\ (a[b] = "sat" => b \in F)
                             /\ (a[b] = "unsat" => b \notin F)
                             /\ (a[b] = "fail" => SolverMayFail)
      BY DEF Answers
    <3>7. \A b \in BOOLEAN : Refused(a, b) => b \notin F
      BY <3>6 DEF Refused, Raises, Truthful
    <3>8. \A b \in BOOLEAN : /\ store'[cur].child[b] = "sat" => b \in feas'[cur]
                             /\ store'[cur].child[b] = "unsat" =>
                                  feas'[cur] # {} /\ b \notin feas'[cur]
      BY <3>3, <3>4, <3>5, <3>6, <3>7
    <3>9. \A n \in Nodes : n # cur => store'[n] = store[n] /\ feas'[n] = feas[n]
      BY <3>1, <3>5
    <3> QED  BY <1>1, <1>2, <3>8, <3>9 DEF FeasTrue
  <2> QED  BY <1>0, <2>1, <2>2, <2>3, <2>4, FeasChosen, QuietSteps
<1>4. pc' = "internal" => Limited(store'[qry'])
  BY <1>0, FillsFull DEF FeasInv
<1> QED  BY <1>3, <1>4 DEF FeasInv

LEMMA InitFeas == Init => FeasInv
<1> SUFFICES ASSUME Init PROVE FeasInv
  OBVIOUS
<1>1. \A n \in Nodes, b \in BOOLEAN : store[n].child[b] = "unknown"
  BY DEF Init, FreshNode
<1>2. pc = "run"
  BY DEF Init
<1> QED  BY <1>1, <1>2 DEF FeasInv, FeasTrue

LEMMA FeasAlways ==
    ASSUME Truthful
    PROVE  Spec /\ []Countable => []FeasInv
<1>0. Steady
  BY DEF Truthful, Steady
<1>1. TypeInv /\ WriteInv /\ ExploreInv /\ Countable /\ FeasInv /\ [Next]_vars /\ TypeInv' =>
        FeasInv'
  BY NextFeas
<1>2. Spec /\ []Countable => [](TypeInv /\ WriteInv /\ ExploreInv)
  BY <1>0, ExploresAlways
<1> QED  BY <1>1, <1>2, InitFeas, PTL DEF Spec

-----------------------------------------------------------------------------
(* Nearest query nodes, and completeness.                                  *)

\* q is the lowest query node at or above n.
IsNearest(S, q, n) ==
    /\ Below(q, n) /\ IsQuery(S[q])
    /\ \A a \in Nodes : Below(q, a) /\ Below(a, n) /\ IsQuery(S[a]) => a = q

\* There is one such node only.
LEMMA NearestIsUnique ==
    ASSUME NEW S, NEW n \in Nodes, NEW p \in Nodes, NEW q \in Nodes,
           IsNearest(S, p, n), IsNearest(S, q, n)
    PROVE  p = q
<1>1. Below(p, q) \/ Below(q, p)
  BY AboveComparable DEF IsNearest
<1> QED  BY <1>1 DEF IsNearest

\* NearestQuery names it.
LEMMA NearestIs ==
    ASSUME NEW n \in Nodes, NEW q \in Nodes, IsNearest(store, q, n)
    PROVE  NearestQuery(n) = q
<1>1. \A p \in Nodes :
        (/\ Below(p, n) /\ IsQuery(store[p])
         /\ \A a \in Nodes : Below(p, a) /\ Below(a, n) /\ IsQuery(store[a]) => a = p)
        <=> p = q
  BY NearestIsUnique DEF IsNearest
<1> QED  BY <1>1 DEF NearestQuery

\* There is one, since the root is a query node.
LEMMA NearestExists ==
    ASSUME NEW n \in Nodes, IsQuery(store[Root])
    PROVE  \E q \in Nodes : IsNearest(store, q, n)
<1> DEFINE X == {a \in Nodes : Below(a, n) /\ IsQuery(store[a])}
<1>1. Root \in X
  BY RootIsNode, BelowOrder
<1>2. PICK q \in X : \A a \in X : Len(a) =< Len(q)
  BY <1>1, Extremes
<1>3. ASSUME NEW a \in Nodes, Below(q, a), Below(a, n), IsQuery(store[a])
      PROVE  a = q
  <2>1. Len(a) =< Len(q)
    BY <1>2, <1>3
  <2>2. Len(a) \in Nat /\ Len(q) \in Nat
    BY NodesAreSequences
  <2> QED  BY <1>3, <2>1, <2>2, BelowOrder
<1> QED  BY <1>3 DEF IsNearest

\* A node that belongs to a choice is nearest to the query it starts with.
LEMMA ChoiceNearest ==
    ASSUME NEW q \in Nodes, IsQuery(store[q]), NEW n \in Internal(store, q)
    PROVE  n \in Nodes /\ IsNearest(store, q, n)
<1>1. /\ n \in Nodes /\ Below(q, n)
      /\ \A a \in {n} \cup Between(q, n) : a = q \/ ~IsQuery(store[a])
  BY DEF Internal
<1>2. \A a \in Nodes : Below(q, a) /\ Below(a, n) => a \in {n} \cup Between(q, n)
  BY DEF Between
<1> QED  BY <1>1, <1>2 DEF IsNearest

\* When the loop gives up, every feasible direction of every node reached has
\* been followed, except where a path ended or the branch limit cut it off, as
\* long as no query but a branch's fails and no timeout is taken for a refusal.
THEOREM CompleteAlways ==
    ASSUME Truthful
    PROVE  Spec /\ []Countable => []Complete
<1>0. Steady
  BY DEF Truthful, Steady
<1>1. ASSUME TypeInv, ExploreInv, EndInv, FeasInv PROVE Complete
  <2> SUFFICES ASSUME pc = "done", NEW n \in Nodes, Created(store, n), n \notin explored,
                      ~Limited(store[NearestQuery(n)])
               PROVE  feas[n] # {} /\ \A b \in feas[n] : store[n].child[b] = "sat"
    BY DEF Complete
  <2>1. store[Root].all_seen
    BY <1>1 DEF EndInv, RootGone
  <2>2. store[n].all_seen
    BY <1>1, <2>1, RootIsNode, BelowOrder, SeenSubtree DEF ExploreInv, TreeShape
  <2>3. Closed(store, n)
    BY <1>1, <2>2 DEF EndInv, WhyGone, Gone
  <2>4. ~UnderLimit(n)
    <3> SUFFICES ASSUME UnderLimit(n) PROVE FALSE
      OBVIOUS
    <3>1. PICK q \in Nodes : Limited(store[q]) /\ n \in Internal(store, q)
      BY DEF UnderLimit
    <3>2. NearestQuery(n) = q
      BY <3>1, ChoiceNearest, NearestIs DEF Limited
    <3> QED  BY <3>1, <3>2
  <2>5. \A b \in BOOLEAN : /\ store[n].child[b] = "sat" => b \in feas[n]
                           /\ store[n].child[b] = "unsat" =>
                                feas[n] # {} /\ b \notin feas[n]
    BY <1>1, <2>4 DEF FeasInv, FeasTrue
  <2>6. \A b \in BOOLEAN : store[n].child[b] \in {"sat", "unsat"}
    BY <2>3 DEF Closed, Seen
  <2>7. feas[n] # {}
    BY <2>5, <2>6
  <2>8. \A b \in feas[n] : b \in BOOLEAN
    BY <1>1 DEF TypeInv, RestTypeOK
  <2> QED  BY <2>5, <2>6, <2>7, <2>8
<1> QED  BY <1>0, <1>1, ExploresAlways, EndsAlways, FeasAlways, PTL

-----------------------------------------------------------------------------
(* query_children counts the counted nodes of the choice.                  *)

\* The counted nodes whose nearest query node strictly above is q.
Counted(S, q) ==
    {m \in Nodes \ {q} :
        Below(q, m) /\ S[m].query_counted /\ IsNearest(S, q, Parent(m))}

CountsInv ==
    \A q \in Nodes : IsQuery(store[q]) =>
        /\ IsFiniteSet(Counted(store, q))
        /\ store[q].query_children = Cardinality(Counted(store, q))

\* What is counted, and where, is all that the sets depend on.
LEMMA CountedDepends ==
    ASSUME NEW S, NEW R, NEW q \in Nodes,
           \A n \in Nodes : /\ R[n].query_counted = S[n].query_counted
                            /\ IsQuery(R[n]) <=> IsQuery(S[n])
    PROVE  Counted(R, q) = Counted(S, q)
<1>1. \A n : IsNearest(R, q, n) <=> IsNearest(S, q, n)
  BY DEF IsNearest
<1> QED  BY <1>1 DEF Counted

\* A node is above what is below it only if it is not among what is above its
\* parent.
LEMMA ParentAbove ==
    ASSUME NEW n \in Nodes, n # Root, NEW a \in Nodes
    PROVE  /\ Parent(n) \in Nodes
           /\ Below(a, n) <=> a = n \/ Below(a, Parent(n))
           /\ ~Below(n, Parent(n))
<1>1. /\ Parent(n) \in Nodes /\ Len(Parent(n)) =< PathDepthLimit
      /\ Len(Parent(n)) = Len(n) - 1 /\ Len(n) \in Nat \ {0}
      /\ n[Len(n)] \in BOOLEAN /\ Kid(Parent(n), n[Len(n)]) = n
  BY ParentHistory
<1>2. Below(a, n) <=> a = n \/ Below(a, Parent(n))
  BY <1>1, AboveKid
<1>3. ~Below(n, Parent(n))
  BY <1>1 DEF Below
<1> QED  BY <1>1, <1>2, <1>3

\* Below a node that goes no further nothing is counted.
LEMMA NothingCountedBelow ==
    ASSUME ExploreInv, NEW n \in Nodes, ~HasKid(store[n]), NEW m \in Nodes,
           Below(n, m), m # n
    PROVE  ~store[m].query_counted
<1>1. FreshBelow(store)
  BY DEF ExploreInv, TreeShape
<1>2. ~Created(store, m)
  <2> SUFFICES ASSUME Created(store, m) PROVE FALSE
    OBVIOUS
  <2>1. \E b \in BOOLEAN : store[n].child[b] = "sat"
    BY <1>1, WayDown
  <2> QED  BY <2>1 DEF HasKid
<1> QED  BY <1>1, <1>2 DEF FreshBelow, FreshNode

\* count_query adds the current node to its query's count, and starts a count
\* of its own.
LEMMA CountQueryCounts ==
    ASSUME TypeInv, WriteInv, Countable, ExploreInv, CountsInv, CountQuery
    PROVE  CountsInv'
<1>1. /\ pc = "run" /\ inq /\ cur # qry
      /\ \A n \in Nodes \ {cur, qry} : store'[n] = store[n]
      /\ store[qry].query_children \in Nat
      /\ store'[qry].query_counted = store[qry].query_counted
      /\ store'[qry].query_children =
           IF store[cur].query_counted THEN store[qry].query_children
                                       ELSE store[qry].query_children + 1
      /\ store'[cur].query_counted = TRUE
      /\ store'[cur].query_children =
           IF IsQuery(store[cur]) THEN store[cur].query_children ELSE 0
      /\ ~store[cur].query_counted =>
           ~IsQuery(store[cur]) /\ cur # Root /\ ~HasKid(store[cur])
      /\ IsQuery(store'[cur]) /\ IsQuery(store'[qry])
  BY CountTable
<1>2. /\ store \in [Nodes -> NodeRec] /\ cur \in Nodes /\ qry \in Nodes
      /\ Below(qry, cur) /\ IsQuery(store[qry])
  BY <1>1, AtRun
<1>3. cur # Root
  BY <1>1, <1>2, RootIsNode, BelowOrder
<1>4. CASE store[cur].query_counted
  <2>1. IsQuery(store[cur])
    BY <1>2, <1>3, <1>4 DEF ExploreInv, ProgMatch, NodeMatches
  <2>2. \A n \in Nodes : /\ store'[n].query_counted = store[n].query_counted
                         /\ store'[n].query_children = store[n].query_children
    BY <1>1, <1>2, <1>4, <2>1 DEF NodeRec
  <2>3. \A n \in Nodes : IsQuery(store'[n]) <=> IsQuery(store[n])
    BY <2>2 DEF IsQuery
  <2>4. \A q \in Nodes : Counted(store', q) = Counted(store, q)
    BY <2>2, <2>3, CountedDepends
  <2> QED  BY <2>2, <2>3, <2>4 DEF CountsInv
<1>5. CASE ~store[cur].query_counted
  <2>1. ~IsQuery(store[cur]) /\ ~HasKid(store[cur])
    BY <1>1, <1>5
  <2>2. /\ \A n \in Nodes \ {cur} : /\ store'[n].query_counted = store[n].query_counted
                                    /\ IsQuery(store'[n]) <=> IsQuery(store[n])
        /\ \A n \in Nodes \ {cur, qry} : store'[n].query_children = store[n].query_children
    BY <1>1, <1>2
  <2>3. \A m \in Nodes : Below(cur, m) /\ m # cur => ~store[m].query_counted
    BY <1>2, <2>1, NothingCountedBelow
  <2>4. Counted(store', cur) = {}
    BY <2>2, <2>3 DEF Counted
  <2>5. ASSUME NEW q \in Nodes, q # cur, NEW n \in Nodes, ~Below(cur, n)
        PROVE  IsNearest(store', q, n) <=> IsNearest(store, q, n)
    <3>1. \A a \in Nodes : Below(a, n) => (IsQuery(store'[a]) <=> IsQuery(store[a]))
      BY <2>2, <2>5
    <3> QED  BY <2>2, <2>5, <3>1 DEF IsNearest
  <2>6. ASSUME NEW q \in Nodes, q # cur, NEW m \in Nodes, m # cur, m # q, Below(q, m)
        PROVE  m \in Counted(store', q) <=> m \in Counted(store, q)
    <3>1. m # Root
      BY <2>6, RootIsNode, BelowOrder
    <3>2. store'[m].query_counted = store[m].query_counted
      BY <2>2, <2>6
    <3>3. CASE Below(cur, m)
      BY <2>3, <2>6, <3>2, <3>3 DEF Counted
    <3>4. CASE ~Below(cur, m)
      <4>1. Parent(m) \in Nodes /\ ~Below(cur, Parent(m))
        BY <1>2, <3>1, <3>4, ParentAbove
      <4>2. IsNearest(store', q, Parent(m)) <=> IsNearest(store, q, Parent(m))
        BY <2>5, <2>6, <4>1
      <4> QED  BY <3>2, <4>2 DEF Counted
    <3> QED  BY <3>3, <3>4
  <2>7. Parent(cur) \in Nodes /\ ~Below(cur, Parent(cur))
    BY <1>2, <1>3, ParentAbove
  <2>8. IsNearest(store, qry, Parent(cur))
    <3>1. \A a \in Nodes : Below(qry, a) /\ Below(a, cur) /\ IsQuery(store[a]) => a \in {qry, cur}
      BY <1>1 DEF ExploreInv, ChoiceOpen
    <3>2. \A a \in Nodes : Below(a, cur) <=> a = cur \/ Below(a, Parent(cur))
      BY <1>2, <1>3, ParentAbove
    <3> QED  BY <1>1, <1>2, <2>7, <3>1, <3>2 DEF IsNearest
  <2>9. ASSUME NEW q \in Nodes, q # cur
        PROVE  cur \in Counted(store', q) <=> q = qry
    <3>1. IsNearest(store', q, Parent(cur)) <=> IsNearest(store, q, Parent(cur))
      BY <2>5, <2>7, <2>9
    <3>2. IsNearest(store, q, Parent(cur)) <=> q = qry
      BY <1>2, <2>7, <2>8, NearestIsUnique
    <3> QED  BY <1>1, <1>2, <2>9, <3>1, <3>2 DEF Counted
  <2>10. \A q \in Nodes : cur \notin Counted(store, q)
    BY <1>5 DEF Counted
  <2>11. \A S, q : Counted(S, q) \subseteq Nodes
    BY DEF Counted
  <2>12. \A S, q, m : m \in Counted(S, q) => m # q /\ Below(q, m)
    BY DEF Counted
  <2>13. \A q \in Nodes \ {cur, qry} : Counted(store', q) = Counted(store, q)
    BY <2>6, <2>9, <2>10, <2>11, <2>12
  <2>14. Counted(store', qry) = Counted(store, qry) \cup {cur}
    BY <1>1, <1>2, <2>6, <2>9, <2>10, <2>11, <2>12
  <2>15. /\ IsFiniteSet(Counted(store, qry))
         /\ store[qry].query_children = Cardinality(Counted(store, qry))
    BY <1>2 DEF CountsInv
  <2>16. /\ IsFiniteSet(Counted(store', qry))
         /\ store'[qry].query_children = Cardinality(Counted(store', qry))
    <3>1. /\ IsFiniteSet(Counted(store, qry) \cup {cur})
          /\ Cardinality(Counted(store, qry) \cup {cur}) = Cardinality(Counted(store, qry)) + 1
      BY <1>2, <2>10, <2>15, FS_AddElement
    <3> QED  BY <1>1, <1>5, <2>14, <2>15, <3>1
  <2>17. /\ IsFiniteSet(Counted(store', cur))
         /\ store'[cur].query_children = Cardinality(Counted(store', cur))
    BY <1>1, <2>1, <2>4, FS_EmptySet
  <2>18. ASSUME NEW q \in Nodes \ {cur, qry}, IsQuery(store'[q])
         PROVE  /\ IsFiniteSet(Counted(store', q))
                /\ store'[q].query_children = Cardinality(Counted(store', q))
    BY <2>2, <2>13, <2>18 DEF CountsInv
  <2> QED  BY <2>16, <2>17, <2>18 DEF CountsInv
<1> QED  BY <1>4, <1>5

LEMMA NextCounts ==
    ASSUME Steady, TypeInv, WriteInv, Countable, ExploreInv, CountsInv, [Next]_vars
    PROVE  CountsInv'
<1>1. CASE SameCounts
  <2>1. \A n \in Nodes : /\ store'[n].query_counted = store[n].query_counted
                         /\ store'[n].query_children = store[n].query_children
                         /\ IsQuery(store'[n]) <=> IsQuery(store[n])
    BY <1>1 DEF SameCounts, IsQuery
  <2>2. \A q \in Nodes : Counted(store', q) = Counted(store, q)
    BY <2>1, CountedDepends
  <2> QED  BY <2>1, <2>2 DEF CountsInv
<1> QED  BY <1>1, CountingStep, CountQueryCounts

LEMMA InitCounts == Init => CountsInv
<1> SUFFICES ASSUME Init PROVE CountsInv
  OBVIOUS
<1>1. \A n \in Nodes : /\ ~store[n].query_counted
                       /\ IsQuery(store[n]) => store[n].query_children = 0
  BY DEF Init, FreshNode, IsQuery, None
<1>2. \A q \in Nodes : Counted(store, q) = {}
  BY <1>1 DEF Counted
<1> QED  BY <1>1, <1>2, FS_EmptySet DEF CountsInv

\* query_children is the number of counted nodes whose nearest query node
\* above is this one, and does not exceed the limit: no node is counted twice
\* or in two queries, as long as no query but a branch's fails and no direction
\* is pretended.
THEOREM CountsExactAlways ==
    ASSUME Steady
    PROVE  Spec /\ []Countable => []CountsExact
<1>1. TypeInv /\ WriteInv /\ ExploreInv /\ Countable /\ CountsInv /\ [Next]_vars =>
        CountsInv'
  BY NextCounts
<1>2. ASSUME ExploreInv, CountsInv PROVE CountsExact
  <2>1. IsQuery(store[Root])
    BY <1>2 DEF ExploreInv, ProgMatch
  <2>2. \A q \in Nodes, n \in Nodes : NearestQuery(n) = q <=> IsNearest(store, q, n)
    BY <2>1, NearestExists, NearestIs
  <2>3. ASSUME NEW q \in Nodes
        PROVE  {m \in Nodes \ {q} : /\ Below(q, m) /\ store[m].query_counted
                                    /\ NearestQuery(Parent(m)) = q} = Counted(store, q)
    <3>1. \A m \in Nodes : Below(q, m) /\ m # q => Parent(m) \in Nodes
      BY RootIsNode, BelowOrder, ParentHistory
    <3>2. \A m \in Nodes : Below(q, m) /\ m # q =>
            (NearestQuery(Parent(m)) = q <=> IsNearest(store, q, Parent(m)))
      BY <2>2, <3>1
    <3> QED  BY <3>2 DEF Counted
  <2> QED  BY <1>2, <2>3 DEF CountsExact, CountsInv, ExploreInv, CountsLimited
<1> QED  BY <1>1, <1>2, InitCounts, ExploresAlways, PTL DEF Spec

=============================================================================
