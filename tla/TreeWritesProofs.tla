-------------------------- MODULE TreeWritesProofs ---------------------------
(***************************************************************************)
(* No write of a whole record loses what the table holds, taken write by   *)
(* write and with signals between any two of them.  The argument is that   *)
(* the copies which will still be written agree with the table: those of   *)
(* `cur' and `cur_query' outside finish_internal_nodes (WriteInv), and     *)
(* inside it the copies of the calls in progress, all but the mark.        *)
(***************************************************************************)
EXTENDS TreeWrites, DecisionTreeProofs

\* Nodes beyond the depth limit have no kids: extend has raised DeepPath.
DeepestHaveNoKids ==
    \A n \in Nodes : Len(n) > PathDepthLimit => \A b \in BOOLEAN : store[n].child[b] # "sat"

\* s is r but for the mark.
SameButMark(r, s) == s = [r EXCEPT !.all_seen = s.all_seen]

\* The calls of finish_internal_nodes are those for the nodes from cur_query
\* down to the innermost one, which are no query nodes.  Their copies agree
\* with the table, that of cur_query as long as no assertion has failed.
CallOK(i) ==
    /\ Len(frames[i].node) = Len(qry) + (Len(frames) - i)
    /\ i = Len(frames) => frames[i].node = qry
    /\ i < Len(frames) => /\ frames[i].node # Root
                          /\ Parent(frames[i].node) = frames[i + 1].node
                          /\ ~IsQuery(store[frames[i].node])
    /\ weird = 0 \/ frames[i].node # qry =>
           SameButMark(store[frames[i].node], Copy(frames[i]))

\* The nodes whose marking the calls can bring about.
CallNodes ==
    {n \in Nodes : Len(n) =< Len(qry) \/ \E i \in 1..Len(frames) : frames[i].node = n}

CallsOK == \A i \in 1..Len(frames) : CallOK(i)
MarksOK == \A i \in 1..Len(todo) : todo[i].node \in CallNodes

\* While finish_internal_nodes is running: `cur' has become a query node below
\* cur_query, so neither the calls nor the marking get at it.
Finishing ==
    /\ ~inq /\ IsQuery(curRec) /\ Len(qry) < Len(cur)
    /\ CallsOK /\ MarksOK

CallsInv ==
    /\ frames \in Seq(Frame) /\ climb \in {<< >>} \cup {<<n>> : n \in Nodes} /\ signals \in Nat
    /\ CountsRead /\ CurAgrees /\ DeepestHaveNoKids
    /\ IF pc = "count" THEN Finishing ELSE WriteInv
    /\ pc \in {"count", "crashed"} \/ frames = << >>
    /\ climb # << >> => pc \in {"run", "mark"} /\ (pc = "run" => ~inq)

\* The step keeps what the table holds, as NoLostUpdate says.
KeepsFacts ==
    weird = 0 =>
        \A n \in Nodes :
            /\ HoldsFacts(store[n], store'[n])
            /\ store[n].all_seen => store'[n].all_seen \/ StaleCall(n)

-----------------------------------------------------------------------------
(* Sequences, nodes and records.                                           *)

\* A call put in front of the others becomes the first one.
LEMMA PushFrame ==
    ASSUME NEW x \in Frame, NEW t \in Seq(Frame)
    PROVE  /\ <<x>> \o t \in Seq(Frame) /\ Len(<<x>> \o t) = Len(t) + 1
           /\ (<<x>> \o t)[1] = x
           /\ \A i \in 1..Len(t) : (<<x>> \o t)[i + 1] = t[i]
OBVIOUS

\* A return leaves the calls of the callers.
LEMMA PopFrame ==
    ASSUME NEW s \in Seq(Frame), s # << >>
    PROVE  /\ Head(s) = s[1] /\ 1 \in 1..Len(s) /\ s[1] \in Frame
           /\ Tail(s) \in Seq(Frame) /\ Len(Tail(s)) = Len(s) - 1
           /\ \A i \in 1..Len(Tail(s)) : Tail(s)[i] = s[i + 1]
OBVIOUS

\* The pending calls of the marking stay within a set of nodes when the calls
\* that replace the first one do.
LEMMA TodoWithin ==
    ASSUME NEW t \in Seq(MarkOp), NEW up \in Seq(MarkOp), NEW A,
           \A i \in 1..Len(up) : up[i].node \in A,
           \A i \in 1..Len(t) : t[i].node \in A
    PROVE  \A i \in 1..Len(up \o t) : (up \o t)[i].node \in A
<1> TAKE i \in 1..Len(up \o t)
<1>1. (up \o t)[i] = IF i =< Len(up) THEN up[i] ELSE t[i - Len(up)]
  OBVIOUS
<1>2. i \in 1..(Len(up) + Len(t))
  OBVIOUS
<1>3. CASE i =< Len(up)
  BY <1>1, <1>2, <1>3
<1>4. CASE i > Len(up)
  <2>1. i - Len(up) \in 1..Len(t)
    BY <1>2, <1>4
  <2>2. (up \o t)[i] = t[i - Len(up)]
    BY <1>1, <1>2, <1>4
  <2> QED  BY <2>1, <2>2
<1> QED  BY <1>2, <1>3, <1>4

\* get_parent undoes get_f_child and get_t_child.
LEMMA ParentOfKid ==
    ASSUME NEW n \in Nodes, NEW b \in BOOLEAN, Kid(n, b) \in Nodes
    PROVE  Kid(n, b) # Root /\ Parent(Kid(n, b)) = n
<1>1. n \in Seq(BOOLEAN)
  BY NodesAreSequences
<1>2. Kid(n, b) \in Seq(BOOLEAN) /\ Len(Kid(n, b)) = Len(n) + 1
      /\ \A i \in 1..Len(n) : Kid(n, b)[i] = n[i]
  BY <1>1 DEF Kid
<1>3. Kid(n, b) # Root
  BY <1>1, <1>2 DEF Root
<1>4. /\ Parent(Kid(n, b)) \in Seq(BOOLEAN) /\ Len(Parent(Kid(n, b))) = Len(n)
      /\ \A i \in 1..Len(n) : Parent(Kid(n, b))[i] = Kid(n, b)[i]
  BY <1>1, <1>2, <1>3, ParentDropsLast
<1> QED  BY <1>1, <1>2, <1>3, <1>4

\* A call that is made begins with the false direction.
LEMMA CalledType ==
    ASSUME NEW n \in Nodes, NEW r \in NodeRec
    PROVE  /\ Called(n, r) \in Frame
           /\ Called(n, r).node = n /\ Called(n, r).copy = r
BY DEF Called, Frame

\* What loses nothing keeps the facts.
LEMMA LosesNothingKeeps == LosesNothing => KeepsFacts
BY DEF LosesNothing, KeepsFacts, HoldsAll, HoldsFacts

\* Records with the same facts hold each other's.
LEMMA MarkAside ==
    ASSUME NEW r \in NodeRec, NEW s \in NodeRec, SameButMark(r, s)
    PROVE  /\ HoldsFacts(r, s) /\ s.query_children = r.query_children
           /\ s.child = r.child /\ (IsQuery(s) <=> IsQuery(r))
           /\ \A a \in BOOLEAN : SameButMark([r EXCEPT !.all_seen = a], s)
           /\ [s EXCEPT !.all_seen = TRUE] = [r EXCEPT !.all_seen = TRUE]
<1>1. /\ s.child = r.child /\ s.query_children = r.query_children
      /\ s.query_counted = r.query_counted
      /\ s.heur_min = r.heur_min /\ s.heur_max = r.heur_max
  BY DEF SameButMark, NodeRec
<1>2. HoldsFacts(r, s) /\ (IsQuery(s) <=> IsQuery(r))
  BY <1>1 DEF HoldsFacts, IsQuery, NodeRec
<1>3. \A a \in BOOLEAN : SameButMark([r EXCEPT !.all_seen = a], s)
  BY DEF SameButMark, NodeRec
<1>4. [s EXCEPT !.all_seen = TRUE] = [r EXCEPT !.all_seen = TRUE]
  BY DEF SameButMark, NodeRec
<1> QED  BY <1>1, <1>2, <1>3, <1>4

\* A record is the same as itself.
LEMMA SameAsItself ==
    ASSUME NEW r \in NodeRec
    PROVE  SameButMark(r, r) /\ HoldsFacts(r, r)
BY DEF SameButMark, HoldsFacts, NodeRec

\* A marked record differs from the one it was by the mark.
LEMMA MarkedRecord ==
    ASSUME NEW r \in NodeRec, NEW s, s = [r EXCEPT !.all_seen = TRUE]
    PROVE  /\ s \in NodeRec /\ HoldsFacts(r, s) /\ s.all_seen
           /\ s.query_children = r.query_children /\ s.child = r.child
           /\ [s EXCEPT !.all_seen = TRUE] = [r EXCEPT !.all_seen = TRUE]
           /\ \A t \in NodeRec : SameButMark(r, t) => SameButMark(s, t)
<1>1. s \in NodeRec
  BY AllSeenUpdateType
<1>2. /\ s.all_seen /\ s.query_children = r.query_children /\ s.child = r.child
      /\ s.query_counted = r.query_counted
      /\ s.heur_min = r.heur_min /\ s.heur_max = r.heur_max
  BY DEF NodeRec
<1>3. HoldsFacts(r, s)
  BY <1>2 DEF HoldsFacts, NodeRec
<1>4. [s EXCEPT !.all_seen = TRUE] = [r EXCEPT !.all_seen = TRUE]
  BY DEF NodeRec
<1>5. \A t \in NodeRec : SameButMark(r, t) => SameButMark(s, t)
  BY MarkAside
<1> QED  BY <1>1, <1>2, <1>3, <1>4, <1>5

-----------------------------------------------------------------------------
(* Calls and the nodes they mark.                                          *)

\* The marking climbs from a call's node to its caller's, and from cur_query
\* to nodes nearer to the root.
LEMMA CallNodesClimb ==
    ASSUME TypeInv, frames \in Seq(Frame), CallsOK, NEW n \in CallNodes, n # Root
    PROVE  Parent(n) \in CallNodes
<1>1. n \in Nodes /\ Parent(n) \in Nodes /\ Len(n) \in Nat /\ Len(Parent(n)) = Len(n) - 1
  BY ParentIsNode, ParentDropsLast DEF CallNodes
<1>2. qry \in Nodes /\ Len(qry) \in Nat
  BY NodesAreSequences DEF TypeInv, TreeTypeOK
<1>3. CASE Len(n) =< Len(qry)
  BY <1>1, <1>2, <1>3 DEF CallNodes
<1>4. CASE \E i \in 1..Len(frames) : frames[i].node = n
  <2>1. PICK i \in 1..Len(frames) : frames[i].node = n
    BY <1>4
  <2>2. CallOK(i) /\ Len(frames) \in Nat
    BY DEF CallsOK
  <2>3. CASE i = Len(frames)
    BY <1>1, <1>2, <2>1, <2>2, <2>3 DEF CallOK, CallNodes
  <2>4. CASE i < Len(frames)
    <3>1. i + 1 \in 1..Len(frames) /\ Parent(n) = frames[i + 1].node
      BY <2>1, <2>2, <2>4 DEF CallOK
    <3> QED  BY <1>1, <3>1 DEF CallNodes
  <2> QED  BY <2>2, <2>3, <2>4
<1> QED  BY <1>3, <1>4 DEF CallNodes

\* `cur' is none of them.
LEMMA CallNodesNotCur ==
    ASSUME TypeInv, CurAgrees, frames \in Seq(Frame), Finishing
    PROVE  cur \notin CallNodes
<1>1. Len(qry) \in Nat /\ Len(cur) \in Nat /\ Len(qry) < Len(cur) /\ IsQuery(store[cur])
  BY NodesAreSequences DEF TypeInv, TreeTypeOK, Finishing, CurAgrees
<1>2. ASSUME NEW i \in 1..Len(frames) PROVE frames[i].node # cur
  <2>1. CallOK(i) /\ Len(frames) \in Nat
    BY DEF Finishing, CallsOK
  <2>2. CASE i = Len(frames)
    BY <1>1, <2>1, <2>2 DEF CallOK
  <2>3. CASE i < Len(frames)
    BY <1>1, <2>1, <2>3 DEF CallOK
  <2> QED  BY <2>1, <2>2, <2>3
<1> QED  BY <1>1, <1>2 DEF CallNodes

-----------------------------------------------------------------------------
(* The operations that are taken whole.                                    *)

\* A write that gives no node beyond the limit a kid.
LEMMA NoKidsAdded ==
    ASSUME DeepestHaveNoKids,
           \A n \in Nodes : store'[n].child = store[n].child \/ Len(n) =< PathDepthLimit
    PROVE  DeepestHaveNoKids'
<1> SUFFICES ASSUME NEW n \in Nodes, Len(n) > PathDepthLimit, NEW b \in BOOLEAN
             PROVE  store'[n].child[b] # "sat"
  BY DEF DeepestHaveNoKids
<1>1. Len(n) \in Nat /\ PathDepthLimit \in Nat
  BY NodesAreSequences, LimitsAssumption
<1>2. store'[n].child = store[n].child
  BY <1>1
<1> QED  BY <1>2 DEF DeepestHaveNoKids

\* try_extend writes the record of `cur' only, and counts nothing.
LEMMA TryExtendWritesCur ==
    ASSUME TypeInv, TryExtendKnown \/ TryExtendAsk \/ LeaveBoring
    PROVE  pc' # "count" /\ \A n \in Nodes \ {cur} : store'[n] = store[n]
<1> DEFINE P == pc' # "count" /\ \A n \in Nodes \ {cur} : store'[n] = store[n]
<1>0. store \in [Nodes -> NodeRec] /\ cur \in Nodes
  BY DEF TypeInv, TreeTypeOK
<1>1. ASSUME NEW r, store' = [store EXCEPT ![cur] = r] \/ UNCHANGED store, pc' # "count"
      PROVE  P
  BY <1>0, <1>1
<1> SUFFICES P
  OBVIOUS
<1> HIDE DEF P
<1>2. ASSUME Crash PROVE P
  BY <1>1, <1>2 DEF Crash, treeVars
<1>3. ASSUME NEW b, NEW r, NEW k, Extend(b, r, k) PROVE P
  BY <1>1, <1>2, <1>3 DEF Extend
<1>4. ASSUME NEW r, SolverFailure(r) PROVE P
  BY <1>1, <1>4 DEF SolverFailure
<1>5. ASSUME NEW b, NEW r, NEW k, BothFail(b, r, k) PROVE P
  BY <1>1, <1>3, <1>5 DEF BothFail, treeVars
<1>6. CASE TryExtendKnown
  BY <1>2, <1>3, <1>6 DEF TryExtendKnown
<1>7. CASE LeaveBoring
  BY <1>3, <1>7 DEF LeaveBoring
<1>8. CASE TryExtendAsk
  <2>1. PICK F \in SUBSET BOOLEAN, b \in BOOLEAN :
          /\ BothShape(b) \/ BoringShape(b) \/ CheckShape(b)
          /\ \E a \in Answers(F) :
               CASE BothShape(b) -> TryBoth(a, b)
                 [] BoringShape(b) -> TryOrBoring(a, b)
                 [] CheckShape(b) -> KnownCheck(a, b)
    BY <1>8 DEF TryExtendAsk
  <2>2. PICK a \in Answers(F) : TryBoth(a, b) \/ TryOrBoring(a, b) \/ KnownCheck(a, b)
    BY <2>1
  <2>3. CASE TryOrBoring(a, b)
    BY <1>1, <1>3, <1>4, <2>3 DEF TryOrBoring
  <2>4. CASE KnownCheck(a, b)
    BY <1>2, <1>3, <1>4, <2>4 DEF KnownCheck
  <2>5. CASE TryBoth(a, b)
    <3>1. a[b] \in {"sat", "unsat", "fail"} /\ a[~b] \in {"sat", "unsat", "fail"}
      BY DEF Answers
    <3>2. curRec.child[b] \in ChildStatus
      BY DEF TypeInv, TreeTypeOK, NodeRec
    <3> QED
      BY <1>2, <1>3, <1>4, <1>5, <2>5, <3>1, <3>2 DEF TryBoth, Raises, Refused
  <2> QED  BY <2>2, <2>3, <2>4, <2>5
<1> QED  BY <1>6, <1>7, <1>8

\* These operations give kids to `cur' only, which is within the limit then.
LEMMA WholeKids ==
    ASSUME TypeInv, WriteInv, DeepestHaveNoKids, pc # "count",
           \/ StartNewQuery \/ NextBit
           \/ TryExtendKnown \/ TryExtendAsk \/ LeaveBoring
           \/ CountQuery \/ MarkLoop \/ QueryParent \/ MarkQuery
           \/ OtherQueryFails \/ Reset \/ LastIteration \/ Terminated
    PROVE  DeepestHaveNoKids'
<1>1. /\ store \in [Nodes -> NodeRec] /\ cur \in Nodes /\ qry \in Nodes
      /\ curRec \in NodeRec /\ curRec = store[cur] /\ PathDepthLimit \in Nat
      /\ pc \in {"run", "try", "boring"} => Len(cur) =< PathDepthLimit
  BY LimitsAssumption DEF TypeInv, TreeTypeOK, DepthOK, WriteInv, CurAgrees
<1>2. Len(cur) \in Nat /\ Len(qry) \in Nat
  BY <1>1, NodesAreSequences
<1>3. CASE UNCHANGED store
  BY <1>3, NoKidsAdded
<1>4. CASE TryExtendKnown \/ TryExtendAsk \/ LeaveBoring
  <2>1. pc \in {"try", "boring"}
    BY <1>4 DEF TryExtendKnown, TryExtendAsk, LeaveBoring
  <2> QED  BY <1>1, <1>4, <2>1, TryExtendWritesCur, NoKidsAdded
<1>5. CASE CountQuery
  <2>1. pc = "run" /\ inq /\ cur # qry
    BY <1>5 DEF CountQuery
  <2>2. Len(qry) =< PathDepthLimit /\ Len(cur) =< PathDepthLimit
    BY <1>1, <1>2, <2>1 DEF WriteInv, QueryOpen, QueryAbove
  <2>3. \A n \in Nodes \ {cur, qry} : store'[n] = store[n]
    <3>1. ASSUME NEW r, NEW s, store' = [store EXCEPT ![qry] = r, ![cur] = s]
          PROVE  \A n \in Nodes \ {cur, qry} : store'[n] = store[n]
      BY <1>1, <3>1
    <3>2. UNCHANGED store \/ \E r, s : store' = [store EXCEPT ![qry] = r, ![cur] = s]
      <4>1. CASE TooWeird(FailedIf(~curRec.query_counted
                                   /\ qryRec.query_children >= QueryBranchLimit))
                 \/ qryRec.query_children = None
        BY <1>5, <4>1 DEF CountQuery, Crash, treeVars
      <4>2. CASE ~(TooWeird(FailedIf(~curRec.query_counted
                                     /\ qryRec.query_children >= QueryBranchLimit))
                   \/ qryRec.query_children = None)
        BY <1>5, <4>2 DEF CountQuery
      <4> QED  BY <4>1, <4>2
    <3> QED  BY <3>1, <3>2
  <2> QED  BY <2>2, <2>3, NoKidsAdded
<1>6. CASE MarkLoop
  <2> DEFINE n == Head(todo).node
  <2>1. MarkObject(n) = store[n] \/ n \notin Nodes
    BY <1>1 DEF MarkObject
  <2>2. UNCHANGED store
        \/ store' = [store EXCEPT ![n] = Stored([MarkObject(n) EXCEPT !.all_seen = TRUE])]
    BY <1>6 DEF MarkLoop, Crash, treeVars
  <2> HIDE DEF n
  <2>3. ASSUME NEW m \in Nodes PROVE store'[m].child = store[m].child
    <3>1. CASE m # n \/ UNCHANGED store
      BY <1>1, <2>2, <3>1
    <3>2. CASE m = n /\ ~UNCHANGED store
      <4>1. store'[m] = Stored([store[m] EXCEPT !.all_seen = TRUE])
        BY <1>1, <2>1, <2>2, <3>2
      <4>2. store[m] \in NodeRec
        BY <1>1
      <4>3. [store[m] EXCEPT !.all_seen = TRUE] \in NodeRec
        BY <4>2, AllSeenUpdateType
      <4>4. Stored([store[m] EXCEPT !.all_seen = TRUE]).child
              = [store[m] EXCEPT !.all_seen = TRUE].child
        BY <4>3, StoredType
      <4> QED  BY <4>1, <4>2, <4>4 DEF NodeRec
    <3> QED  BY <3>1, <3>2
  <2> QED  BY <2>3, NoKidsAdded
<1>7. CASE MarkQuery
  <2>1. UNCHANGED store \/ store' = InternalNodesCheck(store, Head(todo).node)
    BY <1>7 DEF MarkQuery, Crash, treeVars
  <2>2. ASSUME NEW m \in Nodes PROVE store'[m].child = store[m].child
    <3>1. store[m] \in NodeRec
      BY <1>1
    <3>2. store'[m] \in {store[m], [store[m] EXCEPT !.all_seen = TRUE]}
      BY <2>1 DEF InternalNodesCheck
    <3> QED  BY <3>1, <3>2 DEF NodeRec
  <2> QED  BY <2>2, NoKidsAdded
<1>8. CASE \/ StartNewQuery \/ NextBit \/ QueryParent
           \/ OtherQueryFails \/ Reset \/ LastIteration \/ Terminated
  <2>1. UNCHANGED store
    BY <1>8 DEF StartNewQuery, NextBit, QueryParent, OtherQueryFails, Reset, LastIteration,
                Terminated, Crash, treeVars, vars
  <2> QED  BY <1>3, <2>1
<1> QED  BY <1>4, <1>5, <1>6, <1>7, <1>8

\* What WriteInv says of DecisionTree's operations carries over.
LEMMA WholeOperationKeeps ==
    ASSUME TypeInv, CallsInv, Countable, pc # "count", Idle, UNCHANGED callVars,
           \/ StartNewQuery \/ NextBit
           \/ TryExtendKnown \/ TryExtendAsk \/ LeaveBoring
           \/ CountQuery \/ MarkLoop \/ QueryParent \/ MarkQuery
           \/ OtherQueryFails \/ Reset \/ LastIteration \/ Terminated
    PROVE  TypeInv' /\ CallsInv' /\ KeepsFacts
<1>1. Next
  BY DEF Next
<1>2. TypeInv' /\ WriteInv
  BY <1>1, NextType DEF CallsInv
<1>3. WriteInv' /\ LosesNothing
  BY <1>1, <1>2, NextWrites
<1>4. DeepestHaveNoKids'
  BY <1>2, WholeKids DEF CallsInv
<1>5. pc' # "count"
  <2>1. CASE TryExtendKnown \/ TryExtendAsk \/ LeaveBoring
    BY <2>1, TryExtendWritesCur
  <2>2. CASE MarkLoop \/ QueryParent \/ MarkQuery
    BY <2>2 DEF MarkLoop, QueryParent, MarkQuery, Crash
  <2>3. CASE CountQuery
    BY <2>3 DEF CountQuery, Crash
  <2>4. CASE StartNewQuery \/ NextBit \/ OtherQueryFails \/ Reset \/ LastIteration \/ Terminated
    BY <2>4 DEF StartNewQuery, NextBit, OtherQueryFails, Reset, LastIteration, Terminated,
                Crash, vars
  <2> QED  BY <2>1, <2>2, <2>3, <2>4
<1>6. frames' = << >> /\ climb' = << >> /\ signals' = signals
  BY DEF callVars, Idle
<1> QED
  BY <1>2, <1>3, <1>4, <1>5, <1>6, LosesNothingKeeps DEF CallsInv, WriteInv, Idle

-----------------------------------------------------------------------------
(* finish_internal_nodes.                                                  *)

\* What the innermost call works on.
LEMMA InnermostCall ==
    ASSUME TypeInv, CallsInv, pc = "count", frames # << >>
    PROVE  LET f == Head(frames)
           IN /\ f = frames[1] /\ f \in Frame /\ f.node \in Nodes /\ Copy(f) \in NodeRec
              /\ Len(f.node) \in Nat /\ Len(frames) \in Nat /\ 1 \in 1..Len(frames)
              /\ CallOK(1) /\ f.node \in CallNodes /\ f.node # cur
              /\ f.node = qry <=> Len(frames) = 1
              /\ Len(qry) \in Nat /\ Len(cur) \in Nat
              /\ Len(qry) < Len(cur) /\ Len(cur) =< PathDepthLimit
              /\ weird = 0 \/ f.node # qry =>
                     /\ SameButMark(store[f.node], Copy(f))
                     /\ Copy(f).child = store[f.node].child
                     /\ Copy(f).query_children = store[f.node].query_children
                     /\ HoldsFacts(store[f.node], Copy(f))
                     /\ StoredCount(Copy(f).query_children) = Copy(f).query_children
<1> DEFINE f == Head(frames)
<1>1. frames \in Seq(Frame) /\ Finishing /\ CurAgrees /\ CountsRead
  BY DEF CallsInv
<1>2. f = frames[1] /\ 1 \in 1..Len(frames) /\ frames[1] \in Frame /\ Len(frames) \in Nat
  BY <1>1, PopFrame
<1> HIDE DEF f
<1>3. f.node \in Nodes /\ f.copy \in NodeRec
  BY <1>2 DEF Frame
<1>4. /\ qry \in Nodes /\ cur \in Nodes /\ qryRec \in NodeRec
      /\ store \in [Nodes -> NodeRec] /\ Len(cur) =< PathDepthLimit
  BY DEF TypeInv, TreeTypeOK, DepthOK
<1>5. Copy(f) \in NodeRec
  BY <1>3, <1>4 DEF Copy
<1>6. Len(f.node) \in Nat /\ Len(qry) \in Nat /\ Len(cur) \in Nat /\ Len(qry) < Len(cur)
  BY <1>1, <1>3, <1>4, NodesAreSequences DEF Finishing
<1>7. CallOK(1)
  BY <1>1, <1>2 DEF Finishing, CallsOK
<1>8. f.node \in CallNodes
  BY <1>2, <1>3 DEF CallNodes
<1>9. f.node # cur
  BY <1>1, <1>8, CallNodesNotCur
<1>10. f.node = qry <=> Len(frames) = 1
  <2>1. Len(f.node) = Len(qry) + (Len(frames) - 1) /\ (1 = Len(frames) => f.node = qry)
    BY <1>2, <1>7 DEF CallOK
  <2>2. f.node = qry => Len(f.node) = Len(qry)
    OBVIOUS
  <2> QED  BY <1>2, <1>6, <2>1, <2>2
<1>11. ASSUME weird = 0 \/ f.node # qry
       PROVE  /\ SameButMark(store[f.node], Copy(f))
              /\ Copy(f).child = store[f.node].child
              /\ Copy(f).query_children = store[f.node].query_children
              /\ HoldsFacts(store[f.node], Copy(f))
              /\ StoredCount(Copy(f).query_children) = Copy(f).query_children
  <2>1. SameButMark(store[f.node], Copy(f))
    BY <1>2, <1>7, <1>11 DEF CallOK
  <2>2. store[f.node] \in NodeRec
    BY <1>3, <1>4
  <2>3. /\ Copy(f).child = store[f.node].child
        /\ Copy(f).query_children = store[f.node].query_children
        /\ HoldsFacts(store[f.node], Copy(f))
    BY <1>5, <2>1, <2>2, MarkAside
  <2> QED  BY <1>1, <1>3, <2>1, <2>3 DEF CountsRead
<1> QED
  BY <1>2, <1>3, <1>4, <1>5, <1>6, <1>7, <1>8, <1>9, <1>10, <1>11 DEF f

\* The outermost call begins: cur_query agrees with the table.
LEMMA FinishStartKeeps ==
    ASSUME TypeInv, CallsInv, FinishStart
    PROVE  TypeInv' /\ CallsInv' /\ KeepsFacts
<1>1. /\ pc = "internal" /\ pc' = "count" /\ todo' = << >>
      /\ frames' = <<Called(qry, qryRec)>>
      /\ UNCHANGED <<store, cur, curRec, qry, qryRec, inq, weird, climb, signals>>
      /\ UNCHANGED <<heurVars, pathVars, envVars>>
  BY DEF FinishStart, treeVars
<1>2. /\ qry \in Nodes /\ qryRec \in NodeRec /\ store \in [Nodes -> NodeRec]
      /\ Len(qry) \in Nat
  BY NodesAreSequences DEF TypeInv, TreeTypeOK
<1>3. TypeInv'
  BY <1>1 DEF TypeInv, TreeTypeOK, RestTypeOK, DepthOK, heurVars, pathVars, envVars
<1>4. /\ CountsRead /\ CurAgrees /\ DeepestHaveNoKids /\ climb = << >>
      /\ ~inq /\ IsQuery(curRec) /\ Len(qry) < Len(cur)
      /\ weird = 0 => qryRec = store[qry]
  BY <1>1 DEF CallsInv, WriteInv, QueryClosing
<1> DEFINE c == Called(qry, qryRec)
<1>5. c \in Frame /\ c.node = qry
  BY <1>2, CalledType
<1> HIDE DEF c
<1>6. /\ frames' = <<c>> /\ frames' \in Seq(Frame) /\ Len(frames') = 1 /\ frames'[1] = c
  BY <1>1, <1>5 DEF c
<1>8. CallOK(1)'
  <2>1. weird = 0 => SameButMark(store[qry], qryRec)
    BY <1>2, <1>4, SameAsItself
  <2>2. frames'[1].node = qry' /\ Copy(frames[1])' = qryRec
    BY <1>1, <1>5, <1>6 DEF Copy
  <2>3. Len(frames'[1].node) = Len(qry') + (Len(frames') - 1)
    BY <1>1, <1>2, <1>6, <2>2
  <2>4. weird' = 0 => SameButMark(store[frames[1].node], Copy(frames[1]))'
    BY <1>1, <2>1, <2>2 DEF SameButMark
  <2> QED  BY <1>6, <2>2, <2>3, <2>4 DEF CallOK
<1>9. CallsOK' /\ MarksOK'
  <2>1. \A i \in 1..Len(frames') : i = 1
    BY <1>6
  <2> QED  BY <1>1, <1>8, <2>1 DEF CallsOK, MarksOK
<1>10. CountsRead' /\ CurAgrees' /\ DeepestHaveNoKids' /\ KeepsFacts
  BY <1>1, <1>4, NoWrite, LosesNothingKeeps DEF CountsRead, CurAgrees, DeepestHaveNoKids
<1>11. Finishing'
  BY <1>1, <1>4, <1>9 DEF Finishing
<1> QED  BY <1>1, <1>3, <1>4, <1>6, <1>10, <1>11 DEF CallsInv

\* Closing a direction writes the copy back; descending makes a call for a
\* node that is within the limit and is no query node.
LEMMA FinishDirectionKeeps ==
    ASSUME TypeInv, CallsInv, FinishDirection
    PROVE  TypeInv' /\ CallsInv' /\ KeepsFacts
<1> DEFINE f    == Head(frames)
           b    == Head(f.left)
           old  == Copy(f)
           new  == IF old.child[b] = "unknown" THEN [old EXCEPT !.child[b] = "unsat"]
                                               ELSE old
           kid  == Kid(f.node, b)
           f2   == [f EXCEPT !.copy = new, !.left = Tail(@)]
           rest == <<f2>> \o Tail(frames)
           call == Called(kid, store[kid])
           L    == Len(frames)
<1>1. /\ pc = "count" /\ frames # << >> /\ todo = << >> /\ f.left # << >>
      /\ store' = IF new # old THEN [store EXCEPT ![f.node] = Stored(new)] ELSE store
      /\ qryRec' = IF f.node = qry THEN new ELSE qryRec
      /\ frames' = IF old.child[b] = "sat" /\ ~IsQuery(store[kid])
                   THEN <<call>> \o rest ELSE rest
      /\ UNCHANGED <<cur, curRec, qry, inq, pc, todo, weird, climb, signals>>
      /\ UNCHANGED <<heurVars, pathVars, envVars>>
  BY DEF FinishDirection
<1>2. /\ f = frames[1] /\ f \in Frame /\ f.node \in Nodes /\ old \in NodeRec
      /\ Len(f.node) \in Nat /\ L \in Nat /\ 1 \in 1..L
      /\ CallOK(1) /\ f.node # cur
      /\ f.node = qry <=> L = 1
      /\ Len(qry) \in Nat /\ Len(cur) \in Nat
      /\ Len(qry) < Len(cur) /\ Len(cur) =< PathDepthLimit
      /\ weird = 0 \/ f.node # qry =>
             /\ SameButMark(store[f.node], old)
             /\ old.child = store[f.node].child
             /\ old.query_children = store[f.node].query_children
             /\ HoldsFacts(store[f.node], old)
             /\ StoredCount(old.query_children) = old.query_children
  BY <1>1, InnermostCall
<1>3. /\ store \in [Nodes -> NodeRec] /\ qry \in Nodes /\ cur \in Nodes /\ qryRec \in NodeRec
      /\ frames \in Seq(Frame) /\ CountsRead /\ CurAgrees /\ DeepestHaveNoKids
      /\ Finishing /\ CallsOK /\ PathDepthLimit \in Nat
  BY <1>1, LimitsAssumption DEF TypeInv, TreeTypeOK, CallsInv, Finishing
<1>4. b \in BOOLEAN /\ f2 \in Frame /\ f2.node = f.node /\ f2.copy = new
  <2>1. /\ f.left \in {<<FALSE, TRUE>>, <<TRUE>>} /\ f.copy \in NodeRec
    BY <1>1, <1>2 DEF Frame
  <2>2. b \in BOOLEAN /\ Tail(f.left) \in {<<TRUE>>, << >>}
    <3> DEFINE l == f.left
    <3>1. l \in {<<FALSE, TRUE>>, <<TRUE>>} => Head(l) \in BOOLEAN /\ Tail(l) \in {<<TRUE>>, << >>}
      <4> HIDE DEF l
      <4>1. CASE l = <<FALSE, TRUE>>
        BY <4>1
      <4>2. CASE l = <<TRUE>>
        BY <4>2
      <4> QED  BY <4>1, <4>2
    <3> QED  BY <2>1, <3>1
  <2>3. new \in NodeRec
    BY <1>2, <2>2, ChildUpdateType DEF ChildStatus
  <2> HIDE DEF new, f, b
  <2> QED  BY <1>2, <2>2, <2>3 DEF Frame
<1>5. /\ new \in NodeRec /\ HoldsFacts(old, new)
      /\ new.query_children = old.query_children /\ new.all_seen = old.all_seen
      /\ \A c \in BOOLEAN : new.child[c] = "sat" => old.child[c] = "sat"
  <2>1. "unsat" \in ChildStatus
    BY DEF ChildStatus
  <2> HIDE DEF f, b, old
  <2>2. CASE old.child[b] = "unknown"
    <3>1. new = [old EXCEPT !.child[b] = "unsat"]
      BY <2>2
    <3> QED  BY <1>2, <1>4, <2>1, <2>2, <3>1 DEF NodeRec, HoldsFacts
  <2>3. CASE old.child[b] # "unknown"
    BY <1>2, <2>3, SameAsItself
  <2> QED  BY <2>2, <2>3
<1> HIDE DEF f, b, old, new, kid, f2, rest, call
\* The kid that is descended into.
<1>6. ASSUME old.child[b] = "sat", ~IsQuery(store[kid])
      PROVE  /\ kid \in Nodes /\ kid # Root /\ Parent(kid) = f.node /\ kid # cur
             /\ Len(kid) = Len(f.node) + 1 /\ kid # qry /\ kid # f.node
             /\ call \in Frame /\ call.node = kid /\ call.copy = store[kid]
  <2>1. Len(f.node) =< PathDepthLimit
    <3>1. CASE f.node = qry
      BY <1>2, <1>3, <3>1
    <3>2. CASE f.node # qry
      <4>1. store[f.node].child[b] = "sat"
        BY <1>2, <1>6, <3>2
      <4> QED  BY <1>2, <1>3, <1>4, <4>1 DEF DeepestHaveNoKids
    <3> QED  BY <3>1, <3>2
  <2>2. kid \in Nodes /\ kid # f.node /\ Len(kid) = Len(f.node) + 1
    BY <1>2, <1>4, <2>1, KidIsNode, KidDiffers, KidIsDeeper DEF kid
  <2>3. kid # Root /\ Parent(kid) = f.node
    BY <1>2, <1>4, <2>2, ParentOfKid DEF kid
  <2>4. kid # cur
    BY <1>3, <1>6 DEF Finishing, CurAgrees
  <2>5. kid # qry
    <3>1. Len(f.node) = Len(qry) + (L - 1)
      BY <1>2 DEF CallOK
    <3>2. Len(kid) # Len(qry)
      BY <1>2, <2>2, <3>1
    <3> QED  BY <3>2
  <2>6. store[kid] \in NodeRec
    BY <1>3, <2>2
  <2> QED  BY <2>2, <2>3, <2>4, <2>5, <2>6, CalledType DEF call
\* What is written.
<1>7. /\ \A n \in Nodes \ {f.node} : store'[n] = store[n]
      /\ store' \in [Nodes -> NodeRec]
      /\ store'[f.node] = IF new # old THEN Stored(new) ELSE store[f.node]
  BY <1>1, <1>2, <1>3, <1>5, StoredType
<1>8. ASSUME weird = 0 \/ f.node # qry
      PROVE  Stored(new) = new
  BY <1>2, <1>5, <1>8, StoredSame
<1>9. CountsRead'
  <2>1. StoredCount(store'[f.node].query_children) = store'[f.node].query_children
    BY <1>2, <1>3, <1>5, <1>7, StoredReads DEF CountsRead
  <2> QED  BY <1>3, <1>7, <2>1 DEF CountsRead
<1>10. CurAgrees'
  BY <1>1, <1>2, <1>3, <1>7 DEF CurAgrees
<1>11. DeepestHaveNoKids'
  <2> SUFFICES ASSUME NEW n \in Nodes, Len(n) > PathDepthLimit, NEW c \in BOOLEAN
               PROVE  store'[n].child[c] # "sat"
    BY DEF DeepestHaveNoKids
  <2>1. store[n].child[c] # "sat"
    BY <1>3 DEF DeepestHaveNoKids
  <2>2. CASE n # f.node \/ new = old
    BY <1>7, <2>1, <2>2
  <2>3. CASE n = f.node /\ new # old
    <3>1. f.node # qry
      BY <1>2, <1>3, <2>3
    <3>2. store'[n] = new /\ old.child[c] # "sat"
      BY <1>2, <1>7, <1>8, <2>1, <2>3, <3>1
    <3> QED  BY <1>5, <3>2
  <2> QED  BY <2>2, <2>3
<1>12. KeepsFacts
  <2> SUFFICES ASSUME weird = 0, NEW n \in Nodes
               PROVE  /\ HoldsFacts(store[n], store'[n])
                      /\ store[n].all_seen => store'[n].all_seen \/ StaleCall(n)
    BY DEF KeepsFacts
  <2>1. store[n] \in NodeRec
    BY <1>3
  <2>2. CASE n # f.node \/ new = old
    BY <1>7, <2>1, <2>2, SameAsItself
  <2>3. CASE n = f.node /\ new # old
    <3>1. store'[n] = new
      BY <1>7, <1>8, <2>3
    <3>2. HoldsFacts(store[n], old)
      BY <1>2, <2>3
    <3>3. HoldsFacts(store[n], new)
      BY <1>2, <1>5, <2>1, <3>2 DEF HoldsFacts, NodeRec
    <3>4. ~old.all_seen => StaleCall(n)
      BY <1>2, <2>3 DEF StaleCall, old
    <3> QED  BY <1>5, <3>1, <3>3, <3>4
  <2> QED  BY <2>2, <2>3
\* The calls: first the ones there were.
<1>13. /\ rest \in Seq(Frame) /\ Len(rest) = L /\ rest[1] = f2
       /\ \A i \in 2..L : rest[i] = frames[i]
  <2> DEFINE t == Tail(frames)
  <2>1. /\ t \in Seq(Frame) /\ Len(t) = L - 1
        /\ \A i \in 1..Len(t) : t[i] = frames[i + 1]
    BY <1>1, <1>3, PopFrame
  <2> HIDE DEF t
  <2>2. /\ rest \in Seq(Frame) /\ Len(rest) = Len(t) + 1 /\ rest[1] = f2
        /\ \A i \in 1..Len(t) : rest[i + 1] = t[i]
    BY <1>4, <2>1, PushFrame DEF rest, t
  <2>3. ASSUME NEW i \in 2..L PROVE rest[i] = frames[i]
    <3>1. i - 1 \in 1..Len(t) /\ (i - 1) + 1 = i
      BY <1>2, <2>1
    <3>2. rest[(i - 1) + 1] = t[i - 1] /\ t[i - 1] = frames[(i - 1) + 1]
      BY <2>1, <2>2, <3>1
    <3> QED  BY <3>1, <3>2
  <2> QED  BY <1>2, <2>1, <2>2, <2>3
<1>14. ASSUME NEW i \in 1..L
       PROVE  /\ Len(rest[i].node) = Len(qry) + (L - i)
              /\ i = L => rest[i].node = qry
              /\ i < L => /\ rest[i].node # Root
                          /\ Parent(rest[i].node) = rest[i + 1].node
                          /\ ~IsQuery(store'[rest[i].node])
              /\ weird = 0 \/ rest[i].node # qry =>
                     SameButMark(store'[rest[i].node],
                                 IF rest[i].node = qry THEN qryRec' ELSE rest[i].copy)
  <2>1. rest[i].node = frames[i].node /\ CallOK(i) /\ frames[i] \in Frame
    BY <1>2, <1>3, <1>4, <1>13 DEF CallsOK
  <2>2. i < L => rest[i + 1].node = frames[i + 1].node
    BY <1>2, <1>13
  <2>3. frames[i].node \in Nodes
    BY <2>1 DEF Frame
  <2>4. CASE i = 1
    <3>1. rest[i] = f2 /\ frames[i] = f
      BY <1>2, <1>13, <2>4
    <3>2. weird = 0 \/ f.node # qry =>
            SameButMark(store'[f.node], new) /\ (IsQuery(store'[f.node]) <=> IsQuery(store[f.node]))
      <4> SUFFICES ASSUME weird = 0 \/ f.node # qry
                   PROVE  SameButMark(store'[f.node], new)
                          /\ (IsQuery(store'[f.node]) <=> IsQuery(store[f.node]))
        OBVIOUS
      <4>1. CASE new = old
        BY <1>2, <1>7, <4>1
      <4>2. CASE new # old
        <5>1. store'[f.node] = new
          BY <1>7, <1>8, <4>2
        <5> QED  BY <1>2, <1>5, <5>1, SameAsItself DEF IsQuery
      <4> QED  BY <4>1, <4>2
    <3>3. (IF f.node = qry THEN qryRec' ELSE f2.copy) = new
      BY <1>1, <1>4
    <3>4. i < L => f.node # qry
      <4>1. (f.node = qry <=> L = 1) /\ L \in Nat
        BY <1>2
      <4> HIDE DEF L
      <4>2. 1 < L => L # 1
        BY <4>1
      <4> QED  BY <2>4, <4>1, <4>2
    <3>5. /\ Len(frames[i].node) = Len(qry) + (L - i)
          /\ i = L => frames[i].node = qry
          /\ i < L => /\ frames[i].node # Root
                      /\ Parent(frames[i].node) = frames[i + 1].node
                      /\ ~IsQuery(store[frames[i].node])
      BY <2>1 DEF CallOK
    <3>6. rest[i].node = f.node /\ frames[i].node = f.node /\ rest[i].copy = f2.copy
      BY <2>1, <3>1
    <3>7. i < L => ~IsQuery(store'[rest[i].node])
      BY <3>2, <3>4, <3>5, <3>6
    <3>8. weird = 0 \/ rest[i].node # qry =>
            SameButMark(store'[rest[i].node],
                        IF rest[i].node = qry THEN qryRec' ELSE rest[i].copy)
      BY <3>2, <3>3, <3>6
    <3> QED  BY <2>1, <2>2, <3>5, <3>7, <3>8
  <2>5. CASE i # 1
    <3>1. rest[i] = frames[i]
      BY <1>2, <1>13, <2>5
    <3>2. frames[i].node # f.node
      <4>1. Len(frames[i].node) = Len(qry) + (L - i) /\ Len(f.node) = Len(qry) + (L - 1)
        BY <1>2, <2>1 DEF CallOK
      <4>2. Len(frames[i].node) # Len(f.node)
        BY <1>2, <2>5, <4>1
      <4> QED  BY <4>2
    <3>3. store'[frames[i].node] = store[frames[i].node]
      BY <1>7, <2>3, <3>2
    <3>4. (IF rest[i].node = qry THEN qryRec' ELSE rest[i].copy) = Copy(frames[i])
      BY <1>1, <3>1, <3>2 DEF Copy
    <3> QED  BY <2>1, <2>2, <3>1, <3>3, <3>4 DEF CallOK
  <2> QED  BY <2>4, <2>5
<1>15. CallsOK' /\ frames' \in Seq(Frame)
  <2>1. CASE ~(old.child[b] = "sat" /\ ~IsQuery(store[kid]))
    <3>1. frames' = rest /\ Len(frames') = L
      BY <1>1, <1>13, <2>1
    <3>2. ASSUME NEW i \in 1..L PROVE CallOK(i)'
      BY <1>1, <1>13, <1>14, <3>1 DEF CallOK, Copy
    <3> QED  BY <1>13, <3>1, <3>2 DEF CallsOK
  <2>2. CASE old.child[b] = "sat" /\ ~IsQuery(store[kid])
    <3> DEFINE g == <<call>> \o rest
    <3>1. /\ g \in Seq(Frame) /\ Len(g) = L + 1 /\ g[1] = call
          /\ \A i \in 1..L : g[i + 1] = rest[i]
      BY <1>6, <1>13, <2>2, PushFrame
    <3>2. frames' = g
      BY <1>1, <2>2
    <3> HIDE DEF g
    <3>3. ASSUME NEW i \in 1..(L + 1), i # 1 PROVE CallOK(i)'
      <4>1. /\ i - 1 \in 1..L /\ (i - 1) + 1 = i /\ (L + 1) - i = L - (i - 1)
            /\ i < L + 1 <=> i - 1 < L
            /\ i = L + 1 <=> i - 1 = L
        BY <1>2, <3>3
      <4>2. g[i] = rest[i - 1]
        BY <3>1, <4>1
      <4>3. i < L + 1 => g[i + 1] = rest[(i - 1) + 1]
        BY <1>2, <3>1, <3>3, <4>1
      <4> HIDE DEF L
      <4>4. /\ Len(g[i].node) = Len(qry) + (Len(g) - i)
            /\ i = Len(g) => g[i].node = qry
            /\ i < Len(g) => /\ g[i].node # Root
                             /\ Parent(g[i].node) = g[i + 1].node
                             /\ ~IsQuery(store'[g[i].node])
            /\ weird = 0 \/ g[i].node # qry =>
                   SameButMark(store'[g[i].node],
                               IF g[i].node = qry THEN qryRec' ELSE g[i].copy)
        BY <1>14, <3>1, <4>1, <4>2, <4>3
      <4> QED  BY <1>1, <3>2, <4>4 DEF CallOK, Copy
    <3>4. ASSUME NEW i \in 1..(L + 1), i = 1 PROVE CallOK(i)'
      <4>1. g[1].node = kid /\ g[1].copy = store[kid] /\ g[1 + 1] = rest[1]
        BY <1>2, <1>6, <2>2, <3>1
      <4>2. rest[1].node = f.node
        BY <1>4, <1>13
      <4>3. store'[kid] = store[kid] /\ store[kid] \in NodeRec
        BY <1>3, <1>6, <1>7, <2>2
      <4>4. Len(kid) = Len(qry) + (Len(g) - 1) /\ 1 < Len(g) /\ 1 # Len(g)
        <5>1. Len(f.node) = Len(qry) + (L - 1)
          BY <1>2 DEF CallOK
        <5> QED  BY <1>2, <1>6, <2>2, <3>1, <5>1
      <4>5. SameButMark(store'[kid], store[kid]) /\ ~IsQuery(store'[kid])
        BY <2>2, <4>3, SameAsItself
      <4>6. kid # Root /\ Parent(kid) = f.node /\ kid # qry
        BY <1>6, <2>2
      <4>7. /\ Len(g[i].node) = Len(qry) + (Len(g) - i)
            /\ i = Len(g) => g[i].node = qry
            /\ i < Len(g) => /\ g[i].node # Root
                             /\ Parent(g[i].node) = g[i + 1].node
                             /\ ~IsQuery(store'[g[i].node])
            /\ weird = 0 \/ g[i].node # qry =>
                   SameButMark(store'[g[i].node],
                               IF g[i].node = qry THEN qryRec' ELSE g[i].copy)
        BY <3>4, <4>1, <4>2, <4>4, <4>5, <4>6
      <4> QED  BY <1>1, <3>2, <4>7 DEF CallOK, Copy
    <3> QED  BY <3>1, <3>2, <3>3, <3>4 DEF CallsOK
  <2> QED  BY <2>1, <2>2
<1>16. MarksOK' /\ Finishing'
  <2>1. MarksOK'
    BY <1>1 DEF MarksOK
  <2> QED  BY <1>1, <1>3, <1>15, <2>1 DEF Finishing
<1>17. TypeInv'
  BY <1>1, <1>5, <1>7
     DEF TypeInv, TreeTypeOK, RestTypeOK, DepthOK, heurVars, pathVars, envVars
<1> QED  BY <1>1, <1>9, <1>10, <1>11, <1>12, <1>15, <1>16, <1>17 DEF CallsInv

\* A crash leaves the table, and the copies do not matter any more.
LEMMA CallsCrash ==
    ASSUME TypeInv, CallsInv, pc = "count", pc' = "crashed", frames' \in Seq(Frame),
           UNCHANGED <<store, cur, curRec, climb, signals>>
    PROVE  CallsInv' /\ KeepsFacts
<1>1. CountsRead' /\ CurAgrees' /\ DeepestHaveNoKids' /\ KeepsFacts
  BY NoWrite, LosesNothingKeeps DEF CallsInv, CountsRead, CurAgrees, DeepestHaveNoKids
<1>2. QueryOpen' /\ QueryClosing' /\ MarksFromQuery' /\ MarksFromCur'
  BY DEF QueryOpen, QueryClosing, MarksFromQuery, MarksFromCur
<1>3. climb = << >>
  BY DEF CallsInv
<1> QED  BY <1>1, <1>2, <1>3 DEF CallsInv, WriteInv

\* Marking nodes keeps the copies of the calls in progress right, the mark
\* aside.  When a call returns (d is 1), those of its callers remain.
LEMMA MarkingKeeps ==
    ASSUME TypeInv, CallsInv, TypeInv', pc = "count", pc' = "count",
           UNCHANGED <<cur, curRec, qry, inq, climb, signals>>,
           weird' = 0 => weird = 0,
           NEW d \in {0, 1}, frames' \in Seq(Frame), Len(frames') = Len(frames) - d,
           \A i \in 1..Len(frames') : frames'[i] = frames[i + d],
           qryRec' = qryRec \/ frames' = << >>,
           store'[cur] = store[cur],
           \A n \in Nodes :
               \/ store'[n] \in {store[n], [store[n] EXCEPT !.all_seen = TRUE]}
               \/ /\ n = qry /\ weird # 0 /\ frames' = << >>
                  /\ StoredCount(store'[n].query_children) = store'[n].query_children,
           \A i \in 1..Len(todo') : todo'[i].node \in CallNodes'
    PROVE  CallsInv' /\ KeepsFacts
<1>1. /\ store \in [Nodes -> NodeRec] /\ qry \in Nodes /\ cur \in Nodes
      /\ Len(qry) \in Nat /\ Len(cur) \in Nat /\ Len(cur) =< PathDepthLimit
      /\ weird \in Nat /\ PathDepthLimit \in Nat
  BY NodesAreSequences, LimitsAssumption DEF TypeInv, TreeTypeOK, DepthOK
<1>2. /\ frames \in Seq(Frame) /\ CountsRead /\ CurAgrees /\ DeepestHaveNoKids /\ Finishing
      /\ Len(frames) \in Nat /\ climb = << >> /\ signals \in Nat
  BY DEF CallsInv
<1>3. ASSUME NEW n \in Nodes, store'[n] \in {store[n], [store[n] EXCEPT !.all_seen = TRUE]}
      PROVE  /\ store'[n] \in NodeRec /\ HoldsFacts(store[n], store'[n])
             /\ store'[n].query_children = store[n].query_children
             /\ store'[n].child = store[n].child
             /\ store[n].all_seen => store'[n].all_seen
             /\ [store'[n] EXCEPT !.all_seen = TRUE] = [store[n] EXCEPT !.all_seen = TRUE]
             /\ \A r \in NodeRec : SameButMark(store[n], r) => SameButMark(store'[n], r)
  <2>1. store[n] \in NodeRec
    BY <1>1
  <2> HIDE DEF NodeRec
  <2>2. CASE store'[n] = store[n]
    BY <2>1, <2>2, SameAsItself DEF NodeRec
  <2>3. CASE store'[n] = [store[n] EXCEPT !.all_seen = TRUE]
    BY <2>1, <2>3, MarkedRecord
  <2> QED  BY <1>3, <2>2, <2>3
<1>4. CountsRead'
  BY <1>2, <1>3 DEF CountsRead
<1>5. CurAgrees'
  BY <1>2 DEF CurAgrees
<1>6. DeepestHaveNoKids'
  <2>1. \A n \in Nodes : store'[n].child = store[n].child \/ Len(n) =< PathDepthLimit
    <3> TAKE n \in Nodes
    <3>1. CASE n = qry
      BY <1>1, <1>2, <3>1 DEF Finishing
    <3>2. CASE n # qry
      BY <1>3, <3>2
    <3> QED  BY <3>1, <3>2
  <2> QED  BY <1>2, <2>1, NoKidsAdded
<1>7. KeepsFacts
  BY <1>3 DEF KeepsFacts
<1>8. ASSUME NEW i \in 1..Len(frames')
      PROVE  CallOK(i)'
  <2> DEFINE j == i + d
  <2>1. /\ j \in 1..Len(frames) /\ frames'[i] = frames[j]
        /\ Len(frames') - i = Len(frames) - j /\ frames' # << >>
        /\ i = Len(frames') <=> j = Len(frames)
        /\ i < Len(frames') <=> j < Len(frames)
        /\ i < Len(frames') => i + 1 \in 1..Len(frames') /\ (i + 1) + d = j + 1
    BY <1>2
  <2>2. CallOK(j) /\ frames[j] \in Frame
    BY <1>2, <2>1 DEF Finishing, CallsOK
  <2>3. i < Len(frames') => frames'[i + 1] = frames[j + 1]
    BY <2>1
  <2> HIDE DEF j
  <2>4. frames[j].node \in Nodes /\ frames[j].copy \in NodeRec
    BY <2>2 DEF Frame
  <2>5. store'[frames[j].node] \in
          {store[frames[j].node], [store[frames[j].node] EXCEPT !.all_seen = TRUE]}
    BY <2>1, <2>4
  <2>6. /\ Len(frames'[i].node) = Len(qry') + (Len(frames') - i)
        /\ i = Len(frames') => frames'[i].node = qry'
    BY <2>1, <2>2 DEF CallOK
  <2>7. i < Len(frames') =>
          /\ frames'[i].node # Root
          /\ Parent(frames'[i].node) = frames'[i + 1].node
          /\ ~IsQuery(store'[frames'[i].node])
    BY <1>3, <2>1, <2>2, <2>3, <2>4, <2>5 DEF CallOK, IsQuery
  <2>8. Copy(frames[i])' = Copy(frames[j])
    BY <2>1 DEF Copy
  <2>9. Copy(frames[j]) \in NodeRec
    BY <2>4 DEF Copy, TypeInv, TreeTypeOK
  <2>10. weird' = 0 \/ frames'[i].node # qry' =>
           SameButMark(store'[frames'[i].node], Copy(frames[j]))
    BY <1>3, <2>1, <2>2, <2>4, <2>5, <2>9 DEF CallOK
  <2>11. weird' = 0 \/ frames'[i].node # qry' =>
           SameButMark(store[frames[i].node], Copy(frames[i]))'
    BY <2>8, <2>10 DEF SameButMark
  <2> QED  BY <2>6, <2>7, <2>11 DEF CallOK
<1>9. Finishing'
  BY <1>2, <1>8 DEF Finishing, CallsOK, MarksOK
<1> QED  BY <1>2, <1>4, <1>5, <1>6, <1>7, <1>9 DEF CallsInv

\* What mark and the loop around it write, and which calls they make.
LEMMA MarkWithWrites ==
    ASSUME TypeInv, NEW n \in Nodes, NEW r \in NodeRec, NEW rest \in Seq(MarkOp),
           MarkWith(n, r, rest)
    PROVE  \/ pc' = "crashed" /\ UNCHANGED <<store, todo, weird>>
           \/ /\ store' = [store EXCEPT ![n] = Stored([r EXCEPT !.all_seen = TRUE])]
              /\ UNCHANGED pc /\ weird' \in 0..1 /\ (weird' = 0 => weird = 0)
              /\ \E up \in Seq(MarkOp) :
                    /\ todo' = up \o rest
                    /\ \A i \in 1..Len(up) : n # Root /\ up[i].node = Parent(n)
<1> DEFINE S     == [store EXCEPT ![n] = Stored([r EXCEPT !.all_seen = TRUE])]
           fails == Cardinality({b \in BOOLEAN : /\ r.child[b] = "sat"
                                                 /\ ~store[Kid(n, b)].all_seen})
           up    == IF n = Root THEN << >>
                    ELSE IF ~S[Parent(n)].all_seen /\ Closed(S, Parent(n))
                         THEN <<LoopOp(Parent(n)), QueryOp(Parent(n))>>
                         ELSE <<QueryOp(Parent(n))>>
<1>1. \/ TooWeird(fails) /\ pc' = "crashed" /\ UNCHANGED <<store, todo, weird>>
      \/ /\ ~TooWeird(fails) /\ store' = S /\ todo' = up \o rest
         /\ weird' = weird + fails /\ UNCHANGED pc
  BY DEF MarkWith
<1>2. fails \in Nat
  <2>1. IsFiniteSet(BOOLEAN)
    <3>1. IsFiniteSet({TRUE})
      BY FS_Singleton
    <3>2. IsFiniteSet({TRUE} \cup {FALSE})
      BY <3>1, FS_AddElement
    <3>3. BOOLEAN = {TRUE} \cup {FALSE}
      OBVIOUS
    <3> QED  BY <3>2, <3>3
  <2>2. \A B \in SUBSET BOOLEAN : Cardinality(B) \in Nat
    BY <2>1, FS_Subset, FS_CardinalityType
  <2> QED  BY <2>2
<1>3. up \in Seq(MarkOp) /\ \A i \in 1..Len(up) : n # Root /\ up[i].node = Parent(n)
  <2>1. CASE n = Root
    BY <2>1
  <2>2. CASE n # Root
    <3> DEFINE q == Parent(n)
    <3>1. /\ LoopOp(q) \in MarkOp /\ QueryOp(q) \in MarkOp
          /\ LoopOp(q).node = q /\ QueryOp(q).node = q
      BY <2>2, ParentIsNode, MarkOpType DEF LoopOp, QueryOp
    <3>2. up \in {<<LoopOp(q), QueryOp(q)>>, <<QueryOp(q)>>}
      BY <2>2
    <3> HIDE DEF q, up
    <3>3. CASE up = <<LoopOp(q), QueryOp(q)>>
      BY <2>2, <3>1, <3>3 DEF q
    <3>4. CASE up = <<QueryOp(q)>>
      BY <2>2, <3>1, <3>4 DEF q
    <3> QED  BY <3>2, <3>3, <3>4
  <2> QED  BY <2>1, <2>2
<1> HIDE DEF fails, up
<1>4. ~TooWeird(fails) /\ weird' = weird + fails => weird' \in 0..1 /\ (weird' = 0 => weird = 0)
  BY <1>2 DEF TooWeird, TypeInv, TreeTypeOK
<1> QED  BY <1>1, <1>3, <1>4

\* The innermost call returns, after maybe_mark_all_seen_node.
LEMMA FinishNodeKeeps ==
    ASSUME TypeInv, CallsInv, FinishNode
    PROVE  TypeInv' /\ CallsInv' /\ KeepsFacts
<1> DEFINE f == Head(frames)
           r == Copy(f)
           closed == \A b \in BOOLEAN : r.child[b] = "sat" => store[Kid(f.node, b)].all_seen
           marked == [r EXCEPT !.all_seen = TRUE]
           n == f.node
<1>1. /\ pc = "count" /\ frames # << >> /\ todo = << >>
      /\ frames' = Tail(frames)
      /\ qryRec' = IF closed /\ n = qry THEN marked ELSE qryRec
      /\ IF closed THEN MarkWith(n, r, << >>) ELSE UNCHANGED <<store, todo, weird, pc>>
      /\ UNCHANGED <<cur, curRec, qry, inq, climb, signals>>
      /\ UNCHANGED <<heurVars, pathVars, envVars>>
  BY DEF FinishNode
<1>2. /\ f = frames[1] /\ n \in Nodes /\ r \in NodeRec
      /\ Len(n) \in Nat /\ Len(frames) \in Nat
      /\ CallOK(1) /\ n \in CallNodes /\ n # cur
      /\ n = qry <=> Len(frames) = 1
      /\ Len(qry) \in Nat
      /\ weird = 0 \/ n # qry =>
             /\ SameButMark(store[n], r)
             /\ r.query_children = store[n].query_children
             /\ StoredCount(r.query_children) = r.query_children
  BY <1>1, InnermostCall
<1>3. /\ store \in [Nodes -> NodeRec] /\ qry \in Nodes /\ cur \in Nodes /\ qryRec \in NodeRec
      /\ frames \in Seq(Frame) /\ CountsRead /\ Finishing
  BY <1>1 DEF TypeInv, TreeTypeOK, CallsInv
<1>4. /\ frames' \in Seq(Frame) /\ Len(frames') = Len(frames) - 1
      /\ \A i \in 1..Len(frames') : frames'[i] = frames[i + 1]
  BY <1>1, <1>3, PopFrame
<1>5. marked \in NodeRec /\ Stored(marked) \in NodeRec
      /\ marked.query_children = r.query_children
  <2> HIDE DEF r
  <2>1. marked \in NodeRec
    BY <1>2, AllSeenUpdateType
  <2> QED  BY <1>2, <2>1, StoredType DEF NodeRec
<1> HIDE DEF f, r, n, closed, marked
<1>6. n = qry => frames' = << >>
  <2>1. n = qry => Len(frames') = 0
    BY <1>2, <1>4
  <2>2. frames' \in Seq(Frame)
    BY <1>4
  <2>3. Len(frames') = 0 => frames' = << >>
    BY <2>2
  <2> QED  BY <2>1, <2>3
<1>7. ASSUME NEW S, S = [store EXCEPT ![n] = Stored(marked)], NEW m \in Nodes
      PROVE  \/ S[m] \in {store[m], [store[m] EXCEPT !.all_seen = TRUE]}
             \/ /\ m = qry /\ weird # 0 /\ frames' = << >>
                /\ StoredCount(S[m].query_children) = S[m].query_children
  <2>1. CASE m # n
    BY <1>3, <1>7, <2>1
  <2>2. CASE m = n /\ ~(weird = 0 \/ n # qry)
    <3>1. S[m] = Stored(marked)
      BY <1>3, <1>7, <2>2
    <3>2. StoredCount(S[m].query_children) = S[m].query_children
      BY <1>5, <3>1, StoredReads
    <3> QED  BY <1>6, <2>2, <3>2
  <2>3. CASE m = n /\ (weird = 0 \/ n # qry)
    <3>1. S[m] = Stored(marked)
      BY <1>3, <1>7, <2>3
    <3>2. Stored(marked) = marked
      BY <1>2, <1>5, <2>3, StoredSame
    <3>3. store[n] \in NodeRec /\ SameButMark(store[n], r)
      BY <1>2, <1>3, <2>3
    <3>4. marked = [store[n] EXCEPT !.all_seen = TRUE]
      BY <1>2, <3>3, MarkAside DEF marked
    <3> QED  BY <2>3, <3>1, <3>2, <3>4
  <2> QED  BY <2>1, <2>2, <2>3
\* Nothing is marked.
<1>8. CASE ~closed
  <2>1. UNCHANGED <<store, todo, weird, pc, qryRec>>
    BY <1>1, <1>8
  <2>2. TypeInv'
    BY <1>1, <2>1 DEF TypeInv, TreeTypeOK, RestTypeOK, DepthOK, heurVars, pathVars, envVars
  <2>3. \A i \in 1..Len(todo') : todo'[i].node \in CallNodes'
    BY <1>1, <2>1
  <2>4. 1 \in {0, 1} /\ weird' = 0 => weird = 0
    BY <2>1
  <2>5. /\ pc' = "count" /\ qryRec' = qryRec /\ store'[cur] = store[cur]
        /\ \A m \in Nodes : store'[m] \in {store[m], [store[m] EXCEPT !.all_seen = TRUE]}
    BY <1>1, <2>1
  <2> QED  BY <1>1, <1>4, <2>2, <2>3, <2>4, <2>5, MarkingKeeps
\* The node is marked, or mark's g_assert is the last straw.
<1>9. CASE closed
  <2>1. MarkWith(n, r, << >>) /\ << >> \in Seq(MarkOp)
    BY <1>1, <1>9
  <2>2. \/ pc' = "crashed" /\ UNCHANGED <<store, todo, weird>>
        \/ /\ store' = [store EXCEPT ![n] = Stored(marked)]
           /\ UNCHANGED pc /\ weird' \in 0..1 /\ (weird' = 0 => weird = 0)
           /\ \E up \in Seq(MarkOp) :
                 /\ todo' = up \o << >>
                 /\ \A i \in 1..Len(up) : n # Root /\ up[i].node = Parent(n)
    BY <1>2, <2>1, MarkWithWrites DEF marked
  <2>3. qryRec' \in NodeRec /\ (qryRec' = qryRec \/ frames' = << >>)
    BY <1>1, <1>3, <1>5, <1>6
  <2>4. CASE pc' = "crashed" /\ UNCHANGED <<store, todo, weird>>
    <3>1. TypeInv'
      BY <1>1, <2>3, <2>4
         DEF TypeInv, TreeTypeOK, RestTypeOK, DepthOK, heurVars, pathVars, envVars, Ended
    <3> QED  BY <1>1, <1>4, <2>4, <3>1, CallsCrash
  <2>5. CASE /\ store' = [store EXCEPT ![n] = Stored(marked)]
             /\ UNCHANGED pc /\ weird' \in 0..1 /\ (weird' = 0 => weird = 0)
             /\ \E up \in Seq(MarkOp) :
                   /\ todo' = up \o << >>
                   /\ \A i \in 1..Len(up) : n # Root /\ up[i].node = Parent(n)
    <3>1. PICK up \in Seq(MarkOp) :
            /\ todo' = up \o << >>
            /\ \A i \in 1..Len(up) : n # Root /\ up[i].node = Parent(n)
      BY <2>5
    <3>2. todo' = up
      BY <3>1
    <3>3. store' \in [Nodes -> NodeRec]
      BY <1>2, <1>3, <1>5, <2>5
    <3>4. TypeInv'
      BY <1>1, <2>3, <2>5, <3>2, <3>3
         DEF TypeInv, TreeTypeOK, RestTypeOK, DepthOK, heurVars, pathVars, envVars
    <3>5. n # Root => Parent(n) \in CallNodes'
      <4> SUFFICES ASSUME n # Root PROVE Parent(n) \in CallNodes'
        OBVIOUS
      <4>1. Parent(n) \in Nodes /\ Len(Parent(n)) = Len(n) - 1
        BY <1>2, ParentIsNode, ParentDropsLast
      <4>2. CASE n = qry
        <5>1. Len(n) = Len(qry)
          BY <4>2
        <5>2. Len(Parent(n)) =< Len(qry)
          BY <1>2, <4>1, <5>1
        <5> QED  BY <1>1, <4>1, <5>2 DEF CallNodes
      <4>3. CASE n # qry
        <5>1. Len(frames) # 1 /\ Len(frames) # 0
          BY <1>1, <1>2, <1>3, <4>3
        <5>2. 1 \in 1..Len(frames') /\ 1 < Len(frames) /\ frames'[1] = frames[1 + 1]
          BY <1>2, <1>4, <5>1
        <5>3. Parent(frames[1].node) = frames[1 + 1].node
          BY <1>2, <5>2 DEF CallOK
        <5>4. frames'[1].node = Parent(n)
          BY <1>2, <5>2, <5>3 DEF n
        <5> QED  BY <4>1, <5>2, <5>4 DEF CallNodes
      <4> QED  BY <4>2, <4>3
    <3>6. \A i \in 1..Len(todo') : todo'[i].node \in CallNodes'
      BY <3>1, <3>2, <3>5
    <3>7. store'[cur] = store[cur] /\ pc' = "count" /\ (weird' = 0 => weird = 0)
      BY <1>1, <1>2, <1>3, <2>5
    <3>8. \A m \in Nodes :
            \/ store'[m] \in {store[m], [store[m] EXCEPT !.all_seen = TRUE]}
            \/ /\ m = qry /\ weird # 0 /\ frames' = << >>
               /\ StoredCount(store'[m].query_children) = store'[m].query_children
      BY <1>7, <2>5
    <3>9. 1 \in {0, 1}
      OBVIOUS
    <3> QED  BY <1>1, <1>4, <2>3, <3>4, <3>6, <3>7, <3>8, <3>9, MarkingKeeps
  <2> QED  BY <2>2, <2>4, <2>5
<1> QED  BY <1>8, <1>9

\* The marking climbs, with fresh copies.
LEMMA ClimbMarkKeeps ==
    ASSUME TypeInv, CallsInv, ClimbMark
    PROVE  TypeInv' /\ CallsInv' /\ KeepsFacts
<1> DEFINE n == Head(todo).node
           r == store[n]
<1>1. /\ pc = "count" /\ todo # << >>
      /\ MarkWith(n, r, Tail(todo))
      /\ UNCHANGED <<cur, curRec, qry, qryRec, inq, frames, climb, signals>>
      /\ UNCHANGED <<heurVars, pathVars, envVars>>
  BY DEF ClimbMark, callVars
<1>2. /\ store \in [Nodes -> NodeRec] /\ qry \in Nodes /\ cur \in Nodes /\ qryRec \in NodeRec
      /\ frames \in Seq(Frame) /\ CountsRead /\ CurAgrees /\ Finishing
      /\ Len(frames) \in Nat /\ todo \in Seq(MarkOp)
  BY <1>1 DEF TypeInv, TreeTypeOK, RestTypeOK, CallsInv
<1>3. n \in CallNodes /\ Tail(todo) \in Seq(MarkOp)
      /\ \A i \in 1..Len(Tail(todo)) : Tail(todo)[i].node \in CallNodes
  <2>1. /\ Head(todo) = todo[1] /\ 1 \in 1..Len(todo) /\ Tail(todo) \in Seq(MarkOp)
        /\ \A i \in 1..Len(Tail(todo)) : Tail(todo)[i] = todo[i + 1] /\ i + 1 \in 1..Len(todo)
    BY <1>1, <1>2
  <2> QED  BY <1>2, <2>1 DEF Finishing, MarksOK
<1> HIDE DEF n
<1>4. n \in Nodes /\ r \in NodeRec /\ n # cur
  BY <1>2, <1>3, CallNodesNotCur DEF CallNodes
<1> DEFINE marked == [r EXCEPT !.all_seen = TRUE]
<1>5. marked \in NodeRec /\ Stored(marked) = marked
  <2> DEFINE s == r
  <2>1. s \in NodeRec /\ StoredCount(s.query_children) = s.query_children
    BY <1>2, <1>4 DEF CountsRead
  <2> HIDE DEF s
  <2>2. [s EXCEPT !.all_seen = TRUE] \in NodeRec
        /\ [s EXCEPT !.all_seen = TRUE].query_children = s.query_children
    BY <2>1, AllSeenUpdateType DEF NodeRec
  <2>3. Stored([s EXCEPT !.all_seen = TRUE]) = [s EXCEPT !.all_seen = TRUE]
    BY <2>1, <2>2, StoredSame
  <2> QED  BY <2>2, <2>3 DEF s
<1>6. \/ pc' = "crashed" /\ UNCHANGED <<store, todo, weird>>
      \/ /\ store' = [store EXCEPT ![n] = Stored(marked)]
         /\ UNCHANGED pc /\ weird' \in 0..1 /\ (weird' = 0 => weird = 0)
         /\ \E up \in Seq(MarkOp) :
               /\ todo' = up \o Tail(todo)
               /\ \A i \in 1..Len(up) : n # Root /\ up[i].node = Parent(n)
  <2> HIDE DEF r
  <2> QED  BY <1>1, <1>3, <1>4, MarkWithWrites
<1> HIDE DEF r, marked
<1>7. CASE pc' = "crashed" /\ UNCHANGED <<store, todo, weird>>
  <2>1. TypeInv'
    BY <1>1, <1>7
       DEF TypeInv, TreeTypeOK, RestTypeOK, DepthOK, heurVars, pathVars, envVars, Ended
  <2> QED  BY <1>1, <1>2, <1>7, <2>1, CallsCrash
<1>8. CASE /\ store' = [store EXCEPT ![n] = Stored(marked)]
           /\ UNCHANGED pc /\ weird' \in 0..1 /\ (weird' = 0 => weird = 0)
           /\ \E up \in Seq(MarkOp) :
                 /\ todo' = up \o Tail(todo)
                 /\ \A i \in 1..Len(up) : n # Root /\ up[i].node = Parent(n)
  <2>1. PICK up \in Seq(MarkOp) :
          /\ todo' = up \o Tail(todo)
          /\ \A i \in 1..Len(up) : n # Root /\ up[i].node = Parent(n)
    BY <1>8
  <2>2. CallNodes' = CallNodes
    BY <1>1 DEF CallNodes
  <2>3. \A i \in 1..Len(up) : up[i].node \in CallNodes
    BY <1>1, <1>2, <1>3, <2>1, CallNodesClimb DEF Finishing
  <2>4. \A i \in 1..Len(todo') : todo'[i].node \in CallNodes'
    BY <1>3, <2>1, <2>2, <2>3, TodoWithin
  <2>5. todo' \in Seq(MarkOp)
    BY <1>3, <2>1
  <2>6. store' \in [Nodes -> NodeRec] /\ store'[cur] = store[cur]
        /\ \A m \in Nodes : store'[m] \in {store[m], [store[m] EXCEPT !.all_seen = TRUE]}
    <3>1. store'[n] = [store[n] EXCEPT !.all_seen = TRUE] /\ store'[n] \in NodeRec
      BY <1>2, <1>4, <1>5, <1>8 DEF marked, r
    <3>2. \A m \in Nodes \ {n} : store'[m] = store[m]
      BY <1>2, <1>8
    <3> QED  BY <1>2, <1>4, <1>5, <1>8, <3>1, <3>2
  <2>7. TypeInv'
    BY <1>1, <1>8, <2>5, <2>6
       DEF TypeInv, TreeTypeOK, RestTypeOK, DepthOK, heurVars, pathVars, envVars
  <2>8. /\ frames' \in Seq(Frame) /\ Len(frames') = Len(frames) - 0
        /\ \A i \in 1..Len(frames') : frames'[i] = frames[i + 0]
    BY <1>1, <1>2
  <2>9. 0 \in {0, 1} /\ (weird' = 0 => weird = 0) /\ pc' = "count"
    BY <1>1, <1>8
  <2> QED  BY <1>1, <2>4, <2>6, <2>7, <2>8, <2>9, MarkingKeeps
<1> QED  BY <1>6, <1>7, <1>8

\* query_parent and internal_nodes_check, while the calls are in progress: the
\* query nodes other than the one looked at are left alone, `cur' with them.
LEMMA LookAtQueryKeeps ==
    ASSUME TypeInv, CallsInv, pc = "count", LookAtQuery
    PROVE  TypeInv' /\ CallsInv' /\ KeepsFacts
<1> DEFINE q == Head(todo).node
<1>1. /\ QueryParent \/ MarkQuery
      /\ todo # << >> /\ UNCHANGED <<inq, frames, climb, signals>>
  BY DEF LookAtQuery, callVars, QueryParent, MarkQuery
<1>2. TypeInv'
  BY <1>1, MarkActionsType
<1>3. /\ store \in [Nodes -> NodeRec] /\ qry \in Nodes /\ cur \in Nodes
      /\ frames \in Seq(Frame) /\ CountsRead /\ CurAgrees /\ Finishing
      /\ Len(frames) \in Nat /\ todo \in Seq(MarkOp) /\ weird \in Nat
      /\ IsQuery(store[cur])
  BY DEF TypeInv, TreeTypeOK, RestTypeOK, CallsInv, Finishing, CurAgrees
<1>4. q \in CallNodes /\ Tail(todo) \in Seq(MarkOp)
      /\ \A i \in 1..Len(Tail(todo)) : Tail(todo)[i].node \in CallNodes
  <2>1. /\ Head(todo) = todo[1] /\ 1 \in 1..Len(todo) /\ Tail(todo) \in Seq(MarkOp)
        /\ \A i \in 1..Len(Tail(todo)) : Tail(todo)[i] = todo[i + 1] /\ i + 1 \in 1..Len(todo)
    BY <1>1, <1>3
  <2> QED  BY <1>3, <2>1 DEF Finishing, MarksOK
<1>5. q \in Nodes /\ q # cur
  BY <1>3, <1>4, CallNodesNotCur DEF CallNodes
<1>6. /\ frames' \in Seq(Frame) /\ Len(frames') = Len(frames) - 0
      /\ \A i \in 1..Len(frames') : frames'[i] = frames[i + 0]
  BY <1>1, <1>3
<1>7. ASSUME NEW up \in Seq(MarkOp), UNCHANGED <<cur, curRec, qry, qryRec, pc>>,
             todo' = up \o Tail(todo), \A i \in 1..Len(up) : up[i].node \in CallNodes,
             weird' = 0 => weird = 0, store'[cur] = store[cur],
             \A n \in Nodes : store'[n] \in {store[n], [store[n] EXCEPT !.all_seen = TRUE]}
      PROVE  CallsInv' /\ KeepsFacts
  <2>1. CallNodes' = CallNodes
    BY <1>1, <1>7 DEF CallNodes
  <2>2. \A i \in 1..Len(todo') : todo'[i].node \in CallNodes'
    BY <1>4, <1>7, <2>1, TodoWithin
  <2>3. 0 \in {0, 1} /\ pc' = "count"
    BY <1>7
  <2> QED  BY <1>1, <1>2, <1>6, <1>7, <2>2, <2>3, MarkingKeeps
<1>8. ASSUME Crash PROVE CallsInv' /\ KeepsFacts
  BY <1>1, <1>3, <1>8, CallsCrash DEF Crash, treeVars
<1> HIDE DEF q
<1>9. CASE QueryParent
  <2>1. CASE q = Root
    BY <1>2, <1>8, <1>9, <2>1 DEF QueryParent, q
  <2>2. CASE q # Root
    <3>1. /\ todo' = <<QueryOp(Parent(q))>> \o Tail(todo)
          /\ UNCHANGED <<store, cur, curRec, qry, qryRec, pc, weird>>
      BY <1>9, <2>2 DEF QueryParent, treeVars, q
    <3>2. Parent(q) \in CallNodes /\ Parent(q) \in Nodes
      BY <1>3, <1>4, <1>5, <2>2, CallNodesClimb, ParentIsNode DEF Finishing
    <3>3. QueryOp(Parent(q)) \in MarkOp /\ QueryOp(Parent(q)).node = Parent(q)
      BY <3>2, MarkOpType DEF QueryOp
    <3> DEFINE up == <<QueryOp(Parent(q))>>
    <3>4. up \in Seq(MarkOp) /\ \A i \in 1..Len(up) : up[i].node \in CallNodes
      BY <3>2, <3>3
    <3> HIDE DEF up
    <3>5. todo' = up \o Tail(todo)
      BY <3>1 DEF up
    <3> QED  BY <1>2, <1>7, <3>1, <3>4, <3>5
  <2> QED  BY <1>2, <2>1, <2>2
<1>10. CASE MarkQuery
  <2> DEFINE fails == FailedIf(store[q].query_children > QueryBranchLimit)
  <2>1. CASE ~Limited(store[q])
    <3>1. todo' = Tail(todo) /\ UNCHANGED <<store, cur, curRec, qry, qryRec, pc, weird>>
      BY <1>10, <2>1 DEF MarkQuery, treeVars, q
    <3> DEFINE up == << >>
    <3>2. up \in Seq(MarkOp) /\ \A i \in 1..Len(up) : up[i].node \in CallNodes
      OBVIOUS
    <3>3. todo' = up \o Tail(todo)
      BY <1>4, <3>1
    <3> HIDE DEF up
    <3> QED  BY <1>2, <1>7, <3>1, <3>2, <3>3
  <2>2. CASE Limited(store[q]) /\ TooWeird(fails)
    BY <1>2, <1>8, <1>10, <2>2 DEF MarkQuery, q
  <2>3. CASE Limited(store[q]) /\ ~TooWeird(fails)
    <3> DEFINE up == IF Open(store, q, q) THEN << >> ELSE <<LoopOp(q)>>
    <3>1. /\ store' = InternalNodesCheck(store, q)
          /\ todo' = up \o Tail(todo)
          /\ weird' = weird + fails
          /\ UNCHANGED <<cur, curRec, qry, qryRec, pc>>
      BY <1>10, <2>3 DEF MarkQuery, q
    <3>2. weird' = 0 => weird = 0
      BY <1>3, <3>1 DEF FailedIf
    <3>3. up \in Seq(MarkOp) /\ \A i \in 1..Len(up) : up[i].node \in CallNodes
      <4>1. LoopOp(q) \in MarkOp /\ LoopOp(q).node = q
        BY <1>5, MarkOpType DEF LoopOp
      <4>2. up \in {<< >>, <<LoopOp(q)>>}
        OBVIOUS
      <4> HIDE DEF up
      <4>3. CASE up = << >>
        BY <4>3
      <4>4. CASE up = <<LoopOp(q)>>
        BY <1>4, <4>1, <4>4
      <4> QED  BY <4>2, <4>3, <4>4
    <3> HIDE DEF up, fails
    <3>4. ASSUME NEW n \in Nodes
          PROVE  store'[n] \in {store[n], [store[n] EXCEPT !.all_seen = TRUE]}
      BY <3>1 DEF InternalNodesCheck
    <3>5. store'[cur] = store[cur]
      <4>1. cur \notin ReachedByCheck(store, q)
        BY <1>3, <1>5 DEF ReachedByCheck
      <4> QED  BY <1>3, <3>1, <4>1 DEF InternalNodesCheck
    <3> QED  BY <1>2, <1>7, <3>1, <3>2, <3>3, <3>4, <3>5
  <2> QED  BY <2>1, <2>2, <2>3
<1> QED  BY <1>1, <1>2, <1>9, <1>10

\* count_query returns: nothing is in progress any more.
LEMMA CountReturnsKeeps ==
    ASSUME TypeInv, CallsInv, CountQueryReturns, Idle, UNCHANGED callVars
    PROVE  TypeInv' /\ CallsInv' /\ KeepsFacts
<1>1. /\ pc = "count" /\ pc' = "run" /\ UNCHANGED <<store, curRec, cur, inq, todo>>
      /\ UNCHANGED <<frames, climb, signals>> /\ frames = << >> /\ climb = << >>
  BY DEF CountQueryReturns, treeVars, callVars, Idle
<1>2. TypeInv'
  BY NextType DEF Next
<1>3. Finishing /\ CountsRead /\ CurAgrees /\ DeepestHaveNoKids /\ frames \in Seq(Frame)
      /\ signals \in Nat
  BY <1>1 DEF CallsInv
<1>4. CountsRead' /\ CurAgrees' /\ DeepestHaveNoKids' /\ KeepsFacts
  BY <1>1, <1>3, NoWrite, LosesNothingKeeps DEF CountsRead, CurAgrees, DeepestHaveNoKids
<1>5. QueryOpen' /\ QueryClosing' /\ MarksFromQuery' /\ MarksFromCur'
  BY <1>1, <1>3 DEF Finishing, QueryOpen, QueryClosing, MarksFromQuery, MarksFromCur
<1> QED  BY <1>1, <1>2, <1>3, <1>4, <1>5 DEF CallsInv, WriteInv

-----------------------------------------------------------------------------
(* set_heur and propagate_heur.                                            *)

\* set_heur begins, while a path runs or when it has ended.
LEMMA SetHeurStartKeeps ==
    ASSUME TypeInv, CallsInv, ScoreStart \/ FinishPathStart
    PROVE  TypeInv' /\ CallsInv' /\ KeepsFacts
<1>1. PICK h \in Nat : CallSetHeur(h)
  <2>1. \A h \in Scores : h \in Nat
    BY LimitsAssumption
  <2> QED  BY <2>1 DEF ScoreStart, FinishPathStart
<1>2. /\ cur_heur' = h /\ best_heur' = MaxOf(h, best_heur) /\ climb' = <<cur>>
      /\ UNCHANGED <<store, cur, curRec, qry, qryRec, frames, signals>>
  BY <1>1 DEF CallSetHeur, treeVars
<1>3. /\ cur \in Nodes /\ cur_heur' \in Int /\ best_heur' \in Int
      /\ todo \in Seq(MarkOp) /\ explored \subseteq Nodes
      /\ prog \in [Nodes -> {"unknown", "inner", "query", "leaf"}]
  BY <1>2 DEF TypeInv, TreeTypeOK, RestTypeOK, MaxOf
<1>4. /\ frames = << >> /\ climb = << >> /\ pc \in {"run", "finish"} /\ (pc = "run" => ~inq)
  BY DEF ScoreStart, FinishPathStart, PathEnds, Idle
<1>5. CountsRead' /\ CurAgrees' /\ DeepestHaveNoKids' /\ KeepsFacts
  BY <1>2, NoWrite, LosesNothingKeeps DEF CallsInv, CountsRead, CurAgrees, DeepestHaveNoKids
<1>6. CASE ScoreStart
  <2>1. pc = "run" /\ UNCHANGED <<inq, pc, todo, pathVars, envVars, weird>>
    BY <1>6 DEF ScoreStart
  <2>2. TypeInv'
    BY <1>2, <1>3, <2>1
       DEF TypeInv, TreeTypeOK, RestTypeOK, DepthOK, pathVars, envVars
  <2>3. QueryOpen' /\ QueryClosing' /\ MarksFromQuery' /\ MarksFromCur'
    BY <1>4, <2>1 DEF QueryOpen, QueryClosing, MarksFromQuery, MarksFromCur
  <2> QED  BY <1>2, <1>3, <1>4, <1>5, <2>1, <2>2, <2>3 DEF CallsInv, WriteInv
<1>7. CASE FinishPathStart
  <2>1. /\ pc' = "mark" /\ todo' = <<LoopOp(cur)>> /\ explored' = explored \cup {cur}
        /\ UNCHANGED <<inq, iteration_count, feas, weird>>
        /\ UNCHANGED prog \/ Does(cur, "leaf")
    BY <1>7 DEF FinishPathStart, PathEnds
  <2>2. todo' \in Seq(MarkOp)
    BY <1>3, <2>1, MarkOpType
  <2>3. prog' \in [Nodes -> {"unknown", "inner", "query", "leaf"}]
    BY <1>3, <2>1, DoesType
  <2>4. TypeInv'
    BY <1>2, <1>3, <2>1, <2>2, <2>3 DEF TypeInv, TreeTypeOK, RestTypeOK, DepthOK
  <2>5. QueryOpen' /\ QueryClosing' /\ MarksFromQuery' /\ MarksFromCur'
    BY <1>2, <2>1 DEF QueryOpen, QueryClosing, MarksFromQuery, MarksFromCur
  <2> QED  BY <1>2, <1>3, <1>4, <1>5, <2>1, <2>4, <2>5 DEF CallsInv, WriteInv
<1> QED  BY <1>6, <1>7

\* One turn of propagate_heur widens one record.
LEMMA PropagateStepKeeps ==
    ASSUME TypeInv, CallsInv, PropagateStep
    PROVE  TypeInv' /\ CallsInv' /\ KeepsFacts
<1> DEFINE n   == Head(climb)
           old == IF n = cur THEN curRec ELSE store[n]
           new == Widen(old, cur_heur)
<1>1. /\ climb # << >>
      /\ \/ climb' = << >> /\ UNCHANGED treeVars
         \/ /\ store' = [store EXCEPT ![n] = Stored(new)]
            /\ curRec' = IF n = cur THEN new ELSE curRec
            /\ qryRec' = IF n = cur /\ n = qry THEN new ELSE qryRec
            /\ climb' = IF n = Root THEN << >> ELSE <<Parent(n)>>
            /\ UNCHANGED <<cur, qry>>
      /\ UNCHANGED <<inq, pc, todo, weird, frames, signals>>
      /\ UNCHANGED <<heurVars, pathVars, envVars>>
  BY DEF PropagateStep
<1>2. /\ pc \in {"run", "mark"} /\ (pc = "run" => ~inq) /\ frames = << >>
      /\ WriteInv /\ CountsRead /\ CurAgrees /\ DeepestHaveNoKids /\ signals \in Nat
      /\ climb \in {<<m>> : m \in Nodes}
  BY <1>1 DEF CallsInv
<1>3. n \in Nodes
  BY <1>2
<1>4. /\ store \in [Nodes -> NodeRec] /\ cur \in Nodes /\ curRec \in NodeRec
      /\ qryRec \in NodeRec /\ cur_heur \in Int
  BY DEF TypeInv, TreeTypeOK, RestTypeOK
<1> HIDE DEF n
<1>5. old = store[n] /\ old \in NodeRec /\ StoredCount(old.query_children) = old.query_children
  BY <1>2, <1>3, <1>4 DEF CurAgrees, CountsRead
<1> HIDE DEF old
<1>6. /\ new \in NodeRec /\ HoldsAll(old, new) /\ new.query_children = old.query_children
      /\ Stored(new) = new /\ new.child = old.child /\ new.all_seen = old.all_seen
  <2>1. new \in NodeRec /\ HoldsAll(old, new) /\ new.query_children = old.query_children
    BY <1>4, <1>5, WidenType, WidenHolds, HoldsItself
  <2>2. new.child = old.child /\ new.all_seen = old.all_seen
    BY <1>5 DEF Widen, NodeRec
  <2> HIDE DEF new
  <2> QED  BY <1>5, <2>1, <2>2, StoredSame
<1> HIDE DEF new
<1>7. CASE climb' = << >> /\ UNCHANGED treeVars
  <2>1. UNCHANGED <<store, cur, curRec, qry, qryRec>>
    BY <1>7 DEF treeVars
  <2>2. TypeInv'
    BY <1>1, <2>1 DEF TypeInv, TreeTypeOK, RestTypeOK, DepthOK, heurVars, pathVars, envVars
  <2>3. CountsRead' /\ CurAgrees' /\ DeepestHaveNoKids' /\ KeepsFacts
    BY <1>2, <2>1, NoWrite, LosesNothingKeeps DEF CountsRead, CurAgrees, DeepestHaveNoKids
  <2>4. QueryOpen' /\ QueryClosing' /\ MarksFromQuery' /\ MarksFromCur'
    BY <1>1, <1>2, <2>1
       DEF WriteInv, QueryOpen, QueryClosing, MarksFromQuery, MarksFromCur
  <2> QED  BY <1>1, <1>2, <1>7, <2>2, <2>3, <2>4 DEF CallsInv, WriteInv
<1>8. CASE /\ store' = [store EXCEPT ![n] = Stored(new)]
           /\ curRec' = IF n = cur THEN new ELSE curRec
           /\ qryRec' = IF n = cur /\ n = qry THEN new ELSE qryRec
           /\ climb' = IF n = Root THEN << >> ELSE <<Parent(n)>>
           /\ UNCHANGED <<cur, qry>>
  <2>1. store'[n] = new /\ (\A m \in Nodes \ {n} : store'[m] = store[m])
        /\ store' \in [Nodes -> NodeRec]
    BY <1>3, <1>4, <1>6, <1>8
  <2>2. TypeInv'
    <3>1. curRec' \in NodeRec /\ qryRec' \in NodeRec
      BY <1>4, <1>6, <1>8
    <3> QED
      BY <1>1, <1>8, <2>1, <3>1
         DEF TypeInv, TreeTypeOK, RestTypeOK, DepthOK, heurVars, pathVars, envVars
  <2>3. CountsRead'
    BY <1>2, <1>5, <1>6, <2>1 DEF CountsRead
  <2>4. CurAgrees'
    BY <1>2, <1>4, <1>8, <2>1 DEF CurAgrees
  <2>5. DeepestHaveNoKids'
    BY <1>2, <1>5, <1>6, <2>1, NoKidsAdded
  <2>6. KeepsFacts
    <3>1. \A m \in Nodes : HoldsAll(store[m], store'[m])
      BY <1>4, <1>5, <1>6, <2>1, HoldsItself
    <3> QED  BY <3>1, LosesNothingKeeps DEF LosesNothing
  <2>7. QueryOpen' /\ QueryClosing' /\ MarksFromQuery'
    BY <1>1, <1>2 DEF QueryOpen, QueryClosing, MarksFromQuery
  <2>8. MarksFromCur'
    <3>1. store'[cur].all_seen = store[cur].all_seen
      BY <1>4, <1>5, <1>6, <2>1
    <3> QED  BY <1>1, <1>2, <1>8, <3>1 DEF WriteInv, MarksFromCur
  <2>9. climb' \in {<< >>} \cup {<<m>> : m \in Nodes}
    BY <1>3, <1>8, ParentIsNode
  <2> QED  BY <1>1, <1>2, <2>2, <2>3, <2>4, <2>5, <2>6, <2>7, <2>8, <2>9 DEF CallsInv, WriteInv
<1> QED  BY <1>1, <1>7, <1>8

-----------------------------------------------------------------------------
(* Signals.                                                                *)

\* The exception leaves the table, and no copy but `cur'.
LEMMA RaisedKeeps ==
    ASSUME TypeInv, CallsInv, Raised,
           store' \in [Nodes -> NodeRec], curRec' \in NodeRec, qryRec' \in NodeRec,
           weird' \in 0..1, feas' \in [Nodes -> SUBSET BOOLEAN],
           CountsRead', CurAgrees',
           \A n \in Nodes : store'[n].child = store[n].child \/ Len(n) =< PathDepthLimit
    PROVE  TypeInv' /\ CallsInv'
<1>1. /\ pc' \in {"stopped", "finish"}
      /\ todo' = << >> /\ frames' = << >> /\ climb' = << >> /\ signals' = signals + 1
      /\ UNCHANGED <<cur, qry, inq, prog>> /\ UNCHANGED <<heurVars, pathVars>>
  BY DEF Raised
<1>2. TypeInv'
  BY <1>1 DEF TypeInv, TreeTypeOK, RestTypeOK, DepthOK, heurVars, pathVars, Ended
<1>3. signals' \in Nat /\ DeepestHaveNoKids'
  BY <1>1, NoKidsAdded DEF CallsInv
<1>4. QueryOpen' /\ QueryClosing' /\ MarksFromQuery' /\ MarksFromCur'
  BY <1>1 DEF QueryOpen, QueryClosing, MarksFromQuery, MarksFromCur
<1> QED  BY <1>1, <1>2, <1>3, <1>4 DEF CallsInv, WriteInv

\* A signal between two operations, or between two writes.
LEMMA SignalKeeps ==
    ASSUME TypeInv, CallsInv, Signal
    PROVE  TypeInv' /\ CallsInv' /\ KeepsFacts
<1>1. Raised /\ UNCHANGED <<store, curRec, qryRec, feas, weird>> /\ UNCHANGED cur
  BY DEF Signal, Raised
<1>2. CountsRead' /\ CurAgrees' /\ KeepsFacts
  BY <1>1, NoWrite, LosesNothingKeeps DEF CallsInv, CountsRead, CurAgrees
<1>3. /\ store \in [Nodes -> NodeRec] /\ curRec \in NodeRec /\ qryRec \in NodeRec
      /\ weird \in 0..1 /\ feas \in [Nodes -> SUBSET BOOLEAN]
  BY DEF TypeInv, TreeTypeOK, RestTypeOK
<1> QED  BY <1>1, <1>2, <1>3, RaisedKeeps

\* A signal in try_extend, after refusals and directions have been recorded.
LEMMA SignalInTryExtendKeeps ==
    ASSUME TypeInv, CallsInv, SignalInTryExtend
    PROVE  TypeInv' /\ CallsInv' /\ KeepsFacts
<1>1. Idle /\ pc = "try" /\ Raised /\ UNCHANGED <<cur, qry>>
  BY DEF SignalInTryExtend, Raised
<1>2. PICK F \in SUBSET BOOLEAN, b \in BOOLEAN :
        /\ Consult(F)
        /\ \E a \in Answers(F), c \in [BOOLEAN -> ChildStatus] :
            LET r     == [curRec EXCEPT !.child = c]
                fails == FailedIf(curRec.all_seen)
            IN /\ Recorded(a, r)
               /\ ~TooWeird(fails)
               /\ store' = [store EXCEPT ![cur] = Stored(r)]
               /\ SetCur(r)
               /\ weird' = weird + fails
  BY DEF SignalInTryExtend
<1>3. PICK a \in Answers(F), c \in [BOOLEAN -> ChildStatus] :
        /\ Recorded(a, [curRec EXCEPT !.child = c])
        /\ ~TooWeird(FailedIf(curRec.all_seen))
        /\ store' = [store EXCEPT ![cur] = Stored([curRec EXCEPT !.child = c])]
        /\ SetCur([curRec EXCEPT !.child = c])
        /\ weird' = weird + FailedIf(curRec.all_seen)
  BY <1>2
<1> DEFINE r == [curRec EXCEPT !.child = c]
<1>4. /\ store \in [Nodes -> NodeRec] /\ cur \in Nodes /\ curRec \in NodeRec
      /\ qryRec \in NodeRec /\ weird \in 0..1 /\ Len(cur) =< PathDepthLimit
      /\ feas \in [Nodes -> SUBSET BOOLEAN]
      /\ CountsRead /\ CurAgrees
  BY <1>1 DEF TypeInv, TreeTypeOK, RestTypeOK, DepthOK, CallsInv
<1>5. r \in NodeRec /\ r.query_children = curRec.query_children /\ HoldsAll(curRec, r)
  <2>1. \A d \in BOOLEAN : r.child[d] # curRec.child[d] => curRec.child[d] = "unknown"
    BY <1>3 DEF Recorded
  <2>2. /\ r \in NodeRec /\ r.query_children = curRec.query_children
        /\ r.all_seen = curRec.all_seen /\ r.query_counted = curRec.query_counted
        /\ r.heur_min = curRec.heur_min /\ r.heur_max = curRec.heur_max
    BY <1>4 DEF NodeRec
  <2> HIDE DEF r
  <2> QED  BY <1>4, <2>1, <2>2 DEF HoldsAll, NodeRec
<1>6. store' = [store EXCEPT ![cur] = Stored(r)] /\ SetCur(r)
  BY <1>3
<1> HIDE DEF r
<1>7. /\ Stored(r) = r /\ store'[cur] = r
      /\ \A n \in Nodes \ {cur} : store'[n] = store[n]
      /\ CountsRead' /\ LosesNothing
  BY <1>4, <1>5, <1>6, WriteCur
<1>8. CurAgrees' /\ curRec' \in NodeRec /\ qryRec' \in NodeRec
  BY <1>1, <1>4, <1>5, <1>6, <1>7 DEF SetCur, CurAgrees
<1>9. store' \in [Nodes -> NodeRec]
  BY <1>4, <1>5, <1>6, <1>7
<1>10. weird' \in 0..1
  BY <1>3, <1>4 DEF FailedIf, TooWeird
<1>11. feas' \in [Nodes -> SUBSET BOOLEAN]
  BY <1>2, <1>4 DEF Consult
<1>12. \A n \in Nodes : store'[n].child = store[n].child \/ Len(n) =< PathDepthLimit
  BY <1>4, <1>7
<1> QED
  BY <1>1, <1>7, <1>8, <1>9, <1>10, <1>11, <1>12, RaisedKeeps, LosesNothingKeeps

\* A signal in count_query, between its writes.
LEMMA SignalInCountQueryKeeps ==
    ASSUME TypeInv, CallsInv, Countable, SignalInCountQuery
    PROVE  TypeInv' /\ CallsInv' /\ KeepsFacts
<1> DEFINE newc  == [curRec EXCEPT !.query_children = IF @ = None THEN 0 ELSE @]
           newq  == [qryRec EXCEPT !.query_children = @ + 1]
<1>1. /\ Idle /\ pc = "run" /\ inq /\ cur # qry /\ IsQuery(qryRec)
      /\ Raised /\ UNCHANGED feas /\ UNCHANGED <<cur, qry>>
  BY DEF SignalInCountQuery, Raised
<1>2. PICK counted \in BOOLEAN :
        /\ ~TooWeird(FailedIf(counted /\ Limited(qryRec)))
        /\ store' = [store EXCEPT ![qry] = IF counted THEN Stored(newq) ELSE @,
                                  ![cur] = Stored(newc)]
        /\ qryRec' = IF counted THEN newq ELSE qryRec
        /\ curRec' = newc
        /\ weird' = weird + FailedIf(counted /\ Limited(qryRec))
  BY DEF SignalInCountQuery
<1>3. /\ store \in [Nodes -> NodeRec] /\ cur \in Nodes /\ curRec \in NodeRec
      /\ qry \in Nodes /\ qryRec \in NodeRec /\ weird \in 0..1
      /\ Len(cur) =< PathDepthLimit /\ PathDepthLimit \in Nat
      /\ feas \in [Nodes -> SUBSET BOOLEAN]
      /\ WriteInv /\ CountsRead /\ CurAgrees
  BY <1>1, LimitsAssumption DEF TypeInv, TreeTypeOK, RestTypeOK, DepthOK, CallsInv
<1>4. newc \in NodeRec /\ HoldsAll(curRec, newc) /\ Stored(newc) = newc
      /\ newc.child = curRec.child
  <2>1. curRec.query_children \in Int
    BY <1>3 DEF NodeRec
  <2>2. newc \in NodeRec /\ newc.child = curRec.child
    <3>1. ASSUME NEW c \in Int
          PROVE  LET s == [curRec EXCEPT !.query_children = c]
                 IN s \in NodeRec /\ s.child = curRec.child
      BY <1>3 DEF NodeRec
    <3>2. (IF curRec.query_children = None THEN 0 ELSE curRec.query_children) \in Int
      BY <2>1
    <3> QED  BY <3>1, <3>2
  <2>3. HoldsAll(curRec, newc)
    <3>1. curRec.query_children =< newc.query_children
      BY <1>3 DEF NodeRec, None
    <3> QED  BY <1>3, <3>1 DEF HoldsAll, NodeRec
  <2>4. StoredCount(newc.query_children) = newc.query_children
    <3>1. StoredCount(curRec.query_children) = curRec.query_children
      BY <1>3 DEF CountsRead, CurAgrees
    <3>2. StoredCount(0) = 0
      BY SmallCountStored, LimitsAssumption
    <3>3. newc.query_children \in {0, curRec.query_children}
      BY <1>3 DEF NodeRec
    <3> QED  BY <3>1, <3>2, <3>3
  <2> HIDE DEF newc
  <2> QED  BY <2>2, <2>3, <2>4, StoredSame
<1>5. newq \in NodeRec /\ newq.child = qryRec.child
  <2>1. ASSUME NEW c \in Int
        PROVE  LET s == [qryRec EXCEPT !.query_children = c]
               IN s \in NodeRec /\ s.child = qryRec.child
    BY <1>3 DEF NodeRec
  <2>2. qryRec.query_children + 1 \in Int
    BY <1>3 DEF NodeRec
  <2> QED  BY <2>1, <2>2
<1>6. ASSUME weird = 0
      PROVE  qryRec = store[qry] /\ HoldsAll(qryRec, newq) /\ Stored(newq) = newq
  <2> DEFINE k == qryRec.query_children
  <2>1. qryRec = store[qry]
    BY <1>1, <1>3, <1>6 DEF WriteInv, QueryOpen
  <2>2. k \in Int /\ k # None
    BY <1>1, <1>3 DEF NodeRec, IsQuery
  <2>3. k >= 0
    <3>1. StoredCount(k) = k
      BY <1>3, <2>1 DEF CountsRead
    <3>2. CountModulus \in Nat \ {0}
      BY LimitsAssumption
    <3>3. k % CountModulus >= 0
      BY <2>2, <3>2
    <3> QED  BY <2>2, <3>1, <3>3 DEF StoredCount
  <2>4. k + 1 < CountModulus - 1
    BY <1>3, <2>1, <2>2, LimitsAssumption DEF Countable
  <2>5. StoredCount(k + 1) = k + 1
    BY <2>2, <2>3, <2>4, SmallCountStored
  <2>6. newq.query_children = k + 1 /\ HoldsAll(qryRec, newq)
    BY <1>3, <2>2 DEF HoldsAll, NodeRec
  <2> HIDE DEF newq, k
  <2> QED  BY <1>5, <2>1, <2>5, <2>6, StoredSame
<1> HIDE DEF newc, newq
<1>7. /\ store'[cur] = newc
      /\ store'[qry] = IF counted THEN Stored(newq) ELSE store[qry]
      /\ \A n \in Nodes \ {cur, qry} : store'[n] = store[n]
      /\ store' \in [Nodes -> NodeRec]
  BY <1>1, <1>2, <1>3, <1>4, <1>5, StoredType
<1>8. CountsRead'
  <2>1. StoredCount(newc.query_children) = newc.query_children
    BY <1>4, StoredReads
  <2> QED  BY <1>3, <1>5, <1>7, <2>1, StoredReads DEF CountsRead
<1>9. CurAgrees' /\ curRec' \in NodeRec /\ qryRec' \in NodeRec
  BY <1>1, <1>2, <1>3, <1>4, <1>5, <1>7 DEF CurAgrees
<1>10. weird' \in 0..1 /\ feas' \in [Nodes -> SUBSET BOOLEAN]
  BY <1>1, <1>2, <1>3 DEF FailedIf, TooWeird
<1>11. \A n \in Nodes : store'[n].child = store[n].child \/ Len(n) =< PathDepthLimit
  <2>1. Len(qry) =< PathDepthLimit
    <3>1. Len(qry) \in Nat /\ Len(cur) \in Nat
      BY <1>3, NodesAreSequences
    <3> QED  BY <1>1, <1>3, <3>1 DEF WriteInv, QueryOpen, QueryAbove
  <2> QED  BY <1>3, <1>7, <2>1
<1>12. LosesNothing
  <2> SUFFICES ASSUME weird = 0, NEW n \in Nodes
               PROVE  HoldsAll(store[n], store'[n])
    BY DEF LosesNothing
  <2>1. CASE n = cur
    BY <1>3, <1>4, <1>7, <2>1 DEF CurAgrees
  <2>2. CASE n = qry
    BY <1>3, <1>6, <1>7, <2>2, HoldsItself
  <2>3. CASE n \notin {cur, qry}
    BY <1>3, <1>7, <2>3, HoldsItself
  <2> QED  BY <2>1, <2>2, <2>3
<1> QED
  BY <1>1, <1>7, <1>8, <1>9, <1>10, <1>11, <1>12, RaisedKeeps, LosesNothingKeeps

\* A signal in internal_nodes_check, between its marks.
LEMMA SignalInCheckKeeps ==
    ASSUME TypeInv, CallsInv, SignalInCheck
    PROVE  TypeInv' /\ CallsInv' /\ KeepsFacts
<1> DEFINE q == Head(todo).node
           S == InternalNodesCheck(store, q)
           fails == FailedIf(store[q].query_children > QueryBranchLimit)
<1>1. /\ pc \in {"boring", "count"} /\ todo # << >> /\ Head(todo).op = "query"
      /\ Raised /\ ~TooWeird(fails) /\ weird' = weird + fails
      /\ UNCHANGED <<cur, curRec, qry, qryRec, feas>>
  BY DEF SignalInCheck, Raised
<1>2. \A n \in Nodes : store'[n] \in {store[n], S[n]}
  BY DEF SignalInCheck
<1>3. /\ store \in [Nodes -> NodeRec] /\ cur \in Nodes /\ curRec \in NodeRec
      /\ qryRec \in NodeRec /\ weird \in 0..1 /\ todo \in Seq(MarkOp)
      /\ feas \in [Nodes -> SUBSET BOOLEAN] /\ CountsRead /\ CurAgrees
      /\ frames \in Seq(Frame)
  BY DEF TypeInv, TreeTypeOK, RestTypeOK, CallsInv
<1> HIDE DEF q, fails
<1>4. store' \in [Nodes -> NodeRec]
  <2>1. store' = [n \in Nodes |-> store'[n]]
    BY DEF SignalInCheck
  <2>2. \A n \in Nodes : S[n] \in NodeRec
    BY <1>3, AllSeenUpdateType DEF InternalNodesCheck
  <2> QED  BY <1>2, <1>3, <2>1, <2>2
<1>5. ASSUME NEW n \in Nodes
      PROVE  /\ HoldsAll(store[n], store'[n])
             /\ store'[n].query_children = store[n].query_children
             /\ store'[n].child = store[n].child
  <2>1. store'[n] \in {store[n], [store[n] EXCEPT !.all_seen = TRUE]}
    BY <1>2 DEF InternalNodesCheck
  <2>2. store[n] \in NodeRec /\ HoldsAll(store[n], store[n])
    BY <1>3, HoldsItself
  <2>3. [store[n] EXCEPT !.all_seen = TRUE].child = store[n].child
    BY <2>2 DEF NodeRec
  <2> QED  BY <2>1, <2>2, <2>3, MarkHolds
<1>6. store'[cur] = store[cur]
  <2>1. cur \notin ReachedByCheck(store, q)
    <3>1. CASE pc = "boring"
      <4>1. todo # <<LoopOp(cur)>>
        BY <1>1 DEF LoopOp
      <4>2. store[cur].all_seen
        BY <3>1, <4>1 DEF CallsInv, WriteInv, MarksFromCur
      <4> QED  BY <4>2 DEF ReachedByCheck
    <3>2. CASE pc = "count"
      <4>1. Finishing /\ IsQuery(store[cur])
        BY <1>3, <3>2 DEF CallsInv, Finishing, CurAgrees
      <4>2. q \in CallNodes
        <5>1. Head(todo) = todo[1] /\ 1 \in 1..Len(todo)
          BY <1>1, <1>3
        <5> QED  BY <4>1, <5>1 DEF Finishing, MarksOK, q
      <4>3. cur # q
        BY <1>3, <4>1, <4>2, CallNodesNotCur
      <4> QED  BY <4>1, <4>3 DEF ReachedByCheck
    <3> QED  BY <1>1, <3>1, <3>2
  <2> QED  BY <1>2, <1>3, <2>1 DEF InternalNodesCheck
<1>7. CountsRead' /\ LosesNothing
  BY <1>3, <1>5 DEF CountsRead, LosesNothing
<1>8. CurAgrees' /\ curRec' \in NodeRec /\ qryRec' \in NodeRec
      /\ feas' \in [Nodes -> SUBSET BOOLEAN]
  BY <1>1, <1>3, <1>6 DEF CurAgrees
<1>9. weird' \in 0..1
  BY <1>1, <1>3 DEF FailedIf, TooWeird, fails
<1> QED
  BY <1>1, <1>4, <1>5, <1>7, <1>8, <1>9, RaisedKeeps, LosesNothingKeeps

-----------------------------------------------------------------------------
(* The theorems.                                                           *)

\* Nothing is in progress at first.
LEMMA InitCalls == WritesInit => TypeInv /\ CallsInv
<1> SUFFICES ASSUME WritesInit PROVE TypeInv /\ CallsInv
  OBVIOUS
<1>1. TypeInv /\ WriteInv
  BY InitType, InitWrites DEF WritesInit
<1>2. DeepestHaveNoKids
  BY DEF WritesInit, Init, DeepestHaveNoKids, FreshNode
<1>3. frames = << >> /\ climb = << >> /\ signals = 0 /\ pc = "run"
  BY DEF WritesInit, Init
<1>4. frames \in Seq(Frame)
  BY <1>3
<1> QED  BY <1>1, <1>2, <1>3, <1>4 DEF CallsInv, WriteInv

\* Every step, a write or a signal, keeps the invariant and the facts.
LEMMA NextCalls ==
    ASSUME TypeInv, CallsInv, Countable, [WritesNext]_writeVars
    PROVE  TypeInv' /\ CallsInv' /\ KeepsFacts
<1>1. CASE WholeOperation
  <2>1. CASE pc = "count"
    <3>1. CountQueryReturns /\ Idle /\ UNCHANGED callVars
      BY <1>1, <2>1
         DEF WholeOperation, StartNewQuery, NextBit, TryExtendKnown, TryExtendAsk,
             LeaveBoring, CountQuery, OtherQueryFails, Reset, LastIteration
    <3> QED  BY <3>1, CountReturnsKeeps
  <2>2. CASE pc # "count"
    <3>1. Idle /\ UNCHANGED callVars
      BY <1>1 DEF WholeOperation
    <3>2. \/ StartNewQuery \/ NextBit
          \/ TryExtendKnown \/ TryExtendAsk \/ LeaveBoring
          \/ CountQuery \/ MarkLoop
          \/ OtherQueryFails \/ Reset \/ LastIteration
      BY <1>1, <2>2 DEF WholeOperation, CountQueryReturns
    <3> QED  BY <2>2, <3>1, <3>2, WholeOperationKeeps
  <2> QED  BY <2>1, <2>2
<1>2. CASE LookAtQuery
  <2>1. CASE pc = "count"
    BY <1>2, <2>1, LookAtQueryKeeps
  <2>2. CASE pc # "count"
    <3>1. pc \in {"mark", "boring"} /\ climb = << >> /\ UNCHANGED callVars
          /\ (QueryParent \/ MarkQuery)
      BY <1>2, <2>2 DEF LookAtQuery, QueryParent, MarkQuery
    <3>2. Idle
      BY <3>1 DEF CallsInv, Idle
    <3> QED  BY <2>2, <3>1, <3>2, WholeOperationKeeps
  <2> QED  BY <2>1, <2>2
<1>3. CASE FinishStart \/ FinishDirection \/ FinishNode \/ ClimbMark
  BY <1>3, FinishStartKeeps, FinishDirectionKeeps, FinishNodeKeeps, ClimbMarkKeeps
<1>4. CASE ScoreStart \/ FinishPathStart \/ PropagateStep
  BY <1>4, SetHeurStartKeeps, PropagateStepKeeps
<1>5. CASE Signal \/ SignalInTryExtend \/ SignalInCountQuery \/ SignalInCheck
  BY <1>5, SignalKeeps, SignalInTryExtendKeeps, SignalInCountQueryKeeps, SignalInCheckKeeps
<1>6. CASE (Terminated /\ UNCHANGED callVars) \/ UNCHANGED writeVars
  <2>1. /\ UNCHANGED <<store, cur, curRec, qry, qryRec, inq, pc, todo, weird>>
        /\ UNCHANGED <<frames, climb, signals>> /\ UNCHANGED vars
    BY <1>6 DEF Terminated, writeVars, callVars, vars, treeVars
  <2>2. TypeInv'
    BY <2>1, NextType
  <2>3. KeepsFacts
    BY <2>1, NoWrite, LosesNothingKeeps
  <2>4. CountsRead' /\ CurAgrees' /\ DeepestHaveNoKids'
    BY <2>1 DEF CallsInv, CountsRead, CurAgrees, DeepestHaveNoKids
  <2>5. WriteInv => WriteInv'
    BY <2>1, <2>4 DEF WriteInv, QueryOpen, QueryAbove, QueryClosing, MarksFromQuery, MarksFromCur
  <2>6. Finishing => Finishing'
    BY <2>1 DEF Finishing, CallsOK, CallOK, MarksOK, CallNodes, Copy, SameButMark
  <2> QED  BY <2>1, <2>2, <2>3, <2>4, <2>5, <2>6 DEF CallsInv
<1> QED  BY <1>1, <1>2, <1>3, <1>4, <1>5, <1>6 DEF WritesNext

\* update_dt_node: taken write by write, and wherever signals hit, no write of
\* a whole record loses a direction, a count or a score range, and a mark only
\* where finish_internal_nodes still holds the node's copy from before it.
THEOREM NoLostUpdateAlways == WritesSpec /\ []Countable => NoLostUpdate
<1>1. WritesInit => TypeInv /\ CallsInv
  BY InitCalls
<1>2. TypeInv /\ CallsInv /\ Countable /\ [WritesNext]_writeVars
        => TypeInv' /\ CallsInv' /\ [KeepsFacts]_store
  BY NextCalls
<1>3. WritesSpec /\ []Countable => [][KeepsFacts]_store
  BY <1>1, <1>2, PTL DEF WritesSpec
<1> QED  BY <1>3 DEF NoLostUpdate, KeepsFacts

\* The types of the tree and of the calls in progress: the recursion of
\* finish_internal_nodes and the climb of propagate_heur stay in the tree, and
\* the program never runs on after a second failed g_assert.
THEOREM CallsTypeCorrect == WritesSpec /\ []Countable => []CallsTypeOK
<1>1. WritesInit => TypeInv /\ CallsInv
  BY InitCalls
<1>2. TypeInv /\ CallsInv /\ Countable /\ [WritesNext]_writeVars => TypeInv' /\ CallsInv'
  BY NextCalls
<1>3. TypeInv /\ CallsInv => CallsTypeOK
  BY TypeInvImpliesTypeOK DEF CallsInv, CallsTypeOK
<1> QED  BY <1>1, <1>2, <1>3, PTL DEF WritesSpec

=============================================================================
