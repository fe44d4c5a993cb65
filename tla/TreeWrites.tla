----------------------------- MODULE TreeWrites ------------------------------
(***************************************************************************)
(* The operations of DecisionTree that write more than one record, taken   *)
(* write by write, and the signals that may come between any two writes.   *)
(*                                                                         *)
(* finish_internal_nodes is a recursion over copies of nodes: each copy is *)
(* taken on the way down, written back whole for every unknown direction,  *)
(* and marked on the way up, while the marking below it may already have   *)
(* marked the same node in the table (internal_nodes_check).  `frames' is  *)
(* the stack of these calls, innermost first.  `climb' is where            *)
(* propagate_heur has got to: <<n>> before the visit of n, << >> when it   *)
(* is not running.                                                         *)
(*                                                                         *)
(* A signal handler raises an exception, which OCaml delivers at any       *)
(* allocation.  SIGUSR1 ends the path if it is raised inside fuzz_runloop; *)
(* there and elsewhere the other signals end the exploration.  Assigning a *)
(* field and writing its record back count as one step: a copy on the      *)
(* stack is lost with the stack, and finish_path writes `cur' before       *)
(* anything reads its entry.                                               *)
(***************************************************************************)
EXTENDS DecisionTree

CONSTANT MaxSignals     \* bound: signals that come

ASSUME SignalsAssumption == MaxSignals \in Nat

VARIABLES
    frames,             \* calls of finish_internal_nodes in progress
    climb,              \* the call of propagate_heur in progress
    signals             \* history: the signals that have come

writeVars == <<vars, frames, climb, signals>>
callVars == <<frames, climb, signals>>

Idle == frames = << >> /\ climb = << >>

WritesInit ==
    /\ Init
    /\ frames = << >> /\ climb = << >>
    /\ signals = 0

-----------------------------------------------------------------------------
(* finish_internal_nodes.                                                  *)

\* A call for a node, the copy it works on and the directions it has yet to see.
Frame == [node : Nodes, copy : NodeRec, left : {<<FALSE, TRUE>>, <<TRUE>>, << >>}]

\* Fault: the recursion leaves the false direction out.
Called_TrueOnly(n, r) == [node |-> n, copy |-> r, left |-> <<TRUE>>]

Called(n, r) == [node |-> n, copy |-> r, left |-> <<FALSE, TRUE>>]

\* The outermost call works on the object in `cur_query' itself.
Copy(f) == IF f.node = qry THEN qryRec ELSE f.copy

FinishStart ==
    /\ pc = "internal"
    /\ frames' = <<Called(qry, qryRec)>>
    /\ pc' = "count" /\ todo' = << >>
    /\ UNCHANGED <<treeVars, inq, heurVars, pathVars, envVars, weird,
                   climb, signals>>

\* The innermost call looks at its next direction b: an unknown one is closed,
\* which writes the copy back, a known one is descended into.
FinishDirection ==
    /\ pc = "count" /\ frames # << >> /\ todo = << >> /\ Head(frames).left # << >>
    /\ LET f    == Head(frames)
           b    == Head(f.left)
           old  == Copy(f)
           new  == IF old.child[b] = "unknown" THEN [old EXCEPT !.child[b] = "unsat"]
                                               ELSE old
           kid  == Kid(f.node, b)
           rest == <<[f EXCEPT !.copy = new, !.left = Tail(@)]>> \o Tail(frames)
       IN /\ store' = IF new # old THEN [store EXCEPT ![f.node] = Stored(new)] ELSE store
          /\ qryRec' = IF f.node = qry THEN new ELSE qryRec
          /\ frames' = IF old.child[b] = "sat" /\ ~IsQuery(store[kid])
                       THEN <<Called(kid, store[kid])>> \o rest
                       ELSE rest
    /\ UNCHANGED <<cur, curRec, qry, inq, pc, todo, heurVars, pathVars, envVars, weird,
                   climb, signals>>

\* mark with the object r for node n, and the calls that loop makes then.
MarkWith(n, r, rest) ==
    LET S     == [store EXCEPT ![n] = Stored([r EXCEPT !.all_seen = TRUE])]
        fails == Cardinality({b \in BOOLEAN : /\ r.child[b] = "sat"
                                              /\ ~store[Kid(n, b)].all_seen})
        up    == IF n = Root THEN << >>
                 ELSE IF ~S[Parent(n)].all_seen /\ Closed(S, Parent(n))
                      THEN <<LoopOp(Parent(n)), QueryOp(Parent(n))>>
                      ELSE <<QueryOp(Parent(n))>>
    IN IF TooWeird(fails)
       THEN pc' = "crashed" /\ UNCHANGED <<store, todo, weird>>
       ELSE /\ store' = S
            /\ todo' = up \o rest
            /\ weird' = weird + fails
            /\ UNCHANGED pc

\* maybe_mark_all_seen_node, at the end of the innermost call.
FinishNode ==
    /\ pc = "count" /\ frames # << >> /\ todo = << >> /\ Head(frames).left = << >>
    /\ LET f == Head(frames)
           r == Copy(f)
           closed == \A b \in BOOLEAN : r.child[b] = "sat" => store[Kid(f.node, b)].all_seen
       IN /\ frames' = Tail(frames)
          /\ qryRec' = IF closed /\ f.node = qry
                       THEN [r EXCEPT !.all_seen = TRUE] ELSE qryRec
          /\ IF closed
             THEN MarkWith(f.node, r, << >>)
             ELSE UNCHANGED <<store, todo, weird, pc>>
    /\ UNCHANGED <<cur, curRec, qry, inq, heurVars, pathVars, envVars, climb, signals>>

\* The marking that climbs from there updates fresh copies.
ClimbMark ==
    /\ pc = "count" /\ todo # << >> /\ Head(todo).op = "loop"
    /\ MarkWith(Head(todo).node, store[Head(todo).node], Tail(todo))
    /\ UNCHANGED <<cur, curRec, qry, qryRec, inq, heurVars, pathVars, envVars, callVars>>

-----------------------------------------------------------------------------
(* set_heur and propagate_heur.                                            *)

CallSetHeur(h) ==
    /\ cur_heur' = h
    /\ best_heur' = MaxOf(h, best_heur)
    /\ climb' = <<cur>>
    /\ UNCHANGED <<treeVars, frames, signals>>

ScoreStart ==
    /\ Idle /\ pc = "run" /\ ~inq
    /\ \E h \in Scores : cur_heur # h /\ CallSetHeur(h)
    /\ UNCHANGED <<inq, pc, todo, pathVars, envVars, weird>>

FinishPathStart ==
    /\ Idle /\ PathEnds
    /\ CallSetHeur(1)
    /\ explored' = explored \cup {cur}
    /\ todo' = <<LoopOp(cur)>>
    /\ pc' = "mark"
    /\ UNCHANGED <<inq, iteration_count, feas, weird>>

\* One turn of propagate_heur's loop.
PropagateStep ==
    /\ climb # << >>
    /\ LET n   == Head(climb)
           old == IF n = cur THEN curRec ELSE store[n]
           new == Widen(old, cur_heur)
       IN IF InHeurRange(cur_heur, old)
          THEN climb' = << >> /\ UNCHANGED treeVars
          ELSE /\ store' = [store EXCEPT ![n] = Stored(new)]
               /\ curRec' = IF n = cur THEN new ELSE curRec
               /\ qryRec' = IF n = cur /\ n = qry THEN new ELSE qryRec
               /\ climb' = IF n = Root THEN << >> ELSE <<Parent(n)>>
               /\ UNCHANGED <<cur, qry>>
    /\ UNCHANGED <<inq, pc, todo, heurVars, pathVars, envVars, weird, frames, signals>>

-----------------------------------------------------------------------------
(* Signals.                                                                *)

InRunloop == pc \in {"run", "try", "boring", "internal", "count"}

\* The exception unwinds whatever is in progress.
Raised ==
    /\ signals < MaxSignals /\ pc \notin Ended
    /\ pc' \in {"stopped"} \cup (IF InRunloop THEN {"finish"} ELSE {})
    /\ todo' = << >> /\ frames' = << >> /\ climb' = << >>
    /\ signals' = signals + 1
    /\ UNCHANGED <<cur, qry, inq, heurVars, pathVars, prog>>

Signal ==
    /\ Raised
    /\ UNCHANGED <<store, curRec, qryRec, feas, weird>>

\* What try_extend can have recorded before it moves on to the kid: a refusal
\* goes into the record before the direction that is taken.
Recorded(a, r) ==
    /\ r \in {[curRec EXCEPT !.child = c] : c \in [BOOLEAN -> ChildStatus]}
    /\ \A b \in BOOLEAN :
        r.child[b] # curRec.child[b] =>
            /\ curRec.child[b] = "unknown"
            /\ r.child[b] = IF a[b] = "sat" THEN "sat" ELSE "unsat"
            /\ a[b] = "sat" => a[~b] = "sat" \/ r.child[~b] # "unknown"
            /\ ~Raises(a, b)

SignalInTryExtend ==
    /\ Idle /\ pc = "try"
    /\ Raised
    /\ \E F \in SUBSET BOOLEAN, b \in BOOLEAN :
        /\ BothShape(b) \/ BoringShape(b) \/ CheckShape(b)
        /\ Consult(F)
        /\ \E a \in Answers(F), c \in [BOOLEAN -> ChildStatus] :
            LET r     == [curRec EXCEPT !.child = c]
                fails == FailedIf(curRec.all_seen)
            IN /\ Recorded(a, r)
               /\ ~TooWeird(fails)
               /\ store' = [store EXCEPT ![cur] = Stored(r)]
               /\ SetCur(r)
               /\ weird' = weird + fails

\* count_query has made `cur' a query node, and may have counted it in
\* `cur_query', but not noted that in `cur'.
SignalInCountQuery ==
    /\ Idle /\ pc = "run" /\ inq /\ cur # qry
    /\ IsQuery(qryRec)
    /\ Raised
    /\ \E counted \in BOOLEAN :
        LET newc  == [curRec EXCEPT !.query_children = IF @ = None THEN 0 ELSE @]
            newq  == [qryRec EXCEPT !.query_children = @ + 1]
            fails == FailedIf(counted /\ Limited(qryRec))
        IN /\ counted => ~curRec.query_counted
           /\ ~TooWeird(fails)
           /\ store' = [store EXCEPT ![qry] = IF counted THEN Stored(newq) ELSE @,
                                     ![cur] = Stored(newc)]
           /\ qryRec' = IF counted THEN newq ELSE qryRec
           /\ curRec' = newc
           /\ weird' = weird + fails
    /\ UNCHANGED feas

\* internal_nodes_check marks a node after those below it, the false side first.
MarkedBefore(n, m) ==
    \/ Below(m, n) /\ m # n
    \/ \E i \in 1..MinOf(Len(n), Len(m)) :
          ~n[i] /\ m[i] /\ \A j \in 1..(i - 1) : n[j] = m[j]

SignalInCheck ==
    /\ climb = << >> /\ pc \in {"boring", "count"}
    /\ todo # << >> /\ Head(todo).op = "query"
    /\ Limited(store[Head(todo).node])
    /\ Raised
    /\ LET S      == InternalNodesCheck(store, Head(todo).node)
           fails  == FailedIf(store[Head(todo).node].query_children > QueryBranchLimit)
       IN /\ ~TooWeird(fails)
          /\ \E m \in {n \in Nodes : S[n] # store[n]} :
                store' = [n \in Nodes |-> IF MarkedBefore(n, m) THEN S[n] ELSE store[n]]
          /\ weird' = weird + fails
    /\ UNCHANGED <<curRec, qryRec, feas>>

-----------------------------------------------------------------------------
(* The specification.                                                      *)

\* Operations that write one record at most, or several between which nothing
\* is read: see the signals above for what they leave half done.
WholeOperation ==
    /\ Idle
    /\ \/ StartNewQuery \/ NextBit
       \/ TryExtendKnown \/ TryExtendAsk \/ LeaveBoring
       \/ CountQuery \/ CountQueryReturns
       \/ pc # "count" /\ MarkLoop
       \/ OtherQueryFails \/ Reset \/ LastIteration
    /\ UNCHANGED callVars

LookAtQuery == climb = << >> /\ (QueryParent \/ MarkQuery) /\ UNCHANGED callVars

WritesNext ==
    \/ WholeOperation
    \/ FinishStart \/ FinishDirection \/ FinishNode \/ ClimbMark \/ LookAtQuery
    \/ ScoreStart \/ FinishPathStart \/ PropagateStep
    \/ Signal \/ SignalInTryExtend \/ SignalInCountQuery \/ SignalInCheck
    \/ Terminated /\ UNCHANGED callVars

WritesSpec == WritesInit /\ [][WritesNext]_writeVars

-----------------------------------------------------------------------------
(* Properties.                                                             *)

\* The calls in progress are those of one path down from the query node.
CallsTypeOK ==
    /\ TypeOK
    /\ frames \in Seq(Frame)
    /\ climb \in {<< >>} \cup {<<n>> : n \in Nodes}
    /\ signals \in Nat

\* Record s holds every fact that record r does, the mark aside.
HoldsFacts(r, s) ==
    /\ r.query_counted => s.query_counted
    /\ r.query_children =< s.query_children
    /\ s.heur_min =< r.heur_min
    /\ r.heur_max =< s.heur_max
    /\ \A b \in BOOLEAN : r.child[b] # "unknown" => s.child[b] = r.child[b]

\* finish_internal_nodes works on a copy of n taken before n was marked.
StaleCall(n) == \E i \in 1..Len(frames) : frames[i].node = n /\ ~Copy(frames[i]).all_seen

\* As long as no g_assert has failed, and wherever signals hit: no write of a
\* whole record undoes what another copy of the node has recorded, but for
\* marks that finish_internal_nodes's recursion overwrites on its way up.
NoLostUpdate ==
    [][weird = 0 =>
        \A n \in Nodes :
            /\ HoldsFacts(store[n], store'[n])
            /\ store[n].all_seen => store'[n].all_seen \/ StaleCall(n)]_store
=============================================================================
