-------------------------- MODULE ExplorationProofs --------------------------
(***************************************************************************)
(* What the tree knows about the program, when paths end only where the    *)
(* tree says so and no direction is pretended: no assertion of the code    *)
(* fails, and all_seen means that nothing is left below.  The argument is  *)
(* an invariant of one tree, ExploreInv.  It is kid-wise, so that a step   *)
(* that writes one record disturbs it at that node and its parent only;    *)
(* what it says about whole subtrees follows from there.                   *)
(***************************************************************************)
EXTENDS DecisionTreeProofs, WellFoundedInduction

\* No query that decides no branch fails, which would end a path at a node with
\* live kids (signals are in TreeWrites), and no direction whose query and whose
\* opposite's query both timed out is pretended to be satisfiable.
Steady == ~OtherQueries /\ ~(SolverMayFail /\ TimeoutAsUnsat /\ Concolic)

-----------------------------------------------------------------------------
(* The invariant: the tree.                                                *)

HasKid(r) == \E b \in BOOLEAN : r.child[b] = "sat"

\* try_extend settles both directions or none.
BothOrNone(r) == r.child[TRUE] = "unknown" <=> r.child[FALSE] = "unknown"

\* Nothing is known about a node no path has reached.
FreshBelow(S) == \A n \in Nodes : ~Created(S, n) => S[n] = FreshNode

\* The kids of an exhausted node are exhausted.
KidsSeen(S) ==
    \A n \in Nodes, b \in BOOLEAN :
        S[n].all_seen /\ S[n].child[b] = "sat" => S[Kid(n, b)].all_seen

\* There are kids within the depth limit only.
KidsExist(S) == \A n \in Nodes : HasKid(S[n]) => Len(n) =< PathDepthLimit

TreeShape(S) == FreshBelow(S) /\ KidsSeen(S) /\ KidsExist(S)

-----------------------------------------------------------------------------
(* The invariant: tree, path and program together.                         *)

\* mark_all_seen_node is about to mark n.
Pending(n) == pc = "mark" /\ todo # << >> /\ Head(todo) = LoopOp(n)

\* Control is only where a clean exploration takes it; the marks are climbing
\* only at the end of a path, one call at a time.
NothingFails ==
    /\ weird = 0 /\ pc \notin {"crashed", "boring"}
    /\ pc # "mark" => todo = << >>
    /\ pc = "try" => inq
    /\ \A i \in 2..Len(todo) : todo[i].op = "query"

\* The path is in a part of the tree that is not exhausted.
CurLive ==
    pc \in {"run", "try", "internal", "count", "finish"} =>
        Created(store, cur) /\ ~store[cur].all_seen

\* Between cur_query and the current node there is no other query node.
ChoiceOpen ==
    (inq /\ pc \in {"run", "try"}) \/ pc = "internal" =>
        /\ Below(qry, cur) /\ IsQuery(store[qry])
        /\ \A a \in Nodes :
             Below(qry, a) /\ Below(a, cur) /\ IsQuery(store[a]) => a \in {qry, cur}
        /\ pc = "try" => cur = qry \/ ~IsQuery(store[cur])

\* The path has been given up at a node with one direction open.
GivenUp(n) ==
    n = cur /\ \/ pc \in {"finish", "stopped"}
               \/ pc = "mark" /\ todo = <<LoopOp(cur)>>

Decided ==
    \A n \in Nodes : store[n].all_seen \/ BothOrNone(store[n]) \/ GivenUp(n)

\* Nothing is open in a choice that has reached the limit.
LimitedFilled ==
    \A q, m \in Nodes :
        Limited(store[q]) /\ m \in Internal(store, q) =>
            \/ pc = "internal" /\ q = qry
            \/ \A b \in BOOLEAN : store[m].child[b] # "unknown"

CountsLimited == \A q \in Nodes : store[q].query_children =< QueryBranchLimit

\* A node with nothing left below is all_seen or about to be.
ClosedSeen ==
    \A n \in Nodes : Closed(store, n) =>
        \/ store[n].all_seen \/ Pending(n)
        \/ \E b \in BOOLEAN : store[n].child[b] = "sat" /\ Pending(Kid(n, b))

\* A node that is about to be marked has nothing live below.
LoopReady ==
    \A n \in Nodes : Pending(n) =>
        /\ Created(store, n)
        /\ \A b \in BOOLEAN : store[n].child[b] = "sat" => store[Kid(n, b)].all_seen

\* What the tree has recorded about a node is what the program does there.
NodeMatches(S, P, n) ==
    /\ HasKid(S[n]) => /\ P[n] \in {"inner", "query"}
                       /\ P[n] = "query" => IsQuery(S[n])
    /\ S[n].query_counted => P[n] \in {"query", "leaf"}
    /\ n # Root => (IsQuery(S[n]) <=> S[n].query_counted)

ProgMatch ==
    /\ \A n \in Nodes : NodeMatches(store, prog, n)
    /\ prog[Root] # "inner" /\ IsQuery(store[Root])
    /\ pc = "try" => /\ prog[cur] \in {"inner", "query"}
                     /\ prog[cur] = "query" => IsQuery(store[cur])
    /\ (pc = "run" /\ ~inq) \/ pc \in {"internal", "count"} => IsQuery(store[cur])

\* Where a path has been cut short there is no kid.
FinishClean == pc = "finish" => ~HasKid(store[cur])

ExploreInv ==
    /\ TreeShape(store)
    /\ NothingFails /\ CurLive /\ ChoiceOpen
    /\ Decided /\ LimitedFilled /\ CountsLimited
    /\ ClosedSeen /\ LoopReady
    /\ ProgMatch /\ FinishClean

-----------------------------------------------------------------------------
(* Histories.                                                              *)

\* A kid's history is its parent's and one more direction.
LEMMA KidHistory ==
    ASSUME NEW n \in Nodes, NEW b \in BOOLEAN, Len(n) =< PathDepthLimit
    PROVE  /\ Kid(n, b) \in Nodes /\ Len(Kid(n, b)) = Len(n) + 1
           /\ Kid(n, b) # n /\ Kid(n, b) # Root
           /\ Parent(Kid(n, b)) = n /\ Kid(n, b)[Len(Kid(n, b))] = b
           /\ Below(n, Kid(n, b)) /\ ~Below(Kid(n, b), n)
<1>1. n \in Seq(BOOLEAN) /\ Len(n) \in Nat
  BY NodesAreSequences
<1>2. /\ Kid(n, b) \in Nodes /\ Kid(n, b) \in Seq(BOOLEAN)
      /\ Len(Kid(n, b)) = Len(n) + 1
      /\ \A i \in 1..Len(n) : Kid(n, b)[i] = n[i]
      /\ Kid(n, b)[Len(n) + 1] = b
  BY <1>1, KidIsNode DEF Kid
<1>3. Kid(n, b) # Root /\ Kid(n, b) # n
  BY <1>1, <1>2 DEF Root
<1>4. /\ Parent(Kid(n, b)) \in Seq(BOOLEAN) /\ Len(Parent(Kid(n, b))) = Len(n)
      /\ \A i \in 1..Len(n) : Parent(Kid(n, b))[i] = n[i]
  BY <1>1, <1>2, <1>3, ParentDropsLast
<1>5. Parent(Kid(n, b)) = n
  BY <1>1, <1>4, SeqEqual
<1> QED  BY <1>1, <1>2, <1>3, <1>5 DEF Below

\* A node other than the root is a kid of its parent.
LEMMA ParentHistory ==
    ASSUME NEW n \in Nodes, n # Root
    PROVE  /\ Parent(n) \in Nodes /\ Len(Parent(n)) =< PathDepthLimit
           /\ Len(Parent(n)) = Len(n) - 1 /\ Len(n) \in Nat \ {0}
           /\ n[Len(n)] \in BOOLEAN
           /\ Kid(Parent(n), n[Len(n)]) = n
           /\ Below(Parent(n), n)
<1>1. /\ n \in Seq(BOOLEAN) /\ Len(n) \in Nat \ {0} /\ Len(n) =< PathDepthLimit + 1
      /\ Parent(n) \in Seq(BOOLEAN) /\ Len(Parent(n)) = Len(n) - 1
      /\ \A i \in 1..(Len(n) - 1) : Parent(n)[i] = n[i]
      /\ Parent(n) \in Nodes
  BY ParentDropsLast, NodesAreSequences, ParentIsNode
<1>2. n[Len(n)] \in BOOLEAN /\ Len(Parent(n)) =< PathDepthLimit
  BY <1>1, LimitsAssumption
<1>3. /\ Kid(Parent(n), n[Len(n)]) \in Seq(BOOLEAN)
      /\ Len(Kid(Parent(n), n[Len(n)])) = Len(n)
      /\ \A i \in 1..Len(n) : Kid(Parent(n), n[Len(n)])[i] = n[i]
  BY <1>1, <1>2 DEF Kid
<1>4. Kid(Parent(n), n[Len(n)]) = n
  BY <1>1, <1>3, SeqEqual
<1> QED  BY <1>1, <1>2, <1>4 DEF Below

\* Being above is a partial order.
LEMMA BelowOrder ==
    /\ \A n \in Nodes : Below(n, n) /\ Below(Root, n)
    /\ \A n, m, l \in Nodes : Below(n, m) /\ Below(m, l) => Below(n, l)
    /\ \A n, m \in Nodes : Below(n, m) /\ Below(m, n) => n = m
    /\ \A n, m \in Nodes : Below(n, m) /\ n # m => Len(n) < Len(m)
<1>1. \A n \in Nodes : n \in Seq(BOOLEAN) /\ Len(n) \in Nat
  BY NodesAreSequences
<1>2. \A n \in Nodes : Below(n, n) /\ Below(Root, n)
  BY <1>1 DEF Below, Root
<1>3. \A n, m, l \in Nodes : Below(n, m) /\ Below(m, l) => Below(n, l)
  BY <1>1 DEF Below
<1>4. \A n, m \in Nodes : Below(n, m) /\ Len(n) = Len(m) => n = m
  <2> TAKE n, m \in Nodes
  <2> HAVE Below(n, m) /\ Len(n) = Len(m)
  <2>1. n \in Seq(BOOLEAN) /\ m \in Seq(BOOLEAN) /\ \A i \in 1..Len(n) : n[i] = m[i]
    BY <1>1 DEF Below
  <2> QED  BY <2>1, SeqEqual
<1>5. \A n, m \in Nodes : Below(n, m) => Len(n) =< Len(m)
  BY DEF Below
<1> QED  BY <1>1, <1>2, <1>3, <1>4, <1>5

\* Two nodes above a third are above one another.
LEMMA AboveComparable ==
    ASSUME NEW n \in Nodes, NEW a \in Nodes, NEW c \in Nodes, Below(a, n), Below(c, n)
    PROVE  Below(a, c) \/ Below(c, a)
<1>1. Len(a) \in Nat /\ Len(c) \in Nat /\ Len(n) \in Nat
  BY NodesAreSequences
<1> QED  BY <1>1 DEF Below

\* Above a kid there is the kid and what is above its parent.
LEMMA AboveKid ==
    ASSUME NEW n \in Nodes, NEW b \in BOOLEAN, Len(n) =< PathDepthLimit, NEW a \in Nodes
    PROVE  Below(a, Kid(n, b)) <=> a = Kid(n, b) \/ Below(a, n)
<1>1. /\ Kid(n, b) \in Nodes /\ Below(n, Kid(n, b))
      /\ Len(Kid(n, b)) = Len(n) + 1
  BY KidHistory
<1>2. ASSUME Below(a, Kid(n, b)), a # Kid(n, b)
      PROVE  Below(a, n)
  <2>1. Len(a) \in Nat /\ Len(n) \in Nat /\ Len(a) =< Len(n)
    BY <1>1, <1>2, BelowOrder, NodesAreSequences
  <2>2. \A i \in 1..Len(n) : Kid(n, b)[i] = n[i]
    BY <1>1 DEF Below
  <2> QED  BY <1>2, <2>1, <2>2 DEF Below
<1> QED  BY <1>1, <1>2, BelowOrder

\* The first step from a node down to one below it.
LEMMA FirstStep ==
    ASSUME NEW n \in Nodes, NEW m \in Nodes, Below(n, m), n # m
    PROVE  /\ Len(n) =< PathDepthLimit
           /\ \E b \in BOOLEAN : Below(Kid(n, b), m)
<1>1. /\ n \in Seq(BOOLEAN) /\ m \in Seq(BOOLEAN) /\ Len(n) < Len(m)
      /\ Len(n) \in Nat /\ Len(m) \in Nat /\ Len(m) =< PathDepthLimit + 1
  BY NodesAreSequences, BelowOrder
<1> DEFINE b == m[Len(n) + 1]
<1>2. b \in BOOLEAN /\ Len(n) =< PathDepthLimit
  BY <1>1, LimitsAssumption
<1>3. /\ Len(Kid(n, b)) = Len(n) + 1
      /\ \A i \in 1..Len(n) : Kid(n, b)[i] = n[i]
      /\ Kid(n, b)[Len(n) + 1] = b
  BY <1>1, <1>2 DEF Kid
<1>4. \A i \in 1..(Len(n) + 1) : Kid(n, b)[i] = m[i]
  BY <1>1, <1>3 DEF Below
<1>5. Below(Kid(n, b), m)
  BY <1>1, <1>3, <1>4 DEF Below
<1> QED  BY <1>2, <1>5

\* A set of nodes has a highest and a lowest one.
LEMMA Extremes ==
    ASSUME NEW X \in SUBSET Nodes, X # {}
    PROVE  /\ \E x \in X : \A y \in X : Len(x) =< Len(y)
           /\ \E x \in X : \A y \in X : Len(y) =< Len(x)
<1>1. \A n \in Nodes : Len(n) \in Nat /\ Len(n) =< PathDepthLimit + 1
  BY NodesAreSequences
<1>2. IsWellFoundedOn(OpToRel(<, Nat), Nat)
  BY NatLessThanWellFounded
<1>3. ASSUME NEW f \in [Nodes -> Nat]
      PROVE  \E x \in X : \A y \in X : f[x] =< f[y]
  <2> DEFINE I == {f[x] : x \in X}
  <2>1. I \subseteq Nat /\ I # {}
    OBVIOUS
  <2>2. \E i \in I : \A j \in I : ~(<<j, i>> \in OpToRel(<, Nat))
    BY <1>2, <2>1, WFMin
  <2>3. PICK i \in I : \A j \in I : ~(<<j, i>> \in OpToRel(<, Nat))
    BY <2>2
  <2>4. \A j \in I : ~(j < i)
    BY <2>1, <2>3 DEF OpToRel
  <2>5. PICK x \in X : i = f[x]
    OBVIOUS
  <2>6. \A y \in X : f[y] \in I /\ f[y] \in Nat /\ f[x] \in Nat
    OBVIOUS
  <2> HIDE DEF I
  <2>7. \A y \in X : f[x] =< f[y]
    BY <2>4, <2>5, <2>6
  <2> QED  BY <2>7
<1>4. \E x \in X : \A y \in X : Len(x) =< Len(y)
  BY <1>1, <1>3, [n \in Nodes |-> Len(n)] \in [Nodes -> Nat]
<1>5. \E x \in X : \A y \in X : Len(y) =< Len(x)
  <2> DEFINE f == [n \in Nodes |-> PathDepthLimit + 1 - Len(n)]
  <2>1. f \in [Nodes -> Nat]
    BY <1>1, LimitsAssumption
  <2>2. PICK x \in X : \A y \in X : f[x] =< f[y]
    BY <1>3, <2>1
  <2>3. \A y \in X : PathDepthLimit + 1 - Len(x) =< PathDepthLimit + 1 - Len(y)
    BY <2>2
  <2>4. \A y \in X : Len(y) \in Nat /\ Len(x) \in Nat
    BY <1>1
  <2>5. \A y \in X : Len(y) =< Len(x)
    BY <2>3, <2>4, LimitsAssumption
  <2> QED  BY <2>5
<1> QED  BY <1>4, <1>5

-----------------------------------------------------------------------------
(* What the kid-wise facts say about subtrees.                             *)

\* A node whose record says anything has been created.
LEMMA KnownIsCreated ==
    ASSUME NEW S, FreshBelow(S), NEW n \in Nodes,
           S[n].all_seen \/ HasKid(S[n]) \/ IsQuery(S[n])
    PROVE  Created(S, n)
BY DEF FreshBelow, FreshNode, HasKid, IsQuery, None

\* Whether a kid is created is in the record of its parent.
LEMMA KidCreated ==
    ASSUME NEW S, NEW n \in Nodes, NEW b \in BOOLEAN, Len(n) =< PathDepthLimit
    PROVE  Created(S, Kid(n, b)) <=> S[n].child[b] = "sat"
BY KidHistory DEF Created

\* The nodes above a created one are created.
LEMMA CreatedAbove ==
    ASSUME NEW S, FreshBelow(S), NEW n \in Nodes, NEW m \in Nodes,
           Below(n, m), Created(S, m)
    PROVE  Created(S, n)
<1> SUFFICES ASSUME ~Created(S, n) PROVE FALSE
  OBVIOUS
<1> DEFINE X == {a \in Nodes : Below(a, m) /\ ~Created(S, a)}
<1>1. PICK x \in X : \A y \in X : Len(y) =< Len(x)
  BY Extremes
<1>2. x \in Nodes /\ Below(x, m) /\ ~Created(S, x) /\ x # m
  BY DEF X
<1>3. PICK b \in BOOLEAN : Below(Kid(x, b), m)
  BY <1>2, FirstStep
<1>4. Len(x) =< PathDepthLimit
  BY <1>2, FirstStep
<1>5. Kid(x, b) \in Nodes /\ Len(Kid(x, b)) = Len(x) + 1 /\ Len(x) \in Nat
  BY <1>2, <1>4, KidHistory, NodesAreSequences
<1>6. Kid(x, b) \notin X
  BY <1>1, <1>5
<1>7. S[x].child[b] = "sat"
  BY <1>2, <1>3, <1>4, <1>5, <1>6, KidCreated DEF X
<1> QED  BY <1>2, <1>7, KnownIsCreated DEF HasKid

\* Below an exhausted node everything is.
LEMMA SeenSubtree ==
    ASSUME NEW S, FreshBelow(S), KidsSeen(S), NEW n \in Nodes, NEW m \in Nodes,
           Below(n, m), Created(S, m), S[n].all_seen
    PROVE  S[m].all_seen
<1> SUFFICES ASSUME ~S[m].all_seen PROVE FALSE
  OBVIOUS
<1> DEFINE X == {a \in Nodes : Below(n, a) /\ Below(a, m) /\ S[a].all_seen}
<1>0. n \in X
  BY BelowOrder DEF X
<1>1. PICK x \in X : \A y \in X : Len(y) =< Len(x)
  BY <1>0, Extremes
<1>2. x \in Nodes /\ Below(n, x) /\ Below(x, m) /\ S[x].all_seen /\ x # m
  BY DEF X
<1>3. PICK b \in BOOLEAN : Below(Kid(x, b), m)
  BY <1>2, FirstStep
<1>4. Len(x) =< PathDepthLimit
  BY <1>2, FirstStep
<1>5. /\ Kid(x, b) \in Nodes /\ Len(Kid(x, b)) = Len(x) + 1 /\ Len(x) \in Nat
      /\ Below(n, Kid(x, b))
  BY <1>2, <1>4, KidHistory, NodesAreSequences, BelowOrder
<1>6. Kid(x, b) \notin X
  BY <1>1, <1>5
<1>7. Created(S, Kid(x, b))
  BY <1>3, <1>5, CreatedAbove
<1>8. S[x].child[b] = "sat"
  BY <1>2, <1>4, <1>7, KidCreated
<1> QED  BY <1>2, <1>3, <1>5, <1>6, <1>8 DEF X, KidsSeen

\* The first step of a way down to a created node.
LEMMA WayDown ==
    ASSUME NEW S, FreshBelow(S), NEW n \in Nodes, NEW m \in Nodes,
           Below(n, m), n # m, Created(S, m)
    PROVE  \E b \in BOOLEAN : /\ Below(Kid(n, b), m) /\ S[n].child[b] = "sat"
                              /\ Kid(n, b) \in Nodes /\ Len(n) =< PathDepthLimit
<1>1. PICK b \in BOOLEAN : Below(Kid(n, b), m)
  BY FirstStep
<1>2. Len(n) =< PathDepthLimit /\ Kid(n, b) \in Nodes
  BY FirstStep, KidHistory
<1>3. S[n].child[b] = "sat"
  BY <1>1, <1>2, CreatedAbove, KidCreated
<1> QED  BY <1>1, <1>2, <1>3

\* The nodes from n down to a kid of m: those down to m, and m.
LEMMA BetweenKid ==
    ASSUME NEW n \in Nodes, NEW m \in Nodes, NEW b \in BOOLEAN,
           Len(m) =< PathDepthLimit, Below(n, m)
    PROVE  Between(n, Kid(m, b)) = Between(n, m) \cup {m}
<1>1. Kid(m, b) \in Nodes /\ Kid(m, b) # m /\ ~Below(Kid(m, b), m)
  BY KidHistory
<1>2. \A a \in Nodes : Below(a, Kid(m, b)) <=> a = Kid(m, b) \/ Below(a, m)
  BY AboveKid
<1>3. Below(m, m)
  BY BelowOrder
<1> QED  BY <1>1, <1>2, <1>3 DEF Between

\* The nodes from n down to m, by way of the first kid.
LEMMA BetweenFirst ==
    ASSUME NEW n \in Nodes, NEW m \in Nodes, NEW b \in BOOLEAN,
           Len(n) =< PathDepthLimit, Below(Kid(n, b), m)
    PROVE  Between(n, m) = {n} \cup Between(Kid(n, b), m)
<1>1. /\ Kid(n, b) \in Nodes /\ Below(n, Kid(n, b)) /\ ~Below(Kid(n, b), n)
  BY KidHistory
<1>2. /\ Below(n, m) /\ n # m /\ Below(n, n)
  BY <1>1, BelowOrder
<1>3. ASSUME NEW a \in Nodes, Below(n, a), Below(a, m), a # n
      PROVE  Below(Kid(n, b), a)
  <2>1. Below(a, Kid(n, b)) => a = Kid(n, b) \/ Below(a, n)
    BY AboveKid
  <2>2. ~Below(a, n)
    BY <1>3, BelowOrder
  <2>3. Below(a, Kid(n, b)) \/ Below(Kid(n, b), a)
    BY <1>1, <1>3, AboveComparable
  <2> QED  BY <1>1, <2>1, <2>2, <2>3, BelowOrder
<1>4. \A a \in Nodes : Below(Kid(n, b), a) => Below(n, a) /\ a # n
  BY <1>1, BelowOrder
<1> QED  BY <1>2, <1>3, <1>4 DEF Between

\* A kid of a node of the choice belongs to the choice, unless it is a query.
LEMMA InternalKid ==
    ASSUME NEW S, NEW q \in Nodes, NEW n \in Internal(S, q), NEW b \in BOOLEAN,
           Len(n) =< PathDepthLimit, S[n].child[b] = "sat", ~IsQuery(S[Kid(n, b)])
    PROVE  Kid(n, b) \in Internal(S, q)
<1>1. n \in Nodes /\ Below(q, n)
      /\ \A a \in {n} \cup Between(q, n) : a = q \/ ~IsQuery(S[a])
  BY DEF Internal
<1>2. /\ Kid(n, b) \in Nodes /\ Below(q, Kid(n, b)) /\ Created(S, Kid(n, b))
  BY <1>1, KidHistory, KidCreated, BelowOrder
<1>3. Between(q, Kid(n, b)) = Between(q, n) \cup {n}
  BY <1>1, BetweenKid
<1> QED  BY <1>1, <1>2, <1>3 DEF Internal

\* When a choice has reached the limit, what is live in it leads to a live
\* query node: internal_nodes_check has nothing left to mark.
LEMMA LiveIsOpen ==
    ASSUME NEW S, TreeShape(S), NEW q \in Nodes, NEW n \in Internal(S, q),
           ~S[n].all_seen,
           \A m \in Internal(S, q) :
             /\ \A b \in BOOLEAN : S[m].child[b] \in {"sat", "unsat"}
             /\ Closed(S, m) => S[m].all_seen
    PROVE  Open(S, q, n)
<1>0. FreshBelow(S) /\ KidsSeen(S) /\ KidsExist(S)
  BY DEF TreeShape
<1>1. n \in Nodes /\ Below(q, n) /\ q \in Nodes
      /\ \A a \in {n} \cup Between(q, n) : a = q \/ ~IsQuery(S[a])
  BY DEF Internal
<1> DEFINE X == {x \in Internal(S, q) : /\ Below(n, x)
                                        /\ \A a \in {x} \cup Between(n, x) : ~S[a].all_seen}
<1>2. n \in X
  <2>1. Between(n, n) = {}
    BY <1>1, BelowOrder DEF Between
  <2> QED  BY <1>1, <2>1, BelowOrder DEF X
<1>3. X \in SUBSET Nodes
  BY DEF X, Internal
<1>4. PICK x \in X : \A y \in X : Len(y) =< Len(x)
  BY <1>2, <1>3, Extremes
<1>5. /\ x \in Nodes /\ x \in Internal(S, q) /\ Below(n, x)
      /\ \A a \in {x} \cup Between(n, x) : ~S[a].all_seen
  BY <1>3 DEF X
<1> HIDE DEF X
<1>6. PICK b \in BOOLEAN : S[x].child[b] = "sat" /\ ~S[Kid(x, b)].all_seen
  BY <1>5 DEF Closed, Seen
<1> DEFINE k == Kid(x, b)
<1>7. Len(x) =< PathDepthLimit
  BY <1>0, <1>5, <1>6 DEF KidsExist, HasKid
<1>8. /\ k \in Nodes /\ Len(k) = Len(x) + 1 /\ Len(x) \in Nat /\ Below(n, k)
      /\ Created(S, k) /\ Below(x, k) /\ k # x
  BY <1>1, <1>5, <1>6, <1>7, KidHistory, KidCreated, BelowOrder, NodesAreSequences
<1>9. Between(n, k) = Between(n, x) \cup {x}
  BY <1>1, <1>5, <1>7, BetweenKid
<1>10. Below(q, x) /\ q # k
  BY <1>1, <1>5, <1>7, KidHistory DEF Internal
<1>11. k \notin X
  BY <1>4, <1>8
<1>12. IsQuery(S[k])
  <2> SUFFICES ASSUME ~IsQuery(S[k]) PROVE FALSE
    OBVIOUS
  <2>1. k \in Internal(S, q)
    BY <1>5, <1>6, <1>7, InternalKid
  <2> QED  BY <1>5, <1>6, <1>8, <1>9, <1>11, <2>1 DEF X
<1>13. \A a \in Between(n, x) \cup {x} : a = q \/ ~IsQuery(S[a])
  <2>1. \A a \in {x} \cup Between(q, x) : a = q \/ ~IsQuery(S[a])
    BY <1>5 DEF Internal
  <2>2. Between(n, x) \subseteq Between(q, x)
    BY <1>1, BelowOrder DEF Between
  <2> QED  BY <2>1, <2>2
<1> QED
  BY <1>5, <1>6, <1>8, <1>9, <1>10, <1>12, <1>13 DEF Open

-----------------------------------------------------------------------------
(* Steps that leave the tree alone.                                        *)

\* As long as no path ends and no limit is reached, what is said of the tree
\* does not depend on where control is.
LEMMA TreeKept ==
    ASSUME ExploreInv, UNCHANGED store, \A n : ~Pending(n) /\ ~GivenUp(n),
           pc # "internal", pc' # "mark"
    PROVE  /\ TreeShape(store') /\ CountsLimited' /\ Decided' /\ LimitedFilled'
           /\ ClosedSeen' /\ LoopReady'
<1>1. TreeShape(store') /\ CountsLimited'
  BY DEF ExploreInv, CountsLimited
<1>2. Decided' /\ LimitedFilled' /\ ClosedSeen'
  BY DEF ExploreInv, Decided, LimitedFilled, ClosedSeen
<1>3. LoopReady'
  BY DEF LoopReady, Pending
<1> QED  BY <1>1, <1>2, <1>3

-----------------------------------------------------------------------------
(* try_extend.                                                             *)

\* While a direction is asked for, nothing is pending and cur_query is open.
LEMMA AtTry ==
    ASSUME TypeInv, WriteInv, ExploreInv, pc = "try"
    PROVE  /\ store \in [Nodes -> NodeRec] /\ cur \in Nodes /\ qry \in Nodes
           /\ curRec = store[cur] /\ qryRec = store[qry]
           /\ curRec \in NodeRec /\ Len(cur) =< PathDepthLimit
           /\ inq /\ todo = << >> /\ weird = 0
           /\ Created(store, cur) /\ ~store[cur].all_seen
           /\ Below(qry, cur) /\ IsQuery(store[qry])
           /\ BothOrNone(store[cur]) /\ ~Closed(store, cur)
           /\ \A n : ~Pending(n) /\ ~GivenUp(n)
           /\ ~KidSeen(TRUE) \/ ~KidSeen(FALSE)
<1>1. /\ store \in [Nodes -> NodeRec] /\ cur \in Nodes /\ qry \in Nodes
      /\ Len(cur) =< PathDepthLimit /\ curRec \in NodeRec
  BY DEF TypeInv, TreeTypeOK, DepthOK
<1>2. inq /\ todo = << >> /\ weird = 0
  BY DEF ExploreInv, NothingFails
<1>3. curRec = store[cur] /\ qryRec = store[qry]
  BY <1>2 DEF WriteInv, CurAgrees, QueryOpen
<1>4. Created(store, cur) /\ ~store[cur].all_seen
  BY DEF ExploreInv, CurLive
<1>5. Below(qry, cur) /\ IsQuery(store[qry])
  BY <1>2 DEF ExploreInv, ChoiceOpen
<1>6. \A n : ~Pending(n) /\ ~GivenUp(n)
  BY DEF Pending, GivenUp
<1>7. BothOrNone(store[cur]) /\ ~Closed(store, cur)
  BY <1>1, <1>4, <1>6 DEF ExploreInv, Decided, ClosedSeen
<1>8. ~KidSeen(TRUE) \/ ~KidSeen(FALSE)
  BY <1>3, <1>7 DEF Closed, Seen, KidSeen
<1> QED  BY <1>1, <1>2, <1>3, <1>4, <1>5, <1>6, <1>7, <1>8

\* No choice but the one the path is in gets a new node.
LEMMA NewKidsChoice ==
    ASSUME TypeInv, WriteInv, ExploreInv, pc = "try",
           NEW q \in Nodes, IsQuery(store[q]), NEW b \in BOOLEAN,
           Below(q, Kid(cur, b)), q # Kid(cur, b),
           \A a \in Between(q, Kid(cur, b)) : a = q \/ ~IsQuery(store[a])
    PROVE  q = qry
<1>1. /\ cur \in Nodes /\ qry \in Nodes /\ Len(cur) =< PathDepthLimit
      /\ inq /\ Below(qry, cur) /\ IsQuery(store[qry])
  BY AtTry
<1>2. Below(q, cur)
  BY <1>1, AboveKid
<1>3. CASE Below(qry, q)
  <2>1. q \in {qry, cur}
    BY <1>1, <1>2, <1>3 DEF ExploreInv, ChoiceOpen
  <2> QED  BY <1>1, <2>1 DEF ExploreInv, ChoiceOpen
<1>4. CASE Below(q, qry)
  <2>1. Below(qry, Kid(cur, b)) /\ qry # Kid(cur, b)
    BY <1>1, AboveKid, KidHistory
  <2> QED  BY <1>1, <1>4, <2>1 DEF Between
<1> QED  BY <1>1, <1>2, <1>3, <1>4, AboveComparable

\* Directions of `cur' are settled, in a choice below the limit.
LEMMA SettleTable ==
    ASSUME TypeInv, WriteInv, ExploreInv, pc = "try", NEW r \in NodeRec,
           store'[cur] = r, \A n \in Nodes \ {cur} : store'[n] = store[n],
           UNCHANGED prog,
           HoldsAll(store[cur], r), r.query_children = store[cur].query_children,
           r.query_counted = store[cur].query_counted, ~r.all_seen,
           r.child = store[cur].child \/ ~Limited(store[qry])
    PROVE  /\ TreeShape(store') /\ CountsLimited' /\ Created(store', cur)
           /\ \A q, m \in Nodes :
                Limited(store'[q]) /\ m \in Internal(store', q) =>
                  \A b \in BOOLEAN : store'[m].child[b] # "unknown"
           /\ \A n \in Nodes \ {cur} : Closed(store', n) => store'[n].all_seen
           /\ \A n \in Nodes \ {cur} : store'[n].all_seen \/ BothOrNone(store'[n])
           /\ \A n \in Nodes : NodeMatches(store', prog', n)
           /\ \A n \in Nodes : /\ IsQuery(store'[n]) <=> IsQuery(store[n])
                               /\ Limited(store'[n]) <=> Limited(store[n])
           /\ prog'[Root] # "inner" /\ IsQuery(store'[Root])
<1>0. /\ store \in [Nodes -> NodeRec] /\ cur \in Nodes /\ qry \in Nodes
      /\ Len(cur) =< PathDepthLimit /\ inq
      /\ Created(store, cur) /\ ~store[cur].all_seen
      /\ \A n : ~Pending(n) /\ ~GivenUp(n)
  BY AtTry
<1>1. FreshBelow(store) /\ KidsSeen(store) /\ KidsExist(store)
  BY DEF ExploreInv, TreeShape
<1>2. \A n \in Nodes : /\ store'[n].all_seen = store[n].all_seen
                       /\ store'[n].query_children = store[n].query_children
                       /\ store'[n].query_counted = store[n].query_counted
                       /\ \A b \in BOOLEAN : store[n].child[b] # "unknown" =>
                            store'[n].child[b] = store[n].child[b]
  <2>1. r.all_seen = FALSE /\ store[cur].all_seen = FALSE
    BY <1>0 DEF NodeRec
  <2>2. \A b \in BOOLEAN : store[cur].child[b] # "unknown" => r.child[b] = store[cur].child[b]
    BY DEF HoldsAll
  <2> QED  BY <2>1, <2>2
<1>3. \A n \in Nodes : /\ IsQuery(store'[n]) <=> IsQuery(store[n])
                       /\ Limited(store'[n]) <=> Limited(store[n])
  BY <1>2 DEF IsQuery, Limited
<1>4. \A n \in Nodes : Created(store, n) => Created(store', n)
  <2> TAKE n \in Nodes
  <2>1. n # Root => Parent(n) \in Nodes /\ n[Len(n)] \in BOOLEAN
    BY ParentHistory
  <2> QED  BY <1>2, <2>1 DEF Created
<1>5. FreshBelow(store')
  BY <1>0, <1>1, <1>4 DEF FreshBelow
<1>6. KidsSeen(store')
  <2> SUFFICES ASSUME NEW n \in Nodes, NEW b \in BOOLEAN,
                      store'[n].all_seen, store'[n].child[b] = "sat"
               PROVE  store'[Kid(n, b)].all_seen
    BY DEF KidsSeen
  <2>1. n # cur /\ store[n].all_seen /\ store[n].child[b] = "sat"
    BY <1>0, <1>2
  <2>2. Kid(n, b) \in Nodes
    BY <1>1, <2>1, KidIsNode DEF KidsExist, HasKid
  <2> QED  BY <1>1, <1>2, <2>1, <2>2 DEF KidsSeen
<1>7. KidsExist(store')
  BY <1>0, <1>1 DEF KidsExist
<1>8. ASSUME NEW q \in Nodes, NEW m \in Nodes, NEW b \in BOOLEAN,
             Limited(store'[q]), m \in Internal(store', q)
      PROVE  store'[m].child[b] # "unknown"
  <2>1. Limited(store[q]) /\ IsQuery(store[q])
    BY <1>3, <1>8 DEF Limited
  <2>2. CASE m \in Internal(store, q)
    <3>1. store[m].child[b] # "unknown"
      BY <2>1, <2>2 DEF ExploreInv, LimitedFilled
    <3> QED  BY <1>2, <3>1
  <2>3. CASE m \notin Internal(store, q)
    <3>1. /\ Below(q, m) /\ Created(store', m)
          /\ \A a \in {m} \cup Between(q, m) : a = q \/ ~IsQuery(store[a])
      BY <1>3, <1>8 DEF Internal, Between
    <3>2. ~Created(store, m)
      BY <2>3, <3>1 DEF Internal
    <3>3. m # Root /\ store'[Parent(m)].child[m[Len(m)]] = "sat"
      BY <3>1, <3>2 DEF Created
    <3>4. /\ Parent(m) \in Nodes /\ m[Len(m)] \in BOOLEAN
          /\ Kid(Parent(m), m[Len(m)]) = m
      BY <3>3, ParentHistory
    <3>5. Parent(m) = cur /\ r.child # store[cur].child
      BY <3>2, <3>3, <3>4 DEF Created
    <3>6. q # m
      BY <1>1, <2>1, <3>2 DEF FreshBelow, FreshNode, IsQuery, None
    <3>7. q = qry
      BY <2>1, <3>1, <3>4, <3>5, <3>6, NewKidsChoice
    <3> QED  BY <2>1, <3>5, <3>7
  <2> QED  BY <2>2, <2>3
<1>9. ASSUME NEW n \in Nodes, n # cur, Closed(store', n)
      PROVE  store'[n].all_seen
  <2>1. \A b \in BOOLEAN : store[n].child[b] = "sat" => Kid(n, b) \in Nodes
    BY <1>1, KidIsNode DEF KidsExist, HasKid
  <2>2. Closed(store, n)
    BY <1>2, <1>9, <2>1 DEF Closed, Seen
  <2> QED  BY <1>0, <1>2, <2>2 DEF ExploreInv, ClosedSeen
<1>10. \A n \in Nodes \ {cur} : store'[n].all_seen \/ BothOrNone(store'[n])
  BY <1>0 DEF ExploreInv, Decided
<1>11. \A n \in Nodes : NodeMatches(store', prog', n)
  <2>1. \A n \in Nodes : NodeMatches(store, prog, n)
    BY DEF ExploreInv, ProgMatch
  <2>2. \A n \in Nodes \ {cur} : NodeMatches(store', prog', n)
    BY <2>1 DEF NodeMatches
  <2>3. NodeMatches(store', prog', cur)
    <3>1. prog[cur] \in {"inner", "query"} /\ (prog[cur] = "query" => IsQuery(store[cur]))
      BY DEF ExploreInv, ProgMatch
    <3>2. /\ store[cur].query_counted => prog[cur] \in {"query", "leaf"}
          /\ cur # Root => (IsQuery(store[cur]) <=> store[cur].query_counted)
      BY <1>0, <2>1 DEF NodeMatches
    <3>3. /\ store'[cur].query_counted = store[cur].query_counted
          /\ IsQuery(store'[cur]) <=> IsQuery(store[cur])
          /\ prog' = prog
      BY <1>0, <1>2, <1>3
    <3> QED  BY <3>1, <3>2, <3>3 DEF NodeMatches
  <2> QED  BY <2>2, <2>3
<1>12. CountsLimited'
  BY <1>2 DEF ExploreInv, CountsLimited
<1>13. prog'[Root] # "inner" /\ IsQuery(store'[Root])
  BY <1>3, RootIsNode DEF ExploreInv, ProgMatch
<1> QED
  BY <1>0, <1>3, <1>4, <1>5, <1>6, <1>7, <1>8, <1>9, <1>10, <1>11, <1>12, <1>13
     DEF TreeShape

\* extend goes to a live kid, old or new.
LEMMA ExtendExplores ==
    ASSUME TypeInv, WriteInv, ExploreInv, pc = "try", UNCHANGED <<inq, todo, prog>>,
           NEW b \in BOOLEAN, NEW r \in NodeRec, Extend(b, r, 0),
           HoldsAll(curRec, r), r.query_children = curRec.query_children,
           r.query_counted = curRec.query_counted, ~r.all_seen,
           r.child[b] # "unsat", r.child[~b] # "unknown",
           curRec.child[b] = "sat" => ~KidSeen(b),
           (r = curRec /\ r.child[b] = "sat") \/ ~Limited(qryRec)
    PROVE  ExploreInv'
<1> DEFINE r2 == [r EXCEPT !.child[b] = "sat"]
           k  == Kid(cur, b)
<1>0. /\ store \in [Nodes -> NodeRec] /\ cur \in Nodes /\ qry \in Nodes
      /\ curRec = store[cur] /\ qryRec = store[qry] /\ curRec \in NodeRec
      /\ Len(cur) =< PathDepthLimit
      /\ inq /\ todo = << >> /\ weird = 0
      /\ Below(qry, cur) /\ IsQuery(store[qry])
  BY AtTry
<1>1. /\ store' = [store EXCEPT ![cur] = Stored(r2)] /\ cur' = k /\ qry' = qry
      /\ weird' = 0 /\ pc' = IF Len(cur) >= PathDepthLimit THEN "finish" ELSE "run"
  BY <1>0 DEF Extend, TooWeird, FailedIf
<1>2. r.child[b] \in {"unknown", "sat"} /\ "sat" \in ChildStatus /\ (~b) \in BOOLEAN
  BY DEF NodeRec, ChildStatus
<1>3. /\ r2 \in NodeRec /\ HoldsAll(r, r2) /\ r2.query_children = r.query_children
      /\ r2.all_seen = r.all_seen /\ r2.child[b] = "sat" /\ r2.child[~b] = r.child[~b]
  BY <1>2, SettledHolds, ChildUpdateType
<1>4. r2.query_counted = r.query_counted
  BY DEF NodeRec
<1>5. r = curRec /\ r.child[b] = "sat" => r2.child = curRec.child
  BY DEF NodeRec
<1> HIDE DEF r2
<1>6. HoldsAll(curRec, r2)
  BY <1>0, <1>3, HoldsChain
<1>7. store'[cur] = r2 /\ \A n \in Nodes \ {cur} : store'[n] = store[n]
  BY <1>0, <1>1, <1>3, <1>6, WriteCur DEF WriteInv
<1>8. /\ TreeShape(store') /\ CountsLimited' /\ Created(store', cur)
      /\ \A q, m \in Nodes :
           Limited(store'[q]) /\ m \in Internal(store', q) =>
             \A d \in BOOLEAN : store'[m].child[d] # "unknown"
      /\ \A n \in Nodes \ {cur} : Closed(store', n) => store'[n].all_seen
      /\ \A n \in Nodes \ {cur} : store'[n].all_seen \/ BothOrNone(store'[n])
      /\ \A n \in Nodes : NodeMatches(store', prog', n)
      /\ \A n \in Nodes : /\ IsQuery(store'[n]) <=> IsQuery(store[n])
                          /\ Limited(store'[n]) <=> Limited(store[n])
      /\ prog'[Root] # "inner" /\ IsQuery(store'[Root])
  BY <1>0, <1>3, <1>4, <1>5, <1>6, <1>7, SettleTable
<1>9. /\ k \in Nodes /\ k # cur /\ Below(qry, k) /\ Len(k) = Len(cur) + 1
      /\ Created(store', k)
  <2>1. k \in Nodes /\ k # cur /\ Below(cur, k) /\ Len(k) = Len(cur) + 1
    BY <1>0, KidHistory
  <2> QED  BY <1>0, <1>3, <1>7, <2>1, KidCreated, BelowOrder
<1>10. ~store'[k].all_seen
  <2>1. CASE curRec.child[b] = "sat"
    BY <1>7, <1>9, <2>1 DEF KidSeen
  <2>2. CASE curRec.child[b] # "sat"
    <3>1. ~Created(store, k)
      BY <1>0, <2>2, KidCreated
    <3>2. store[k] = FreshNode
      BY <1>9, <3>1 DEF ExploreInv, TreeShape, FreshBelow
    <3> QED  BY <1>7, <1>9, <3>2 DEF FreshNode
  <2> QED  BY <2>1, <2>2
<1>11. NothingFails' /\ CurLive'
  BY <1>0, <1>1, <1>9, <1>10 DEF NothingFails, CurLive
<1>12. ChoiceOpen'
  <2>1. ASSUME NEW a \in Nodes, Below(qry, a), Below(a, k), IsQuery(store'[a])
        PROVE  a \in {qry, k}
    <3>1. a = k \/ Below(a, cur)
      BY <1>0, <2>1, AboveKid
    <3>2. IsQuery(store[a])
      BY <1>8, <2>1
    <3> QED  BY <1>0, <2>1, <3>1, <3>2 DEF ExploreInv, ChoiceOpen
  <2> QED  BY <1>0, <1>1, <1>8, <1>9, <2>1 DEF ChoiceOpen
<1>13. BothOrNone(store'[cur]) /\ ~Closed(store', cur)
  <2>1. BothOrNone(r2)
    BY <1>2, <1>3 DEF BothOrNone
  <2> QED  BY <1>3, <1>7, <1>10, <2>1 DEF Closed, Seen
<1>14. Decided' /\ LimitedFilled' /\ ClosedSeen'
  BY <1>8, <1>13 DEF Decided, LimitedFilled, ClosedSeen
<1>15. LoopReady' /\ ProgMatch'
  BY <1>0, <1>1, <1>8 DEF LoopReady, Pending, ProgMatch
<1>16. FinishClean'
  <2> SUFFICES ASSUME pc' = "finish" PROVE ~HasKid(store'[k])
    BY <1>1 DEF FinishClean
  <2>1. Len(cur) >= PathDepthLimit /\ Len(cur) \in Nat
    BY <1>0, <1>1, NodesAreSequences
  <2>2. ~(Len(k) =< PathDepthLimit)
    BY <1>9, <2>1, LimitsAssumption
  <2> QED  BY <1>8, <1>9, <2>2 DEF TreeShape, KidsExist
<1> QED
  BY <1>8, <1>11, <1>12, <1>14, <1>15, <1>16 DEF ExploreInv

\* A solver failure ends the path at a node with a direction open and no kid.
LEMMA FailureExplores ==
    ASSUME TypeInv, WriteInv, ExploreInv, pc = "try", UNCHANGED <<inq, prog, weird>>,
           todo' = todo, NEW r \in NodeRec, SolverFailure(r),
           HoldsAll(curRec, r), r.query_children = curRec.query_children,
           r.query_counted = curRec.query_counted, ~r.all_seen,
           ~HasKid(r), \E b \in BOOLEAN : r.child[b] = "unknown",
           ~Limited(qryRec)
    PROVE  ExploreInv'
<1>0. /\ store \in [Nodes -> NodeRec] /\ cur \in Nodes /\ qry \in Nodes
      /\ curRec = store[cur] /\ qryRec = store[qry] /\ curRec \in NodeRec
      /\ todo = << >> /\ weird = 0
  BY AtTry
<1>1. /\ store' = [store EXCEPT ![cur] = Stored(r)] /\ UNCHANGED <<cur, qry>>
      /\ pc' \in {"finish", "stopped"}
  BY DEF SolverFailure
<1>2. store'[cur] = r /\ \A n \in Nodes \ {cur} : store'[n] = store[n]
  BY <1>0, <1>1, WriteCur DEF WriteInv
<1>3. /\ TreeShape(store') /\ CountsLimited' /\ Created(store', cur)
      /\ \A q, m \in Nodes :
           Limited(store'[q]) /\ m \in Internal(store', q) =>
             \A d \in BOOLEAN : store'[m].child[d] # "unknown"
      /\ \A n \in Nodes \ {cur} : Closed(store', n) => store'[n].all_seen
      /\ \A n \in Nodes \ {cur} : store'[n].all_seen \/ BothOrNone(store'[n])
      /\ \A n \in Nodes : NodeMatches(store', prog', n)
      /\ prog'[Root] # "inner" /\ IsQuery(store'[Root])
  BY <1>0, <1>2, SettleTable
<1>4. NothingFails' /\ CurLive' /\ ChoiceOpen' /\ FinishClean'
  BY <1>0, <1>1, <1>2, <1>3 DEF NothingFails, CurLive, ChoiceOpen, FinishClean
<1>5. Decided'
  BY <1>1, <1>3 DEF Decided, GivenUp
<1>6. ~Closed(store', cur)
  BY <1>2 DEF Closed, Seen
<1>7. ClosedSeen' /\ LimitedFilled'
  BY <1>1, <1>3, <1>6 DEF ClosedSeen, LimitedFilled
<1>8. LoopReady' /\ ProgMatch'
  BY <1>1, <1>3 DEF LoopReady, Pending, ProgMatch
<1> QED
  BY <1>3, <1>4, <1>5, <1>7, <1>8 DEF ExploreInv

\* The current node belongs to the choice.
LEMMA CurInternal ==
    ASSUME TypeInv, WriteInv, ExploreInv, pc = "try"
    PROVE  cur \in Internal(store, qry)
<1>1. /\ cur \in Nodes /\ qry \in Nodes /\ inq
      /\ Created(store, cur) /\ Below(qry, cur)
  BY AtTry
<1>2. /\ \A a \in Nodes :
           Below(qry, a) /\ Below(a, cur) /\ IsQuery(store[a]) => a \in {qry, cur}
      /\ cur = qry \/ ~IsQuery(store[cur])
  BY <1>1 DEF ExploreInv, ChoiceOpen
<1> QED  BY <1>1, <1>2 DEF Internal, Between

\* try_extend rejects no shape, and takes a known direction only if its kid is
\* live.
LEMMA KnownStep ==
    ASSUME TypeInv, WriteInv, ExploreInv, TryExtendKnown
    PROVE  \E b \in BOOLEAN : /\ curRec.child[b] = "sat" /\ curRec.child[~b] # "unknown"
                              /\ ~KidSeen(b) /\ Extend(b, curRec, 0)
<1>0. pc = "try"
  BY DEF TryExtendKnown
<1>1. /\ store \in [Nodes -> NodeRec] /\ cur \in Nodes /\ qry \in Nodes
      /\ curRec = store[cur] /\ qryRec = store[qry] /\ curRec \in NodeRec
      /\ ~curRec.all_seen /\ BothOrNone(curRec) /\ ~Closed(store, cur)
      /\ ~KidSeen(TRUE) \/ ~KidSeen(FALSE)
  BY <1>0, AtTry
<1>2. \A b \in BOOLEAN : KidSeen(b) <=> Seen(store, cur, b)
  BY <1>1 DEF KidSeen, Seen
<1>3. ~BadShape
  <2>1. Limited(store[qry]) => \E b \in BOOLEAN : curRec.child[b] # "unknown"
    BY <1>0, <1>1, CurInternal DEF ExploreInv, LimitedFilled
  <2>2. ~\A b \in BOOLEAN : curRec.child[b] = "unsat"
    BY <1>1 DEF Closed
  <2> QED  BY <1>1, <2>1, <2>2 DEF BadShape
<1>4. PICK b \in BOOLEAN :
        /\ KnownShape(b)
        /\ Extend(b, curRec, FailedIf(curRec.all_seen) +
                             FailedIf(curRec.child[~b] = "unsat" /\ KidSeen(b)))
  BY <1>3 DEF TryExtendKnown
<1>5. curRec.child[b] = "sat" /\ curRec.child[~b] # "unknown"
  BY <1>1, <1>4 DEF KnownShape, BothOrNone
<1>6. ~KidSeen(b)
  <2>1. curRec.child[~b] \in ChildStatus
    BY <1>1 DEF NodeRec
  <2>2. CASE curRec.child[~b] = "unsat"
    <3>1. \A c \in BOOLEAN : c = b \/ c = ~b
      OBVIOUS
    <3> QED  BY <1>1, <1>2, <2>2, <3>1 DEF Closed
  <2>3. CASE curRec.child[~b] = "sat"
    BY <1>1, <1>4, <2>3 DEF KnownShape
  <2> QED  BY <1>5, <2>1, <2>2, <2>3 DEF ChildStatus
<1>7. FailedIf(curRec.all_seen) +
        FailedIf(curRec.child[~b] = "unsat" /\ KidSeen(b)) = 0
  BY <1>1, <1>6 DEF FailedIf
<1>8. Extend(b, curRec, 0)
  BY <1>4, <1>7
<1> QED  BY <1>5, <1>6, <1>8

LEMMA KnownExplores ==
    ASSUME TypeInv, WriteInv, ExploreInv, TryExtendKnown
    PROVE  ExploreInv'
<1>1. /\ pc = "try" /\ UNCHANGED <<inq, todo, prog>>
  BY DEF TryExtendKnown, envVars
<1>2. curRec = store[cur] /\ curRec \in NodeRec /\ ~curRec.all_seen
  BY <1>1, AtTry
<1>3. PICK b \in BOOLEAN : /\ curRec.child[b] = "sat" /\ curRec.child[~b] # "unknown"
                          /\ ~KidSeen(b) /\ Extend(b, curRec, 0)
  BY KnownStep
<1>4. HoldsAll(curRec, curRec)
  BY <1>2, HoldsItself
<1> QED  BY <1>1, <1>2, <1>3, <1>4, ExtendExplores

\* Nothing is asked at a node with one direction known.
LEMMA AskedOpen ==
    ASSUME TypeInv, WriteInv, ExploreInv, pc = "try", NEW b \in BOOLEAN,
           BothShape(b) \/ BoringShape(b) \/ CheckShape(b)
    PROVE  /\ BothShape(b) /\ ~BoringShape(b) /\ ~CheckShape(b)
           /\ curRec.child[b] = "unknown" /\ curRec.child[~b] = "unknown"
<1>1. BothOrNone(curRec)
  BY AtTry
<1>2. curRec.child[b] = "unknown" <=> curRec.child[~b] = "unknown"
  BY <1>1 DEF BothOrNone
<1>3. ~BoringShape(b) /\ ~CheckShape(b)
  BY <1>2 DEF BoringShape, CheckShape, KidSeen
<1>4. curRec.child[b] = "unknown" \/ curRec.child[~b] = "unknown"
  BY <1>3 DEF BothShape
<1> QED  BY <1>2, <1>3, <1>4

\* When both directions are refused, a query has timed out.
LEMMA BothRefused ==
    ASSUME Steady, NEW F \in SUBSET BOOLEAN, F # {}, NEW a \in Answers(F),
           NEW b \in BOOLEAN, Refused(a, b), Refused(a, ~b)
    PROVE  ~(TimeoutAsUnsat /\ Concolic)
<1>1. /\ a[b] \in {"sat", "unsat", "fail"} /\ a[~b] \in {"sat", "unsat", "fail"}
      /\ (~b) \in BOOLEAN
  BY DEF Answers
<1>2. a[b] = "fail" \/ a[~b] = "fail"
  <2> SUFFICES ASSUME a[b] = "unsat", a[~b] = "unsat" PROVE FALSE
    BY <1>1 DEF Refused
  <2>1. b \notin F /\ (~b) \notin F
    BY <1>1 DEF Answers
  <2> QED  BY <2>1
<1>3. SolverMayFail
  BY <1>1, <1>2 DEF Answers
<1> QED  BY <1>3 DEF Steady

\* try_both settles both directions, or the path is given up.
LEMMA AskStep ==
    ASSUME Steady, TypeInv, WriteInv, ExploreInv, TryExtendAsk
    PROVE  /\ pc = "try" /\ UNCHANGED <<inq, prog>> /\ (pc' # "boring" => todo' = todo)
           /\ ~Limited(qryRec) /\ \A c \in BOOLEAN : curRec.child[c] = "unknown"
           /\ \E F \in SUBSET BOOLEAN : \E a \in Answers(F), c \in BOOLEAN :
                /\ Consult(F)
                /\ \/ SolverFailure(curRec)
                   \/ Refused(a, c) /\ SolverFailure(RecordUnsat(curRec, c))
                   \/ /\ a[c] = "sat" /\ a[~c] = "sat"
                      /\ Extend(~c, [curRec EXCEPT !.child[c] = "sat"], 0)
                   \/ /\ Refused(a, c) /\ a[~c] = "sat"
                      /\ Extend(~c, RecordUnsat(curRec, c), 0)
                   \/ /\ Refused(a, c) /\ Refused(a, ~c)
                      /\ pc' = "double_unsat" /\ UNCHANGED <<treeVars, weird>>
<1>1. pc = "try" /\ UNCHANGED <<inq, prog>> /\ (pc' # "boring" => todo' = todo)
  BY DEF TryExtendAsk
<1>2. curRec \in NodeRec /\ ~curRec.all_seen
  BY <1>1, AtTry
<1>3. PICK F \in SUBSET BOOLEAN, b \in BOOLEAN :
        /\ BothShape(b) \/ BoringShape(b) \/ CheckShape(b)
        /\ Consult(F)
        /\ \E a \in Answers(F) :
             CASE BothShape(b) -> TryBoth(a, b)
               [] BoringShape(b) -> TryOrBoring(a, b)
               [] CheckShape(b) -> KnownCheck(a, b)
  BY DEF TryExtendAsk
<1>4. /\ BothShape(b) /\ ~BoringShape(b) /\ ~CheckShape(b)
      /\ curRec.child[b] = "unknown" /\ curRec.child[~b] = "unknown"
  BY <1>1, <1>3, AskedOpen
<1>5. PICK a \in Answers(F) : TryBoth(a, b)
  BY <1>3, <1>4
<1>6. ~Limited(qryRec) /\ F # {} /\ (~b) \in BOOLEAN /\ (~(~b)) = b
  BY <1>3, <1>4 DEF BothShape, Consult
<1>7. \A c \in BOOLEAN : curRec.child[c] = "unknown"
  <2>1. \A c \in BOOLEAN : c = b \/ c = ~b
    OBVIOUS
  <2> QED  BY <1>4, <2>1
<1>8. a[b] \in {"sat", "unsat", "fail"} /\ a[~b] \in {"sat", "unsat", "fail"}
  BY <1>6 DEF Answers
<1> DEFINE r == RecordUnsat(curRec, b)
           fails == FailedIf(curRec.all_seen)
<1>9. fails = 0 /\ 2 * fails = 0
  BY <1>2 DEF FailedIf
<1> HIDE DEF fails, r
<1>10. \/ SolverFailure(curRec)
       \/ Refused(a, b) /\ SolverFailure(r)
       \/ /\ a[b] = "sat" /\ a[~b] = "sat"
          /\ Extend(b, [curRec EXCEPT !.child[~b] = "sat"], 0)
       \/ a[b] = "sat" /\ Refused(a, ~b) /\ Extend(b, RecordUnsat(curRec, ~b), 0)
       \/ Refused(a, b) /\ a[~b] = "sat" /\ Extend(~b, r, 0)
       \/ Refused(a, b) /\ Refused(a, ~b) /\ BothFail(b, r, 0)
  <2>1. CASE a[b] = "sat" /\ a[~b] = "sat"
    <3>1. Extend(b, [curRec EXCEPT !.child[~b] = "sat"], 2 * fails)
      BY <1>5, <2>1 DEF TryBoth, Raises, Refused, fails, r
    <3> QED  BY <1>9, <2>1, <3>1
  <2>2. CASE a[b] = "sat" /\ Raises(a, ~b)
    BY <1>5, <2>2 DEF TryBoth, Raises, Refused
  <2>3. CASE Raises(a, b)
    BY <1>5, <2>3 DEF TryBoth, Raises, Refused
  <2>4. CASE a[b] = "sat" /\ Refused(a, ~b)
    <3>1. Extend(b, RecordUnsat(curRec, ~b), fails)
      BY <1>4, <1>5, <2>4 DEF TryBoth, Raises, Refused, fails, r
    <3> QED  BY <1>9, <2>4, <3>1
  <2>5. CASE Refused(a, b) /\ Raises(a, ~b)
    BY <1>4, <1>5, <2>5 DEF TryBoth, Raises, Refused, r
  <2>6. CASE Refused(a, b) /\ a[~b] = "sat"
    <3>1. Extend(~b, r, fails)
      BY <1>4, <1>5, <2>6 DEF TryBoth, Raises, Refused, fails, r
    <3> QED  BY <1>9, <2>6, <3>1
  <2>7. CASE Refused(a, b) /\ Refused(a, ~b)
    <3>1. BothFail(b, r, fails)
      BY <1>4, <1>5, <2>7 DEF TryBoth, Raises, Refused, fails, r
    <3> QED  BY <1>9, <2>7, <3>1
  <2> QED  BY <1>8, <2>1, <2>2, <2>3, <2>4, <2>5, <2>6, <2>7 DEF Raises, Refused
<1>11. Refused(a, b) /\ Refused(a, ~b) /\ BothFail(b, r, 0) =>
         pc' = "double_unsat" /\ UNCHANGED <<treeVars, weird>>
  BY <1>6, BothRefused DEF BothFail
<1> DEFINE Way(c) ==
             \/ SolverFailure(curRec)
             \/ Refused(a, c) /\ SolverFailure(RecordUnsat(curRec, c))
             \/ /\ a[c] = "sat" /\ a[~c] = "sat"
                /\ Extend(~c, [curRec EXCEPT !.child[c] = "sat"], 0)
             \/ /\ Refused(a, c) /\ a[~c] = "sat"
                /\ Extend(~c, RecordUnsat(curRec, c), 0)
             \/ /\ Refused(a, c) /\ Refused(a, ~c)
                /\ pc' = "double_unsat" /\ UNCHANGED <<treeVars, weird>>
<1>12. Way(b) \/ Way(~b)
  BY <1>6, <1>10, <1>11 DEF r
<1>13. \E c \in BOOLEAN : Way(c)
  <2> HIDE DEF Way
  <2> QED  BY <1>6, <1>12
<1> QED  BY <1>1, <1>3, <1>6, <1>7, <1>13

LEMMA AskExplores ==
    ASSUME Steady, TypeInv, WriteInv, ExploreInv, TryExtendAsk
    PROVE  ExploreInv'
<1>0. /\ pc = "try" /\ UNCHANGED <<inq, prog>> /\ (pc' # "boring" => todo' = todo)
      /\ ~Limited(qryRec) /\ \A c \in BOOLEAN : curRec.child[c] = "unknown"
  BY AskStep
<1>1. /\ cur \in Nodes /\ curRec = store[cur] /\ curRec \in NodeRec
      /\ ~curRec.all_seen /\ weird = 0 /\ todo = << >>
  BY <1>0, AtTry
<1>2. PICK c \in BOOLEAN :
        \/ SolverFailure(curRec) \/ SolverFailure(RecordUnsat(curRec, c))
        \/ Extend(~c, [curRec EXCEPT !.child[c] = "sat"], 0)
        \/ Extend(~c, RecordUnsat(curRec, c), 0)
        \/ pc' = "double_unsat" /\ UNCHANGED <<treeVars, weird>>
  BY AskStep
<1>3. "sat" \in ChildStatus /\ "unsat" \in ChildStatus /\ (~c) \in BOOLEAN /\ (~(~c)) = c
  BY DEF ChildStatus
<1>4. ASSUME NEW v \in {"sat", "unsat"}
      PROVE  LET s == [curRec EXCEPT !.child[c] = v]
             IN /\ s \in NodeRec /\ HoldsAll(curRec, s)
                /\ s.query_children = curRec.query_children
                /\ s.query_counted = curRec.query_counted /\ ~s.all_seen
                /\ s.child[c] = v /\ s.child[~c] = "unknown"
  <2>1. curRec.child[c] = "unknown" /\ curRec.child[~c] = "unknown" /\ v \in ChildStatus
    BY <1>0, <1>3
  <2>2. [curRec EXCEPT !.child[c] = v].query_counted = curRec.query_counted
    BY <1>1 DEF NodeRec
  <2>3. /\ HoldsAll(curRec, [curRec EXCEPT !.child[c] = v])
        /\ [curRec EXCEPT !.child[c] = v].query_children = curRec.query_children
        /\ [curRec EXCEPT !.child[c] = v].all_seen = curRec.all_seen
        /\ [curRec EXCEPT !.child[c] = v].child[c] = v
        /\ [curRec EXCEPT !.child[c] = v].child[~c] = curRec.child[~c]
    BY <1>1, <2>1, SettledHolds
  <2>4. [curRec EXCEPT !.child[c] = v] \in NodeRec
    BY <1>1, <2>1, ChildUpdateType
  <2> QED  BY <1>1, <2>1, <2>2, <2>3, <2>4
<1>5. ASSUME NEW v \in {"sat", "unsat"},
             Extend(~c, [curRec EXCEPT !.child[c] = v], 0)
      PROVE  ExploreInv'
  <2> DEFINE s == [curRec EXCEPT !.child[c] = v]
  <2>1. /\ s \in NodeRec /\ HoldsAll(curRec, s)
        /\ s.query_children = curRec.query_children
        /\ s.query_counted = curRec.query_counted /\ ~s.all_seen
        /\ s.child[c] = v /\ s.child[~c] = "unknown"
    BY <1>4
  <2>2. curRec.child[~c] # "sat"
    BY <1>0, <1>3
  <2> HIDE DEF s
  <2>3. s.child[~c] # "unsat" /\ s.child[~(~c)] # "unknown"
    BY <1>3, <2>1
  <2>4. pc' # "boring"
    BY <1>1, <2>1, <2>3, <1>5 DEF Extend, TooWeird, FailedIf, s
  <2>5. Extend(~c, s, 0) /\ todo' = todo
    BY <1>0, <1>5, <2>4 DEF s
  <2> QED
    BY <1>0, <1>3, <2>1, <2>2, <2>3, <2>5, ExtendExplores
<1>6. CASE SolverFailure(curRec)
  <2>1. pc' # "boring" /\ UNCHANGED weird
    BY <1>6 DEF SolverFailure
  <2>2. HoldsAll(curRec, curRec) /\ ~HasKid(curRec)
    BY <1>0, <1>1, HoldsItself DEF HasKid
  <2> QED  BY <1>0, <1>1, <1>6, <2>1, <2>2, FailureExplores
<1>7. CASE SolverFailure(RecordUnsat(curRec, c))
  <2> DEFINE r == RecordUnsat(curRec, c)
  <2>1. pc' # "boring" /\ UNCHANGED weird
    BY <1>7 DEF SolverFailure
  <2>2. /\ r \in NodeRec /\ HoldsAll(curRec, r)
        /\ r.query_children = curRec.query_children
        /\ r.query_counted = curRec.query_counted /\ ~r.all_seen
        /\ r.child[c] = "unsat" /\ r.child[~c] = "unknown"
    BY <1>4 DEF RecordUnsat
  <2>3. SolverFailure(r) /\ todo' = todo
    BY <1>0, <1>7, <2>1
  <2> HIDE DEF r
  <2>4. ~HasKid(r)
    <3>1. \A d \in BOOLEAN : d = c \/ d = ~c
      OBVIOUS
    <3> QED  BY <2>2, <3>1 DEF HasKid
  <2> QED  BY <1>0, <1>3, <2>1, <2>2, <2>3, <2>4, FailureExplores
<1>8. CASE pc' = "double_unsat" /\ UNCHANGED <<treeVars, weird>>
  <2>1. UNCHANGED <<store, cur, qry, inq, prog, weird, todo>>
    BY <1>0, <1>8 DEF treeVars
  <2>2. \A n : ~Pending(n) /\ ~GivenUp(n)
    BY <1>0, AtTry
  <2>3. /\ TreeShape(store') /\ CountsLimited' /\ Decided' /\ LimitedFilled'
        /\ ClosedSeen' /\ LoopReady'
    BY <1>0, <1>8, <2>1, <2>2, TreeKept
  <2>4. CurLive' /\ ChoiceOpen' /\ FinishClean'
    BY <1>8 DEF CurLive, ChoiceOpen, FinishClean
  <2>5. NothingFails'
    BY <1>0, <1>1, <1>8, <2>1 DEF ExploreInv, NothingFails
  <2>6. ProgMatch'
    BY <1>8, <2>1 DEF ExploreInv, ProgMatch
  <2> QED  BY <2>3, <2>4, <2>5, <2>6 DEF ExploreInv
<1> QED  BY <1>2, <1>5, <1>6, <1>7, <1>8 DEF RecordUnsat

-----------------------------------------------------------------------------
(* start_new_query and count_query.                                        *)

\* While a path runs between decisions, nothing is pending.
LEMMA AtRun ==
    ASSUME TypeInv, WriteInv, ExploreInv, pc = "run"
    PROVE  /\ store \in [Nodes -> NodeRec] /\ cur \in Nodes /\ qry \in Nodes
           /\ prog \in [Nodes -> {"unknown", "inner", "query", "leaf"}]
           /\ curRec = store[cur] /\ curRec \in NodeRec /\ qryRec \in NodeRec
           /\ todo = << >> /\ weird = 0
           /\ Created(store, cur) /\ ~store[cur].all_seen
           /\ \A n : ~Pending(n) /\ ~GivenUp(n)
           /\ inq => /\ Below(qry, cur) /\ IsQuery(store[qry])
                     /\ qryRec = store[qry]
           /\ ~inq => IsQuery(store[cur])
<1>1. /\ store \in [Nodes -> NodeRec] /\ cur \in Nodes /\ qry \in Nodes
      /\ curRec \in NodeRec /\ qryRec \in NodeRec
      /\ prog \in [Nodes -> {"unknown", "inner", "query", "leaf"}]
  BY DEF TypeInv, TreeTypeOK, RestTypeOK
<1>2. todo = << >> /\ weird = 0
  BY DEF ExploreInv, NothingFails
<1>3. curRec = store[cur] /\ (inq => qryRec = store[qry])
  BY <1>2 DEF WriteInv, CurAgrees, QueryOpen
<1>4. Created(store, cur) /\ ~store[cur].all_seen
  BY DEF ExploreInv, CurLive
<1>5. inq => Below(qry, cur) /\ IsQuery(store[qry])
  BY DEF ExploreInv, ChoiceOpen
<1>6. \A n : ~Pending(n) /\ ~GivenUp(n)
  BY DEF Pending, GivenUp
<1>7. ~inq => IsQuery(store[cur])
  BY DEF ExploreInv, ProgMatch
<1> QED  BY <1>1, <1>2, <1>3, <1>4, <1>5, <1>6, <1>7

\* A query starts at a query node, the next bit of one at an inner node.
LEMMA StartExplores ==
    ASSUME TypeInv, WriteInv, ExploreInv, StartNewQuery \/ NextBit
    PROVE  ExploreInv'
<1>0. /\ store \in [Nodes -> NodeRec] /\ cur \in Nodes /\ qry \in Nodes
      /\ prog \in [Nodes -> {"unknown", "inner", "query", "leaf"}]
      /\ curRec = store[cur] /\ pc = "run"
      /\ todo = << >> /\ weird = 0
      /\ Created(store, cur) /\ ~store[cur].all_seen
      /\ \A n : ~Pending(n) /\ ~GivenUp(n)
  <2>1. pc = "run"
    BY DEF StartNewQuery, NextBit
  <2> QED  BY <2>1, AtRun
<1>1. NodeMatches(store, prog, cur) /\ prog[Root] # "inner" /\ IsQuery(store[Root])
  BY <1>0 DEF ExploreInv, ProgMatch
<1>2. ASSUME UNCHANGED <<store, cur, todo, weird>>, pc' = "try", inq',
             ChoiceOpen', NEW kind \in {"inner", "query"}, Does(cur, kind),
             NodeMatches(store, prog', cur), cur = Root => kind # "inner",
             kind = "query" => IsQuery(store[cur])
      PROVE  ExploreInv'
  <2>1. /\ TreeShape(store') /\ CountsLimited' /\ Decided' /\ LimitedFilled'
        /\ ClosedSeen' /\ LoopReady'
    BY <1>0, <1>2, TreeKept
  <2>2. NothingFails' /\ CurLive' /\ FinishClean'
    BY <1>0, <1>2 DEF NothingFails, CurLive, FinishClean
  <2>3. prog' = [prog EXCEPT ![cur] = kind]
    BY <1>2 DEF Does
  <2>4. \A n \in Nodes : NodeMatches(store, prog', n)
    <3>1. \A n \in Nodes \ {cur} : NodeMatches(store, prog, n) /\ prog'[n] = prog[n]
      BY <1>0, <2>3 DEF ExploreInv, ProgMatch
    <3> QED  BY <1>2, <3>1 DEF NodeMatches
  <2>5. prog'[Root] # "inner" /\ prog'[cur] = kind
    BY <1>0, <1>1, <1>2, <2>3, RootIsNode
  <2>6. ProgMatch'
    BY <1>1, <1>2, <2>4, <2>5 DEF ProgMatch
  <2> QED  BY <1>2, <2>1, <2>2, <2>6 DEF ExploreInv
<1>3. CASE StartNewQuery
  <2>1. ~inq /\ Does(cur, "query") /\ IsQuery(store[cur])
    BY <1>0, <1>3, AtRun DEF StartNewQuery
  <2>2. /\ UNCHANGED <<store, cur, todo>> /\ weird' = weird /\ pc' = "try" /\ inq'
        /\ qry' = cur
    BY <1>0, <1>3, <2>1 DEF StartNewQuery, TooWeird, FailedIf
  <2>3. ChoiceOpen'
    BY <1>0, <2>1, <2>2, BelowOrder DEF ChoiceOpen
  <2>4. NodeMatches(store, prog', cur)
    <3>1. prog'[cur] = "query"
      BY <1>0, <2>1 DEF Does
    <3> QED  BY <1>1, <2>1, <3>1 DEF NodeMatches
  <2> QED  BY <1>2, <2>1, <2>2, <2>3, <2>4
<1>4. CASE NextBit
  <2>1. /\ inq /\ cur # qry /\ Does(cur, "inner")
        /\ UNCHANGED <<store, cur, qry, inq, todo, weird>> /\ pc' = "try"
    BY <1>4 DEF NextBit, treeVars
  <2>2. Below(qry, cur) /\ IsQuery(store[qry])
    BY <1>0, <2>1, AtRun
  <2>3. cur # Root
    BY <1>0, <2>1, <2>2, RootIsNode, BelowOrder
  <2>4. prog[cur] \in {"unknown", "inner"} /\ prog'[cur] = "inner"
    BY <1>0, <2>1 DEF Does
  <2>5. ~store[cur].query_counted /\ ~IsQuery(store[cur])
    BY <1>1, <2>3, <2>4 DEF NodeMatches
  <2>6. ChoiceOpen'
    BY <1>0, <2>1, <2>2, <2>5 DEF ExploreInv, ChoiceOpen
  <2>7. NodeMatches(store, prog', cur)
    BY <2>4, <2>5 DEF NodeMatches
  <2> QED  BY <1>2, <2>1, <2>3, <2>6, <2>7
<1> QED  BY <1>3, <1>4

\* A count in the table is a number.
LEMMA CountIsNat ==
    ASSUME TypeInv, CountsRead, NEW n \in Nodes, IsQuery(store[n])
    PROVE  store[n].query_children \in Nat
<1> DEFINE k == store[n].query_children
<1>1. k \in Int /\ StoredCount(k) = k /\ k # None
  BY DEF TypeInv, TreeTypeOK, NodeRec, CountsRead, IsQuery
<1>2. CountModulus \in Nat /\ CountModulus > 1
  BY LimitsAssumption
<1> HIDE DEF k
<1>3. k % CountModulus \in Nat
  BY <1>1, <1>2
<1>4. k = k % CountModulus
  BY <1>1 DEF StoredCount
<1> QED  BY <1>3, <1>4 DEF k

\* count_query finds no uncounted node in a choice that has reached the limit.
LEMMA CountsBelowLimit ==
    ASSUME TypeInv, WriteInv, ExploreInv, pc = "run", inq, cur # qry,
           NEW kind \in {"query", "leaf"}, Does(cur, kind),
           ~store[cur].query_counted
    PROVE  /\ ~Limited(store[qry]) /\ ~IsQuery(store[cur]) /\ cur # Root
           /\ ~HasKid(store[cur])
           /\ \A q \in Nodes : Limited(store[q]) => cur \notin Internal(store, q)
<1>1. /\ store \in [Nodes -> NodeRec] /\ cur \in Nodes /\ qry \in Nodes
      /\ Created(store, cur) /\ ~store[cur].all_seen
      /\ \A n : ~Pending(n) /\ ~GivenUp(n)
      /\ Below(qry, cur)
      /\ prog \in [Nodes -> {"unknown", "inner", "query", "leaf"}]
  BY AtRun
<1>2. cur # Root
  BY <1>1, RootIsNode, BelowOrder
<1>3. NodeMatches(store, prog, cur)
  BY <1>1 DEF ExploreInv, ProgMatch
<1>4. ~IsQuery(store[cur])
  BY <1>2, <1>3 DEF NodeMatches
<1>5. ~HasKid(store[cur])
  BY <1>3, <1>4 DEF NodeMatches, Does
<1>6. cur \in Internal(store, qry)
  <2>1. \A a \in Nodes :
          Below(qry, a) /\ Below(a, cur) /\ IsQuery(store[a]) => a \in {qry, cur}
    BY DEF ExploreInv, ChoiceOpen
  <2> QED  BY <1>1, <1>4, <2>1 DEF Internal, Between
<1>7. ~Closed(store, cur)
  BY <1>1 DEF ExploreInv, ClosedSeen
<1>8. ASSUME NEW q \in Nodes, Limited(store[q]), cur \in Internal(store, q) PROVE FALSE
  <2>1. \A b \in BOOLEAN : store[cur].child[b] \in ChildStatus \ {"unknown"}
    BY <1>1, <1>8 DEF ExploreInv, LimitedFilled, NodeRec
  <2> QED  BY <1>5, <1>7, <2>1 DEF HasKid, Closed, ChildStatus
<1> QED  BY <1>1, <1>2, <1>4, <1>5, <1>6, <1>8

\* count_query: the node ends the choice and is counted once.
LEMMA CountTable ==
    ASSUME TypeInv, WriteInv, Countable, ExploreInv, CountQuery
    PROVE  /\ pc = "run" /\ inq /\ cur # qry
           /\ weird' = 0 /\ inq' = FALSE /\ UNCHANGED <<cur, qry, todo>>
           /\ pc' = IF Limited(store'[qry]) THEN "internal" ELSE "run"
           /\ \E kind \in {"query", "leaf"} : Does(cur, kind)
           /\ \A n \in Nodes \ {cur, qry} : store'[n] = store[n]
           /\ \A n \in Nodes : /\ store'[n].child = store[n].child
                               /\ store'[n].all_seen = store[n].all_seen
           /\ store[qry].query_children \in Nat
           /\ store'[qry].query_counted = store[qry].query_counted
           /\ store'[qry].query_children =
                IF store[cur].query_counted THEN store[qry].query_children
                                            ELSE store[qry].query_children + 1
           /\ store'[cur].query_counted = TRUE
           /\ store'[cur].query_children =
                IF IsQuery(store[cur]) THEN store[cur].query_children ELSE 0
           /\ ~store[cur].query_counted =>
                /\ store[qry].query_children < QueryBranchLimit
                /\ ~IsQuery(store[cur]) /\ cur # Root /\ ~HasKid(store[cur])
                /\ \A q \in Nodes : Limited(store[q]) => cur \notin Internal(store, q)
           /\ \A n \in Nodes : /\ IsQuery(store[n]) => IsQuery(store'[n])
                               /\ Created(store', n) <=> Created(store, n)
           /\ IsQuery(store'[cur]) /\ IsQuery(store'[qry])
<1>0. pc = "run" /\ inq /\ cur # qry
  BY DEF CountQuery
<1>1. /\ store \in [Nodes -> NodeRec] /\ cur \in Nodes /\ qry \in Nodes
      /\ prog \in [Nodes -> {"unknown", "inner", "query", "leaf"}]
      /\ curRec = store[cur] /\ curRec \in NodeRec /\ qryRec = store[qry]
      /\ qryRec \in NodeRec /\ todo = << >> /\ weird = 0
      /\ Created(store, cur) /\ ~store[cur].all_seen
      /\ \A n : ~Pending(n) /\ ~GivenUp(n)
      /\ Below(qry, cur) /\ IsQuery(store[qry])
  BY <1>0, AtRun
<1> DEFINE k     == qryRec.query_children
           fails == FailedIf(~curRec.query_counted /\ k >= QueryBranchLimit)
           newq  == IF curRec.query_counted
                    THEN qryRec ELSE [qryRec EXCEPT !.query_children = k + 1]
           newc  == [curRec EXCEPT !.query_counted = TRUE,
                                   !.query_children = IF @ = None THEN 0 ELSE @]
<1>2. PICK kind \in {"query", "leaf"} : Does(cur, kind)
  BY DEF CountQuery
<1>3. k \in Nat /\ k # None /\ k < CountModulus - 2
  BY <1>1, CountIsNat DEF WriteInv, Countable, None
<1>4. ~curRec.query_counted =>
        /\ k < QueryBranchLimit /\ ~IsQuery(curRec) /\ cur # Root /\ ~HasKid(curRec)
        /\ \A q \in Nodes : Limited(store[q]) => cur \notin Internal(store, q)
  BY <1>0, <1>1, <1>2, <1>3, CountsBelowLimit, LimitsAssumption DEF Limited
<1>5. fails = 0 /\ ~(TooWeird(fails) \/ k = None)
  BY <1>1, <1>3, <1>4, LimitsAssumption DEF FailedIf, TooWeird
<1>6. /\ store' = [store EXCEPT
                    ![qry] = IF curRec.query_counted THEN @ ELSE Stored(newq),
                    ![cur] = Stored(newc)]
      /\ qryRec' = newq /\ curRec' = newc /\ weird' = weird + fails
      /\ pc' = IF Limited(newq) THEN "internal" ELSE "run"
      /\ inq' = FALSE
      /\ UNCHANGED <<cur, qry, todo>>
  BY <1>5 DEF CountQuery
<1>7. /\ newq \in NodeRec /\ newq.child = qryRec.child
      /\ newq.all_seen = qryRec.all_seen /\ newq.query_counted = qryRec.query_counted
      /\ newq.query_children = IF curRec.query_counted THEN k ELSE k + 1
  <2>1. CASE curRec.query_counted
    BY <1>1, <2>1
  <2>2. CASE ~curRec.query_counted
    <3>1. newq = [qryRec EXCEPT !.query_children = k + 1] /\ k + 1 \in Int
      BY <1>3, <2>2
    <3> HIDE DEF k, newq
    <3> QED  BY <1>1, <2>2, <3>1 DEF NodeRec
  <2> QED  BY <2>1, <2>2
<1>8. /\ newc \in NodeRec /\ newc.child = curRec.child
      /\ newc.all_seen = curRec.all_seen /\ newc.query_counted = TRUE
      /\ newc.query_children = IF IsQuery(curRec) THEN curRec.query_children ELSE 0
  <2> DEFINE c == IF curRec.query_children = None THEN 0 ELSE curRec.query_children
  <2>1. c \in Int
    BY <1>1 DEF NodeRec
  <2>2. newc = [curRec EXCEPT !.query_counted = TRUE, !.query_children = c]
    BY <1>1 DEF NodeRec
  <2>3. c = IF IsQuery(curRec) THEN curRec.query_children ELSE 0
    BY DEF IsQuery
  <2> HIDE DEF c, newc
  <2>4. newc \in NodeRec
    BY <1>1, <2>1, <2>2 DEF NodeRec
  <2>5. /\ newc.child = curRec.child /\ newc.all_seen = curRec.all_seen
        /\ newc.query_counted = TRUE /\ newc.query_children = c
    BY <1>1, <2>2 DEF NodeRec
  <2> QED  BY <2>3, <2>4, <2>5
<1>9. Stored(newq) = newq
  <2>1. StoredCount(newq.query_children) = newq.query_children
    <3>1. StoredCount(k) = k
      BY <1>1 DEF WriteInv, CountsRead
    <3>2. StoredCount(k + 1) = k + 1
      BY <1>3, SmallCountStored, LimitsAssumption
    <3> QED  BY <1>7, <3>1, <3>2
  <2> HIDE DEF newq
  <2> QED  BY <1>7, <2>1, StoredSame
<1>10. Stored(newc) = newc
  <2>1. StoredCount(newc.query_children) = newc.query_children
    <3>1. StoredCount(curRec.query_children) = curRec.query_children
      BY <1>1 DEF WriteInv, CountsRead
    <3>2. StoredCount(0) = 0
      BY SmallCountStored, LimitsAssumption
    <3> QED  BY <1>8, <3>1, <3>2
  <2> HIDE DEF newc
  <2> QED  BY <1>8, <2>1, StoredSame
<1> HIDE DEF newq, newc, k, fails
<1>11. /\ store'[cur] = newc /\ store'[qry] = newq
       /\ \A n \in Nodes \ {cur, qry} : store'[n] = store[n]
  <2>1. curRec.query_counted => newq = qryRec
    BY DEF newq
  <2> QED  BY <1>0, <1>1, <1>6, <1>9, <1>10, <2>1
<1>12. \A n \in Nodes : /\ store'[n].child = store[n].child
                        /\ store'[n].all_seen = store[n].all_seen
  BY <1>1, <1>7, <1>8, <1>11
<1>13. \A n \in Nodes : IsQuery(store[n]) => IsQuery(store'[n])
  <2>1. IsQuery(newq)
    BY <1>3, <1>7 DEF IsQuery, None
  <2>2. IsQuery(newc)
    BY <1>8 DEF IsQuery, None
  <2> QED  BY <1>11, <2>1, <2>2
<1>14. \A n \in Nodes : Created(store', n) <=> Created(store, n)
  <2> TAKE n \in Nodes
  <2>1. n # Root => Parent(n) \in Nodes /\ n[Len(n)] \in BOOLEAN
    BY ParentHistory
  <2> QED  BY <1>12, <2>1 DEF Created
<1>15. IsQuery(store'[cur]) /\ IsQuery(store'[qry])
  <2>1. IsQuery(newc)
    BY <1>8 DEF IsQuery, None
  <2> QED  BY <1>1, <1>11, <1>13, <2>1
<1>16. weird' = 0 /\ pc' = (IF Limited(store'[qry]) THEN "internal" ELSE "run")
  BY <1>1, <1>5, <1>6, <1>11
<1>17. /\ store'[qry].query_counted = store[qry].query_counted
       /\ store'[qry].query_children =
            IF store[cur].query_counted THEN store[qry].query_children
                                        ELSE store[qry].query_children + 1
       /\ store'[cur].query_counted = TRUE
       /\ store'[cur].query_children =
            IF IsQuery(store[cur]) THEN store[cur].query_children ELSE 0
  BY <1>1, <1>7, <1>8, <1>11 DEF k
<1>18. store[qry].query_children \in Nat
  BY <1>1, <1>3 DEF k
<1>19. ~store[cur].query_counted =>
         /\ store[qry].query_children < QueryBranchLimit
         /\ ~IsQuery(store[cur]) /\ cur # Root /\ ~HasKid(store[cur])
         /\ \A q \in Nodes : Limited(store[q]) => cur \notin Internal(store, q)
  BY <1>1, <1>4 DEF k
<1> QED
  BY <1>0, <1>2, <1>6, <1>11, <1>12, <1>13, <1>14, <1>15, <1>16, <1>17, <1>18, <1>19

\* The path goes on, or fills up the choice it has left.
LEMMA CountExplores ==
    ASSUME TypeInv, WriteInv, Countable, ExploreInv, CountQuery
    PROVE  ExploreInv'
<1>1. /\ store \in [Nodes -> NodeRec] /\ cur \in Nodes /\ qry \in Nodes
      /\ prog \in [Nodes -> {"unknown", "inner", "query", "leaf"}]
      /\ todo = << >> /\ weird = 0
      /\ Created(store, cur) /\ ~store[cur].all_seen
      /\ \A n : ~Pending(n) /\ ~GivenUp(n)
      /\ inq => Below(qry, cur) /\ IsQuery(store[qry])
  BY AtRun DEF CountQuery
<1>2. /\ pc = "run" /\ inq /\ cur # qry
      /\ weird' = 0 /\ inq' = FALSE /\ UNCHANGED <<cur, qry, todo>>
      /\ pc' = IF Limited(store'[qry]) THEN "internal" ELSE "run"
      /\ \A n \in Nodes \ {cur, qry} : store'[n] = store[n]
      /\ \A n \in Nodes : /\ store'[n].child = store[n].child
                          /\ store'[n].all_seen = store[n].all_seen
      /\ \A n \in Nodes : /\ IsQuery(store[n]) => IsQuery(store'[n])
                          /\ Created(store', n) <=> Created(store, n)
      /\ IsQuery(store'[cur]) /\ IsQuery(store'[qry])
  BY CountTable
<1>3. /\ store[qry].query_children \in Nat
      /\ store'[qry].query_counted = store[qry].query_counted
      /\ store'[qry].query_children =
           IF store[cur].query_counted THEN store[qry].query_children
                                       ELSE store[qry].query_children + 1
      /\ store'[cur].query_counted = TRUE
      /\ store'[cur].query_children =
           IF IsQuery(store[cur]) THEN store[cur].query_children ELSE 0
      /\ ~store[cur].query_counted => store[qry].query_children < QueryBranchLimit
  BY CountTable
<1>4. FreshBelow(store) /\ KidsSeen(store) /\ KidsExist(store) /\ Created(store, qry)
  BY <1>1, <1>2, KnownIsCreated DEF ExploreInv, TreeShape
<1>5. \A n \in Nodes, b \in BOOLEAN : store[n].child[b] = "sat" => Kid(n, b) \in Nodes
  BY <1>4, KidIsNode DEF KidsExist, HasKid
<1>6. TreeShape(store')
  <2>1. FreshBelow(store')
    BY <1>1, <1>2, <1>4 DEF FreshBelow
  <2>2. KidsSeen(store')
    BY <1>2, <1>4, <1>5 DEF KidsSeen
  <2>3. KidsExist(store')
    BY <1>2, <1>4 DEF KidsExist, HasKid
  <2> QED  BY <2>1, <2>2, <2>3 DEF TreeShape
<1>7. NothingFails' /\ CurLive' /\ FinishClean'
  <2>1. pc' \in {"internal", "run"} /\ todo' = << >> /\ weird' = 0 /\ cur' = cur
    BY <1>1, <1>2
  <2>2. Created(store', cur) /\ ~store'[cur].all_seen
    BY <1>1, <1>2
  <2> QED  BY <2>1, <2>2 DEF NothingFails, CurLive, FinishClean
<1>8. ChoiceOpen'
  <2>1. \A a \in Nodes :
          Below(qry, a) /\ Below(a, cur) /\ IsQuery(store'[a]) => a \in {qry, cur}
    BY <1>2 DEF ExploreInv, ChoiceOpen
  <2> QED  BY <1>1, <1>2, <2>1 DEF ChoiceOpen
<1>9. Decided' /\ LoopReady'
  BY <1>1, <1>2 DEF ExploreInv, Decided, BothOrNone, LoopReady, Pending
<1>10. ClosedSeen'
  <2>1. \A n \in Nodes : Closed(store', n) => Closed(store, n)
    BY <1>2, <1>5 DEF Closed, Seen
  <2> QED  BY <1>1, <1>2, <2>1 DEF ExploreInv, ClosedSeen
<1>11. CountsLimited'
  <2>1. \A q \in Nodes : store[q].query_children =< QueryBranchLimit
    BY DEF ExploreInv, CountsLimited
  <2>2. store'[qry].query_children =< QueryBranchLimit
    BY <1>1, <1>3, <2>1, LimitsAssumption
  <2>3. store'[cur].query_children =< QueryBranchLimit
    BY <1>1, <1>3, <2>1, LimitsAssumption
  <2> QED  BY <1>2, <2>1, <2>2, <2>3 DEF CountsLimited
<1>12. LimitedFilled'
  <2> SUFFICES ASSUME NEW q \in Nodes, NEW m \in Nodes, NEW b \in BOOLEAN,
                      Limited(store'[q]), m \in Internal(store', q),
                      ~(pc' = "internal" /\ q = qry)
               PROVE  store'[m].child[b] # "unknown"
    BY <1>2 DEF LimitedFilled
  <2>1. q # qry
    BY <1>2
  <2>2. Limited(store[q])
    <3>1. CASE q = cur
      <4>1. IsQuery(store[cur])
        BY <1>3, <3>1, LimitsAssumption DEF Limited
      <4> QED  BY <1>3, <3>1, <4>1 DEF Limited
    <3>2. CASE q # cur
      BY <1>2, <2>1, <3>2
    <3> QED  BY <3>1, <3>2
  <2>3. m \in Internal(store, q)
    BY <1>2 DEF Internal, Between
  <2> QED  BY <1>2, <2>2, <2>3 DEF ExploreInv, LimitedFilled
<1>13. ProgMatch'
  <2>1. PICK kind \in {"query", "leaf"} : Does(cur, kind)
    BY CountTable
  <2>2. prog' = [prog EXCEPT ![cur] = kind] /\ prog[cur] \in {"unknown", kind}
    BY <2>1 DEF Does
  <2>3. \A n \in Nodes : NodeMatches(store, prog, n)
    BY DEF ExploreInv, ProgMatch
  <2>4. \A n \in Nodes : HasKid(store'[n]) <=> HasKid(store[n])
    BY <1>2 DEF HasKid
  <2>5. NodeMatches(store', prog', cur)
    <3>1. HasKid(store[cur]) => kind = "query"
      BY <1>1, <2>2, <2>3 DEF NodeMatches
    <3> QED  BY <1>1, <1>2, <1>3, <2>2, <2>4, <3>1 DEF NodeMatches
  <2>6. NodeMatches(store', prog', qry)
    <3>1. store'[qry].query_counted = store[qry].query_counted /\ prog'[qry] = prog[qry]
      BY <1>1, <1>2, <1>3, <2>2
    <3> QED  BY <1>1, <1>2, <2>3, <2>4, <3>1 DEF NodeMatches
  <2>7. ASSUME NEW n \in Nodes \ {cur, qry} PROVE NodeMatches(store', prog', n)
    <3>1. store'[n] = store[n] /\ prog'[n] = prog[n]
      BY <1>1, <1>2, <2>2
    <3> QED  BY <2>3, <3>1 DEF NodeMatches
  <2>8. prog'[Root] # "inner" /\ IsQuery(store'[Root])
    BY <1>1, <1>2, <2>2, RootIsNode DEF ExploreInv, ProgMatch
  <2> QED  BY <1>2, <2>5, <2>6, <2>7, <2>8 DEF ProgMatch
<1> QED
  BY <1>6, <1>7, <1>8, <1>9, <1>10, <1>11, <1>12, <1>13 DEF ExploreInv

-----------------------------------------------------------------------------
(* finish_internal_nodes.                                                  *)

\* The nodes of a choice with nothing open are marked together: their kids
\* are marked with them, and what has something open keeps a live kid.
LEMMA FillTable ==
    ASSUME NEW S, NEW T, TreeShape(S), NEW q \in Nodes,
           \A n \in Nodes :
             /\ T[n].all_seen <=>
                  S[n].all_seen \/ (n \in Internal(S, q) \ {q} /\ ~Open(S, q, n))
             /\ \A b \in BOOLEAN : T[n].child[b] = "sat" <=> S[n].child[b] = "sat"
    PROVE  /\ KidsSeen(T)
           /\ \A n \in Internal(S, q) : Open(S, q, n) => ~Closed(T, n)
<1>0. FreshBelow(S) /\ KidsSeen(S) /\ KidsExist(S)
  BY DEF TreeShape
<1>1. ASSUME NEW n \in Nodes
      PROVE  n \in Internal(S, q) =>
               /\ Below(q, n) /\ Created(S, n)
               /\ n = q \/ ~IsQuery(S[n])
  BY DEF Internal
<1>2. ASSUME NEW n \in Nodes, NEW b \in BOOLEAN, S[n].child[b] = "sat"
      PROVE  /\ Len(n) =< PathDepthLimit /\ Kid(n, b) \in Nodes
             /\ Below(n, Kid(n, b)) /\ Created(S, Kid(n, b)) /\ Kid(n, b) # n
             /\ n \in Internal(S, q) => Kid(n, b) # q
  <2>1. Len(n) =< PathDepthLimit
    BY <1>0, <1>2 DEF KidsExist, HasKid
  <2>2. /\ Kid(n, b) \in Nodes /\ Below(n, Kid(n, b)) /\ Created(S, Kid(n, b))
        /\ Kid(n, b) # n /\ ~Below(Kid(n, b), n)
    BY <1>2, <2>1, KidHistory, KidCreated
  <2> QED  BY <1>1, <2>1, <2>2
<1>3. ASSUME NEW n \in Nodes, NEW b \in BOOLEAN, S[n].child[b] = "sat",
             n \in Internal(S, q), ~S[n].all_seen, Open(S, q, Kid(n, b))
      PROVE  Open(S, q, n)
  <2>1. PICK m \in Nodes :
          /\ Below(Kid(n, b), m) /\ Created(S, m) /\ m # q
          /\ IsQuery(S[m]) /\ ~S[m].all_seen
          /\ \A a \in Between(Kid(n, b), m) : ~S[a].all_seen /\ (a = q \/ ~IsQuery(S[a]))
    BY <1>3 DEF Open
  <2>2. Between(n, m) = {n} \cup Between(Kid(n, b), m)
    BY <1>2, <1>3, <2>1, BetweenFirst
  <2>3. Below(n, m)
    BY <1>2, <1>3, <2>1, BelowOrder
  <2> QED  BY <1>1, <1>3, <2>1, <2>2, <2>3 DEF Open
<1>4. ASSUME NEW n \in Nodes, NEW b \in BOOLEAN, S[n].child[b] = "sat",
             n \in Internal(S, q), ~S[n].all_seen,
             IsQuery(S[Kid(n, b)]), ~S[Kid(n, b)].all_seen
      PROVE  Open(S, q, n)
  <2> DEFINE k == Kid(n, b)
  <2>1. /\ k \in Nodes /\ Below(n, k) /\ Created(S, k) /\ k # q
        /\ Len(n) =< PathDepthLimit
    BY <1>2, <1>4
  <2>2. Between(n, k) = {n}
    <3>1. Between(n, n) = {}
      BY BelowOrder DEF Between
    <3> QED  BY <2>1, <3>1, BetweenKid, BelowOrder
  <2> QED  BY <1>1, <1>4, <2>1, <2>2 DEF Open
<1>5. KidsSeen(T)
  <2> SUFFICES ASSUME NEW n \in Nodes, NEW b \in BOOLEAN,
                      T[n].all_seen, T[n].child[b] = "sat"
               PROVE  T[Kid(n, b)].all_seen
    BY DEF KidsSeen
  <2>1. S[n].child[b] = "sat" /\ Kid(n, b) \in Nodes
    BY <1>2
  <2>2. CASE S[n].all_seen
    BY <1>0, <2>1, <2>2 DEF KidsSeen
  <2>3. CASE ~S[n].all_seen
    <3>1. n \in Internal(S, q) /\ n # q /\ ~Open(S, q, n)
      BY <2>3
    <3>2. IsQuery(S[Kid(n, b)]) => S[Kid(n, b)].all_seen
      BY <1>4, <2>1, <2>3, <3>1
    <3>3. ~Open(S, q, Kid(n, b))
      BY <1>3, <2>1, <2>3, <3>1
    <3>4. ~IsQuery(S[Kid(n, b)]) => Kid(n, b) \in Internal(S, q) /\ Kid(n, b) # q
      BY <1>2, <2>1, <3>1, InternalKid
    <3> QED  BY <2>1, <3>2, <3>3, <3>4
  <2> QED  BY <2>2, <2>3
<1>6. ASSUME NEW n \in Internal(S, q), Open(S, q, n) PROVE ~Closed(T, n)
  <2>1. n \in Nodes
    BY DEF Internal
  <2>2. PICK m \in Nodes :
          /\ Below(n, m) /\ Created(S, m) /\ m # q
          /\ IsQuery(S[m]) /\ ~S[m].all_seen
          /\ \A a \in Between(n, m) : ~S[a].all_seen /\ (a = q \/ ~IsQuery(S[a]))
    BY <1>6 DEF Open
  <2>3. n # m
    BY <1>1, <2>1, <2>2
  <2>4. PICK b \in BOOLEAN : /\ Below(Kid(n, b), m) /\ S[n].child[b] = "sat"
                             /\ Kid(n, b) \in Nodes /\ Len(n) =< PathDepthLimit
    BY <1>0, <2>1, <2>2, <2>3, WayDown
  <2> DEFINE k == Kid(n, b)
  <2>5. ~S[k].all_seen
    BY <1>0, <2>2, <2>4, SeenSubtree
  <2>6. CASE k = m
    <3>1. m \notin Internal(S, q)
      BY <1>1, <2>2
    <3>2. ~T[m].all_seen
      BY <2>2, <3>1
    <3> QED  BY <2>1, <2>4, <2>6, <3>2 DEF Closed, Seen
  <2>7. CASE k # m
    <3>1. Between(n, m) = {n} \cup Between(k, m)
      BY <2>1, <2>4, BetweenFirst
    <3>2. Open(S, q, k)
      BY <2>2, <2>4, <3>1 DEF Open
    <3>3. ~T[k].all_seen
      BY <2>4, <2>5, <3>2
    <3> QED  BY <2>1, <2>4, <3>3 DEF Closed, Seen
  <2> QED  BY <2>6, <2>7
<1> QED  BY <1>5, <1>6

\* The path itself is what is left open, so the query node is not marked.
LEMMA FillStep ==
    ASSUME TypeInv, WriteInv, ExploreInv, FinishInternalNodes
    PROVE  /\ pc = "internal" /\ pc' = "count" /\ todo' = << >>
           /\ UNCHANGED <<cur, qry, inq, weird, prog>>
           /\ \A n \in Nodes :
                /\ store'[n].all_seen <=>
                     \/ store[n].all_seen
                     \/ n \in Internal(store, qry) \ {qry} /\ ~Open(store, qry, n)
                /\ store'[n].query_children = store[n].query_children
                /\ store'[n].query_counted = store[n].query_counted
                /\ \A b \in BOOLEAN :
                     store'[n].child[b] =
                       IF n \in Internal(store, qry) /\ store[n].child[b] = "unknown"
                       THEN "unsat" ELSE store[n].child[b]
                /\ n \notin Internal(store, qry) => store'[n] = store[n]
           /\ KidsSeen(store')
           /\ \A n \in Internal(store, qry) : Open(store, qry, n) => ~Closed(store', n)
           /\ qry \in Internal(store, qry) /\ Open(store, qry, qry)
           /\ cur \notin Internal(store, qry) /\ IsQuery(store[cur])
           /\ Created(store, cur) /\ ~store[cur].all_seen
           /\ \A n : ~Pending(n) /\ ~GivenUp(n)
<1> DEFINE I == Internal(store, qry)
           F == [n \in Nodes |-> IF n \in I THEN FillUnknown(store[n]) ELSE store[n]]
           S == [n \in Nodes |-> IF n \in I \ {qry} /\ ~Open(F, qry, n)
                                 THEN [F[n] EXCEPT !.all_seen = TRUE] ELSE F[n]]
<1>0. /\ store \in [Nodes -> NodeRec] /\ cur \in Nodes /\ qry \in Nodes
  BY DEF TypeInv, TreeTypeOK
<1>1. /\ pc = "internal" /\ pc' = "count" /\ store' = S
      /\ todo' = IF Closed(S, qry) THEN <<LoopOp(qry)>> ELSE << >>
      /\ UNCHANGED <<cur, qry, inq, weird, prog>>
  BY DEF FinishInternalNodes, LoopOp, envVars
<1>2. /\ Below(qry, cur) /\ IsQuery(store[qry]) /\ IsQuery(store[cur]) /\ cur # qry
      /\ Created(store, cur) /\ ~store[cur].all_seen
      /\ \A a \in Nodes :
           Below(qry, a) /\ Below(a, cur) /\ IsQuery(store[a]) => a \in {qry, cur}
      /\ \A n : ~Pending(n) /\ ~GivenUp(n)
  BY <1>1 DEF ExploreInv, ChoiceOpen, CurLive, ProgMatch, WriteInv, QueryClosing,
              Pending, GivenUp
<1>3. FreshBelow(store) /\ KidsSeen(store) /\ KidsExist(store) /\ TreeShape(store)
  BY DEF ExploreInv, TreeShape
<1>4. ASSUME NEW n \in Nodes, NEW r \in NodeRec, NEW p \in BOOLEAN,
             r = IF p THEN FillUnknown(store[n]) ELSE store[n]
      PROVE  /\ r.all_seen = store[n].all_seen
             /\ r.query_children = store[n].query_children
             /\ r.query_counted = store[n].query_counted
             /\ \A b \in BOOLEAN :
                  r.child[b] = IF p /\ store[n].child[b] = "unknown"
                               THEN "unsat" ELSE store[n].child[b]
  <2>1. store[n] \in NodeRec
    BY <1>0
  <2> QED  BY <1>4, <2>1 DEF FillUnknown, NodeRec
<1>5. ASSUME NEW n \in Nodes
      PROVE  /\ F[n] \in NodeRec /\ F[n].all_seen = store[n].all_seen
             /\ F[n].query_children = store[n].query_children
             /\ F[n].query_counted = store[n].query_counted
             /\ \A b \in BOOLEAN :
                  F[n].child[b] = IF n \in I /\ store[n].child[b] = "unknown"
                                  THEN "unsat" ELSE store[n].child[b]
  <2>1. store[n] \in NodeRec /\ FillUnknown(store[n]) \in NodeRec
    BY <1>0, FillUnknownType
  <2>2. F[n] = IF n \in I THEN FillUnknown(store[n]) ELSE store[n]
    OBVIOUS
  <2> HIDE DEF F, I
  <2>3. (n \in I) \in BOOLEAN /\ F[n] \in NodeRec
    BY <2>1, <2>2
  <2> QED  BY <1>4, <2>2, <2>3
<1>6. \A n \in Nodes : Created(F, n) <=> Created(store, n)
  <2> TAKE n \in Nodes
  <2>1. n # Root => Parent(n) \in Nodes /\ n[Len(n)] \in BOOLEAN
    BY ParentHistory
  <2> HIDE DEF F
  <2> QED  BY <1>5, <2>1 DEF Created
<1>7. \A n \in Nodes : Open(F, qry, n) <=> Open(store, qry, n)
  <2> HIDE DEF F, I
  <2>1. \A n \in Nodes : IsQuery(F[n]) <=> IsQuery(store[n])
    BY <1>5 DEF IsQuery
  <2>2. \A n \in Nodes : F[n].all_seen = store[n].all_seen
    BY <1>5
  <2> QED  BY <1>6, <2>1, <2>2 DEF Open, Between
<1>8. ASSUME NEW n \in Nodes
      PROVE  /\ S[n].all_seen <=>
                  store[n].all_seen \/ (n \in I \ {qry} /\ ~Open(store, qry, n))
             /\ S[n].query_children = store[n].query_children
             /\ S[n].query_counted = store[n].query_counted
             /\ \A b \in BOOLEAN :
                  S[n].child[b] = IF n \in I /\ store[n].child[b] = "unknown"
                                  THEN "unsat" ELSE store[n].child[b]
             /\ n \notin I => S[n] = store[n]
  <2>1. S[n] = IF n \in I \ {qry} /\ ~Open(store, qry, n)
               THEN [F[n] EXCEPT !.all_seen = TRUE] ELSE F[n]
    BY <1>7
  <2>2. n \notin I => S[n] = store[n]
    OBVIOUS
  <2> HIDE DEF S, F, I
  <2>3. [F[n] EXCEPT !.all_seen = TRUE].all_seen = TRUE
    BY <1>5 DEF NodeRec
  <2>4. /\ [F[n] EXCEPT !.all_seen = TRUE].query_children = F[n].query_children
        /\ [F[n] EXCEPT !.all_seen = TRUE].query_counted = F[n].query_counted
        /\ [F[n] EXCEPT !.all_seen = TRUE].child = F[n].child
    BY <1>5 DEF NodeRec
  <2> QED  BY <1>5, <2>1, <2>2, <2>3, <2>4
<1>9. \A n \in Nodes, b \in BOOLEAN : S[n].child[b] = "sat" <=> store[n].child[b] = "sat"
  <2> HIDE DEF S, F
  <2> QED  BY <1>8
<1> HIDE DEF S, F
<1>10. KidsSeen(S) /\ \A n \in I : Open(store, qry, n) => ~Closed(S, n)
  BY <1>0, <1>3, <1>8, <1>9, FillTable
<1>11. qry \in I /\ Open(store, qry, qry)
  <2>1. qry \in I
    <3>1. Created(store, qry) /\ Between(qry, qry) = {} /\ Below(qry, qry)
      BY <1>0, <1>2, <1>3, KnownIsCreated, BelowOrder DEF Between
    <3> QED  BY <1>0, <3>1 DEF Internal
  <2>2. \A a \in Between(qry, cur) : ~store[a].all_seen /\ (a = qry \/ ~IsQuery(store[a]))
    BY <1>0, <1>2, <1>3, SeenSubtree DEF Between
  <2> QED  BY <1>0, <1>2, <2>1, <2>2 DEF Open
<1>12. cur \notin I
  BY <1>2 DEF Internal
<1>13. todo' = << >>
  BY <1>1, <1>10, <1>11
<1> QED  BY <1>1, <1>2, <1>8, <1>10, <1>11, <1>12, <1>13

LEMMA FillExplores ==
    ASSUME TypeInv, WriteInv, ExploreInv, FinishInternalNodes
    PROVE  ExploreInv'
<1> DEFINE I == Internal(store, qry)
<1>0. store \in [Nodes -> NodeRec] /\ cur \in Nodes /\ qry \in Nodes
  BY DEF TypeInv, TreeTypeOK
<1>1. /\ pc = "internal" /\ pc' = "count" /\ todo' = << >>
      /\ UNCHANGED <<cur, qry, inq, weird, prog>>
      /\ KidsSeen(store')
      /\ \A n \in I : Open(store, qry, n) => ~Closed(store', n)
      /\ qry \in I /\ Open(store, qry, qry)
      /\ cur \notin I /\ IsQuery(store[cur])
      /\ Created(store, cur) /\ ~store[cur].all_seen
      /\ \A n : ~Pending(n) /\ ~GivenUp(n)
  BY FillStep
<1>2. \A n \in Nodes :
        /\ store'[n].all_seen <=>
             store[n].all_seen \/ (n \in I \ {qry} /\ ~Open(store, qry, n))
        /\ store'[n].query_children = store[n].query_children
        /\ store'[n].query_counted = store[n].query_counted
        /\ \A b \in BOOLEAN :
             store'[n].child[b] = IF n \in I /\ store[n].child[b] = "unknown"
                                  THEN "unsat" ELSE store[n].child[b]
        /\ n \notin I => store'[n] = store[n]
  BY FillStep
<1>3. FreshBelow(store) /\ KidsSeen(store) /\ KidsExist(store)
  BY DEF ExploreInv, TreeShape
<1>4. \A n \in Nodes : n \in I => Below(qry, n) /\ Created(store, n)
  BY DEF Internal
<1>5. ASSUME NEW n \in Nodes, NEW b \in BOOLEAN, store[n].child[b] = "sat",
             Kid(n, b) \in I, Kid(n, b) # qry
      PROVE  n \in I
  <2>1. Kid(n, b) \in Nodes /\ Len(n) =< PathDepthLimit
    BY <1>3, <1>5, KidIsNode DEF KidsExist, HasKid
  <2>2. /\ Below(qry, Kid(n, b))
        /\ \A a \in Between(qry, Kid(n, b)) : a = qry \/ ~IsQuery(store[a])
    BY <1>5 DEF Internal
  <2>3. Below(qry, n)
    BY <1>0, <1>5, <2>1, <2>2, AboveKid
  <2>4. Between(qry, Kid(n, b)) = Between(qry, n) \cup {n}
    BY <1>0, <2>1, <2>3, BetweenKid
  <2>5. Created(store, n)
    BY <1>3, <1>5, KnownIsCreated DEF HasKid
  <2> QED  BY <2>2, <2>3, <2>4, <2>5 DEF Internal
<1> HIDE DEF I
<1>6. \A n \in Nodes, b \in BOOLEAN :
        store'[n].child[b] = "sat" <=> store[n].child[b] = "sat"
  BY <1>2
<1>7. \A n \in Nodes : Created(store', n) <=> Created(store, n)
  <2> TAKE n \in Nodes
  <2>1. n # Root => Parent(n) \in Nodes /\ n[Len(n)] \in BOOLEAN
    BY ParentHistory
  <2> QED  BY <1>6, <2>1 DEF Created
<1>8. \A n \in Nodes : IsQuery(store'[n]) <=> IsQuery(store[n])
  BY <1>2 DEF IsQuery
<1>9. \A q \in Nodes : Internal(store', q) = Internal(store, q)
  BY <1>7, <1>8 DEF Internal, Between
<1>10. TreeShape(store')
  <2>1. FreshBelow(store')
    BY <1>2, <1>3, <1>4, <1>7 DEF FreshBelow
  <2>2. KidsExist(store')
    BY <1>3, <1>6 DEF KidsExist, HasKid
  <2> QED  BY <1>1, <2>1, <2>2 DEF TreeShape
<1>11. NothingFails' /\ CurLive' /\ ChoiceOpen' /\ FinishClean' /\ LoopReady'
  <2>1. weird = 0
    BY DEF ExploreInv, NothingFails
  <2>2. Created(store', cur) /\ ~store'[cur].all_seen
    BY <1>0, <1>1, <1>2, <1>7
  <2> QED
    BY <1>1, <2>1, <2>2
       DEF NothingFails, CurLive, ChoiceOpen, FinishClean, LoopReady, Pending
<1>12. Decided'
  <2>1. \A n \in Nodes : store[n].all_seen \/ BothOrNone(store[n])
    BY <1>1 DEF ExploreInv, Decided
  <2>2. \A n \in Nodes : BothOrNone(store[n]) => BothOrNone(store'[n])
    BY <1>2 DEF BothOrNone
  <2> QED  BY <1>2, <2>1, <2>2 DEF Decided
<1>13. LimitedFilled'
  <2> SUFFICES ASSUME NEW q \in Nodes, NEW m \in Nodes, NEW b \in BOOLEAN,
                      Limited(store'[q]), m \in Internal(store', q)
               PROVE  store'[m].child[b] # "unknown"
    BY DEF LimitedFilled
  <2>1. Limited(store[q]) /\ m \in Internal(store, q)
    BY <1>2, <1>8, <1>9 DEF Limited
  <2>2. CASE q = qry
    BY <1>2, <2>1, <2>2 DEF I
  <2>3. CASE q # qry
    <3>1. store[m].child[b] # "unknown"
      BY <2>1, <2>3 DEF ExploreInv, LimitedFilled
    <3> QED  BY <1>2, <3>1
  <2> QED  BY <2>2, <2>3
<1>14. CountsLimited'
  BY <1>2 DEF ExploreInv, CountsLimited
<1>15. ClosedSeen'
  <2> SUFFICES ASSUME NEW n \in Nodes, Closed(store', n), ~store'[n].all_seen
               PROVE  FALSE
    BY DEF ClosedSeen
  <2>1. ~store[n].all_seen
    BY <1>2
  <2>2. CASE n \in I
    BY <1>1, <1>2, <2>1, <2>2
  <2>3. CASE n \notin I
    <3>1. store'[n] = store[n]
      BY <1>2, <2>3
    <3>2. ASSUME NEW b \in BOOLEAN, store[n].child[b] = "sat"
          PROVE  store'[Kid(n, b)].all_seen <=> store[Kid(n, b)].all_seen
      <4>1. Kid(n, b) \in Nodes
        BY <1>3, <3>2, KidIsNode DEF KidsExist, HasKid
      <4>2. Kid(n, b) \notin I \ {qry}
        BY <1>5, <2>3, <3>2
      <4> QED  BY <1>2, <4>1, <4>2
    <3>3. Closed(store, n)
      BY <3>1, <3>2 DEF Closed, Seen
    <3> QED  BY <1>1, <2>1, <3>3 DEF ExploreInv, ClosedSeen
  <2> QED  BY <2>2, <2>3
<1>16. ProgMatch'
  <2>1. /\ \A n \in Nodes : NodeMatches(store, prog, n)
        /\ prog[Root] # "inner" /\ IsQuery(store[Root])
    BY DEF ExploreInv, ProgMatch
  <2>2. \A n \in Nodes : HasKid(store'[n]) <=> HasKid(store[n])
    BY <1>6 DEF HasKid
  <2>3. \A n \in Nodes : NodeMatches(store', prog, n)
    BY <1>2, <1>8, <2>1, <2>2 DEF NodeMatches
  <2> QED  BY <1>0, <1>1, <1>8, <2>1, <2>3, RootIsNode DEF ProgMatch
<1> QED
  BY <1>10, <1>11, <1>12, <1>13, <1>14, <1>15, <1>16 DEF ExploreInv

\* count_query returns to the program.
LEMMA CountReturnsExplores ==
    ASSUME TypeInv, WriteInv, ExploreInv, CountQueryReturns
    PROVE  ExploreInv'
<1>1. /\ pc = "count" /\ pc' = "run" /\ UNCHANGED <<store, cur, qry, inq, todo, weird, prog>>
  BY DEF CountQueryReturns, treeVars, envVars
<1>2. ~inq
  BY <1>1 DEF WriteInv, QueryClosing
<1>3. \A n : ~Pending(n) /\ ~GivenUp(n)
  BY <1>1 DEF Pending, GivenUp
<1>4. /\ TreeShape(store') /\ CountsLimited' /\ Decided' /\ LimitedFilled'
      /\ ClosedSeen' /\ LoopReady'
  BY <1>1, <1>3, TreeKept
<1>5. NothingFails' /\ CurLive' /\ ChoiceOpen' /\ FinishClean'
  BY <1>1, <1>2 DEF ExploreInv, NothingFails, CurLive, ChoiceOpen, FinishClean
<1>6. ProgMatch'
  BY <1>1 DEF ExploreInv, ProgMatch
<1> QED  BY <1>4, <1>5, <1>6 DEF ExploreInv

-----------------------------------------------------------------------------
(* mark_all_seen_node.                                                     *)

\* The calls that wait behind the first one are checks of query nodes.
LEMMA TailQueries ==
    ASSUME todo \in Seq(MarkOp), todo # << >>, NEW up \in Seq(MarkOp),
           \A i \in 2..Len(todo) : todo[i].op = "query",
           \A i \in 2..Len(up) : up[i].op = "query"
    PROVE  /\ \A i \in 2..Len(up \o Tail(todo)) : (up \o Tail(todo))[i].op = "query"
           /\ up # << >> => Head(up \o Tail(todo)) = up[1]
           /\ up = << >> /\ up \o Tail(todo) # << >> =>
                Head(up \o Tail(todo)).op = "query"
<1> DEFINE t == Tail(todo)
<1>1. /\ t \in Seq(MarkOp) /\ Len(t) = Len(todo) - 1
      /\ \A i \in 1..Len(t) : t[i] = todo[i + 1]
  OBVIOUS
<1>2. \A i \in 1..Len(t) : t[i].op = "query"
  <2> TAKE i \in 1..Len(t)
  <2>1. i + 1 \in 2..Len(todo)
    BY <1>1
  <2> QED  BY <1>1, <2>1
<1> HIDE DEF t
<1>3. /\ up \o t \in Seq(MarkOp) /\ Len(up \o t) = Len(up) + Len(t)
      /\ \A i \in 1..(Len(up) + Len(t)) :
           (up \o t)[i] = IF i =< Len(up) THEN up[i] ELSE t[i - Len(up)]
  <2>1. t \in Seq(MarkOp)
    BY <1>1
  <2>2. up \o t \in Seq(MarkOp) /\ Len(up \o t) = Len(up) + Len(t)
    BY <2>1
  <2>3. ASSUME NEW i \in 1..Len(up \o t)
        PROVE  (up \o t)[i] = IF i =< Len(up) THEN up[i] ELSE t[i - Len(up)]
    BY <2>1
  <2> QED  BY <2>2, <2>3
<1>4. Len(up) \in Nat /\ Len(t) \in Nat
  BY <1>1
<1>5. ASSUME NEW i \in 2..Len(up \o t) PROVE (up \o t)[i].op = "query"
  <2>1. i \in 1..(Len(up) + Len(t))
    BY <1>3
  <2>2. CASE i =< Len(up)
    <3>1. i \in 2..Len(up)
      BY <1>4, <2>2
    <3> QED  BY <1>3, <2>1, <2>2, <3>1
  <2>3. CASE i > Len(up)
    <3>1. i - Len(up) \in 1..Len(t) /\ ~(i =< Len(up))
      BY <1>4, <2>1, <2>3
    <3>2. (up \o t)[i] = t[i - Len(up)]
      BY <1>3, <2>1, <3>1
    <3> QED  BY <1>2, <3>1, <3>2
  <2> QED  BY <1>4, <2>1, <2>2, <2>3
<1>6. ASSUME up # << >> PROVE Head(up \o t) = up[1]
  <2>1. Len(up) >= 1 /\ 1 \in 1..(Len(up) + Len(t))
    BY <1>4, <1>6
  <2>2. (up \o t)[1] = up[1]
    BY <1>3, <1>4, <2>1
  <2> QED  BY <1>3, <1>4, <2>1, <2>2
<1>7. ASSUME up = << >>, up \o t # << >> PROVE Head(up \o t).op = "query"
  <2>1. Len(up) = 0 /\ Len(t) >= 1 /\ 1 \in 1..Len(t)
    BY <1>3, <1>4, <1>7
  <2>2. (up \o t)[1] = t[1]
    BY <1>3, <1>4, <2>1
  <2> QED  BY <1>2, <1>3, <1>4, <2>1, <2>2
<1> QED  BY <1>5, <1>6, <1>7 DEF t

\* Only the end of a path marks anything.
LEMMA AtMark ==
    ASSUME TypeInv, WriteInv, ExploreInv, pc \in {"mark", "count", "boring"}, todo # << >>
    PROVE  /\ pc = "mark" /\ weird = 0 /\ todo \in Seq(MarkOp)
           /\ store \in [Nodes -> NodeRec] /\ cur \in Nodes /\ qry \in Nodes
           /\ Head(todo).node \in Nodes /\ Head(todo).op \in {"loop", "query"}
           /\ Head(todo).op = "loop" => Pending(Head(todo).node)
           /\ \A n : Pending(n) => n = Head(todo).node
           /\ \A n : Head(todo).op = "query" => ~Pending(n)
           /\ \A n : ~Pending(n) => ~GivenUp(n)
           /\ curRec = store[cur]
           /\ \A i \in 2..Len(todo) : todo[i].op = "query"
<1>1. pc = "mark" /\ weird = 0 /\ \A i \in 2..Len(todo) : todo[i].op = "query"
  BY DEF ExploreInv, NothingFails
<1>2. /\ todo \in Seq(MarkOp)
      /\ store \in [Nodes -> NodeRec] /\ cur \in Nodes /\ qry \in Nodes
  BY DEF TypeInv, TreeTypeOK, RestTypeOK
<1>3. Head(todo) \in MarkOp
  BY <1>2
<1>4. Head(todo).node \in Nodes /\ Head(todo).op \in {"loop", "query"}
  BY <1>3 DEF MarkOp
<1>5. Head(todo).op = "loop" => Head(todo) = LoopOp(Head(todo).node)
  BY <1>3 DEF MarkOp, LoopOp
<1>6. \A n : LoopOp(n).node = n /\ LoopOp(n).op = "loop"
  BY DEF LoopOp
<1>7. \A n : GivenUp(n) => Pending(n)
  BY <1>1 DEF GivenUp, Pending
<1>8. curRec = store[cur]
  BY DEF WriteInv, CurAgrees
<1> QED  BY <1>1, <1>2, <1>4, <1>5, <1>6, <1>7, <1>8 DEF Pending

\* A check of a query node has marked the node itself, if any.
LEMMA QueryPending ==
    ASSUME TypeInv, WriteInv, ExploreInv, pc = "mark", todo # << >>,
           NEW up \in Seq(MarkOp), todo' = up \o Tail(todo), Len(up) =< 1,
           \A m \in Nodes : up # << >> /\ up[1] = LoopOp(m) => store[m].all_seen
    PROVE  /\ \A i \in 2..Len(todo') : todo'[i].op = "query"
           /\ \A m \in Nodes : todo' # << >> /\ Head(todo') = LoopOp(m) => store[m].all_seen
<1>1. todo \in Seq(MarkOp) /\ \A i \in 2..Len(todo) : todo[i].op = "query"
  BY AtMark
<1>2. /\ \A i \in 2..Len(todo') : todo'[i].op = "query"
      /\ up # << >> => Head(todo') = up[1]
      /\ up = << >> /\ todo' # << >> => Head(todo').op = "query"
  <2>1. \A i \in 2..Len(up) : up[i].op = "query"
    OBVIOUS
  <2> QED  BY <1>1, <2>1, TailQueries
<1>3. \A m : LoopOp(m).op = "loop"
  BY DEF LoopOp
<1> QED  BY <1>2, <1>3

\* The climb to the query node ends at the root at the latest, and when it has
\* got there internal_nodes_check finds nothing to mark.
LEMMA QueryStep ==
    ASSUME TypeInv, WriteInv, ExploreInv, QueryParent \/ MarkQuery
    PROVE  /\ pc = "mark" /\ UNCHANGED <<store, cur, qry, inq, pc, prog, weird>>
           /\ \A i \in 2..Len(todo') : todo'[i].op = "query"
           /\ \A m \in Nodes : todo' # << >> /\ Head(todo') = LoopOp(m) => store[m].all_seen
           /\ \A n : ~Pending(n) /\ ~GivenUp(n)
<1> DEFINE q == Head(todo).node
<1>0. /\ pc \in {"mark", "count", "boring"} /\ todo # << >> /\ Head(todo).op = "query"
      /\ UNCHANGED <<inq, prog>>
  BY DEF QueryParent, MarkQuery, envVars
<1>1. /\ pc = "mark" /\ weird = 0 /\ todo \in Seq(MarkOp) /\ q \in Nodes
      /\ store \in [Nodes -> NodeRec]
      /\ \A n : ~Pending(n) /\ ~GivenUp(n)
  BY <1>0, AtMark
<1>2. Tail(todo) = << >> \o Tail(todo)
  BY <1>0, <1>1
<1>3. \A m : LoopOp(m).op = "loop" /\ QueryOp(m).op = "query"
  BY DEF LoopOp, QueryOp
<1>4. CASE QueryParent
  <2>1. q # Root
    BY <1>4 DEF QueryParent, ExploreInv, ProgMatch
  <2>2. /\ todo' = <<QueryOp(Parent(q))>> \o Tail(todo)
        /\ UNCHANGED <<store, cur, qry, pc, weird>>
    BY <1>4, <2>1 DEF QueryParent, treeVars
  <2> DEFINE up == <<QueryOp(Parent(q))>>
  <2>3. QueryOp(Parent(q)) \in MarkOp
    BY <1>1, <2>1, ParentIsNode, MarkOpType DEF QueryOp
  <2>4. up \in Seq(MarkOp) /\ Len(up) =< 1 /\ up[1].op = "query"
    BY <1>3, <2>3
  <2> HIDE DEF up, q
  <2>5. todo' = up \o Tail(todo)
    BY <2>2 DEF up
  <2>6. \A m \in Nodes : up[1] # LoopOp(m)
    <3>1. up[1].op # "loop"
      BY <2>4
    <3> QED  BY <1>3, <3>1
  <2> QED  BY <1>0, <1>1, <2>2, <2>4, <2>5, <2>6, QueryPending
<1>5. CASE MarkQuery /\ ~Limited(store[q])
  <2>1. todo' = << >> \o Tail(todo) /\ UNCHANGED <<store, cur, qry, pc, weird>>
    BY <1>2, <1>5 DEF MarkQuery, treeVars
  <2> DEFINE up == << >>
  <2>2. up \in Seq(MarkOp) /\ Len(up) =< 1 /\ up = << >> /\ todo' = up \o Tail(todo)
    BY <2>1
  <2> HIDE DEF up, q
  <2> QED  BY <1>0, <1>1, <2>1, <2>2, QueryPending
<1>6. CASE MarkQuery /\ Limited(store[q])
  <2>1. FailedIf(store[q].query_children > QueryBranchLimit) = 0
    <3>1. store[q].query_children =< QueryBranchLimit /\ store[q].query_children \in Int
      BY <1>1 DEF ExploreInv, CountsLimited, NodeRec
    <3> QED  BY <3>1, LimitsAssumption DEF FailedIf
  <2> DEFINE up == IF Open(store, q, q) THEN << >> ELSE <<LoopOp(q)>>
  <2>2. /\ store' = InternalNodesCheck(store, q) /\ todo' = up \o Tail(todo)
        /\ UNCHANGED <<cur, qry, pc, weird>>
    BY <1>1, <1>6, <2>1 DEF MarkQuery, TooWeird
  <2>3. TreeShape(store) /\ IsQuery(store[q])
    BY <1>6 DEF ExploreInv, Limited
  <2>4. \A m \in Internal(store, q) :
          /\ \A b \in BOOLEAN : store[m].child[b] \in {"sat", "unsat"}
          /\ Closed(store, m) => store[m].all_seen
    <3> TAKE m \in Internal(store, q)
    <3>1. m \in Nodes
      BY DEF Internal
    <3>2. \A b \in BOOLEAN : store[m].child[b] \in ChildStatus
      BY <1>1, <3>1 DEF NodeRec
    <3>3. \A b \in BOOLEAN : store[m].child[b] # "unknown"
      BY <1>1, <1>6, <3>1 DEF ExploreInv, LimitedFilled
    <3>4. Closed(store, m) => store[m].all_seen
      BY <1>1, <3>1 DEF ExploreInv, ClosedSeen
    <3> QED  BY <3>2, <3>3, <3>4 DEF ChildStatus
  <2>5. \A n \in Internal(store, q) : ~store[n].all_seen => Open(store, q, n)
    BY <1>1, <2>3, <2>4, LiveIsOpen
  <2>6. store' = store
    <3>1. \A n \in ReachedByCheck(store, q) :
            n \in Internal(store, q) /\ ~store[n].all_seen
      BY DEF ReachedByCheck, Internal
    <3>2. \A n \in Nodes : ~(n \in ReachedByCheck(store, q) /\ ~Open(store, q, n))
      BY <2>5, <3>1
    <3> QED  BY <1>1, <2>2, <3>2 DEF InternalNodesCheck
  <2>7. ~Open(store, q, q) => store[q].all_seen
    <3>1. q \in Internal(store, q)
      <4>1. Created(store, q) /\ Between(q, q) = {} /\ Below(q, q)
        BY <1>1, <2>3, KnownIsCreated, BelowOrder DEF TreeShape, Between
      <4> QED  BY <1>1, <4>1 DEF Internal
    <3> QED  BY <2>5, <3>1
  <2>8. up \in Seq(MarkOp) /\ Len(up) =< 1
    <3>1. LoopOp(q) \in MarkOp
      BY <1>1, MarkOpType DEF LoopOp
    <3> HIDE DEF q
    <3> QED  BY <3>1
  <2>9. \A m \in Nodes : up # << >> /\ up[1] = LoopOp(m) => store[m].all_seen
    <3> TAKE m \in Nodes
    <3> HAVE up # << >> /\ up[1] = LoopOp(m)
    <3>1. ~Open(store, q, q) /\ up[1] = LoopOp(q)
      OBVIOUS
    <3>2. LoopOp(q).node = q /\ LoopOp(m).node = m
      BY DEF LoopOp
    <3> HIDE DEF up, q
    <3> QED  BY <2>7, <3>1, <3>2
  <2> HIDE DEF up, q
  <2> QED  BY <1>0, <1>1, <2>2, <2>6, <2>8, <2>9, QueryPending
<1> QED  BY <1>4, <1>5, <1>6

LEMMA QueryExplores ==
    ASSUME TypeInv, WriteInv, ExploreInv, QueryParent \/ MarkQuery
    PROVE  ExploreInv'
<1>0. /\ pc = "mark" /\ UNCHANGED <<store, cur, qry, inq, pc, prog, weird>>
      /\ \A i \in 2..Len(todo') : todo'[i].op = "query"
      /\ \A m \in Nodes : todo' # << >> /\ Head(todo') = LoopOp(m) => store[m].all_seen
      /\ \A n : ~Pending(n) /\ ~GivenUp(n)
  BY QueryStep
<1>1. TreeShape(store') /\ CountsLimited'
  BY <1>0 DEF ExploreInv, CountsLimited
<1>2. Decided' /\ LimitedFilled' /\ ClosedSeen'
  BY <1>0 DEF ExploreInv, Decided, LimitedFilled, ClosedSeen
<1>3. LoopReady'
  <2> SUFFICES ASSUME NEW n \in Nodes, todo' # << >>, Head(todo') = LoopOp(n)
               PROVE  /\ Created(store, n)
                      /\ \A b \in BOOLEAN :
                           store[n].child[b] = "sat" => store[Kid(n, b)].all_seen
    BY <1>0 DEF LoopReady, Pending
  <2>1. store[n].all_seen
    BY <1>0
  <2> QED  BY <2>1, KnownIsCreated DEF ExploreInv, TreeShape, KidsSeen
<1>4. NothingFails' /\ CurLive' /\ ChoiceOpen' /\ FinishClean'
  BY <1>0 DEF ExploreInv, NothingFails, CurLive, ChoiceOpen, FinishClean
<1>5. ProgMatch'
  BY <1>0 DEF ExploreInv, ProgMatch
<1> QED  BY <1>1, <1>2, <1>3, <1>4, <1>5 DEF ExploreInv

\* mark adds one node to those that are all_seen: the loop goes on where that
\* was the last live kid.
LEMMA MarkLoopStep ==
    ASSUME TypeInv, WriteInv, ExploreInv, MarkLoop
    PROVE  \E n \in Nodes :
             /\ pc = "mark" /\ pc' = "mark" /\ weird' = 0
             /\ UNCHANGED <<cur, qry, inq, prog>>
             /\ Pending(n) /\ Created(store, n)
             /\ \A m : Pending(m) \/ GivenUp(m) => m = n
             /\ \A b \in BOOLEAN : store[n].child[b] = "sat" => store[Kid(n, b)].all_seen
             /\ \A m \in Nodes : /\ store'[m].child = store[m].child
                                 /\ store'[m].query_children = store[m].query_children
                                 /\ store'[m].query_counted = store[m].query_counted
                                 /\ store'[m].all_seen <=> store[m].all_seen \/ m = n
                                 /\ m # n => store'[m] = store[m]
                                 /\ Created(store', m) <=> Created(store, m)
             /\ \A i \in 2..Len(todo') : todo'[i].op = "query"
             /\ \A m \in Nodes : Pending(m)' =>
                  n # Root /\ m = Parent(n) /\ Closed(store', m)
             /\ \A m \in Nodes :
                  n # Root /\ m = Parent(n) /\ ~store'[m].all_seen /\ Closed(store', m) =>
                    Pending(m)'
<1> DEFINE n == Head(todo).node
           r == [MarkObject(n) EXCEPT !.all_seen = TRUE]
           S == [store EXCEPT ![n] = Stored(r)]
           fails == Cardinality({b \in BOOLEAN : /\ r.child[b] = "sat"
                                                 /\ ~store[Kid(n, b)].all_seen})
           up == IF n = Root THEN << >>
                 ELSE IF ~S[Parent(n)].all_seen /\ Closed(S, Parent(n))
                      THEN <<LoopOp(Parent(n)), QueryOp(Parent(n))>>
                      ELSE <<QueryOp(Parent(n))>>
<1>0. /\ pc = "mark" /\ weird = 0 /\ todo \in Seq(MarkOp) /\ todo # << >> /\ n \in Nodes
      /\ store \in [Nodes -> NodeRec] /\ cur \in Nodes /\ curRec = store[cur]
      /\ Pending(n) /\ (\A m : Pending(m) => m = n) /\ (\A m : GivenUp(m) => m = n)
      /\ \A i \in 2..Len(todo) : todo[i].op = "query"
  <2>1. pc \in {"mark", "count", "boring"} /\ todo # << >> /\ Head(todo).op = "loop"
    BY DEF MarkLoop
  <2>2. /\ pc = "mark" /\ weird = 0 /\ todo \in Seq(MarkOp) /\ n \in Nodes
        /\ store \in [Nodes -> NodeRec] /\ cur \in Nodes /\ curRec = store[cur]
        /\ Pending(n) /\ (\A m : Pending(m) => m = n) /\ (\A m : ~Pending(m) => ~GivenUp(m))
        /\ \A i \in 2..Len(todo) : todo[i].op = "query"
    BY <2>1, AtMark
  <2> HIDE DEF n
  <2> QED  BY <2>1, <2>2
<1>1. /\ Created(store, n)
      /\ \A b \in BOOLEAN : store[n].child[b] = "sat" => store[Kid(n, b)].all_seen
  BY <1>0 DEF ExploreInv, LoopReady
<1>2. MarkObject(n) = store[n]
  BY <1>0 DEF MarkObject
<1>3. /\ r = [store[n] EXCEPT !.all_seen = TRUE] /\ r \in NodeRec
      /\ r.child = store[n].child /\ r.all_seen = TRUE
      /\ r.query_children = store[n].query_children
      /\ r.query_counted = store[n].query_counted
  <2>1. r = [store[n] EXCEPT !.all_seen = TRUE] /\ store[n] \in NodeRec
    BY <1>0, <1>2
  <2> HIDE DEF r, n
  <2> QED  BY <2>1 DEF NodeRec
<1>4. fails = 0
  <2>1. {b \in BOOLEAN : r.child[b] = "sat" /\ ~store[Kid(n, b)].all_seen} = {}
    BY <1>1, <1>3
  <2> QED  BY <2>1, FS_EmptySet
<1>5. Stored(r) = r
  <2>1. StoredCount(r.query_children) = r.query_children
    BY <1>0, <1>3 DEF WriteInv, CountsRead
  <2> HIDE DEF r
  <2> QED  BY <1>3, <2>1, StoredSame
<1>6. /\ store' = S /\ todo' = up \o Tail(todo) /\ weird' = 0 /\ pc' = "mark"
      /\ UNCHANGED <<cur, qry, inq, prog>>
  <2>1. ~TooWeird(fails)
    BY <1>0, <1>4 DEF TooWeird
  <2>2. /\ store' = S /\ todo' = up \o Tail(todo) /\ weird' = weird + fails
        /\ UNCHANGED <<cur, qry, pc, inq, prog>>
    BY <2>1 DEF MarkLoop, envVars
  <2> HIDE DEF S, up, fails
  <2> QED  BY <1>0, <1>4, <2>2
<1>7. S[n] = r /\ \A m \in Nodes : m # n => S[m] = store[m]
  <2> HIDE DEF n, r
  <2> QED  BY <1>0, <1>5
<1> HIDE DEF n, r, fails, S
<1>8. \A m \in Nodes : /\ S[m].child = store[m].child
                       /\ S[m].query_children = store[m].query_children
                       /\ S[m].query_counted = store[m].query_counted
                       /\ S[m].all_seen <=> store[m].all_seen \/ m = n
  BY <1>3, <1>7
<1>9. \A m \in Nodes : Created(S, m) <=> Created(store, m)
  <2> TAKE m \in Nodes
  <2>1. m # Root => Parent(m) \in Nodes /\ m[Len(m)] \in BOOLEAN
    BY ParentHistory
  <2> QED  BY <1>8, <2>1 DEF Created
<1>10. /\ \A i \in 2..Len(todo') : todo'[i].op = "query"
       /\ \A m \in Nodes : todo' # << >> /\ Head(todo') = LoopOp(m) =>
            n # Root /\ m = Parent(n) /\ Closed(S, m)
       /\ n # Root /\ ~S[Parent(n)].all_seen /\ Closed(S, Parent(n)) =>
            todo' # << >> /\ Head(todo') = LoopOp(Parent(n))
  <2>1. \A m : LoopOp(m).op = "loop" /\ QueryOp(m).op = "query" /\ LoopOp(m).node = m
    BY DEF LoopOp, QueryOp
  <2>2. n # Root => Parent(n) \in Nodes
    BY <1>0, ParentHistory
  <2>3. n # Root => LoopOp(Parent(n)) \in MarkOp /\ QueryOp(Parent(n)) \in MarkOp
    BY <2>2, MarkOpType DEF LoopOp, QueryOp
  <2>4. /\ up \in Seq(MarkOp) /\ \A i \in 2..Len(up) : up[i].op = "query"
        /\ up = << >> \/ Len(up) \in {1, 2}
    <3>1. CASE n = Root
      BY <3>1
    <3>2. CASE n # Root /\ ~S[Parent(n)].all_seen /\ Closed(S, Parent(n))
      <4>1. up = <<LoopOp(Parent(n)), QueryOp(Parent(n))>>
        BY <3>2
      <4> HIDE DEF up
      <4>2. up \in Seq(MarkOp) /\ Len(up) = 2 /\ up[2] = QueryOp(Parent(n))
        BY <2>3, <3>2, <4>1
      <4> QED  BY <2>1, <4>2
    <3>3. CASE n # Root /\ ~(~S[Parent(n)].all_seen /\ Closed(S, Parent(n)))
      <4>1. up = <<QueryOp(Parent(n))>>
        BY <3>3
      <4> HIDE DEF up
      <4> QED  BY <2>3, <3>3, <4>1
    <3> QED  BY <3>1, <3>2, <3>3
  <2>5. /\ n = Root => up = << >>
        /\ n # Root /\ ~S[Parent(n)].all_seen /\ Closed(S, Parent(n)) =>
             up # << >> /\ up[1] = LoopOp(Parent(n))
        /\ n # Root /\ ~(~S[Parent(n)].all_seen /\ Closed(S, Parent(n))) =>
             up # << >> /\ up[1].op = "query"
    BY <2>1
  <2> HIDE DEF up
  <2>6. /\ \A i \in 2..Len(up \o Tail(todo)) : (up \o Tail(todo))[i].op = "query"
        /\ up # << >> => Head(up \o Tail(todo)) = up[1]
        /\ up = << >> /\ up \o Tail(todo) # << >> =>
             Head(up \o Tail(todo)).op = "query"
    BY <1>0, <2>4, TailQueries
  <2>7. up # << >> => up \o Tail(todo) # << >>
    <3>1. Tail(todo) \in Seq(MarkOp)
      BY <1>0
    <3>2. Len(up \o Tail(todo)) = Len(up) + Len(Tail(todo)) /\ Len(Tail(todo)) \in Nat
      BY <2>4, <3>1
    <3> QED  BY <2>4, <3>1, <3>2
  <2>8. ASSUME NEW m \in Nodes, todo' # << >>, Head(todo') = LoopOp(m)
        PROVE  n # Root /\ m = Parent(n) /\ Closed(S, m)
    <3>1. Head(todo').op = "loop" /\ Head(todo').node = m
      BY <2>1, <2>8
    <3>2. up # << >> /\ up[1].op = "loop" /\ up[1].node = m
      BY <1>6, <2>6, <2>8, <3>1
    <3> QED  BY <2>1, <2>5, <3>2
  <2> QED  BY <1>6, <2>5, <2>6, <2>7, <2>8
<1> HIDE DEF up
<1>11. /\ \A m \in Nodes : Pending(m)' => n # Root /\ m = Parent(n) /\ Closed(S, m)
       /\ \A m \in Nodes : n # Root /\ m = Parent(n) /\ ~S[m].all_seen /\ Closed(S, m) =>
            Pending(m)'
  BY <1>6, <1>10 DEF Pending
<1>12. \A m : Pending(m) \/ GivenUp(m) => m = n
  BY <1>0
<1> DEFINE Goal(x) ==
             /\ pc = "mark" /\ pc' = "mark" /\ weird' = 0
             /\ UNCHANGED <<cur, qry, inq, prog>>
             /\ Pending(x) /\ Created(store, x)
             /\ \A m : Pending(m) \/ GivenUp(m) => m = x
             /\ \A b \in BOOLEAN : store[x].child[b] = "sat" => store[Kid(x, b)].all_seen
             /\ \A m \in Nodes : /\ store'[m].child = store[m].child
                                 /\ store'[m].query_children = store[m].query_children
                                 /\ store'[m].query_counted = store[m].query_counted
                                 /\ store'[m].all_seen <=> store[m].all_seen \/ m = x
                                 /\ m # x => store'[m] = store[m]
                                 /\ Created(store', m) <=> Created(store, m)
             /\ \A i \in 2..Len(todo') : todo'[i].op = "query"
             /\ \A m \in Nodes : Pending(m)' =>
                  x # Root /\ m = Parent(x) /\ Closed(store', m)
             /\ \A m \in Nodes :
                  x # Root /\ m = Parent(x) /\ ~store'[m].all_seen /\ Closed(store', m) =>
                    Pending(m)'
<1>13. Goal(n)
  BY <1>0, <1>1, <1>6, <1>7, <1>8, <1>9, <1>10, <1>11, <1>12
<1> QED  BY <1>0, <1>13

LEMMA MarkLoopExplores ==
    ASSUME TypeInv, WriteInv, ExploreInv, MarkLoop
    PROVE  ExploreInv'
<1>1. PICK n \in Nodes :
        /\ pc = "mark" /\ pc' = "mark" /\ weird' = 0
        /\ UNCHANGED <<cur, qry, inq, prog>>
        /\ Pending(n) /\ Created(store, n)
        /\ \A m : Pending(m) \/ GivenUp(m) => m = n
        /\ \A b \in BOOLEAN : store[n].child[b] = "sat" => store[Kid(n, b)].all_seen
        /\ \A m \in Nodes : /\ store'[m].child = store[m].child
                            /\ store'[m].query_children = store[m].query_children
                            /\ store'[m].query_counted = store[m].query_counted
                            /\ store'[m].all_seen <=> store[m].all_seen \/ m = n
                            /\ m # n => store'[m] = store[m]
                            /\ Created(store', m) <=> Created(store, m)
        /\ \A i \in 2..Len(todo') : todo'[i].op = "query"
        /\ \A m \in Nodes : Pending(m)' =>
             n # Root /\ m = Parent(n) /\ Closed(store', m)
        /\ \A m \in Nodes :
             n # Root /\ m = Parent(n) /\ ~store'[m].all_seen /\ Closed(store', m) =>
               Pending(m)'
  BY MarkLoopStep
<1>2. \A m \in Nodes : /\ IsQuery(store'[m]) <=> IsQuery(store[m])
                       /\ Limited(store'[m]) <=> Limited(store[m])
                       /\ HasKid(store'[m]) <=> HasKid(store[m])
  BY <1>1 DEF IsQuery, Limited, HasKid
<1>3. FreshBelow(store) /\ KidsSeen(store) /\ KidsExist(store)
  BY DEF ExploreInv, TreeShape
<1>4. ASSUME NEW m \in Nodes, NEW b \in BOOLEAN, store[m].child[b] = "sat"
      PROVE  Kid(m, b) \in Nodes /\ Kid(m, b) # Root /\ Parent(Kid(m, b)) = m
  <2>1. Len(m) =< PathDepthLimit
    BY <1>3, <1>4 DEF KidsExist, HasKid
  <2> QED  BY <2>1, KidHistory
<1>5. TreeShape(store')
  <2>1. FreshBelow(store')
    BY <1>1, <1>3 DEF FreshBelow
  <2>2. KidsSeen(store')
    BY <1>1, <1>3, <1>4 DEF KidsSeen
  <2>3. KidsExist(store')
    BY <1>2, <1>3 DEF KidsExist
  <2> QED  BY <2>1, <2>2, <2>3 DEF TreeShape
<1>6. NothingFails' /\ CurLive' /\ ChoiceOpen' /\ FinishClean'
  BY <1>1 DEF NothingFails, CurLive, ChoiceOpen, FinishClean
<1>7. Decided'
  <2>1. \A m \in Nodes : m # n => store[m].all_seen \/ BothOrNone(store[m])
    BY <1>1 DEF ExploreInv, Decided
  <2> QED  BY <1>1, <2>1 DEF Decided
<1>8. LimitedFilled'
  <2>1. \A q \in Nodes : Internal(store', q) = Internal(store, q)
    BY <1>1, <1>2 DEF Internal, Between
  <2> QED  BY <1>1, <1>2, <2>1 DEF ExploreInv, LimitedFilled
<1>9. CountsLimited'
  BY <1>1 DEF ExploreInv, CountsLimited
<1>10. ClosedSeen'
  <2> SUFFICES ASSUME NEW m \in Nodes, Closed(store', m), ~store'[m].all_seen
               PROVE  Pending(m)'
    BY DEF ClosedSeen
  <2>1. CASE n # Root /\ m = Parent(n)
    BY <1>1, <2>1
  <2>2. CASE ~(n # Root /\ m = Parent(n))
    <3>1. \A b \in BOOLEAN : store[m].child[b] = "sat" => Kid(m, b) # n
      BY <1>4, <2>2
    <3>2. Closed(store, m)
      BY <1>1, <1>4, <3>1 DEF Closed, Seen
    <3> QED  BY <1>1, <3>1, <3>2 DEF ExploreInv, ClosedSeen
  <2> QED  BY <2>1, <2>2
<1>11. LoopReady'
  <2> SUFFICES ASSUME NEW m \in Nodes, Pending(m)'
               PROVE  /\ Created(store', m)
                      /\ \A b \in BOOLEAN :
                           store'[m].child[b] = "sat" => store'[Kid(m, b)].all_seen
    BY DEF LoopReady
  <2>1. n # Root /\ m = Parent(n) /\ Closed(store', m)
    BY <1>1
  <2>2. Created(store, m)
    BY <1>1, <1>3, <2>1, ParentHistory, CreatedAbove
  <2> QED  BY <1>1, <2>1, <2>2 DEF Closed, Seen
<1>12. ProgMatch'
  <2>1. /\ \A m \in Nodes : NodeMatches(store, prog, m)
        /\ prog[Root] # "inner" /\ IsQuery(store[Root])
    BY DEF ExploreInv, ProgMatch
  <2>2. \A m \in Nodes : NodeMatches(store', prog, m)
    BY <1>1, <1>2, <2>1 DEF NodeMatches
  <2> QED  BY <1>1, <1>2, <2>1, <2>2, RootIsNode DEF ProgMatch
<1> QED
  BY <1>5, <1>6, <1>7, <1>8, <1>9, <1>10, <1>11, <1>12 DEF ExploreInv

-----------------------------------------------------------------------------
(* Scores, paths and iterations.                                           *)

\* set_heur changes no more than the ranges of created nodes.
LEMMA ScoredTable ==
    ASSUME TypeInv, WriteInv, ExploreInv, Created(store, cur),
           NEW h \in Nat, SetHeur(h), UNCHANGED cur
    PROVE  /\ TreeShape(store') /\ CountsLimited'
           /\ \A n \in Nodes : /\ store'[n].child = store[n].child
                               /\ store'[n].all_seen = store[n].all_seen
                               /\ store'[n].query_counted = store[n].query_counted
                               /\ Created(store', n) <=> Created(store, n)
                               /\ IsQuery(store'[n]) <=> IsQuery(store[n])
                               /\ Limited(store'[n]) <=> Limited(store[n])
                               /\ HasKid(store'[n]) <=> HasKid(store[n])
                               /\ Closed(store', n) <=> Closed(store, n)
           /\ \A n \in Nodes : Internal(store', n) = Internal(store, n)
<1>1. \A n \in Nodes :
        store'[n] = IF n \in Widened(h) THEN Widen(store[n], h) ELSE store[n]
  BY SetHeurTable
<1>2. store \in [Nodes -> NodeRec] /\ cur \in Nodes
  BY DEF TypeInv, TreeTypeOK
<1>3. \A n \in Nodes : /\ store'[n].child = store[n].child
                       /\ store'[n].all_seen = store[n].all_seen
                       /\ store'[n].query_counted = store[n].query_counted
                       /\ store'[n].query_children = store[n].query_children
  BY <1>1, <1>2 DEF NodeRec, Widen
<1>4. \A n \in Nodes : Created(store', n) <=> Created(store, n)
  <2> TAKE n \in Nodes
  <2>1. n # Root => Parent(n) \in Nodes /\ n[Len(n)] \in BOOLEAN
    BY ParentHistory
  <2> QED  BY <1>3, <2>1 DEF Created
<1>5. \A n \in Nodes : /\ IsQuery(store'[n]) <=> IsQuery(store[n])
                       /\ Limited(store'[n]) <=> Limited(store[n])
                       /\ HasKid(store'[n]) <=> HasKid(store[n])
  BY <1>3 DEF IsQuery, Limited, HasKid
<1>6. FreshBelow(store) /\ KidsSeen(store) /\ KidsExist(store)
  BY DEF ExploreInv, TreeShape
<1>7. \A n \in Nodes, b \in BOOLEAN : store[n].child[b] = "sat" => Kid(n, b) \in Nodes
  BY <1>6, KidIsNode DEF KidsExist, HasKid
<1>8. \A n \in Nodes : Closed(store', n) <=> Closed(store, n)
  BY <1>3, <1>7 DEF Closed, Seen
<1>9. \A n \in Nodes : Internal(store', n) = Internal(store, n)
  BY <1>4, <1>5 DEF Internal, Between
<1>10. TreeShape(store')
  <2>1. FreshBelow(store')
    <3>1. \A n \in Nodes : n \in Widened(h) => Created(store, n)
      BY <1>2, <1>6, CreatedAbove DEF Widened
    <3> QED  BY <1>1, <1>4, <1>6, <3>1 DEF FreshBelow
  <2>2. KidsSeen(store')
    BY <1>3, <1>6, <1>7 DEF KidsSeen
  <2>3. KidsExist(store')
    BY <1>5, <1>6 DEF KidsExist
  <2> QED  BY <2>1, <2>2, <2>3 DEF TreeShape
<1>11. CountsLimited'
  BY <1>3 DEF ExploreInv, CountsLimited
<1> QED  BY <1>3, <1>4, <1>5, <1>8, <1>9, <1>10, <1>11

\* A score in the middle of a path, and one at its end.
LEMMA ScoreExplores ==
    ASSUME TypeInv, WriteInv, ExploreInv, ScorePath
    PROVE  ExploreInv'
<1>1. PICK h \in Scores : SetHeur(h)
  BY DEF ScorePath
<1>2. /\ h \in Nat /\ pc = "run" /\ ~inq /\ UNCHANGED <<cur, qry, inq, pc, todo, prog, weird>>
  BY LimitsAssumption DEF ScorePath, envVars
<1>3. /\ Created(store, cur) /\ ~store[cur].all_seen /\ cur \in Nodes
      /\ \A n : ~Pending(n) /\ ~GivenUp(n)
  BY <1>2, AtRun
<1>4. /\ TreeShape(store') /\ CountsLimited'
      /\ \A n \in Nodes : /\ store'[n].child = store[n].child
                          /\ store'[n].all_seen = store[n].all_seen
                          /\ store'[n].query_counted = store[n].query_counted
                          /\ Created(store', n) <=> Created(store, n)
                          /\ IsQuery(store'[n]) <=> IsQuery(store[n])
                          /\ Limited(store'[n]) <=> Limited(store[n])
                          /\ HasKid(store'[n]) <=> HasKid(store[n])
                          /\ Closed(store', n) <=> Closed(store, n)
      /\ \A n \in Nodes : Internal(store', n) = Internal(store, n)
  BY <1>1, <1>2, <1>3, ScoredTable
<1>5. NothingFails'
  BY <1>2 DEF ExploreInv, NothingFails
<1>6. CurLive' /\ ChoiceOpen' /\ FinishClean' /\ LoopReady'
  BY <1>2, <1>3, <1>4 DEF CurLive, ChoiceOpen, FinishClean, LoopReady, Pending
<1>7. Decided'
  BY <1>3, <1>4 DEF ExploreInv, Decided, BothOrNone
<1>8. LimitedFilled'
  BY <1>2, <1>4 DEF ExploreInv, LimitedFilled
<1>9. ClosedSeen'
  BY <1>3, <1>4 DEF ExploreInv, ClosedSeen
<1>10. ProgMatch'
  <2>1. /\ \A n \in Nodes : NodeMatches(store, prog, n)
        /\ prog[Root] # "inner" /\ IsQuery(store[Root]) /\ IsQuery(store[cur])
    BY <1>2 DEF ExploreInv, ProgMatch
  <2>2. \A n \in Nodes : NodeMatches(store', prog', n)
    BY <1>2, <1>4, <2>1 DEF NodeMatches
  <2> QED  BY <1>2, <1>3, <1>4, <2>1, <2>2, RootIsNode DEF ProgMatch
<1> QED
  BY <1>4, <1>5, <1>6, <1>7, <1>8, <1>9, <1>10 DEF ExploreInv

\* A path ends where the tree has no kid.
LEMMA FinishExplores ==
    ASSUME TypeInv, WriteInv, ExploreInv, FinishPath
    PROVE  ExploreInv'
<1>1. /\ SetHeur(1) /\ UNCHANGED <<cur, qry, inq, weird>>
      /\ pc' = "mark" /\ todo' = <<LoopOp(cur)>>
      /\ \/ pc = "finish" /\ UNCHANGED prog
         \/ pc = "run" /\ ~inq /\ Does(cur, "leaf")
  BY DEF FinishPath, PathEnds
<1>2. /\ store \in [Nodes -> NodeRec] /\ cur \in Nodes
      /\ prog \in [Nodes -> {"unknown", "inner", "query", "leaf"}]
      /\ Created(store, cur) /\ ~store[cur].all_seen
      /\ \A n : ~Pending(n)
      /\ \A n : GivenUp(n) => n = cur
      /\ weird = 0
  BY <1>1 DEF TypeInv, TreeTypeOK, RestTypeOK, ExploreInv, CurLive, Pending, GivenUp,
              NothingFails
<1>3. /\ TreeShape(store') /\ CountsLimited'
      /\ \A n \in Nodes : /\ store'[n].child = store[n].child
                          /\ store'[n].all_seen = store[n].all_seen
                          /\ store'[n].query_counted = store[n].query_counted
                          /\ Created(store', n) <=> Created(store, n)
                          /\ IsQuery(store'[n]) <=> IsQuery(store[n])
                          /\ Limited(store'[n]) <=> Limited(store[n])
                          /\ HasKid(store'[n]) <=> HasKid(store[n])
                          /\ Closed(store', n) <=> Closed(store, n)
      /\ \A n \in Nodes : Internal(store', n) = Internal(store, n)
  BY <1>1, <1>2, ScoredTable
<1>4. /\ \A n \in Nodes : NodeMatches(store, prog, n)
      /\ prog[Root] # "inner" /\ IsQuery(store[Root])
  BY DEF ExploreInv, ProgMatch
<1>5. ~HasKid(store[cur])
  <2>1. pc = "finish" => ~HasKid(store[cur])
    BY DEF ExploreInv, FinishClean
  <2>2. pc = "run" => prog[cur] \in {"unknown", "leaf"}
    BY <1>1 DEF Does
  <2> QED  BY <1>1, <1>2, <1>4, <2>1, <2>2 DEF NodeMatches
<1>6. NothingFails'
  <2>1. \A i \in 2..Len(todo') : FALSE
    BY <1>1
  <2> QED  BY <1>1, <1>2, <2>1 DEF NothingFails
<1>7. CurLive' /\ ChoiceOpen' /\ FinishClean'
  BY <1>1 DEF CurLive, ChoiceOpen, FinishClean
<1>8. Decided'
  <2>1. \A n \in Nodes : n # cur => store[n].all_seen \/ BothOrNone(store[n])
    BY <1>2 DEF ExploreInv, Decided
  <2>2. \A n \in Nodes : n = cur => GivenUp(n)'
    BY <1>1 DEF GivenUp
  <2>3. \A n \in Nodes : BothOrNone(store[n]) => BothOrNone(store'[n])
    BY <1>3 DEF BothOrNone
  <2> QED  BY <1>3, <2>1, <2>2, <2>3 DEF Decided
<1>9. LimitedFilled'
  BY <1>1, <1>3 DEF ExploreInv, LimitedFilled
<1>10. ClosedSeen'
  BY <1>2, <1>3 DEF ExploreInv, ClosedSeen
<1>11. LoopReady'
  <2> SUFFICES ASSUME NEW n \in Nodes, Head(todo') = LoopOp(n)
               PROVE  Created(store', n) /\ ~HasKid(store'[n])
    BY DEF LoopReady, Pending, HasKid
  <2>1. LoopOp(n) = LoopOp(cur)
    BY <1>1
  <2>2. n = cur
    BY <2>1 DEF LoopOp
  <2> QED  BY <1>2, <1>3, <1>5, <2>2
<1>12. ProgMatch'
  <2>1. \A n \in Nodes \ {cur} : prog'[n] = prog[n]
    BY <1>1, <1>2 DEF Does
  <2>2. prog'[cur] = prog[cur] \/ prog'[cur] = "leaf"
    BY <1>1, <1>2 DEF Does
  <2>3. \A n \in Nodes : NodeMatches(store', prog', n)
    BY <1>2, <1>3, <1>4, <1>5, <2>1, <2>2 DEF NodeMatches
  <2>4. prog'[Root] # "inner" /\ IsQuery(store'[Root])
    BY <1>3, <1>4, <2>1, <2>2, RootIsNode
  <2> QED  BY <1>1, <2>3, <2>4 DEF ProgMatch
<1> QED
  BY <1>3, <1>6, <1>7, <1>8, <1>9, <1>10, <1>11, <1>12 DEF ExploreInv

\* The next path starts at a live root; the loop ends at an exhausted one.
LEMMA IterationExplores ==
    ASSUME TypeInv, WriteInv, ExploreInv, Reset \/ LastIteration
    PROVE  ExploreInv'
<1>1. /\ pc = "mark" /\ todo = << >> /\ UNCHANGED <<store, todo, prog, weird>>
      /\ \/ pc' = "run" /\ ~inq' /\ cur' = Root /\ ~store[Root].all_seen
         \/ pc' = "done"
  BY DEF Reset, LastIteration, treeVars, envVars
<1>2. \A n : ~Pending(n) /\ ~GivenUp(n)
  BY <1>1 DEF Pending, GivenUp
<1>3. /\ TreeShape(store') /\ CountsLimited' /\ Decided' /\ LimitedFilled'
      /\ ClosedSeen' /\ LoopReady'
  BY <1>1, <1>2, TreeKept
<1>4. NothingFails'
  BY <1>1 DEF ExploreInv, NothingFails
<1>5. CurLive' /\ ChoiceOpen' /\ FinishClean'
  BY <1>1 DEF CurLive, ChoiceOpen, FinishClean, Created
<1>6. ProgMatch'
  <2>1. /\ \A n \in Nodes : NodeMatches(store, prog, n)
        /\ prog[Root] # "inner" /\ IsQuery(store[Root])
    BY DEF ExploreInv, ProgMatch
  <2> QED  BY <1>1, <2>1 DEF ProgMatch
<1> QED  BY <1>3, <1>4, <1>5, <1>6 DEF ExploreInv

-----------------------------------------------------------------------------
(* The invariant.                                                          *)

LEMMA InitExplores == Init => ExploreInv
<1> SUFFICES ASSUME Init PROVE ExploreInv
  OBVIOUS
<1>1. /\ cur = Root /\ pc = "run" /\ ~inq /\ todo = << >> /\ weird = 0
      /\ \A n \in Nodes : prog[n] = "unknown"
      /\ Root \in Nodes
  BY RootIsNode DEF Init
<1>2. \A n \in Nodes : /\ store[n].child = [b \in BOOLEAN |-> "unknown"]
                       /\ store[n].all_seen = FALSE /\ store[n].query_counted = FALSE
                       /\ store[n].query_children = IF n = Root THEN 0 ELSE None
                       /\ n # Root => store[n] = FreshNode
  BY DEF Init, FreshNode
<1>3. \A n \in Nodes, b \in BOOLEAN : store[n].child[b] = "unknown" /\ ~HasKid(store[n])
  BY <1>2 DEF HasKid
<1>4. \A n \in Nodes : IsQuery(store[n]) <=> n = Root
  BY <1>2 DEF IsQuery, None
<1>5. TreeShape(store)
  BY <1>2, <1>3 DEF TreeShape, FreshBelow, KidsSeen, KidsExist, Created
<1>6. NothingFails /\ FinishClean
  BY <1>1 DEF NothingFails, FinishClean
<1>7. CurLive /\ ChoiceOpen
  BY <1>1, <1>2 DEF CurLive, ChoiceOpen, Created
<1>8. Decided
  BY <1>3 DEF Decided, BothOrNone
<1>9. LimitedFilled
  <2>1. \A n \in Nodes : ~Limited(store[n])
    BY <1>2, LimitsAssumption DEF Limited, IsQuery, None
  <2> QED  BY <2>1 DEF LimitedFilled
<1>10. CountsLimited
  BY <1>2, LimitsAssumption DEF CountsLimited, None
<1>11. ClosedSeen
  BY <1>3 DEF ClosedSeen, Closed, Seen
<1>12. LoopReady
  BY <1>1 DEF LoopReady, Pending
<1>13. ProgMatch
  BY <1>1, <1>2, <1>3, <1>4 DEF ProgMatch, NodeMatches
<1> QED
  BY <1>5, <1>6, <1>7, <1>8, <1>9, <1>10, <1>11, <1>12, <1>13 DEF ExploreInv

LEMMA NextExplores ==
    ASSUME Steady, TypeInv, WriteInv, Countable, ExploreInv, [Next]_vars
    PROVE  ExploreInv'
<1>1. CASE Next
  <2>1. ~LeaveBoring /\ ~OtherQueryFails
    BY DEF LeaveBoring, OtherQueryFails, ExploreInv, NothingFails, Steady
  <2>2. Terminated => UNCHANGED vars
    BY DEF Terminated
  <2>3. \/ StartNewQuery \/ NextBit \/ TryExtendKnown \/ TryExtendAsk
        \/ CountQuery \/ FinishInternalNodes \/ CountQueryReturns
        \/ MarkLoop \/ QueryParent \/ MarkQuery
        \/ ScorePath \/ FinishPath \/ Reset \/ LastIteration \/ Terminated
    BY <1>1, <2>1 DEF Next
  <2>4. CASE Terminated
    <3>1. UNCHANGED <<store, cur, qry, inq, pc, todo, prog, weird>>
      BY <2>2, <2>4 DEF vars, treeVars, envVars
    <3> QED
      BY <3>1 DEF ExploreInv, NothingFails, CurLive, ChoiceOpen, Decided, GivenUp,
                  LimitedFilled, CountsLimited, ClosedSeen, Pending, LoopReady,
                  ProgMatch, FinishClean
  <2> QED
    BY <2>3, <2>4, StartExplores, KnownExplores, AskExplores, CountExplores,
       FillExplores, CountReturnsExplores, MarkLoopExplores, QueryExplores,
       ScoreExplores, FinishExplores, IterationExplores
<1>2. CASE UNCHANGED vars
  <2>1. UNCHANGED <<store, cur, qry, inq, pc, todo, prog, weird>>
    BY <1>2 DEF vars, treeVars, envVars
  <2> QED
    BY <2>1 DEF ExploreInv, NothingFails, CurLive, ChoiceOpen, Decided, GivenUp,
                LimitedFilled, CountsLimited, ClosedSeen, Pending, LoopReady,
                ProgMatch, FinishClean
<1> QED  BY <1>1, <1>2

\* ExploreInv, and what it rests on, in every state.
LEMMA ExploresAlways ==
    ASSUME Steady
    PROVE  Spec /\ []Countable => [](TypeInv /\ WriteInv /\ ExploreInv)
<1>1. TypeInv /\ WriteInv /\ ExploreInv /\ Countable /\ [Next]_vars =>
        WriteInv' /\ ExploreInv'
  BY NextWrites, NextExplores
<1> QED
  BY <1>1, InitType, NextType, InitWrites, InitExplores, PTL DEF Spec

\* No g_assert fails and no failwith is reached in a Steady exploration, of
\* any program, at any depth and branch limit, whatever the solver answers.
THEOREM TreeAssertionsHold ==
    ASSUME Steady
    PROVE  Spec /\ []Countable => []AssertionsHold
<1>1. ExploreInv => AssertionsHold
  BY DEF ExploreInv, NothingFails, AssertionsHold
<1> QED  BY <1>1, ExploresAlways, PTL

\* all_seen means what the comment in the node type says: the subtree has been
\* completely explored.
THEOREM AllSeenSubtreeAlways ==
    ASSUME Steady
    PROVE  Spec /\ []Countable => []AllSeenSubtree
<1>1. ExploreInv => AllSeenSubtree
  BY SeenSubtree DEF ExploreInv, TreeShape, AllSeenSubtree
<1> QED  BY <1>1, ExploresAlways, PTL

=============================================================================
