-------------------------- MODULE PathSoundProofs --------------------------
(* What the path condition, the decision tree and the caches say of the    *)
(* program is true, in PathCondition, for every value of its constants.    *)
EXTENDS PathConditionProofs

-----------------------------------------------------------------------------
(* Solutions of conditions.                                                *)

\* i agrees with every literal of L.
Bits(i, L) == \A l \in L : (i \in Holds[l.p]) = l.b

\* Which assignments satisfy a branch condition, an equation, a tautology.
LEMMA AgreesFacts ==
    /\ \A i, L : Agrees(i, Equals(L)) <=> Bits(i, L)
    /\ \A i, p, b : Agrees(i, Branch(p, b)) <=> ((i \in Holds[p]) = b)
    /\ \A i, p, b : Bits(i, Branch(p, b).lits) <=> ((i \in Holds[p]) = b)
    /\ \A i, c : c.kind = "taut" => Agrees(i, c)
    /\ \A i, p : Agrees(i, Taut(p))
    /\ \A i : Agrees(i, ExpTrue)
    /\ \A L : Equals(L).kind = "eq"
    /\ \A p, b : Branch(p, b).kind = "branch"
<1>1. \A i, L : Agrees(i, Equals(L)) <=> Bits(i, L)
  BY DEF Agrees, Equals, Bits
<1>2. ASSUME NEW i, NEW p, NEW b
      PROVE  /\ Agrees(i, Branch(p, b)) <=> ((i \in Holds[p]) = b)
             /\ Bits(i, Branch(p, b).lits) <=> ((i \in Holds[p]) = b)
  <2>1. Branch(p, b).lits = {[p |-> p, b |-> b]} /\ Branch(p, b).kind = "branch"
    BY DEF Branch
  <2>2. \A l : l = [p |-> p, b |-> b] => l.p = p /\ l.b = b
    OBVIOUS
  <2>3. Bits(i, Branch(p, b).lits) <=> ((i \in Holds[p]) = b)
    BY <2>1, <2>2, Zenon DEF Bits
  <2> QED
    BY <2>1, <2>3 DEF Agrees, Bits
<1>3. \A i, c : c.kind = "taut" => Agrees(i, c)
  BY DEF Agrees
<1>4. (\A p : Taut(p).kind = "taut") /\ ExpTrue.kind = "taut"
  BY DEF Taut, ExpTrue
<1>5. (\A L : Equals(L).kind = "eq") /\ \A p, b : Branch(p, b).kind = "branch"
  BY DEF Equals, Branch
<1> QED
  BY <1>1, <1>2, <1>3, <1>4, <1>5, Zenon

\* A branch goes one way or the other.
LEMMA OneWayOrTheOther ==
    ASSUME NEW C, Solutions(C) # {}, NEW p, NEW b \in BOOLEAN
    PROVE  Solutions(C \cup {Branch(p, b)}) # {} \/ Solutions(C \cup {Branch(p, ~b)}) # {}
<1>1. PICK i \in Solutions(C) : TRUE
  OBVIOUS
<1>2. Agrees(i, Branch(p, b)) \/ Agrees(i, Branch(p, ~b))
  <2>1. (i \in Holds[p]) = b \/ (i \in Holds[p]) = (~b)
    OBVIOUS
  <2> QED
    BY <2>1, AgreesFacts, Zenon
<1> QED
  BY <1>2, SolutionsFacts

-----------------------------------------------------------------------------
(* Histories, and what has been decided on them.                           *)

DecidedBy(P, h) == {Branch(P[SubSeq(h, 1, k - 1)].pred, h[k]) : k \in 1..Len(h)}

\* The proper prefixes of a longer history.
LEMMA AppendPrefixes ==
    ASSUME NEW S, NEW h \in Seq(S), NEW b \in S
    PROVE  /\ Append(h, b) \in Seq(S) /\ Len(Append(h, b)) = Len(h) + 1 /\ Len(h) \in Nat
           /\ \A k \in 1..Len(h) : /\ SubSeq(Append(h, b), 1, k - 1) = SubSeq(h, 1, k - 1)
                                   /\ Append(h, b)[k] = h[k]
           /\ SubSeq(Append(h, b), 1, (Len(h) + 1) - 1) = h
           /\ Append(h, b)[Len(h) + 1] = b
<1> DEFINE a == Append(h, b)
<1>1. a \in Seq(S) /\ Len(a) = Len(h) + 1 /\ Len(h) \in Nat /\ a[Len(h) + 1] = b
      /\ \A k \in 1..Len(h) : a[k] = h[k]
  OBVIOUS
<1> HIDE DEF a
<1>2. ASSUME NEW k \in 1..Len(h) PROVE SubSeq(a, 1, k - 1) = SubSeq(h, 1, k - 1)
  <2>1. /\ SubSeq(a, 1, k - 1) = [x \in 1..(k - 1) |-> a[x]]
        /\ SubSeq(h, 1, k - 1) = [x \in 1..(k - 1) |-> h[x]]
    BY <1>1
  <2>2. \A x \in 1..(k - 1) : a[x] = h[x]
    BY <1>1
  <2> QED
    BY <2>1, <2>2
<1>3. SubSeq(a, 1, (Len(h) + 1) - 1) = h
  <2>1. SubSeq(a, 1, Len(h)) = [x \in 1..Len(h) |-> a[x]]
    BY <1>1
  <2>2. h = [x \in 1..Len(h) |-> h[x]]
    OBVIOUS
  <2>3. (Len(h) + 1) - 1 = Len(h)
    BY <1>1
  <2> QED
    BY <1>1, <2>1, <2>2, <2>3
<1> QED
  BY <1>1, <1>2, <1>3 DEF a

\* One more decision.
LEMMA DecidedAppend ==
    ASSUME NEW P, NEW h \in Seq(BOOLEAN), NEW b \in BOOLEAN
    PROVE  DecidedBy(P, Append(h, b)) = DecidedBy(P, h) \cup {Branch(P[h].pred, b)}
<1> DEFINE a == Append(h, b)
<1>1. /\ Len(a) = Len(h) + 1 /\ Len(h) \in Nat
      /\ \A k \in 1..Len(h) : SubSeq(a, 1, k - 1) = SubSeq(h, 1, k - 1) /\ a[k] = h[k]
      /\ SubSeq(a, 1, (Len(h) + 1) - 1) = h
      /\ a[Len(h) + 1] = b
  BY AppendPrefixes
<1> HIDE DEF a
<1>2. 1..Len(a) = 1..Len(h) \cup {Len(h) + 1}
  BY <1>1
<1> DEFINE A(k) == Branch(P[SubSeq(a, 1, k - 1)].pred, a[k])
           H(k) == Branch(P[SubSeq(h, 1, k - 1)].pred, h[k])
<1>3. \A k \in 1..Len(h) : A(k) = H(k)
  BY <1>1, Zenon
<1>4. A(Len(h) + 1) = Branch(P[h].pred, b)
  BY <1>1, Zenon
<1>5. DecidedBy(P, a) = {A(k) : k \in 1..Len(a)} /\ DecidedBy(P, h) = {H(k) : k \in 1..Len(h)}
  BY DEF DecidedBy
<1> HIDE DEF A, H
<1>6. {A(k) : k \in 1..Len(a)} = {H(k) : k \in 1..Len(h)} \cup {A(Len(h) + 1)}
  BY <1>2, <1>3
<1> QED
  BY <1>4, <1>5, <1>6 DEF a

\* A program executed further has decided the same on the paths it had.
LEMMA DecidedKept ==
    ASSUME NEW P, NEW Q, NEW h \in Seq(BOOLEAN),
           \A k \in 1..Len(h) : SubSeq(h, 1, k - 1) \in DOMAIN P,
           \A g \in DOMAIN P : Q[g] = P[g]
    PROVE  DecidedBy(Q, h) = DecidedBy(P, h)
<1> DEFINE A(k) == Branch(P[SubSeq(h, 1, k - 1)].pred, h[k])
           H(k) == Branch(Q[SubSeq(h, 1, k - 1)].pred, h[k])
<1>1. \A k \in 1..Len(h) : A(k) = H(k)
  BY Zenon
<1>2. DecidedBy(P, h) = {A(k) : k \in 1..Len(h)} /\ DecidedBy(Q, h) = {H(k) : k \in 1..Len(h)}
  BY DEF DecidedBy
<1> HIDE DEF A, H
<1> QED
  BY <1>1, <1>2

\* Before the first decision there is none.
LEMMA DecidedNone == \A P : DecidedBy(P, << >>) = {}
BY DEF DecidedBy

-----------------------------------------------------------------------------
(* The invariant.                                                          *)

\* No concretize_once_and_load or -store, which fix an address to a value that
\* the tree knows nothing of, and no timeout taken for an answer: what the
\* tree says of a direction to be infeasible then holds too.
NoOnce == \A k \in Behaviours : k.pre # "once"
Truthful == NoOnce /\ ~(SolverMayFail /\ TimeoutAsUnsat)

\* Some input takes direction b at the node h of the program P.
Real(P, h, b) == Solutions(DecidedBy(P, h) \cup ExtraConds \cup {Branch(P[h].pred, b)}) # {}

\* The tree's nodes and the current one have been reached by executing the
\* program.
ProgInv ==
    /\ \A h \in DOMAIN prog : \A k \in 1..Len(h) : SubSeq(h, 1, k - 1) \in DOMAIN prog
    /\ \A k \in 1..Len(hist) : SubSeq(hist, 1, k - 1) \in DOMAIN prog
    /\ \A h \in Hist : \A b \in BOOLEAN :
         status[h][b] # "unknown" => h \in DOMAIN prog /\ prog[h].pred \in Preds

\* The decisions that led to the current node.
Way == DecidedBy(prog, hist) \cup ExtraConds

\* The path condition admits no input that would have gone another way.  In
\* restore_path_cond, what was saved and what was decided since is the same.
WayInv ==
    /\ Solutions(path_cond \cup ExtraConds) \subseteq Solutions(Way)
    /\ NoOnce => Solutions(path_cond \cup ExtraConds) = Solutions(Way)
    /\ \A j \in 1..Len(saved) : \A i \in Inputs :
         i \in Solutions(path_cond \cup ExtraConds) <=>
            i \in Solutions(saved[j].pc \cup ExtraConds) /\ \A g \in 1..j : Bits(i, saved[g].bits)
    /\ \A c \in path_cond : c.kind = "branch" => c \in Way
    /\ Solutions(Way) # {}

\* s is true of direction b at node h.
TrueOf(s, P, h, b) ==
    /\ s = "sat" => Real(P, h, b)
    /\ s = "unsat" /\ Truthful => ~Real(P, h, b)
TreeInv == \A h \in Hist : \A b \in BOOLEAN : TrueOf(status[h][b], prog, h, b)

\* What is known while a question about a direction is open, and the truth of
\* its answer.
AskedDir == IF ask.for \in {"other_of_sat", "other_of_unsat"} THEN ~ask.dir ELSE ask.dir
AnswerInv ==
    /\ NoOnce => ask.for # "once"
    /\ ask.for = "boring" => status[hist][~ask.dir] = "sat"
    /\ ask.for = "check" => status[hist][~ask.dir] = "unsat"
    /\ ask.for = "other_of_unsat" => status[hist][ask.dir] = "unsat"
    /\ ask.for = "other_of_sat" => Real(prog, hist, ask.dir)
    /\ pc = "answered" /\ ask.for \in BranchFor =>
         TrueOf(IF ask.sat THEN "sat" ELSE "unsat", prog, hist, AskedDir)

SoundInv == ProgInv /\ WayInv /\ TreeInv /\ AnswerInv

-----------------------------------------------------------------------------
(* The program and the tree.                                               *)

\* Histories are sequences.
LEMMA HistSeq == TypeInv => hist \in Seq(BOOLEAN) /\ hist \in Hist
BY HistsAreSequences, Zenon DEF TypeInv, TreeType

\* A step that arrives nowhere and decides nothing.
LEMMA ProgKept == ProgInv /\ UNCHANGED treeVars => ProgInv'
BY DEF ProgInv, treeVars

\* Arriving at a node fixes what the program does there, and nothing else.
LEMMA ArriveProg ==
    ASSUME TypeInv, ProgInv, Arrive
    PROVE  /\ ProgInv'
           /\ \A g \in DOMAIN prog : g \in DOMAIN prog' /\ prog'[g] = prog[g]
<1>1. PICK k \in Behaviours :
        /\ hist \in DOMAIN prog => prog[hist] = k
        /\ prog' = [h \in DOMAIN prog \cup {hist} |-> IF h = hist THEN k ELSE prog[h]]
  BY DEF Arrive
<1>2. UNCHANGED <<hist, status>>
  BY DEF Arrive
<1>3. DOMAIN prog' = DOMAIN prog \cup {hist}
  BY <1>1
<1>4. \A g \in DOMAIN prog : g \in DOMAIN prog' /\ prog'[g] = prog[g]
  BY <1>1
<1>5. \A h \in DOMAIN prog' : \A j \in 1..Len(h) : SubSeq(h, 1, j - 1) \in DOMAIN prog'
  BY <1>3, Zenon DEF ProgInv
<1>6. \A j \in 1..Len(hist') : SubSeq(hist', 1, j - 1) \in DOMAIN prog'
  BY <1>2, <1>3 DEF ProgInv
<1>7. \A h \in Hist : \A b \in BOOLEAN :
        status'[h][b] # "unknown" => h \in DOMAIN prog' /\ prog'[h].pred \in Preds
  BY <1>2, <1>4 DEF ProgInv
<1> QED
  BY <1>4, <1>5, <1>6, <1>7 DEF ProgInv

\* What holds of the program as executed does after a decision.
LEMMA TakeProg ==
    ASSUME TypeInv, ProgInv, hist \in DOMAIN prog, prog[hist].pred \in Preds,
           NEW b \in BOOLEAN, hist' = Append(hist, b) \/ hist' = hist, UNCHANGED prog,
           \A h \in Hist : h # hist => status'[h] = status[h]
    PROVE  ProgInv'
<1>1. hist \in Seq(BOOLEAN)
  BY HistSeq
<1>2. \A j \in 1..Len(hist') : SubSeq(hist', 1, j - 1) \in DOMAIN prog
  <2>1. CASE hist' = hist
    BY <2>1, Zenon DEF ProgInv
  <2>2. CASE hist' = Append(hist, b)
    <3> DEFINE a == Append(hist, b)
    <3>1. /\ Len(a) = Len(hist) + 1 /\ Len(hist) \in Nat
          /\ \A k \in 1..Len(hist) : SubSeq(a, 1, k - 1) = SubSeq(hist, 1, k - 1)
          /\ SubSeq(a, 1, (Len(hist) + 1) - 1) = hist
      BY <1>1, AppendPrefixes
    <3> HIDE DEF a
    <3>2. \A j \in 1..Len(a) : j \in 1..Len(hist) \/ j = Len(hist) + 1
      BY <3>1
    <3>3. \A j \in 1..Len(a) : SubSeq(a, 1, j - 1) \in DOMAIN prog
      BY <3>1, <3>2, Zenon DEF ProgInv
    <3> QED
      BY <2>2, <3>3, Zenon DEF a
  <2> QED
    BY <2>1, <2>2
<1>3. \A h \in Hist : \A d \in BOOLEAN :
        status'[h][d] # "unknown" => h \in DOMAIN prog /\ prog[h].pred \in Preds
  BY DEF ProgInv
<1> QED
  BY <1>2, <1>3 DEF ProgInv

\* What is true of a direction stays true as the program is executed further.
LEMMA RealKept ==
    ASSUME TypeInv, ProgInv, NEW h \in Hist, h \in DOMAIN prog,
           NEW Q, \A g \in DOMAIN prog : Q[g] = prog[g]
    PROVE  \A b : Real(Q, h, b) = Real(prog, h, b)
<1>1. h \in Seq(BOOLEAN)
  BY HistsAreSequences, Zenon
<1>2. \A k \in 1..Len(h) : SubSeq(h, 1, k - 1) \in DOMAIN prog
  BY DEF ProgInv
<1>3. DecidedBy(Q, h) = DecidedBy(prog, h)
  BY <1>1, <1>2, DecidedKept
<1>4. Q[h] = prog[h]
  OBVIOUS
<1> QED
  BY <1>3, <1>4 DEF Real

\* ... so does all that the tree says.
LEMMA TreeKept ==
    ASSUME TypeInv, ProgInv, TreeInv, UNCHANGED status,
           \A g \in DOMAIN prog : prog'[g] = prog[g]
    PROVE  TreeInv'
<1> SUFFICES ASSUME NEW h \in Hist, NEW b \in BOOLEAN
             PROVE  TrueOf(status[h][b], prog', h, b)
  BY DEF TreeInv
<1>1. TrueOf(status[h][b], prog, h, b)
  BY DEF TreeInv
<1>2. CASE h \in DOMAIN prog
  <2>1. Real(prog', h, b) = Real(prog, h, b)
    BY <1>2, RealKept
  <2> QED
    BY <1>1, <2>1 DEF TrueOf
<1>3. CASE h \notin DOMAIN prog
  <2>1. status[h][b] = "unknown"
    BY <1>3, Zenon DEF ProgInv
  <2> QED
    BY <2>1 DEF TrueOf
<1> QED
  BY <1>2, <1>3

\* What is learnt of the current node has to be true.
LEMMA TreeLearns ==
    ASSUME TypeInv, TreeInv, UNCHANGED prog,
           \A h \in Hist : h # hist => status'[h] = status[h],
           \A b \in BOOLEAN : TrueOf(status'[hist][b], prog, hist, b)
    PROVE  TreeInv'
<1> SUFFICES ASSUME NEW h \in Hist, NEW b \in BOOLEAN
             PROVE  TrueOf(status'[h][b], prog, h, b)
  BY DEF TreeInv
<1>1. CASE h = hist
  BY <1>1, Zenon
<1>2. CASE h # hist
  BY <1>2, Zenon DEF TreeInv
<1> QED
  BY <1>1, <1>2

-----------------------------------------------------------------------------
(* The path condition and the way taken.                                   *)

\* The way taken does not depend on what is executed next.
LEMMA WaySame ==
    ASSUME TypeInv, ProgInv, UNCHANGED hist, \A g \in DOMAIN prog : prog'[g] = prog[g]
    PROVE  Way' = Way
<1>1. DecidedBy(prog', hist) = DecidedBy(prog, hist)
  BY HistSeq, DecidedKept DEF ProgInv
<1> QED
  BY <1>1 DEF Way

\* Steps on the way that admit the same inputs as before: only -extra-condition
\* or conditions that are no branches are added.
LEMMA WayKept ==
    ASSUME WayInv, Way' = Way,
           Solutions(path_cond' \cup ExtraConds) = Solutions(path_cond \cup ExtraConds),
           \A c \in path_cond' : c \in path_cond \cup ExtraConds \/ c.kind # "branch",
           saved' = saved \/ saved' = << >>
    PROVE  WayInv'
<1>1. /\ Solutions(path_cond' \cup ExtraConds) \subseteq Solutions(Way')
      /\ NoOnce => Solutions(path_cond' \cup ExtraConds) = Solutions(Way')
      /\ Solutions(Way') # {}
  BY DEF WayInv
<1>2. \A c \in path_cond' : c.kind = "branch" => c \in Way'
  BY DEF WayInv, Way
<1>3. \A j \in 1..Len(saved') : \A i \in Inputs :
        i \in Solutions(path_cond' \cup ExtraConds) <=>
          i \in Solutions(saved'[j].pc \cup ExtraConds) /\ \A g \in 1..j : Bits(i, saved'[g].bits)
  <2>1. CASE saved' = saved
    BY <2>1, Zenon DEF WayInv
  <2>2. CASE saved' = << >>
    BY <2>2
  <2> QED
    BY <2>1, <2>2
<1> QED
  BY <1>1, <1>2, <1>3 DEF WayInv

\* ensure_extra_conditions and add_to_path_cond, as conditions.
LEMMA EnsureAdds ==
    ASSUME NEW m \in MachineRec
    PROVE  /\ EnsureExtraConditions(m).pc \cup ExtraConds = m.pc \cup ExtraConds
           /\ EnsureExtraConditions(m).pc \subseteq m.pc \cup ExtraConds
<1>1. EnsureExtraConditions(m).pc = m.pc \cup IF m.pc = {} THEN ExtraConds ELSE {}
  BY EnsureFacts
<1> QED
  BY <1>1

\* ... and a condition more.
LEMMA AddAdds ==
    ASSUME NEW m \in MachineRec, NEW c \in Cond
    PROVE  /\ AddToPathCond(m, c).pc \cup ExtraConds = m.pc \cup ExtraConds \cup {c}
           /\ AddToPathCond(m, c).pc \subseteq m.pc \cup ExtraConds \cup {c}
<1>1. AddToPathCond(m, c).pc = m.pc \cup (IF m.pc = {} THEN ExtraConds ELSE {}) \cup {c}
  BY AddFacts
<1> QED
  BY <1>1

\* A decision narrows the path condition and the way by the same condition, in
\* restore_path_cond too.
LEMMA TakeWay ==
    ASSUME TypeInv, WayInv, prog[hist].pred \in Preds, NEW b \in BOOLEAN, Take(b),
           Real(prog, hist, b)
    PROVE  WayInv'
<1> DEFINE c == Branch(prog[hist].pred, b)
           m == AddToPathCond(Machine, c)
           PC == path_cond \cup ExtraConds
<1>1. /\ hist' = Append(hist, b) /\ Becomes(m) /\ UNCHANGED prog
      /\ saved' = IF saved = << >> THEN saved
                  ELSE <<[Head(saved) EXCEPT !.bits = @ \cup c.lits]>> \o Tail(saved)
  BY DEF Take
<1>2. c \in Cond /\ c.kind = "branch" /\ \A i : Bits(i, c.lits) <=> Agrees(i, c)
  BY CondTypes, AgreesFacts
<1>3. Machine \in MachineRec /\ Machine.pc = path_cond
  BY MachineType DEF TypeInv, Machine
<1>4. path_cond' \cup ExtraConds = PC \cup {c} /\ path_cond' \subseteq PC \cup {c}
  <2>1. path_cond' = m.pc
    BY <1>1 DEF Becomes
  <2> QED
    BY <1>2, <1>3, <2>1, AddAdds
<1>5. Way' = Way \cup {c}
  <2>1. DecidedBy(prog, Append(hist, b)) = DecidedBy(prog, hist) \cup {c}
    BY HistSeq, DecidedAppend
  <2> QED
    BY <1>1, <2>1 DEF Way
<1>6. /\ Solutions(PC \cup {c}) = {i \in Solutions(PC) : Agrees(i, c)}
      /\ Solutions(Way \cup {c}) = {i \in Solutions(Way) : Agrees(i, c)}
  BY SolutionsFacts
<1>7. Solutions(Way \cup {c}) # {}
  BY DEF Real, Way
<1>8. \A j \in 1..Len(saved') : \A i \in Inputs :
        i \in Solutions(path_cond' \cup ExtraConds) <=>
          i \in Solutions(saved'[j].pc \cup ExtraConds) /\ \A g \in 1..j : Bits(i, saved'[g].bits)
  <2>1. CASE saved = << >>
    BY <1>1, <2>1
  <2>2. CASE saved # << >>
    <3> DEFINE f == [Head(saved) EXCEPT !.bits = @ \cup c.lits]
    <3>1. saved \in Seq(Frame) /\ Head(saved) \in Frame /\ Tail(saved) \in Seq(Frame)
      BY <2>2 DEF TypeInv, SolverType
    <3>2. f.pc = saved[1].pc /\ f.bits = saved[1].bits \cup c.lits
      BY <3>1 DEF Frame
    <3> HIDE DEF f
    <3>3. saved' = <<f>> \o Tail(saved)
      BY <1>1, <2>2 DEF f
    <3>4. Len(saved') = Len(saved) /\ saved'[1] = f /\ \A j \in 2..Len(saved) : saved'[j] = saved[j]
      BY <2>2, <3>1, <3>3
    <3>5. \A j \in 1..Len(saved) : j = 1 \/ j \in 2..Len(saved)
      BY <3>1
    <3>6. \A j \in 1..Len(saved) : saved'[j].pc = saved[j].pc
      BY <3>2, <3>4, <3>5
    <3>7. \A i : Bits(i, f.bits) <=> Bits(i, saved[1].bits) /\ Agrees(i, c)
      BY <1>2, <3>2 DEF Bits
    <3>8. ASSUME NEW j \in 1..Len(saved), NEW i
          PROVE  (\A g \in 1..j : Bits(i, saved'[g].bits)) <=>
                 (\A g \in 1..j : Bits(i, saved[g].bits)) /\ Agrees(i, c)
      <4>1. 1 \in 1..j /\ \A g \in 1..j : g \in 1..Len(saved)
        BY <3>1
      <4>2. \A g \in 1..j : g = 1 \/ saved'[g] = saved[g]
        BY <3>4, <3>5, <4>1
      <4> QED
        BY <3>4, <3>7, <4>1, <4>2
    <3>9. \A j \in 1..Len(saved) : \A i \in Inputs :
            i \in Solutions(PC) <=>
              i \in Solutions(saved[j].pc \cup ExtraConds) /\ \A g \in 1..j : Bits(i, saved[g].bits)
      BY DEF WayInv
    <3> HIDE DEF c, PC
    <3>10. Len(saved') = Len(saved)
      BY <3>4
    <3> QED
      BY <1>4, <1>6, <3>6, <3>8, <3>9, <3>10, Zenon
  <2> QED
    BY <2>1, <2>2
<1>9. /\ Solutions(path_cond' \cup ExtraConds) \subseteq Solutions(Way')
      /\ NoOnce => Solutions(path_cond' \cup ExtraConds) = Solutions(Way')
      /\ Solutions(Way') # {}
  BY <1>4, <1>5, <1>6, <1>7 DEF WayInv
<1>10. \A d \in path_cond' : d.kind = "branch" => d \in Way'
  BY <1>4, <1>5 DEF WayInv, Way
<1> QED
  BY <1>8, <1>9, <1>10 DEF WayInv

\* Leaving restore_path_cond drops the decisions made in it from the path
\* condition, and adds the equation that says them all.
LEMMA ArriveWay == TypeInv /\ SyncInv /\ ProgInv /\ WayInv /\ Arrive => WayInv'
<1> SUFFICES ASSUME TypeInv, SyncInv, ProgInv, WayInv, Arrive PROVE WayInv'
  OBVIOUS
<1>1. PICK k \in Behaviours :
        /\ k.leave => saved # << >>
        /\ IF k.leave /\ ~Underflow
           THEN Becomes(Leave) /\ saved' = << >>
           ELSE UNCHANGED solverVars
  BY DEF Arrive
<1>2. Way' = Way
  BY ArriveProg, WaySame DEF Arrive
<1>3. CASE ~(k.leave /\ ~Underflow)
  <2>1. UNCHANGED <<path_cond, saved>>
    BY <1>1, <1>3 DEF solverVars
  <2> QED
    BY <1>2, <2>1, WayKept
<1>4. CASE k.leave /\ ~Underflow
  <2> DEFINE n == Len(saved)
             m == [pc |-> Outermost.pc, seen |-> Outermost.seen, eng |-> ctx_stack[n]]
             bits == UNION {saved[j].bits : j \in 1..Len(saved)}
  <2>1. Becomes(Leave) /\ saved' = << >>
    BY <1>1, <1>4
  <2>2. /\ saved \in Seq(Frame) /\ ctx_stack \in Seq(Context)
        /\ n \in 1..Len(saved) /\ n =< Len(ctx_stack)
    BY <1>1, <1>4 DEF TypeInv, SolverType, Underflow
  <2>3. Outermost \in Frame /\ ctx_stack[n] \in Context
    BY <2>2 DEF Outermost
  <2>4. m \in MachineRec /\ m.pc = Outermost.pc
    BY <2>3 DEF MachineRec, Frame
  <2>5. Outermost.pc \subseteq path_cond
    BY <2>2 DEF SyncInv, FramesInv, Outermost
  <2>6. Leave = AddToPathCond(m, Chosen) /\ Chosen \in Cond
    BY <2>2, EquationTypes DEF Leave
  <2> HIDE DEF m
  <2>7. /\ Leave.pc \cup ExtraConds = Outermost.pc \cup ExtraConds \cup {Chosen}
        /\ Leave.pc \subseteq Outermost.pc \cup ExtraConds \cup {Chosen}
    BY <2>4, <2>6, AddAdds
  <2>8. path_cond' = Leave.pc
    BY <2>1 DEF Becomes
  <2>9. Chosen = Equals(bits)
    BY DEF Chosen
  <2>10. \A i : Bits(i, bits) <=> \A g \in 1..n : Bits(i, saved[g].bits)
    BY DEF Bits
  <2> HIDE DEF bits
  <2>11. Chosen.kind = "eq" /\ \A i : Agrees(i, Chosen) <=> \A g \in 1..n : Bits(i, saved[g].bits)
    BY <2>9, <2>10, AgreesFacts
  <2>12. \A i \in Inputs :
           i \in Solutions(path_cond \cup ExtraConds) <=>
             /\ i \in Solutions(Outermost.pc \cup ExtraConds)
             /\ \A g \in 1..n : Bits(i, saved[g].bits)
    BY <2>2 DEF WayInv, Outermost
  <2>13. Solutions(Outermost.pc \cup ExtraConds \cup {Chosen}) =
           {i \in Solutions(Outermost.pc \cup ExtraConds) : Agrees(i, Chosen)}
    BY SolutionsFacts
  <2>14. /\ Solutions(path_cond \cup ExtraConds) \subseteq Inputs
         /\ Solutions(Outermost.pc \cup ExtraConds) \subseteq Inputs
    BY SolutionsFacts
  <2>15. Solutions(path_cond' \cup ExtraConds) = Solutions(path_cond \cup ExtraConds)
    BY <2>7, <2>8, <2>11, <2>12, <2>13, <2>14
  <2>16. \A c \in path_cond' : c \in path_cond \cup ExtraConds \/ c.kind # "branch"
    BY <2>5, <2>7, <2>8, <2>11
  <2> QED
    BY <1>2, <2>1, <2>15, <2>16, WayKept
<1> QED
  BY <1>3, <1>4

\* restore_path_cond begins.
LEMMA EnterWay == TypeInv /\ WayInv /\ Enter => WayInv'
<1> SUFFICES ASSUME TypeInv, WayInv, Enter PROVE WayInv'
  OBVIOUS
<1> DEFINE m == EnsureExtraConditions(Machine)
           f == [pc |-> m.pc, seen |-> m.seen, bits |-> {}]
           PC == path_cond \cup ExtraConds
<1>1. Becomes(m) /\ saved' = <<f>> \o saved /\ UNCHANGED treeVars
  BY DEF Enter
<1>2. Machine \in MachineRec /\ Machine.pc = path_cond
  BY MachineType DEF TypeInv, Machine
<1>3. m \in MachineRec /\ m.pc \cup ExtraConds = PC /\ m.pc \subseteq PC
  BY <1>2, EnsureFacts, EnsureAdds
<1>4. f.pc = m.pc /\ f.bits = {} /\ f \in Frame /\ \A i : Bits(i, f.bits)
  BY <1>3 DEF Frame, MachineRec, Bits
<1> HIDE DEF m, f
<1>5. path_cond' = m.pc
  BY <1>1 DEF Becomes
<1>6. Way' = Way
  BY <1>1 DEF Way, treeVars
<1>7. saved \in Seq(Frame)
  BY DEF TypeInv, SolverType
<1>8. /\ Len(saved') = Len(saved) + 1 /\ saved'[1] = f /\ Len(saved) \in Nat
      /\ \A j \in 2..Len(saved') : saved'[j] = saved[j - 1]
  BY <1>1, <1>4, <1>7
<1>9. ASSUME NEW j \in 1..Len(saved'), NEW i \in Inputs
      PROVE  i \in Solutions(PC) <=>
               /\ i \in Solutions(saved'[j].pc \cup ExtraConds)
               /\ \A g \in 1..j : Bits(i, saved'[g].bits)
  <2>1. CASE j = 1
    <3>1. \A g \in 1..j : g = 1
      BY <2>1
    <3>2. saved'[j].pc \cup ExtraConds = PC
      BY <1>3, <1>4, <1>8, <2>1
    <3> QED
      BY <1>4, <1>8, <3>1, <3>2
  <2>2. CASE j # 1
    <3>1. j - 1 \in 1..Len(saved) /\ j \in 2..Len(saved')
      BY <1>8, <2>2
    <3>2. i \in Solutions(PC) <=>
            /\ i \in Solutions(saved[j - 1].pc \cup ExtraConds)
            /\ \A g \in 1..(j - 1) : Bits(i, saved[g].bits)
      BY <3>1 DEF WayInv
    <3>3. saved'[j] = saved[j - 1]
      BY <1>8, <3>1
    <3>4. (\A g \in 1..j : Bits(i, saved'[g].bits)) <=> \A g \in 1..(j - 1) : Bits(i, saved[g].bits)
      <4>1. ASSUME \A g \in 1..j : Bits(i, saved'[g].bits), NEW h \in 1..(j - 1)
            PROVE  Bits(i, saved[h].bits)
        <5>1. h + 1 \in 1..j /\ h + 1 \in 2..Len(saved') /\ (h + 1) - 1 = h
          BY <1>8, <3>1, <4>1
        <5>2. saved'[h + 1] = saved[h]
          BY <1>8, <5>1
        <5> QED
          BY <4>1, <5>1, <5>2
      <4>2. ASSUME \A g \in 1..(j - 1) : Bits(i, saved[g].bits), NEW h \in 1..j
            PROVE  Bits(i, saved'[h].bits)
        <5>1. CASE h = 1
          BY <1>4, <1>8, <5>1
        <5>2. CASE h # 1
          <6>1. h - 1 \in 1..(j - 1) /\ h \in 2..Len(saved')
            BY <1>8, <3>1, <4>2, <5>2
          <6> QED
            BY <1>8, <4>2, <6>1
        <5> QED
          BY <5>1, <5>2
      <4> QED
        BY <4>1, <4>2
    <3> QED
      BY <3>2, <3>3, <3>4
  <2> QED
    BY <2>1, <2>2
<1>10. path_cond' \cup ExtraConds = PC
  BY <1>3, <1>5
<1>11. /\ Solutions(path_cond' \cup ExtraConds) \subseteq Solutions(Way')
       /\ NoOnce => Solutions(path_cond' \cup ExtraConds) = Solutions(Way')
       /\ Solutions(Way') # {}
  BY <1>6, <1>10 DEF WayInv
<1>12. \A c \in path_cond' : c.kind = "branch" => c \in Way'
  BY <1>3, <1>5, <1>6 DEF WayInv, Way
<1> QED
  BY <1>9, <1>10, <1>11, <1>12 DEF WayInv

-----------------------------------------------------------------------------
(* Questions and answers.                                                  *)

\* What a question about a direction asks.
LEMMA AskedReal ==
    ASSUME TypeInv, ask.for \in BranchFor
    PROVE  Real(prog, hist, AskedDir) = (Solutions(Way \cup {ask.cond}) # {})
<1>1. ask.cond = Branch(prog[hist].pred, AskedDir)
  BY DEF TypeInv, AskInv, AskedDir
<1> QED
  BY <1>1 DEF Real, Way

\* Nothing is claimed of questions about values.
LEMMA NothingAsked == ask'.for \notin BranchFor \cup {"once"} => AnswerInv'
BY DEF AnswerInv, BranchFor

\* What was known when a question was asked is known until it is answered.
LEMMA StillAsked ==
    ASSUME AnswerInv, UNCHANGED treeVars, ask'.for = ask.for, ask'.dir = ask.dir,
           pc' = "answered" /\ ask.for \in BranchFor =>
             TrueOf(IF ask'.sat THEN "sat" ELSE "unsat", prog, hist, AskedDir)
    PROVE  AnswerInv'
<1>1. AskedDir' = AskedDir
  BY DEF AskedDir
<1>2. UNCHANGED <<hist, status, prog>>
  BY DEF treeVars
<1> QED
  BY <1>1, <1>2, Zenon DEF AnswerInv

\* Steps that leave the way, the tree and (but for -extra-condition) the path
\* condition alone.
LEMMA QuietSound ==
    ASSUME TypeInv, SoundInv, UNCHANGED treeVars, AnswerInv',
           path_cond' \cup ExtraConds = path_cond \cup ExtraConds,
           path_cond' \subseteq path_cond \cup ExtraConds,
           saved' = saved \/ saved' = << >>
    PROVE  SoundInv'
<1>1. ProgInv'
  BY ProgKept DEF SoundInv
<1>2. WayInv'
  <2>1. Way' = Way
    BY DEF Way, treeVars
  <2>2. Solutions(path_cond' \cup ExtraConds) = Solutions(path_cond \cup ExtraConds)
    OBVIOUS
  <2>3. \A c \in path_cond' : c \in path_cond \cup ExtraConds \/ c.kind # "branch"
    OBVIOUS
  <2> QED
    BY <2>1, <2>2, <2>3, WayKept DEF SoundInv
<1>3. TreeInv'
  BY TreeKept DEF SoundInv, treeVars
<1> QED
  BY <1>1, <1>2, <1>3 DEF SoundInv

\* An uncaught exception.
LEMMA FailsSound == TypeInv /\ SoundInv /\ Fails => SoundInv'
<1> SUFFICES ASSUME TypeInv, SoundInv, Fails PROVE SoundInv'
  OBVIOUS
<1>1. pc' = "crashed" /\ UNCHANGED <<path_cond, saved, treeVars, ask>>
  BY DEF Fails, solverVars
<1>2. AnswerInv'
  BY <1>1, StillAsked DEF SoundInv
<1> QED
  BY <1>1, <1>2, QuietSound

\* quick_check_in_path_cond is right: a condition that is there holds on the
\* way, one whose negation is there does not.
LEMMA TryFuncSound == TypeInv /\ SoundInv /\ TryFunc => SoundInv'
<1> SUFFICES ASSUME TypeInv, SoundInv, TryFunc PROVE SoundInv'
  OBVIOUS
<1> DEFINE quick == QuickCheck(ask.cond)
<1>1. /\ pc = "try" /\ pc' = IF quick = None THEN "query" ELSE "answered"
      /\ ask' = [ask EXCEPT !.sat = (quick = "sat")]
      /\ UNCHANGED <<solverVars, treeVars>>
  BY DEF TryFunc
<1>2. ask.for \in BranchFor /\ ask \in Ask
  BY <1>1 DEF TypeInv, AskInv, ControlType
<1>3. ask'.for = ask.for /\ ask'.dir = ask.dir /\ (ask'.sat <=> quick = "sat")
  BY <1>1, <1>2 DEF Ask
<1>4. ask.cond = Branch(prog[hist].pred, AskedDir) /\ ask.cond.kind = "branch"
  BY <1>2, AgreesFacts DEF TypeInv, AskInv, AskedDir
<1>5. ASSUME quick = "sat" PROVE Real(prog, hist, AskedDir)
  <2>1. ask.cond \in path_cond
    BY <1>5 DEF QuickCheck, None
  <2>2. ask.cond \in Way /\ Solutions(Way) # {}
    BY <1>4, <2>1 DEF SoundInv, WayInv
  <2>3. Way \cup {ask.cond} = Way
    BY <2>2
  <2> QED
    BY <1>2, <2>2, <2>3, AskedReal
<1>6. ASSUME quick = "unsat" PROVE ~Real(prog, hist, AskedDir)
  <2>1. PICK p \in Preds : ask.cond = Branch(p, FALSE) /\ Branch(p, TRUE) \in path_cond
    BY <1>6 DEF QuickCheck, None
  <2>2. Branch(p, TRUE) \in Way
    BY <2>1, AgreesFacts DEF SoundInv, WayInv
  <2>3. \A i \in Solutions(Way \cup {ask.cond}) : FALSE
    <3>1. ASSUME NEW i \in Solutions(Way \cup {ask.cond})
          PROVE  Agrees(i, Branch(p, TRUE)) /\ Agrees(i, Branch(p, FALSE))
      BY <2>1, <2>2 DEF Solutions
    <3>2. ASSUME NEW i \in Solutions(Way \cup {ask.cond})
          PROVE  (i \in Holds[p]) = TRUE /\ (i \in Holds[p]) = FALSE
      BY <3>1, AgreesFacts, Zenon
    <3> QED
      BY <3>2
  <2> QED
    BY <1>2, <2>3, AskedReal
<1>7. quick \in {"sat", "unsat", None}
  BY DEF QuickCheck
<1>8. pc' = "answered" => TrueOf(IF ask'.sat THEN "sat" ELSE "unsat", prog, hist, AskedDir)
  BY <1>1, <1>3, <1>5, <1>6, <1>7 DEF TrueOf, None
<1>9. AnswerInv'
  BY <1>1, <1>3, <1>8, StillAsked DEF SoundInv
<1> QED
  BY <1>1, <1>9, QuietSound DEF solverVars

\* The cache's hit, or the solver's model, is an input that goes the way asked
\* for; without one, there is none.
LEMMA QuerySound ==
    ASSUME TypeInv, SyncInv, SoundInv, Query \/ SolverAnswers \/ SolverFails
    PROVE  SoundInv'
<1>0. ask \in Ask /\ ask.cond \in Cond /\ Machine \in MachineRec /\ Machine.pc = path_cond
  BY MachineType DEF TypeInv, ControlType, Ask, Machine
<1>1. ASSUME ask.for \in BranchFor, NEW i \in Inputs, i \in Solutions(path_cond \cup ExtraConds),
             Agrees(i, ask.cond)
      PROVE  Real(prog, hist, AskedDir)
  <2>1. i \in Solutions(Way)
    BY <1>1 DEF SoundInv, WayInv
  <2>2. i \in Solutions(Way \cup {ask.cond})
    BY <1>1, <2>1, SolutionsFacts
  <2> QED
    BY <1>1, <2>2, AskedReal
<1>2. CASE Query
  <2> DEFINE m   == EnsureExtraConditions(Machine)
             W   == IF new_path THEN FillWorkingCache(m.pc) ELSE working_ce_cache
             hit == {i \in W : Agrees(i, ask.cond)} \cap Solutions(m.pc)
             new == VarsOf(ask.cond) \ m.seen
             e   == Declare(m.eng, new)
             n   == [m EXCEPT !.seen = @ \cup new,
                              !.eng = IF Incremental
                                      THEN [e EXCEPT !.conds = @ \cup {ask.cond}]
                                      ELSE e]
  <2>1. /\ pc = "query" /\ UNCHANGED <<saved, treeVars>>
        /\ \/ /\ Becomes(m) /\ pc' = "answered"
              /\ \E i \in hit : ask' = [ask EXCEPT !.sat = TRUE, !.ce = i]
           \/ Becomes(n) /\ pc' = "solve" /\ ask' = [ask EXCEPT !.new = new]
    BY <1>2 DEF Query
  <2>2. /\ m \in MachineRec /\ ExtraConds \subseteq m.pc
        /\ m.pc \cup ExtraConds = path_cond \cup ExtraConds
        /\ m.pc \subseteq path_cond \cup ExtraConds
    BY <1>0, <2>1, EnsureSync, EnsureAdds
  <2>3. \A i \in hit : /\ i \in Inputs /\ Agrees(i, ask.cond)
                       /\ i \in Solutions(path_cond \cup ExtraConds)
    <3>1. m.pc = path_cond \cup ExtraConds
      BY <2>2
    <3> QED
      BY <3>1, SolutionsFacts
  <2>4. n.pc = m.pc
    BY <2>2 DEF MachineRec
  <2> HIDE DEF m, hit, new, n
  <2>5. path_cond' = m.pc
    BY <2>1, <2>4 DEF Becomes
  <2>6. /\ ask'.for = ask.for /\ ask'.dir = ask.dir
        /\ pc' = "answered" => ask'.sat /\ \E i \in hit : TRUE
    BY <1>0, <2>1 DEF Ask
  <2>7. pc' = "answered" /\ ask.for \in BranchFor =>
          TrueOf(IF ask'.sat THEN "sat" ELSE "unsat", prog, hist, AskedDir)
    BY <1>1, <2>3, <2>6 DEF TrueOf
  <2>8. AnswerInv'
    BY <2>1, <2>6, <2>7, StillAsked DEF SoundInv
  <2> QED
    BY <2>1, <2>2, <2>5, <2>8, QuietSound
<1>3. CASE SolverAnswers
  <2>1. ctx_stack # << >>
    <3>1. saved \in Seq(Frame) /\ ctx_stack \in Seq(Context) /\ Offset = 1
      BY <1>3 DEF SolverAnswers, TypeInv, SolverType, Offset
    <3>2. Len(saved) + 1 =< Len(ctx_stack)
      BY <3>1 DEF SyncInv, FramesInv
    <3> QED
      BY <3>1, <3>2
  <2>2. /\ pc = "solve" /\ pc' = "answered" /\ UNCHANGED <<path_cond, saved, treeVars>>
        /\ \/ \E i \in Models : ask' = [ask EXCEPT !.sat = TRUE, !.ce = i, !.new = {}]
           \/ /\ Solutions(Question) = {} \/ (SolverMayFail /\ TimeoutAsUnsat)
              /\ ask' = [ask EXCEPT !.sat = FALSE, !.new = {}]
    BY <1>3, <2>1 DEF SolverAnswers
  <2>3. /\ path_cond \cup {ask.cond} \subseteq Question /\ ExtraConds \subseteq path_cond
        /\ ask.for # "final" => Question = path_cond \cup {ask.cond}
    BY <2>2 DEF SyncInv, EngineInv, ExtraInv, Question, MayHoldFailed
  <2>4. \A i \in Models : i \in Solutions(Question)
    <3>1. CASE Solutions(Question) = {}
      BY <3>1 DEF Models
    <3>2. CASE Solutions(Question) # {}
      <4>1. Solutions(Question) \in (SUBSET Inputs) \ {{}}
        BY <3>2, SolutionsFacts
      <4>2. ModelsOf(Solutions(Question)) \subseteq Solutions(Question)
        BY <4>1, WorldAssumption
      <4> QED
        BY <4>2, <3>2 DEF Models
    <3> QED
      BY <3>1, <3>2
  <2>5. \A i \in Models : /\ i \in Inputs /\ i \in Solutions(path_cond \cup ExtraConds)
                          /\ Agrees(i, ask.cond)
    <3>1. path_cond \cup ExtraConds = path_cond
      BY <2>3
    <3> QED
      BY <2>3, <2>4, <3>1 DEF Solutions
  <2>6. /\ ask'.for = ask.for /\ ask'.dir = ask.dir
        /\ \/ ask'.sat /\ \E i \in Models : TRUE
           \/ ~ask'.sat /\ (Solutions(Question) = {} \/ (SolverMayFail /\ TimeoutAsUnsat))
    BY <1>0, <2>2 DEF Ask
  <2>7. ASSUME ask.for \in BranchFor, Truthful, Solutions(Question) = {}
        PROVE  ~Real(prog, hist, AskedDir)
    <3>1. Question = path_cond \cup ExtraConds \cup {ask.cond}
      BY <2>3, <2>7 DEF BranchFor
    <3>2. Solutions(path_cond \cup ExtraConds) = Solutions(Way)
      BY <2>7 DEF SoundInv, WayInv, Truthful
    <3>3. Solutions(Way \cup {ask.cond}) = {}
      <4>1. Solutions(Way \cup {ask.cond}) = {i \in Solutions(Way) : Agrees(i, ask.cond)}
        BY SolutionsFacts
      <4>2. Solutions(path_cond \cup ExtraConds \cup {ask.cond}) =
              {i \in Solutions(path_cond \cup ExtraConds) : Agrees(i, ask.cond)}
        BY SolutionsFacts
      <4> QED
        BY <2>7, <3>1, <3>2, <4>1, <4>2
    <3> QED
      BY <2>7, <3>3, AskedReal
  <2>8. ask.for \in BranchFor =>
          TrueOf(IF ask'.sat THEN "sat" ELSE "unsat", prog, hist, AskedDir)
    BY <1>1, <2>5, <2>6, <2>7 DEF TrueOf, Truthful
  <2>9. AnswerInv'
    BY <2>2, <2>6, <2>8, StillAsked DEF SoundInv
  <2> QED
    BY <2>2, <2>9, QuietSound
<1>4. CASE SolverFails
  <2>1. ask' = NoQuery /\ saved' = << >> /\ UNCHANGED <<path_cond, treeVars>>
    BY <1>4 DEF SolverFails
  <2>2. AnswerInv'
    BY <2>1, NoQueryType, NothingAsked DEF BranchFor, None
  <2> QED
    BY <2>1, <2>2, QuietSound
<1> QED
  BY <1>2, <1>3, <1>4

\* A decision: the tree learns what was answered.
LEMMA TakeSound ==
    ASSUME TypeInv, SoundInv, hist \in DOMAIN prog, prog[hist].pred \in Preds,
           NEW b \in BOOLEAN, Take(b), Real(prog, hist, b),
           \A h \in Hist : h # hist => status'[h] = status[h],
           \A d \in BOOLEAN : TrueOf(status'[hist][d], prog, hist, d)
    PROVE  SoundInv'
<1>1. hist' = Append(hist, b) /\ UNCHANGED prog /\ ask' = NoQuery
  BY DEF Take
<1>2. ProgInv'
  BY <1>1, TakeProg DEF SoundInv
<1>3. WayInv'
  BY TakeWay DEF SoundInv
<1>4. TreeInv'
  BY <1>1, TreeLearns DEF SoundInv
<1>5. AnswerInv'
  BY <1>1, NoQueryType, NothingAsked DEF BranchFor, None
<1> QED
  BY <1>2, <1>3, <1>4, <1>5 DEF SoundInv

\* A known direction is taken, or a question asked.
LEMMA DecideSound ==
    ASSUME TypeInv, SoundInv, TakeKnown \/ AskFirst \/ Exit
    PROVE  SoundInv'
<1>0. pc = "decide" /\ hist \in DOMAIN prog /\ hist \in Hist
  BY HistSeq DEF TakeKnown, AskFirst, Exit, Decides, TypeInv, AtNode, AskInv, None
<1>1. CASE TakeKnown
  <2>1. PICK b \in BOOLEAN : status[hist][b] = "sat" /\ Take(b)
    BY <1>1 DEF TakeKnown, Known
  <2>2. prog[hist].pred \in Preds /\ UNCHANGED status
    BY <1>1 DEF TakeKnown, Decides
  <2>3. \A d \in BOOLEAN : TrueOf(status[hist][d], prog, hist, d)
    BY <1>0 DEF SoundInv, TreeInv
  <2>4. Real(prog, hist, b)
    BY <2>1, <2>3 DEF TrueOf
  <2> QED
    BY <1>0, <2>1, <2>2, <2>3, <2>4, TakeSound
<1>2. CASE AskFirst
  <2>1. PICK b \in BOOLEAN : \E f \in AskFor(b) :
          ask' = [NoQuery EXCEPT !.for = f, !.dir = b, !.cond = Branch(prog[hist].pred, b)]
    BY <1>2 DEF AskFirst
  <2>2. PICK f \in AskFor(b) :
          ask' = [NoQuery EXCEPT !.for = f, !.dir = b, !.cond = Branch(prog[hist].pred, b)]
    BY <2>1
  <2>3. /\ f \in {"both", "boring", "check"}
        /\ f = "boring" => status[hist][~b] = "sat"
        /\ f = "check" => status[hist][~b] = "unsat"
    BY DEF AskFor
  <2>4. ask'.for = f /\ ask'.dir = b /\ pc' = "try" /\ UNCHANGED <<solverVars, treeVars>>
    BY <1>2, <2>2 DEF AskFirst, NoQuery
  <2>5. AnswerInv'
    BY <2>3, <2>4, Zenon DEF AnswerInv, treeVars
  <2> QED
    BY <2>4, <2>5, QuietSound DEF solverVars
<1>3. CASE Exit
  <2>1. UNCHANGED <<solverVars, treeVars, ask>> /\ ask.for = None
    BY <1>3 DEF Exit, TypeInv, AskInv, None
  <2>2. AnswerInv'
    BY <2>1, NothingAsked DEF BranchFor, None
  <2> QED
    BY <2>1, <2>2, QuietSound DEF solverVars
<1> QED
  BY <1>1, <1>2, <1>3

\* The first direction is answered for.
LEMMA FirstAnsweredSound == TypeInv /\ SoundInv /\ FirstAnswered => SoundInv'
<1> SUFFICES ASSUME TypeInv, SoundInv, FirstAnswered PROVE SoundInv'
  OBVIOUS
<1>1. /\ pc = "answered" /\ ask.for = "both" /\ ask.dir \in BOOLEAN /\ ask.sat \in BOOLEAN
      /\ hist \in DOMAIN prog /\ hist \in Hist /\ prog[hist].pred \in Preds
  BY HistSeq DEF FirstAnswered, TypeInv, ControlType, Ask, AskInv, BranchFor
<1>2. TrueOf(IF ask.sat THEN "sat" ELSE "unsat", prog, hist, ask.dir)
  BY <1>1 DEF SoundInv, AnswerInv, AskedDir, BranchFor
<1>3. CASE Fails
  BY <1>3, FailsSound
<1>4. CASE AskOther("other_of_sat") /\ ask.sat /\ UNCHANGED status
  <2>1. /\ UNCHANGED <<solverVars, treeVars>> /\ pc' = "try"
        /\ ask'.for = "other_of_sat" /\ ask'.dir = ask.dir
    BY <1>4 DEF AskOther, treeVars, NoQuery
  <2>2. Real(prog, hist, ask.dir)
    BY <1>2, <1>4 DEF TrueOf
  <2>3. AnswerInv'
    BY <2>1, <2>2 DEF AnswerInv, treeVars
  <2> QED
    BY <2>1, <2>3, QuietSound DEF solverVars
<1>5. CASE AskOther("other_of_unsat") /\ ~ask.sat /\ status' = Status(ask.dir, "unsat")
  <2>1. /\ UNCHANGED <<path_cond, saved, hist, prog>> /\ pc' = "try"
        /\ ask'.for = "other_of_unsat" /\ ask'.dir = ask.dir
    BY <1>5 DEF AskOther, solverVars, NoQuery
  <2>2. /\ \A h \in Hist : h # hist => status'[h] = status[h]
        /\ \A d \in BOOLEAN : status'[hist][d] = IF d = ask.dir THEN "unsat" ELSE status[hist][d]
    BY <1>1, <1>5 DEF Status, TypeInv, TreeType
  <2>3. \A d \in BOOLEAN : TrueOf(status'[hist][d], prog, hist, d)
    <3>1. TrueOf("unsat", prog, hist, ask.dir)
      BY <1>2, <1>5
    <3>2. \A d \in BOOLEAN : TrueOf(status[hist][d], prog, hist, d)
      BY <1>1 DEF SoundInv, TreeInv
    <3> QED
      BY <2>2, <3>1, <3>2, Zenon
  <2>4. TreeInv'
    BY <2>1, <2>2, <2>3, TreeLearns DEF SoundInv
  <2>5. ProgInv'
    BY <1>1, <2>1, <2>2, TakeProg DEF SoundInv
  <2>6. WayInv'
    <3>1. Way' = Way
      BY <2>1 DEF Way
    <3> QED
      BY <2>1, <3>1, WayKept DEF SoundInv
  <2>7. status'[hist][ask.dir] = "unsat"
    BY <1>1, <2>2, Zenon
  <2>8. AnswerInv'
    BY <2>1, <2>7 DEF AnswerInv
  <2> QED
    BY <2>4, <2>5, <2>6, <2>8 DEF SoundInv
<1> QED
  BY <1>3, <1>4, <1>5 DEF FirstAnswered

\* The last question about a node's directions is answered.
LEMMA LastAnsweredSound ==
    ASSUME TypeInv, SoundInv, BothAnswered \/ OneAnswered
    PROVE  SoundInv'
<1>1. /\ pc = "answered" /\ ask.dir \in BOOLEAN /\ (~ask.dir) \in BOOLEAN /\ ask.sat \in BOOLEAN
      /\ ask.for \in BranchFor
      /\ hist \in DOMAIN prog /\ hist \in Hist /\ prog[hist].pred \in Preds
  BY HistSeq DEF BothAnswered, OneAnswered, TypeInv, ControlType, Ask, AskInv, BranchFor
<1>2. TrueOf(IF ask.sat THEN "sat" ELSE "unsat", prog, hist, AskedDir)
  BY <1>1 DEF SoundInv, AnswerInv
<1>3. \A d \in BOOLEAN : TrueOf(status[hist][d], prog, hist, d)
  BY <1>1 DEF SoundInv, TreeInv
<1>4. CASE Fails
  BY <1>4, FailsSound
<1>5. CASE /\ ask.for = "other_of_sat" /\ Take(ask.dir)
           /\ status' = [status EXCEPT ![hist] =
                           [b \in BOOLEAN |-> IF b = ask.dir \/ ask.sat THEN "sat" ELSE "unsat"]]
  <2>1. /\ \A h \in Hist : h # hist => status'[h] = status[h]
        /\ \A d \in BOOLEAN : status'[hist][d] = IF d = ask.dir \/ ask.sat THEN "sat" ELSE "unsat"
    BY <1>1, <1>5 DEF TypeInv, TreeType
  <2>2. Real(prog, hist, ask.dir)
    BY <1>5 DEF SoundInv, AnswerInv
  <2>3. TrueOf(IF ask.sat THEN "sat" ELSE "unsat", prog, hist, ~ask.dir)
    BY <1>2, <1>5, Zenon DEF AskedDir
  <2>4. TrueOf("sat", prog, hist, ask.dir)
    BY <2>2 DEF TrueOf
  <2>5. \A d \in BOOLEAN : d = ask.dir \/ d = (~ask.dir)
    BY <1>1
  <2>6. \A d \in BOOLEAN : TrueOf(status'[hist][d], prog, hist, d)
    <3>1. ASSUME NEW d \in BOOLEAN, d = ask.dir PROVE TrueOf(status'[hist][d], prog, hist, d)
      BY <2>1, <2>4, <3>1, Zenon
    <3>2. ASSUME NEW d \in BOOLEAN, d # ask.dir PROVE TrueOf(status'[hist][d], prog, hist, d)
      <4>1. status'[hist][d] = IF ask.sat THEN "sat" ELSE "unsat"
        BY <2>1, <3>2
      <4>2. d = (~ask.dir)
        BY <2>5, <3>2
      <4> QED
        BY <2>3, <4>1, <4>2, Zenon
    <3> QED
      BY <3>1, <3>2
  <2> QED
    BY <1>1, <1>5, <2>1, <2>2, <2>6, TakeSound
<1>6. ASSUME NEW b \in BOOLEAN, NEW d \in BOOLEAN, NEW s \in {"sat", "unsat"},
             Take(b), status' = Status(d, s), TrueOf(s, prog, hist, d), Real(prog, hist, b)
      PROVE  SoundInv'
  <2>1. /\ \A h \in Hist : h # hist => status'[h] = status[h]
        /\ \A e \in BOOLEAN : status'[hist][e] = IF e = d THEN s ELSE status[hist][e]
    BY <1>1, <1>6 DEF Status, TypeInv, TreeType
  <2>2. \A e \in BOOLEAN : TrueOf(status'[hist][e], prog, hist, e)
    BY <1>3, <1>6, <2>1, Zenon
  <2> QED
    BY <1>1, <1>6, <2>1, <2>2, TakeSound
<1>7. CASE ask.for = "other_of_unsat" /\ ask.sat /\ Take(~ask.dir) /\ status' = Status(~ask.dir, "sat")
  <2>1. TrueOf("sat", prog, hist, ~ask.dir)
    BY <1>2, <1>7, Zenon DEF AskedDir
  <2>2. Real(prog, hist, ~ask.dir)
    BY <2>1 DEF TrueOf
  <2> QED
    BY <1>1, <1>6, <1>7, <2>1, <2>2
<1>8. CASE ask.for \in {"boring", "check"} /\ ask.sat /\ Take(ask.dir) /\ status' = Status(ask.dir, "sat")
  <2>1. AskedDir = ask.dir
    BY <1>8 DEF AskedDir
  <2>2. TrueOf("sat", prog, hist, ask.dir)
    BY <1>2, <1>8, <2>1
  <2>3. Real(prog, hist, ask.dir)
    BY <2>2 DEF TrueOf
  <2> QED
    BY <1>1, <1>6, <1>8, <2>2, <2>3
<1>9. CASE ask.for = "boring" /\ ~ask.sat /\ Take(~ask.dir) /\ status' = Status(ask.dir, "unsat")
  <2>1. AskedDir = ask.dir
    BY <1>9 DEF AskedDir
  <2>2. TrueOf("unsat", prog, hist, ask.dir)
    BY <1>2, <1>9, <2>1
  <2>3. status[hist][~ask.dir] = "sat"
    BY <1>9 DEF SoundInv, AnswerInv
  <2>4. TrueOf("sat", prog, hist, ~ask.dir)
    BY <1>1, <1>3, <2>3, Zenon
  <2>5. Real(prog, hist, ~ask.dir)
    BY <2>4 DEF TrueOf
  <2> QED
    BY <1>1, <1>6, <1>9, <2>2, <2>5
<1>10. CASE BothAnswered
  BY <1>4, <1>5, <1>7, <1>10 DEF BothAnswered
<1>11. CASE OneAnswered
  BY <1>4, <1>8, <1>9, <1>11 DEF OneAnswered
<1> QED
  BY <1>10, <1>11

\* The answers to questions about values.
LEMMA ValueAnsweredSound ==
    ASSUME TypeInv, SoundInv, OnceAnswered \/ UniqueAnswered \/ AnotherAnswered
    PROVE  SoundInv'
<1>1. pc = "answered" /\ ask.for \in ValueFor /\ saved = << >> /\ hist \in DOMAIN prog
  BY DEF OnceAnswered, UniqueAnswered, AnotherAnswered, ValueFor, TypeInv, AskInv, AtNode
<1>2. CASE Fails
  BY <1>2, FailsSound
<1>3. CASE OnceAnswered /\ ~Fails
  <2> DEFINE p == prog[hist].on
             c == Equals({[p |-> p, b |-> ask.ce \in Holds[p]]})
  <2>1. /\ Becomes(AddToPathCond(Machine, c)) /\ ask' = NoQuery /\ UNCHANGED <<saved, treeVars>>
        /\ ask.for = "once"
    BY <1>3 DEF OnceAnswered
  <2>2. c \in Cond /\ c.kind = "eq"
    <3>1. p \in Preds
      BY <1>1, WorldAssumption DEF TypeInv, TreeType, Behaviour
    <3>2. (ask.ce \in Holds[p]) \in BOOLEAN
      OBVIOUS
    <3> QED
      BY <3>1, <3>2, EquationTypes, AgreesFacts, Zenon
  <2>3. ~NoOnce
    BY <2>1 DEF SoundInv, AnswerInv
  <2> HIDE DEF c
  <2>4. Machine \in MachineRec /\ Machine.pc = path_cond
    BY MachineType DEF TypeInv, Machine
  <2>5. /\ path_cond' \cup ExtraConds = path_cond \cup ExtraConds \cup {c}
        /\ path_cond' \subseteq path_cond \cup ExtraConds \cup {c}
    BY <2>1, <2>2, <2>4, AddAdds DEF Becomes
  <2>6. Way' = Way
    BY <2>1 DEF Way, treeVars
  <2>7. WayInv'
    <3>1. Solutions(path_cond' \cup ExtraConds) \subseteq Solutions(path_cond \cup ExtraConds)
      BY <2>5, SolutionsFacts
    <3>2. \A d \in path_cond' : d.kind = "branch" => d \in Way
      BY <2>2, <2>5 DEF SoundInv, WayInv, Way
    <3>3. saved' = << >>
      BY <1>1, <2>1
    <3> QED
      <4>1. Solutions(path_cond' \cup ExtraConds) \subseteq Solutions(Way') /\ Solutions(Way') # {}
        BY <2>6, <3>1 DEF SoundInv, WayInv
      <4>2. \A j \in 1..Len(saved') : FALSE
        BY <3>3
      <4> QED
        BY <2>3, <2>6, <3>2, <4>1, <4>2 DEF WayInv
  <2>8. ProgInv' /\ TreeInv'
    BY <2>1, ProgKept, TreeKept DEF SoundInv, treeVars
  <2>9. AnswerInv'
    BY <2>1, NoQueryType, NothingAsked DEF BranchFor, None
  <2> QED
    BY <2>7, <2>8, <2>9 DEF SoundInv
<1>4. CASE (UniqueAnswered \/ AnotherAnswered) /\ ~Fails
  <2>1. UNCHANGED <<solverVars, treeVars>>
    BY <1>4 DEF UniqueAnswered, AnotherAnswered
  <2>2. ask'.for \in {"another", None}
    <3>1. CASE UniqueAnswered
      <4>1. \E q : ask' = [NoQuery EXCEPT !.for = "another", !.cond = q]
        BY <1>4, <3>1 DEF UniqueAnswered
      <4> QED
        BY <4>1 DEF NoQuery
    <3>2. CASE AnotherAnswered
      BY <1>4, <3>2, NoQueryType DEF AnotherAnswered
    <3> QED
      BY <1>4, <3>1, <3>2
  <2>3. AnswerInv'
    BY <2>2, NothingAsked DEF BranchFor, None
  <2> QED
    BY <2>1, <2>3, QuietSound DEF solverVars
<1> QED
  BY <1>2, <1>3, <1>4

\* Arriving at a node.
LEMMA ArriveSound == TypeInv /\ SyncInv /\ SoundInv /\ Arrive => SoundInv'
<1> SUFFICES ASSUME TypeInv, SyncInv, SoundInv, Arrive PROVE SoundInv'
  OBVIOUS
<1>1. ProgInv' /\ \A g \in DOMAIN prog : prog'[g] = prog[g]
  BY ArriveProg DEF SoundInv
<1>2. WayInv'
  BY ArriveWay DEF SoundInv
<1>3. TreeInv'
  BY <1>1, TreeKept DEF SoundInv, Arrive
<1>4. AnswerInv'
  <2>1. PICK k \in Behaviours :
          ask' = IF k.pre = None THEN NoQuery
                 ELSE [NoQuery EXCEPT !.for = k.pre, !.cond = Taut(k.on)]
    BY DEF Arrive
  <2>2. ask'.for = k.pre
    BY <2>1 DEF NoQuery
  <2>3. k.pre \in {None, "unique", "once"}
    BY WorldAssumption DEF Behaviour
  <2>4. NoOnce => ask'.for # "once"
    BY <2>2 DEF NoOnce
  <2>5. ask'.for \notin BranchFor
    BY <2>2, <2>3 DEF BranchFor, None
  <2> QED
    BY <2>4, <2>5 DEF AnswerInv, BranchFor
<1> QED
  BY <1>1, <1>2, <1>3, <1>4 DEF SoundInv

\* restore_path_cond begins.
LEMMA EnterSound == TypeInv /\ SoundInv /\ Enter => SoundInv'
<1> SUFFICES ASSUME TypeInv, SoundInv, Enter PROVE SoundInv'
  OBVIOUS
<1>1. UNCHANGED <<treeVars, ask>> /\ pc = "enter" /\ pc' = "decide"
  BY DEF Enter
<1>2. ProgInv' /\ TreeInv'
  BY <1>1, ProgKept, TreeKept DEF SoundInv, treeVars
<1>3. WayInv'
  BY EnterWay DEF SoundInv
<1>4. AnswerInv'
  BY <1>1, NothingAsked DEF TypeInv, AskInv, BranchFor, None
<1> QED
  BY <1>2, <1>3, <1>4 DEF SoundInv

\* A path condition and a way without decisions agree.
LEMMA StartSound ==
    ASSUME path_cond = {}, saved = << >>, hist = << >>
    PROVE  WayInv
<1>1. Way = ExtraConds
  BY DecidedNone DEF Way
<1>2. path_cond \cup ExtraConds = ExtraConds
  OBVIOUS
<1>3. Solutions(ExtraConds) # {}
  BY WorldAssumption
<1> QED
  BY <1>1, <1>2, <1>3 DEF WayInv

\* Nothing is said of anything at first.
LEMMA InitSound == Init => SoundInv
<1> SUFFICES ASSUME Init PROVE SoundInv
  OBVIOUS
<1>1. WayInv
  BY StartSound DEF Init
<1>2. \A h \in Hist : \A b \in BOOLEAN : status[h][b] = "unknown"
  BY DEF Init
<1>3. hist = << >> /\ prog = [h \in {} |-> None]
  BY DEF Init
<1>4. ProgInv
  BY <1>2, <1>3 DEF ProgInv
<1>5. TreeInv
  BY <1>2 DEF TreeInv, TrueOf
<1>6. AnswerInv
  BY NoQueryType DEF Init, AnswerInv, BranchFor, None
<1> QED
  BY <1>1, <1>4, <1>5, <1>6 DEF SoundInv

\* The end of a path.
LEMMA EndSound ==
    ASSUME TypeInv, SoundInv, SolveFinal \/ Reset
    PROVE  SoundInv'
<1>1. CASE SolveFinal
  <2>1. /\ UNCHANGED <<solverVars, treeVars>>
        /\ ask' = [NoQuery EXCEPT !.for = "final"]
    BY <1>1 DEF SolveFinal
  <2>2. AnswerInv'
    BY <2>1, NothingAsked DEF NoQuery, BranchFor
  <2> QED
    BY <2>1, <2>2, QuietSound DEF solverVars
<1>2. CASE Reset /\ Fails
  BY <1>2, FailsSound
<1>3. CASE Reset /\ ~Fails
  <2>1. /\ path_cond' = {} /\ saved' = << >> /\ hist' = << >> /\ ask' = NoQuery
        /\ UNCHANGED <<status, prog>>
    BY <1>3 DEF Reset
  <2>2. WayInv'
    <3>1. Way' = ExtraConds
      BY <2>1, DecidedNone DEF Way
    <3>2. path_cond' \cup ExtraConds = ExtraConds
      BY <2>1
    <3>3. Solutions(ExtraConds) # {}
      BY WorldAssumption
    <3> QED
      BY <2>1, <3>1, <3>2, <3>3 DEF WayInv
  <2>3. ProgInv'
    BY <2>1 DEF SoundInv, ProgInv
  <2>4. TreeInv'
    BY <2>1, TreeKept DEF SoundInv
  <2>5. AnswerInv'
    BY <2>1, NoQueryType, NothingAsked DEF BranchFor, None
  <2> QED
    BY <2>2, <2>3, <2>4, <2>5 DEF SoundInv
<1> QED
  BY <1>1, <1>2, <1>3

\* Every step keeps what is said true.
LEMMA SoundStep == TypeInv /\ SyncInv /\ SoundInv /\ [Next]_vars => SoundInv'
<1>1. ASSUME TypeInv, SoundInv, UNCHANGED vars PROVE SoundInv'
  <2>1. UNCHANGED <<path_cond, saved, treeVars, ask, pc>>
    BY <1>1 DEF vars, solverVars
  <2>2. AnswerInv'
    BY <1>1, <2>1 DEF SoundInv, AnswerInv, AskedDir, treeVars
  <2> QED
    BY <1>1, <2>1, <2>2, QuietSound
<1> QED
  BY <1>1, ArriveSound, EnterSound, DecideSound, TryFuncSound, FirstAnsweredSound,
     LastAnsweredSound, ValueAnsweredSound, QuerySound, EndSound
     DEF Next, Terminated

\* The types, both sides in step, and the truth of what is said.
THEOREM Sound == Spec => [](TypeInv /\ SyncInv /\ SoundInv)
<1>1. Init => TypeInv /\ SyncInv /\ SoundInv
  BY InitType, InitSync, InitSound
<1>2. TypeInv /\ SyncInv /\ SoundInv /\ [Next]_vars => (TypeInv /\ SyncInv /\ SoundInv)'
  BY TypeStep, SyncStep, SoundStep
<1> QED
  BY <1>1, <1>2, PTL DEF Spec

\* A direction that the tree calls satisfiable can be taken: whichever cached
\* assignment, model or earlier decision it was learnt from, and whatever
\* timeouts were taken for answers or addresses fixed once.
THEOREM SatIsRealAlways == Spec => []SatIsReal
<1>1. SoundInv => SatIsReal
  BY DEF SoundInv, TreeInv, TrueOf, Real, SatIsReal, Decided, DecidedBy
<1> QED
  BY <1>1, Sound, PTL

\* The path condition admits exactly the inputs that take the decisions of the
\* current history, as long as no address is fixed by concretize_once_and_load
\* or -store: those two add an equation that the tree does not decide.
THEOREM PathCondExactAlways ==
    ASSUME NoOnce
    PROVE  Spec => []PathCondExact
<1>1. SoundInv => PathCondExact
  BY NoOnce DEF SoundInv, WayInv, Way, PathCondExact, Decided, DecidedBy
<1> QED
  BY <1>1, Sound, PTL

\* Without such equations and without -timeout-as-unsat (on a solver that does
\* time out), what the tree says of a direction is true either way.
THEOREM TreeSoundAlways ==
    ASSUME Truthful
    PROVE  Spec => []TreeSound
<1>1. TypeInv /\ SoundInv => TreeSound
  <2> SUFFICES ASSUME TypeInv, SoundInv, NEW h \in Hist, NEW b \in BOOLEAN,
                      status[h][b] # "unknown"
               PROVE  (status[h][b] = "sat") =
                      (Solutions(Decided(h) \cup ExtraConds \cup {Branch(prog[h].pred, b)}) # {})
    BY DEF TreeSound
  <2>1. status[h][b] \in {"sat", "unsat"}
    BY DEF TypeInv, TreeType
  <2>2. TrueOf(status[h][b], prog, h, b)
    BY DEF SoundInv, TreeInv
  <2>3. Decided(h) = DecidedBy(prog, h)
    BY DEF Decided, DecidedBy
  <2> QED
    BY <2>1, <2>2, <2>3, Truthful DEF TrueOf, Real
<1> QED
  BY <1>1, Sound, PTL

-----------------------------------------------------------------------------
(* Assertions.                                                             *)

\* Nothing has failed; the answers that query_unique_value and finish_path
\* rely on are there, and another value is really another one.
AssertInv ==
    /\ weird = 0 /\ pc # "crashed"
    /\ ask.for \in {"unique", "final"} =>
         ask.cond.kind = "taut" /\ (pc = "answered" => ask.sat)
    /\ pc = "answered" /\ ask.for = "another" /\ ask.sat => Agrees(ask.ce, ask.cond)

\* The directions of a node cannot both be refused.
LEMMA NotBothRefused ==
    ASSUME Truthful, SoundInv, NEW b \in BOOLEAN,
           TrueOf("unsat", prog, hist, b), TrueOf("unsat", prog, hist, ~b)
    PROVE  FALSE
<1>1. Solutions(Way) # {}
  BY DEF SoundInv, WayInv
<1>2. Real(prog, hist, b) \/ Real(prog, hist, ~b)
  BY <1>1, OneWayOrTheOther DEF Real, Way
<1> QED
  BY <1>2, Truthful DEF TrueOf

\* Answers about directions never contradict what the tree has.
LEMMA BranchAsserts ==
    ASSUME Truthful, TypeInv, SoundInv, AssertInv, FirstAnswered \/ BothAnswered \/ OneAnswered
    PROVE  AssertInv'
<1>1. /\ pc = "answered" /\ ask.dir \in BOOLEAN /\ (~ask.dir) \in BOOLEAN /\ ask.sat \in BOOLEAN
      /\ ask.for \in BranchFor /\ hist \in Hist
  BY HistSeq DEF FirstAnswered, BothAnswered, OneAnswered, TypeInv, ControlType, Ask, BranchFor
<1>2. TrueOf(IF ask.sat THEN "sat" ELSE "unsat", prog, hist, AskedDir)
  BY <1>1 DEF SoundInv, AnswerInv
<1>3. \A d \in BOOLEAN : TrueOf(status[hist][d], prog, hist, d)
  BY <1>1 DEF SoundInv, TreeInv
<1>4. ASSUME NEW d \in BOOLEAN, TrueOf("unsat", prog, hist, d), status[hist][d] = "sat" PROVE FALSE
  <2>1. TrueOf("sat", prog, hist, d)
    BY <1>3, <1>4, Zenon
  <2> QED
    BY <1>4, <2>1, Truthful DEF TrueOf
<1>5. ASSUME FirstAnswered PROVE ask.sat \/ status[hist][ask.dir] # "sat"
  <2>1. ask.for = "both"
    BY <1>5 DEF FirstAnswered
  <2>2. AskedDir = ask.dir
    BY <2>1 DEF AskedDir
  <2>3. ~ask.sat => TrueOf("unsat", prog, hist, ask.dir)
    BY <1>2, <2>2, Zenon
  <2> QED
    BY <1>1, <1>4, <2>3
<1>6. ASSUME BothAnswered
      PROVE  /\ ask.for = "other_of_sat" => ask.sat \/ status[hist][~ask.dir] # "sat"
             /\ ask.for # "other_of_sat" => ask.sat
  <2>1. ask.for \in {"other_of_sat", "other_of_unsat"}
    BY <1>6 DEF BothAnswered
  <2>2. ~ask.sat => TrueOf("unsat", prog, hist, ~ask.dir)
    BY <1>2, <2>1, Zenon DEF AskedDir
  <2>3. ask.for = "other_of_unsat" => TrueOf("unsat", prog, hist, ask.dir)
    BY <1>1, <1>3, Zenon DEF SoundInv, AnswerInv
  <2>4. ask.for = "other_of_sat" => ask.sat \/ status[hist][~ask.dir] # "sat"
    BY <1>1, <1>4, <2>2, Zenon
  <2>5. ask.for = "other_of_unsat" => ask.sat
    BY <1>1, <2>2, <2>3, NotBothRefused, Truthful
  <2> QED
    BY <2>1, <2>4, <2>5
<1>7. ASSUME OneAnswered PROVE ask.sat \/ ask.for = "boring"
  <2>1. ask.for \in {"boring", "check"}
    BY <1>7 DEF OneAnswered
  <2>2. AskedDir = ask.dir
    BY <2>1 DEF AskedDir
  <2>3. ~ask.sat => TrueOf("unsat", prog, hist, ask.dir)
    BY <1>2, <2>2, Zenon
  <2>4. ask.for = "check" => TrueOf("unsat", prog, hist, ~ask.dir)
    BY <1>1, <1>3, Zenon DEF SoundInv, AnswerInv
  <2> QED
    BY <1>1, <2>1, <2>3, <2>4, NotBothRefused, Truthful
<1>8. \/ AskOther("other_of_sat") \/ AskOther("other_of_unsat") \/ Take(ask.dir) \/ Take(~ask.dir)
  BY <1>5, <1>6, <1>7 DEF FirstAnswered, BothAnswered, OneAnswered, Known
<1>9. /\ pc' \in {"try", "arrive"} /\ weird' = weird
      /\ ask'.for \in {"other_of_sat", "other_of_unsat", None}
  BY <1>8, NoQueryType DEF AskOther, Take, NoQuery
<1> QED
  BY <1>9 DEF AssertInv, None

\* Answers about values: there always is one.
LEMMA ValueAsserts ==
    ASSUME Truthful, TypeInv, SoundInv, AssertInv, OnceAnswered \/ UniqueAnswered \/ AnotherAnswered
    PROVE  AssertInv'
<1>1. pc = "answered" /\ weird = 0 /\ ask.sat \in BOOLEAN
  BY DEF AssertInv, OnceAnswered, UniqueAnswered, AnotherAnswered, TypeInv, ControlType, Ask
<1>2. CASE OnceAnswered
  BY <1>2, Truthful DEF OnceAnswered, Truthful, SoundInv, AnswerInv
<1>3. CASE UniqueAnswered
  <2>1. ask.sat
    BY <1>1, <1>3 DEF UniqueAnswered, AssertInv
  <2>2. ~LastStraw(ask.sat) /\ Weird(ask.sat) = 0
    BY <1>1, <2>1 DEF LastStraw, Weird
  <2>3. /\ weird' = 0 /\ pc' = "query"
        /\ \E q : ask' = [NoQuery EXCEPT !.for = "another", !.cond = q]
    BY <1>3, <2>2 DEF UniqueAnswered
  <2>4. ask'.for = "another"
    BY <2>3 DEF NoQuery
  <2> QED
    BY <2>3, <2>4 DEF AssertInv
<1>4. CASE AnotherAnswered
  <2> DEFINE differs == ask.sat => Agrees(ask.ce, ask.cond)
  <2>1. differs
    BY <1>1, <1>4 DEF AnotherAnswered, AssertInv
  <2>2. ~LastStraw(differs) /\ Weird(differs) = 0
    BY <1>1, <2>1 DEF LastStraw, Weird
  <2>3. weird' = 0 /\ pc' \in {"enter", "decide"} /\ ask' = NoQuery
    BY <1>4, <2>2 DEF AnotherAnswered
  <2> QED
    BY <2>3, NoQueryType DEF AssertInv, None
<1> QED
  BY <1>2, <1>3, <1>4

\* The answers themselves: a tautology is never refused.
LEMMA QueryAsserts ==
    ASSUME Truthful, FinalIsClean, TypeInv, SyncInv, SoundInv, AssertInv,
           Query \/ SolverAnswers \/ SolverFails
    PROVE  AssertInv'
<1>0. ask \in Ask /\ weird = 0
  BY DEF TypeInv, ControlType, AssertInv
<1>1. CASE Query
  <2> DEFINE m   == EnsureExtraConditions(Machine)
             W   == IF new_path THEN FillWorkingCache(m.pc) ELSE working_ce_cache
             hit == {i \in W : Agrees(i, ask.cond)} \cap Solutions(m.pc)
  <2>1. /\ pc = "query" /\ UNCHANGED weird
        /\ \/ pc' = "answered" /\ \E i \in hit : ask' = [ask EXCEPT !.sat = TRUE, !.ce = i]
           \/ pc' = "solve" /\ \E V : ask' = [ask EXCEPT !.new = V]
    BY <1>1 DEF Query
  <2>2. \A i \in hit : Agrees(i, ask.cond)
    OBVIOUS
  <2> HIDE DEF hit
  <2>3. /\ ask'.for = ask.for /\ ask'.cond = ask.cond /\ pc' \in {"answered", "solve"}
        /\ pc' = "answered" => ask'.sat = TRUE /\ ask'.ce \in hit
    BY <1>0, <2>1 DEF Ask
  <2> QED
    BY <1>0, <2>1, <2>2, <2>3 DEF AssertInv
<1>2. CASE SolverAnswers
  <2>1. ctx_stack # << >>
    <3>1. saved \in Seq(Frame) /\ ctx_stack \in Seq(Context) /\ Offset = 1
      BY <1>2 DEF SolverAnswers, TypeInv, SolverType, Offset
    <3>2. Len(saved) + 1 =< Len(ctx_stack)
      BY <3>1 DEF SyncInv, FramesInv
    <3> QED
      BY <3>1, <3>2
  <2>2. /\ pc = "solve" /\ pc' = "answered" /\ UNCHANGED weird
        /\ \/ \E i \in Models : ask' = [ask EXCEPT !.sat = TRUE, !.ce = i, !.new = {}]
           \/ /\ Solutions(Question) = {} \/ (SolverMayFail /\ TimeoutAsUnsat)
              /\ ask' = [ask EXCEPT !.sat = FALSE, !.new = {}]
    BY <1>2, <2>1 DEF SolverAnswers
  <2>3. Question = path_cond \cup {ask.cond} /\ ExtraConds \subseteq path_cond
    <3>1. ~MayHoldFailed
      BY <2>2, FinalIsClean DEF MayHoldFailed, FinalIsClean, TypeInv, AskInv
    <3> QED
      BY <2>2, <3>1 DEF SyncInv, EngineInv, ExtraInv, Question
  <2>4. \A i \in Models : Agrees(i, ask.cond)
    <3>1. CASE Solutions(Question) = {}
      BY <3>1 DEF Models
    <3>2. CASE Solutions(Question) # {}
      <4>1. Solutions(Question) \in (SUBSET Inputs) \ {{}}
        BY <3>2, SolutionsFacts
      <4>2. ModelsOf(Solutions(Question)) \subseteq Solutions(Question)
        BY <4>1, WorldAssumption
      <4>3. \A i \in Models : i \in Solutions(Question)
        BY <3>2, <4>2 DEF Models
      <4>4. ask.cond \in Question
        BY <2>3
      <4> QED
        BY <4>3, <4>4 DEF Solutions
    <3> QED
      BY <3>1, <3>2
  <2>5. ASSUME ask.cond.kind = "taut" PROVE Solutions(Question) # {}
    <3>1. Solutions(path_cond \cup ExtraConds) = Solutions(Way) /\ Solutions(Way) # {}
      BY Truthful DEF Truthful, SoundInv, WayInv
    <3>2. path_cond \cup ExtraConds = path_cond
      BY <2>3
    <3>3. PICK i \in Solutions(path_cond) : TRUE
      BY <3>1, <3>2
    <3>4. Agrees(i, ask.cond)
      BY <2>5, AgreesFacts
    <3>5. i \in Solutions(path_cond \cup {ask.cond})
      BY <3>4, SolutionsFacts
    <3> QED
      BY <2>3, <3>5
  <2>6. /\ ask'.for = ask.for /\ ask'.cond = ask.cond
        /\ \/ ask'.sat = TRUE /\ ask'.ce \in Models
           \/ ask'.sat = FALSE /\ (Solutions(Question) = {} \/ (SolverMayFail /\ TimeoutAsUnsat))
    BY <1>0, <2>2 DEF Ask
  <2>7. ask.cond.kind = "taut" => ask'.sat = TRUE
    BY <2>5, <2>6, Truthful DEF Truthful
  <2> QED
    BY <1>0, <2>2, <2>4, <2>6, <2>7 DEF AssertInv
<1>3. CASE SolverFails
  <2>1. pc' \in {"finish", "stopped"} /\ ask' = NoQuery /\ UNCHANGED weird
    BY <1>3 DEF SolverFails
  <2> QED
    BY <1>0, <2>1, NoQueryType DEF AssertInv, None
<1> QED
  BY <1>1, <1>2, <1>3

\* No other step can fail: the stack has the contexts that the calls of
\* restore_path_cond in progress pop, and the final answer is there.
LEMMA AssertStep ==
    ASSUME Truthful, FinalIsClean
    PROVE  TypeInv /\ SyncInv /\ SoundInv /\ AssertInv /\ [Next]_vars => AssertInv'
<1> SUFFICES ASSUME TypeInv, SyncInv, SoundInv, AssertInv, [Next]_vars PROVE AssertInv'
  OBVIOUS
<1>1. CASE Arrive
  <2>1. PICK k \in Behaviours :
          /\ pc' = IF k.leave /\ Underflow THEN "crashed"
                   ELSE IF k.pre # None THEN "query"
                   ELSE IF k.enter THEN "enter"
                   ELSE "decide"
          /\ ask' = IF k.pre = None THEN NoQuery
                    ELSE [NoQuery EXCEPT !.for = k.pre, !.cond = Taut(k.on)]
    BY <1>1 DEF Arrive
  <2>2. ~Underflow /\ weird' = weird
    <3>1. Offset = 0 /\ saved \in Seq(Frame) /\ ctx_stack \in Seq(Context)
      BY <1>1 DEF Arrive, Offset, TypeInv, SolverType
    <3>2. Len(saved) =< Len(ctx_stack)
      BY <3>1 DEF SyncInv, FramesInv
    <3> QED
      BY <1>1, <3>1, <3>2 DEF Arrive, Underflow
  <2>3. pc' \in {"query", "enter", "decide"}
    BY <2>1, <2>2
  <2>4. ask'.for # None => ask'.cond.kind = "taut"
    BY <2>1, NoQueryType DEF NoQuery, Taut
  <2> QED
    BY <2>2, <2>3, <2>4 DEF AssertInv, None
<1>2. CASE Enter \/ Exit
  <2>1. UNCHANGED <<ask, weird>> /\ pc' \in {"decide", "finish"}
    BY <1>2 DEF Enter, Exit
  <2> QED
    BY <2>1 DEF AssertInv
<1>3. CASE TakeKnown
  <2>1. UNCHANGED weird /\ pc' = "arrive" /\ ask' = NoQuery
    BY <1>3 DEF TakeKnown, Take
  <2> QED
    BY <2>1, NoQueryType DEF AssertInv, None
<1>4. CASE AskFirst \/ TryFunc
  <2>1. UNCHANGED weird /\ pc' \in {"try", "query", "answered"}
    BY <1>4 DEF AskFirst, TryFunc
  <2>2. ask'.for \in BranchFor
    <3>1. CASE AskFirst
      <4>1. PICK b \in BOOLEAN : \E f \in AskFor(b) :
              ask' = [NoQuery EXCEPT !.for = f, !.dir = b, !.cond = Branch(prog[hist].pred, b)]
        BY <3>1 DEF AskFirst
      <4>2. ask'.for \in AskFor(b)
        BY <4>1 DEF NoQuery
      <4> QED
        BY <4>2 DEF AskFor, BranchFor
    <3>2. CASE TryFunc
      BY <3>2 DEF TryFunc, TypeInv, AskInv, ControlType, Ask
    <3> QED
      BY <1>4, <3>1, <3>2
  <2> QED
    BY <2>1, <2>2 DEF AssertInv, BranchFor
<1>5. CASE SolveFinal
  <2>1. /\ pc' = "query" /\ UNCHANGED weird
        /\ ask' = [NoQuery EXCEPT !.for = "final"]
    BY <1>5 DEF SolveFinal
  <2>2. ask'.for = "final" /\ ask'.cond.kind = "taut"
    BY <2>1 DEF NoQuery, ExpTrue
  <2> QED
    BY <2>1, <2>2 DEF AssertInv
<1>6. CASE Reset
  <2> DEFINE solved == pc = "answered" => ask.sat
  <2>1. solved /\ weird = 0
    BY <1>6 DEF Reset, AssertInv
  <2>2. ~LastStraw(solved) /\ Weird(solved) = 0
    BY <2>1 DEF LastStraw, Weird
  <2>3. weird' = 0 /\ pc' \in {"arrive", "done"} /\ ask' = NoQuery
    BY <1>6, <2>2 DEF Reset
  <2> QED
    BY <2>3, NoQueryType DEF AssertInv, None
<1>7. CASE UNCHANGED vars
  BY <1>7 DEF vars, AssertInv
<1> QED
  BY <1>1, <1>2, <1>3, <1>4, <1>5, <1>6, <1>7, BranchAsserts, ValueAsserts, QueryAsserts,
     Truthful, FinalIsClean
     DEF Next, Terminated

\* The program does not fail by itself: under the two assumptions, no
\* assertion of try_extend, query_unique_value, concretize_once or finish_path
\* fails, and no pop finds an empty stack, on any path of any program.
THEOREM AssertionsHoldAlways ==
    ASSUME Truthful, FinalIsClean
    PROVE  Spec => []AssertionsHold
<1>1. Init => AssertInv
  BY NoQueryType DEF Init, AssertInv, None
<1>2. TypeInv /\ SyncInv /\ SoundInv /\ AssertInv /\ [Next]_vars => AssertInv'
  BY AssertStep, Truthful, FinalIsClean
<1>3. AssertInv => AssertionsHold
  BY DEF AssertInv, AssertionsHold
<1> QED
  BY <1>1, <1>2, <1>3, Sound, PTL DEF Spec

=============================================================================
