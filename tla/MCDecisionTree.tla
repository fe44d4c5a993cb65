--------------------------- MODULE MCDecisionTree ---------------------------
(* Small instances of DecisionTree, and its refinement of PathEnumeration. *)
EXTENDS DecisionTree

\* Histories that will not be tried: the solver refused the last direction,
\* or the branch limit left the node with no direction at all.
Refusals == {m \in Nodes \ {Root} : store[Parent(m)].child[m[Len(m)]] = "unsat"}
CutOff == {m \in Nodes : \A b \in BOOLEAN : store[m].child[b] = "unsat"}

Enumeration ==
    INSTANCE PathEnumeration WITH
        Depth    <- PathDepthLimit + 1,
        pruned   <- Refusals \cup (CutOff \ explored),
        finished <- pc = "done"

\* The tree's bookkeeping implements path enumeration: see PathEnumeration.
EnumeratesPaths == Enumeration!Spec
=============================================================================
