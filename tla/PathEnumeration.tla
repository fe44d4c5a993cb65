-------------------------- MODULE PathEnumeration ---------------------------
(***************************************************************************)
(* What the exploration loop promises, without the tree's bookkeeping: it  *)
(* enumerates execution paths, never the same one twice and never one that *)
(* continues or is continued by another, and it stops only when every      *)
(* branch direction is accounted for.                                      *)
(***************************************************************************)
EXTENDS Integers, Sequences

CONSTANT Depth          \* length of the longest history

VARIABLES
    explored,           \* histories at which a path has ended
    pruned,             \* histories that will not be tried
    finished            \* the loop has reported that it is done

evars == <<explored, pruned, finished>>

Histories == UNION {[1..k -> BOOLEAN] : k \in 0..Depth}

Prefix(p, r) == Len(p) =< Len(r) /\ \A i \in 1..Len(p) : p[i] = r[i]

\* p neither continues nor is continued by a history of H.
Apart(p, H) == \A r \in H : ~Prefix(p, r) /\ ~Prefix(r, p)

Init ==
    /\ explored = {}
    /\ pruned = {}
    /\ finished = FALSE

Explore(p) ==
    /\ ~finished
    /\ Apart(p, explored)
    /\ ~\E r \in pruned : Prefix(r, p)
    /\ explored' = explored \cup {p}
    /\ UNCHANGED <<pruned, finished>>

Prune ==
    /\ ~finished
    /\ pruned' \in SUBSET Histories
    /\ pruned \subseteq pruned'
    /\ \A p \in pruned' \ pruned, r \in explored : ~Prefix(p, r)
    /\ UNCHANGED <<explored, finished>>

\* Every history of full length has a prefix among the ended or pruned ones.
Covered(H) == \A r \in [1..Depth -> BOOLEAN] : \E p \in H : Prefix(p, r)

Finish ==
    /\ ~finished
    /\ Covered(explored \cup pruned)
    /\ finished' = TRUE
    /\ UNCHANGED <<explored, pruned>>

Next ==
    \/ \E p \in Histories : Explore(p)
    \/ Prune
    \/ Finish

Spec == Init /\ [][Next]_evars
=============================================================================
