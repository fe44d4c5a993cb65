--------------------------- MODULE MCPathCondition ---------------------------
(* Small instances of PathCondition: two variables of one bit each.          *)
EXTENDS PathCondition

MCInputs == {"00", "01", "10", "11"}
MCVars == {"x", "y"}

\* x and y alone, and a predicate about both that follows from x.
MCPreds == {"x", "y", "x_or_y"}
MCHolds == [p \in MCPreds |-> CASE p = "x" -> {"10", "11"} [] p = "y" -> {"01", "11"}
                                [] p = "x_or_y" -> {"01", "10", "11"}]
MCMentions == [p \in MCPreds |-> IF p = "x_or_y" THEN MCVars ELSE {p}]

\* A solver of which nothing is known, and one that always gives the same
\* model to the same question.
AnyModel(S) == S
OneModel(S) ==
    {IF S = MCHolds["x_or_y"] THEN "11"
     ELSE LET order == <<"00", "10", "01", "11">>
              first == CHOOSE k \in 1..4 : order[k] \in S /\ \A j \in 1..(k - 1) : order[j] \notin S
          IN order[first]}

NoExtra == {}
YIsSet == {[p |-> "y", b |-> TRUE]}

B(leave, pre, on, enter, pred) ==
    [leave |-> leave, pre |-> pre, on |-> on, enter |-> enter, pred |-> pred]

\* Branches and the end of the path.
Plain == {B(FALSE, None, "x", FALSE, p) : p \in MCPreds \cup {"exit"}}

\* Choosing a value bit by bit, in one or two restore_path_cond calls.
Choosing == {B(l, None, "x", e, p) : l \in BOOLEAN, e \in BOOLEAN, p \in {"x", "x_or_y"}}
            \cup {B(l, None, "x", FALSE, "exit") : l \in BOOLEAN}

\* Asking whether a value is unique before a branch.
Unique == {B(FALSE, "unique", on, FALSE, p) : on \in {"x", "x_or_y"}, p \in {"y", "exit"}}

\* Fixing an address to the value of a cached or solved assignment.
Once == {B(FALSE, "once", on, FALSE, p) : on \in {"x", "y"}, p \in {"x", "y", "exit"}}

PlainUniqueOnce == Plain \cup Unique \cup Once
ChoosingUnique == Choosing \cup {B(FALSE, "unique", "x_or_y", FALSE, p) : p \in {"y", "exit"}}

\* A program that fixes y to some value after other branches.
OnceLater == {B(FALSE, None, "x", FALSE, p) : p \in {"x_or_y", "x", "exit"}}
             \cup {B(FALSE, "once", "y", FALSE, "y")}
=============================================================================
