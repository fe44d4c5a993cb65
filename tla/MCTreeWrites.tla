---------------------------- MODULE MCTreeWrites -----------------------------
(* Small instances of TreeWrites, and how it implements DecisionTree.      *)
EXTENDS TreeWrites

\* History variable: the state in which the operation in progress was called.
VARIABLE called

mcVars == <<writeVars, called>>

Now == [store |-> store, curRec |-> curRec, qryRec |-> qryRec, pc |-> pc,
        todo |-> todo, cur_heur |-> cur_heur, best_heur |-> best_heur,
        explored |-> explored, prog |-> prog, weird |-> weird]

MCInit == WritesInit /\ called = << >>

MCNext ==
    /\ WritesNext
    /\ called' = IF Idle' THEN << >> ELSE IF Idle THEN Now ELSE called

MCSpec == MCInit /\ [][MCNext]_mcVars

\* An operation in progress has not happened yet.
Operations ==
    INSTANCE DecisionTree WITH
        store     <- IF Idle THEN store ELSE called.store,
        curRec    <- IF Idle THEN curRec ELSE called.curRec,
        qryRec    <- IF Idle THEN qryRec ELSE called.qryRec,
        pc        <- IF Idle THEN pc ELSE called.pc,
        todo      <- IF Idle THEN todo ELSE called.todo,
        cur_heur  <- IF Idle THEN cur_heur ELSE called.cur_heur,
        best_heur <- IF Idle THEN best_heur ELSE called.best_heur,
        explored  <- IF Idle THEN explored ELSE called.explored,
        prog      <- IF Idle THEN prog ELSE called.prog,
        weird     <- IF Idle THEN weird ELSE called.weird

\* Until a signal comes, what the writes add up to are DecisionTree's operations.
Implements ==
    Operations!Init /\ [][signals' > 0 \/ Operations!Next]_(Operations!vars)
=============================================================================
