----------------------------- MODULE Expansion -----------------------------
(***************************************************************************)
(* What discovery promises: starting from the names a program reads, each   *)
(* name that what is known so far reads is decided once, in some order, and *)
(* deciding it may reveal more names.  Nothing else of the catalog is       *)
(* touched, and the expansion is over only when no name is left.            *)
(***************************************************************************)
VARIABLES
    program,   \* [reads, declares]: names it reads, and names never looked up
    decided,   \* the names declared from the catalog, or given up
    revealed,  \* the names read or declared by what was declared
    over

vars == <<program, decided, revealed, over>>

Frontier == (program.reads \cup revealed) \ (program.declares \cup decided)

Init ==
    /\ decided = {}
    /\ revealed = {}
    /\ over = FALSE

Decide(name) ==
    /\ ~ over
    /\ decided' = decided \cup {name}
    /\ revealed \subseteq revealed'
    /\ UNCHANGED <<program, over>>

Finish ==
    /\ ~ over
    /\ Frontier = {}
    /\ over' = TRUE
    /\ UNCHANGED <<program, decided, revealed>>

Next == Finish \/ \E name \in Frontier : Decide(name)

Spec == Init /\ [][Next]_vars
=============================================================================
