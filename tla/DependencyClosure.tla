-------------------------- MODULE DependencyClosure --------------------------
(***************************************************************************)
(* What attribute closure promises, whatever the order of its work: it     *)
(* only ever learns what follows from what it knows, and it answers when   *)
(* nothing more follows.                                                   *)
(***************************************************************************)
EXTENDS ClosureRules

VARIABLES call, known, answered

Init ==
  /\ IsCall(call)
  /\ known = {}
  /\ answered = FALSE

Request ==
  /\ ~answered
  /\ known' = known \union call.columns \union OfDependencies(call, {})
  /\ UNCHANGED <<call, answered>>

Learn ==
  /\ ~answered
  /\ \E more \in SUBSET Consequences(call, known) : known' = known \union more
  /\ UNCHANGED <<call, answered>>

Answer ==
  /\ ~answered
  /\ IsClosed(call, known)
  /\ answered' = TRUE
  /\ UNCHANGED <<call, known>>

Next == Request \/ Learn \/ Answer

Spec == Init /\ [][Next]_<<call, known, answered>>
=============================================================================
