---------------------------- MODULE OrderedArena ----------------------------
(***************************************************************************)
(* The engine under rules that keep the order Stratum documents: a body     *)
(* asks about inputs of its relation, or about the relation itself at a     *)
(* lower Stratum, or at the same Stratum about a smaller question.          *)
(***************************************************************************)
EXTENDS Arena

CONSTANTS
  Height,   \* of each subject, its place in the DAG of relations, inputs first
  Level     \* of each key, its place among the questions of its Stratum

Below(c, k) ==
  \/ Height[Subject[c]] < Height[Subject[k]]
  \/ /\ Subject[c] = Subject[k]
     /\ \/ StratumOf[c] < StratumOf[k]
        \/ StratumOf[c] = StratumOf[k] /\ Level[c] < Level[k]

ASSUME OrderedAssumption ==
  \A k \in Key : /\ Height[Subject[k]] \in Nat
                 /\ Level[k] \in Nat
                 /\ \A i \in DOMAIN Callees[k] : Below(Callees[k][i], k)

\* The calls on the Python stack descend in that order.
Descending == \A i, j \in DOMAIN stack : i < j => Below(stack[j].key, stack[i].key)

(***************************************************************************)
(* The order is enough: neither the cyclic dependency error nor the Stratum *)
(* assertion, both "an internal sqlassert bug", is ever raised, whatever is *)
(* cached, accepted or failed, and whichever question comes first.          *)
(***************************************************************************)
NoInternalError == raising \notin {"cycle", "stratum"}
=============================================================================
