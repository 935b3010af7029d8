---------------------------- MODULE MCBrokenArena ----------------------------
(***************************************************************************)
(* Rules that break the Stratum order, as those of test_python_engine.py    *)
(* do: `low` asks `high` about its own relation R, directly and through an  *)
(* analysis of J, and two analyses ask each other.  `between` asks `high`   *)
(* about an input, which is allowed, and `recovers` asks both.              *)
(***************************************************************************)
EXTENDS Arena

MCCallees == [
  high      |-> <<>>,
  low       |-> <<"high">>,
  between   |-> <<"high">>,
  lowest    |-> <<"between">>,
  recovers  |-> <<"between", "low">>,
  recursive |-> <<"high", "mutual">>,
  mutual    |-> <<"recursive">>]

MCKey == DOMAIN MCCallees

MCSubject ==
  [k \in MCKey |->
     CASE k \in {"between", "recovers"} -> "J"
       [] k \in {"high", "low", "lowest"} -> "R"
       [] OTHER -> "no relation"]

MCStratum == [
  high |-> 50, low |-> 20, between |-> 20, lowest |-> 10, recovers |-> 60,
  recursive |-> 5, mutual |-> 5]

MCRule(k, results) == \A i \in DOMAIN results : results[i]
=============================================================================
