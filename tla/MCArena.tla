------------------------------- MODULE MCArena -------------------------------
(***************************************************************************)
(* The calls behind a Unique Set of J, a LEFT JOIN of L and R, as the rules *)
(* make them: exactly_one.py, unique_join.py, nullability.py, uniqueness.py *)
(* and foreign_key.py.  L's Foreign Key and its non-null column, and J's    *)
(* own Unique Set, may be accepted Knowledge.                               *)
(***************************************************************************)
EXTENDS OrderedArena

MCCallees == [
  unique_setJ       |-> <<"closureJ">>,
  closureJ          |-> <<"dependenciesJ", "null_sourcesJ", "closureR">>,
  dependenciesJ     |-> <<"unique_joinJ", "null_sourcesJ">>,
  null_sourcesJ     |-> <<"exactly_oneJ">>,
  exactly_oneJ      |-> <<"unique_joinJ", "coverageL", "null_sourcesL">>,
  unique_joinJ      |-> <<"multiplicityJ", "closureR">>,
  multiplicityJ     |-> <<>>,
  closureR          |-> <<>>,
  coverageL         |-> <<>>,
  null_sourcesL     |-> <<>>]

MCKey == DOMAIN MCCallees

MCSubject ==
  [k \in MCKey |->
     CASE k \in {"coverageL", "null_sourcesL"} -> "L"
       [] k = "closureR" -> "R"
       [] OTHER -> "J"]

MCStratum == [
  unique_setJ |-> 50, closureJ |-> 40, dependenciesJ |-> 30, null_sourcesJ |-> 20,
  exactly_oneJ |-> 10, unique_joinJ |-> 10, multiplicityJ |-> 10,
  closureR |-> 40, coverageL |-> 60, null_sourcesL |-> 20]

MCHeight == [L |-> 0, R |-> 0, J |-> 1]

MCLevel ==
  [k \in MCKey |->
     CASE k = "exactly_oneJ" -> 2 [] k = "unique_joinJ" -> 1 [] OTHER -> 0]

MCAcceptable == {"unique_setJ", "coverageL", "null_sourcesL"}

\* Nothing is known of L's columns unless accepted; R's key is its row identity.
MCRule(k, results) ==
  IF results = <<>> THEN k \in {"closureR", "multiplicityJ"}
  ELSE \A i \in DOMAIN results : results[i]
=============================================================================
