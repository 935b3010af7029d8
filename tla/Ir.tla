--------------------------------- MODULE Ir ---------------------------------
(***************************************************************************)
(* The relational IR of sqlassert/ir/model.py.                             *)
(*                                                                         *)
(* A program is a sequence of relations in which a relation reads only     *)
(* earlier ones (the IR is a DAG), and the set of accepted Properties.     *)
(* Nodes have object identity in the code; here a relation is its place in *)
(* the sequence, its i-th OutputColumn is <<r, i>>, and RowIdentity(r) of  *)
(* rules/column_set.py is <<r, 0>>.                                        *)
(***************************************************************************)
EXTENDS Expressions, Integers, Sequences, FiniteSets, SequencesExt

VARIABLE program

Relations == DOMAIN program.relations
Rel(r)    == program.relations[r]

RowIdentity(r)   == <<r, 0>>
IsColumn(a)      == a[2] # 0
OutputColumns(r) == {<<r, i>> : i \in DOMAIN Rel(r).output}
Expr(c)          == Rel(c[1]).output[c[2]]
Elements(s)      == {s[i] : i \in DOMAIN s}

\* The parent relation shared by every column: {} when they span several.
RelationOf(columns) ==
  {r \in Relations : columns # {} /\ columns \subseteq OutputColumns(r)}

\* The input a one-input relation reads, as a set: a table has none.
Unary  == {"named", "alias", "filter", "project", "limit", "aggregate", "distinct", "qualify"}
Source(r) == Rel(r).input

Is(r, op)          == Rel(r).op = op
IsJoin(r, kinds)   == Rel(r).op = "join" /\ Rel(r).kind \in kinds
IsSetOp(r, names)  == Rel(r).op = "setop" /\ Rel(r).operator \in names

\* A set operation's left and right columns for one of its own, by position;
\* {} when the inputs pair by name or differ in width.
Arms(c) ==
  LET s == Rel(c[1]) IN
  IF s.byName \/ Len(Rel(s.left).output) # Len(Rel(s.right).output) THEN {}
  ELSE {[left |-> <<s.left, c[2]>>, right |-> <<s.right, c[2]>>]}
=============================================================================
