------------------------------- MODULE Programs -------------------------------
(***************************************************************************)
(* Constructors of IR programs, for the model-checking modules: the nodes  *)
(* ir/convert.py builds.  The converter puts an Alias over every table;    *)
(* families leave it out where it only passes the columns through.         *)
(***************************************************************************)
EXTENDS Expressions, Integers, SequencesExt

\* The columns in `typed` compare by identity: those in `binary` are text, the
\* others integers.  The rest is text under a collation.
TypedTable(typed, binary, domain) ==
  [op |-> "table", output |-> [i \in DOMAIN domain |-> Opaque], typed |-> typed, binary |-> binary, domain |-> domain]
Table(typed, domain) == TypedTable(typed, {}, domain)
PassAll(s, n)        == [i \in 1..n |-> Ref(<<s, i>>)]
AliasOf(s, n)        == [op |-> "alias", input |-> s, output |-> PassAll(s, n)]
NamedOf(s, n)        == [op |-> "named", input |-> s, output |-> PassAll(s, n)]
FilterOf(s, n, q)    == [op |-> "filter", input |-> s, predicate |-> q, output |-> PassAll(s, n)]
ProjectOf(s, output) == [op |-> "project", input |-> s, output |-> output]
LimitOf(s, n, count) == [op |-> "limit", input |-> s, count |-> count, output |-> PassAll(s, n)]
DistinctOf(s, output) == [op |-> "distinct", input |-> s, output |-> output]
GroupBy(s, grouping, output)    == [op |-> "aggregate", input |-> s, grouping |-> grouping, output |-> output]
QualifyBy(s, partition, output) == [op |-> "qualify", input |-> s, partition |-> partition, output |-> output]
JoinOf(kind, left, nl, right, nr, q) ==
  [op |-> "join", kind |-> kind, left |-> left, right |-> right, predicate |-> q,
   output |-> IF kind \in {"semi", "anti"} THEN PassAll(left, nl) ELSE PassAll(left, nl) \o PassAll(right, nr)]
SetOpOf(operator, distinct, left, right, n) ==
  [op |-> "setop", operator |-> operator, distinct |-> distinct, byName |-> FALSE,
   left |-> left, right |-> right, output |-> PassAll(left, n)]
\* rightAt[i]: the right column with the name of the left input's i-th, 0 when it has none.
UnionByName(distinct, left, right, n, rightAt) ==
  [op |-> "setop", operator |-> "union", distinct |-> distinct, byName |-> TRUE, rightAt |-> rightAt,
   left |-> left, right |-> right, output |-> PassAll(left, n)]

Unique(columns) == [kind |-> "unique_set", columns |-> columns]
NotNull(c)      == [kind |-> "non_null_column", column |-> c]
Fd(x, y)        == [kind |-> "functional_dependency", determinant |-> x, dependent |-> y]
Enum(c, values) == [kind |-> "enumerated_domain", column |-> c, values |-> values]
Coverage(pairs) == [kind |-> "referential_coverage", pairs |-> pairs]

Program(relations, accepted, questions) ==
  [relations |-> relations, accepted |-> accepted, questions |-> questions]


C(r, i) == Ref(<<r, i>>)
Cols(r, positions) == {<<r, i>> : i \in positions}
NonNullKey(r) == {Unique({<<r, 1>>}), NotNull(<<r, 1>>)}

Bit   == {0, 1}
Maybe == {0, 1, 2}
=============================================================================
