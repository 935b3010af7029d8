----------------------------- MODULE MCSoundness -----------------------------
(***************************************************************************)
(* Families of programs for TLC.  Every family is a few tables of at most  *)
(* two columns, the same query shape over them, and every combination of   *)
(* join kind, condition and accepted Properties the family varies.         *)
(***************************************************************************)
EXTENDS Soundness, Programs

-----------------------------------------------------------------------------
(* t(a, b) JOIN u(c, d) ON ...: t is 1, u is 2, their aliases 3 and 4, the *)
(* join 5, and a WHERE over it 6.                                          *)

Kinds == {"inner", "left", "right", "full", "semi", "anti"}
OuterKinds == {"left", "right", "full"}

JoinBase(kind, on) ==
  <<Table({1, 2}, <<Bit, Maybe>>), Table({1, 2}, <<Bit, Maybe>>), AliasOf(1, 2), AliasOf(2, 2),
    JoinOf(kind, 3, 2, 4, 2, on)>>

\* a = c, b = d, c = 1, ...
EqAC == Equality(C(3, 1), C(4, 1))
EqBD == Equality(C(3, 2), C(4, 2))
EqD1 == Equality(C(4, 2), Const(1))

OnConditions ==
  {{EqAC}, {EqAC, EqBD}, {EqAC, EqD1}, {Equality(C(4, 1), Const(1))},
   {EqAC, Equality(C(3, 2), Const(1))},
   {EqAC, Equality(C(4, 1), C(4, 2))}, {EqAC, Equality(C(3, 1), C(4, 2))},
   {EqAC, IsNull(C(4, 2))}, {EqAC, IsNull(C(3, 2))}, {EqAC, IsNotNull(C(4, 2))},
   {Equality(Succ(C(3, 1)), C(4, 2))}, {Equality(C(3, 1), Succ(C(4, 2)))},
   {Equality(PureFn(C(3, 2)), C(4, 2))}, {InList(C(4, 2), {Const(1), Const(2)}), EqBD},
   {Or({{EqAC}, {EqBD}})}, {Or({{EqAC, EqD1}, {Equality(C(3, 2), C(4, 1))}})}}

JoinKnowledge ==
  {{Unique(Cols(2, {1}))}, {Unique(Cols(2, {1, 2}))}, NonNullKey(1) \union NonNullKey(2),
   {Unique(Cols(1, {1})), Fd(Cols(2, {1}), Cols(2, {2}))}, {Unique(Cols(1, {2})), Unique(Cols(2, {2}))}}

PlainJoins ==
  {Program(JoinBase(kind, on), accepted, {}) : kind \in Kinds, on \in OnConditions, accepted \in JoinKnowledge}

\* The right input is a derived table, whose dependencies hold of NULLs too.
DerivedJoins ==
  {Program(<<Table({1, 2}, <<Bit, Maybe>>), Table({1, 2}, <<Bit, Maybe>>), AliasOf(1, 2), right,
             JoinOf(kind, 3, 2, 4, 2, on)>>, {Unique(Cols(1, {1}))}, {}) :
     kind \in Kinds, on \in {{EqAC}, {EqBD}, {EqAC, EqD1}, {EqAC, IsNull(C(3, 2))}},
     right \in {ProjectOf(2, <<C(2, 1), Const(1)>>), DistinctOf(2, <<C(2, 1), C(2, 2)>>),
                GroupBy(2, {2}, <<AnyAggregate(C(2, 1)), C(2, 2)>>)}}

JoinPrograms == PlainJoins \union DerivedJoins

WhereConditions ==
  {{Equality(C(5, 2), Const(1))}, {Equality(C(5, 1), C(5, 2))}, {Equality(C(5, 4), Const(1))},
   {IsNotNull(C(5, 3))}, {Equality(C(5, 2), C(5, 4))}, {IsNull(C(5, 4))}, {IsNotNull(Succ(C(5, 4)))},
   {Or({{Equality(C(5, 1), Const(1))}, {Equality(C(5, 4), Const(1))}})},
   {Or({{Equality(C(5, 3), Const(1))}, {IsNotNull(C(5, 4)), Equality(C(5, 2), Const(1))}})}}

WherePrograms ==
  {Program(JoinBase(kind, on) \o <<FilterOf(5, 4, where)>>, accepted, {}) :
     kind \in Kinds \ {"semi", "anti"}, where \in WhereConditions,
     on \in {{EqAC}, {EqBD}, {EqAC, EqBD}, {EqAC, IsNull(C(4, 2))}},
     accepted \in {{Unique(Cols(2, {1}))}, {Unique(Cols(1, {1})), Unique(Cols(2, {1}))},
                   {Unique(Cols(1, {2})), Unique(Cols(2, {2}))}}}

-----------------------------------------------------------------------------
(* Grouping, duplicates and computed columns over t(a, b): a is an integer *)
(* and b text whose collation equates 2 and 3.                             *)

Rows(q) == <<Table({1}, <<Maybe, {0, 2, 3}>>), AliasOf(1, 2), FilterOf(2, 2, q)>>

GroupingStages ==
  {DistinctOf(3, <<C(3, 1), C(3, 2)>>), DistinctOf(3, <<C(3, 1)>>),
   DistinctOf(3, <<Succ(C(3, 1)), C(3, 2)>>), DistinctOf(3, <<PureFn(C(3, 2)), C(3, 1)>>),
   GroupBy(3, {1}, <<C(3, 1), AnyAggregate(C(3, 2)), CountAll>>),
   GroupBy(3, {1}, <<C(3, 2), AnyAggregate(C(3, 1)), AnyAggregate(C(3, 1))>>),
   GroupBy(3, {1}, <<Succ(C(3, 1)), AnyAggregate(C(3, 1)), AnyAggregate(C(3, 2))>>),
   GroupBy(3, {1, 2}, <<C(3, 1), PureFn(C(3, 2))>>),
   GroupBy(3, {}, <<CountAll, Const(1)>>),
   QualifyBy(3, {1}, <<C(3, 1), C(3, 2)>>), QualifyBy(3, {2}, <<Succ(C(3, 1)), C(3, 2)>>),
   QualifyBy(3, {}, <<C(3, 1), PureFn(C(3, 1))>>),
   LimitOf(3, 2, 1), LimitOf(3, 2, 2),
   ProjectOf(3, <<C(3, 1), Succ(C(3, 1)), C(3, 2)>>), ProjectOf(3, <<PureFn(C(3, 1)), C(3, 2)>>),
   ProjectOf(3, <<PureFn(C(3, 2)), C(3, 2)>>), ProjectOf(3, <<C(3, 1), C(3, 1), NullLiteral>>),
   ProjectOf(3, <<Coalesce(<<C(3, 1), Const(2)>>), Succ(Succ(C(3, 1)))>>)}

FinalStages(n) ==
  {ProjectOf(4, [i \in 1..n |-> C(4, n + 1 - i)]), ProjectOf(4, <<PureFn(C(4, 1))>>),
   DistinctOf(4, <<C(4, n)>>), GroupBy(4, {1}, <<C(4, n), AnyAggregate(C(4, 1))>>)}

GroupingKnowledge ==
  {{}, {Unique(Cols(1, {1}))}, NonNullKey(1), {Unique(Cols(1, {2}))}, {Unique(Cols(1, {1, 2}))},
   {Fd(Cols(1, {1}), Cols(1, {2}))}, {Fd(Cols(1, {2}), Cols(1, {1}))},
   {Fd(Cols(1, {2}), Cols(1, {1})), NotNull(<<1, 2>>)}}

GroupingPrograms ==
  UNION {{Program(Rows(q) \o <<stage, final>>, accepted, {}) : final \in FinalStages(Len(stage.output))} :
     q \in {{}, {Equality(C(2, 1), Const(1))}, {Equality(C(2, 2), Const(2))}, {Equality(PureFn(C(2, 2)), C(2, 1))}},
     stage \in GroupingStages, accepted \in GroupingKnowledge}

-----------------------------------------------------------------------------
(* Set operations of a filtered t(a, b) and a projected u(c, d), and what   *)
(* is read from them.                                                      *)

Branches(q, right) ==
  <<Table({1}, <<Bit, {2, 3}>>), Table({1}, <<Bit, {2, 3}>>), FilterOf(1, 2, q), ProjectOf(2, right)>>

SetOperators == {"union", "intersect", "except"}

SetOperationPrograms ==
  {Program(Branches(q, right) \o <<SetOpOf(operator, distinct, 3, 4, 2), final>>, accepted, {}) :
     operator \in SetOperators, distinct \in BOOLEAN,
     q \in {{}, {IsNotNull(C(1, 1))}},
     right \in {<<C(2, 1), C(2, 2)>>, <<Coalesce(<<C(2, 1), Const(1)>>), C(2, 2)>>},
     final \in {AliasOf(5, 2), DistinctOf(5, <<C(5, 1)>>), SetOpOf("union", TRUE, 5, 3, 2), SetOpOf("except", FALSE, 5, 3, 2),
                FilterOf(5, 2, {Equality(C(5, 2), Const(2))})},
     accepted \in {{Unique(Cols(1, {1}))}, {Unique(Cols(1, {2})), NotNull(<<2, 1>>)}}}

-----------------------------------------------------------------------------
(* Outer joins over outer joins: t(a) .. u(b) is joined to w(c), or to     *)
(* itself through two aliases of one CTE, under a WHERE.                   *)

Three == <<Table({1}, <<Maybe>>), Table({1}, <<Maybe>>), Table({1}, <<Bit>>)>>

NestedWhere ==
  {{}, {IsNotNull(C(6, 2))}, {Or({{Equality(C(6, 2), Const(1))}, {Equality(C(6, 3), Const(1))}})}}

NestedPrograms ==
  {Program(Three \o <<JoinOf(inner, 1, 1, 2, 1, {Equality(C(1, 1), C(2, 1))}), AliasOf(4, 2),
                      JoinOf(outer, 5, 2, 3, 1, on), FilterOf(6, 3, where),
                      ProjectOf(7, <<Coalesce(<<C(7, 2), C(7, 3)>>), C(7, 1), Coalesce(<<C(7, 3), Const(1)>>)>>)>>,
           {Unique(Cols(2, {1})), Unique(Cols(3, {1}))}, {}) :
     inner \in OuterKinds, outer \in {"inner", "left", "right", "full"},
     on \in {{Equality(C(5, 2), C(3, 1))}, {Equality(C(5, 1), C(3, 1)), IsNull(C(5, 2))}},
     where \in NestedWhere}

SharedPrograms ==
  {Program(SubSeq(Three, 1, 2) \o
             <<JoinOf(inner, 1, 1, 2, 1, {Equality(C(1, 1), C(2, 1))}), AliasOf(3, 2), AliasOf(3, 2),
               JoinOf(outer, 4, 2, 5, 2, on), FilterOf(6, 4, where)>>,
           accepted, {}) :
     inner \in OuterKinds, outer \in {"inner", "left"},
     on \in {{Equality(C(4, 1), C(5, 1))}, {Equality(C(4, 2), C(5, 1))}, {Equality(C(4, 2), C(5, 2))}},
     where \in {{}, {IsNotNull(C(6, 2))}, {IsNotNull(C(6, 4))}, {Equality(C(6, 1), C(6, 4))}},
     accepted \in {{}, {Unique(Cols(2, {1}))}}}

PaddingPrograms == NestedPrograms \union SharedPrograms

-----------------------------------------------------------------------------
(* Referential coverage: a child(f, g) of a parent(k, v), each read through *)
(* some relation, joined, and the join read through another.  The coverage  *)
(* of every column by every column is asked.                                *)

Family(child, parent) ==
  <<Table({1, 2}, <<Maybe, {1}>>), Table({1}, <<{1, 2}, Bit>>), child, parent>>

Families ==
  {Family(AliasOf(1, 2), parent) :
     parent \in {AliasOf(2, 2), FilterOf(2, 2, {Equality(C(2, 2), Const(1))}), LimitOf(2, 2, 1),
                GroupBy(2, {1}, <<C(2, 1), AnyAggregate(C(2, 2))>>)}}
  \union {Family(QualifyBy(1, {2}, PassAll(1, 2)), AliasOf(2, 2))}

Wide(kind) == kind \notin {"semi", "anti"}

\* Only a semi or anti join has the width of its left input.
ReferenceStages(wide) ==
  IF wide THEN {ProjectOf(5, <<C(5, 3), C(5, 1)>>), DistinctOf(5, <<C(5, 1)>>), SetOpOf("union", FALSE, 5, 5, 4),
                JoinOf("inner", 5, 4, 2, 2, {Equality(C(5, 1), C(2, 1))})}
  ELSE {SetOpOf("union", TRUE, 5, 1, 2), SetOpOf("union", FALSE, 5, 2, 2), SetOpOf("except", FALSE, 1, 5, 2),
        SetOpOf("intersect", TRUE, 3, 5, 2)}

Pairs(columns, referenced) == {{<<c, d>>} : c \in columns, d \in referenced}

\* Single columns, and the two columns of one relation onto two of another.
ReferenceQuestions ==
  Pairs(Cols(3, {1}) \union Cols(5, {1, 2}) \union Cols(6, {1, 2}),
        Cols(2, {1}) \union Cols(4, {1}) \union Cols(5, {1}) \union Cols(6, {1}))
  \union {{<<<<r, 1>>, <<s, 1>>>>, <<<<r, 2>>, <<s, 2>>>>} : r \in {3, 5}, s \in {2, 4, 5}}

Asked(relations) ==
  {q \in ReferenceQuestions : \A p \in q : /\ p[1][2] <= Len(relations[p[1][1]].output)
                                            /\ p[2][2] <= Len(relations[p[2][1]].output)}

SingleReference ==
  {Coverage({<<<<1, 1>>, <<2, 1>>>>}), Unique(Cols(2, {1})), NotNull(<<1, 1>>)}
PairReference ==
  {Coverage({<<<<1, 1>>, <<2, 1>>>>, <<<<1, 2>>, <<2, 2>>>>}), Unique(Cols(2, {1, 2})), NotNull(<<1, 1>>), NotNull(<<1, 2>>)}

\* The condition of the join with what the author knows.
ReferenceCases ==
  {<<{EqAC}, SingleReference>>, <<{EqAC}, SingleReference \ {NotNull(<<1, 1>>)}>>,
   <<{EqAC, EqD1}, SingleReference>>, <<{EqAC, EqBD}, PairReference>>}

ReferencePrograms ==
  UNION {LET shape == family \o <<JoinOf(kind, 3, 2, 4, 2, case[1])>> IN
         {Program(shape \o <<stage>>, case[2], Asked(shape \o <<stage>>)) : stage \in ReferenceStages(Wide(kind))} :
           family \in Families, kind \in Kinds, case \in ReferenceCases}

\* The two tables themselves joined: is each child's f still found in the join?
DirectReferences ==
  {Program(<<Table({1, 2}, <<Maybe, {1}>>), Table({1}, <<{1, 2}, Bit>>), JoinOf(kind, 1, 2, 2, 2, {Equality(C(1, 1), C(2, 1))})>>,
           accepted, {{<<<<1, 1>>, <<3, 1>>>>}}) :
     kind \in Kinds, accepted \in {SingleReference, {Unique(Cols(2, {1}))}, SingleReference \ {NotNull(<<1, 1>>)}}}

-----------------------------------------------------------------------------
(* UNION BY NAME of t(a, b) and a right input that names the same columns in *)
(* the other order, and a child x(f) of the right input's first column.     *)

ByNamePrograms ==
  {Program(<<Table({1}, <<Bit, Maybe>>), Table({1}, <<Bit, Maybe>>), Table({1}, <<Maybe>>),
             UnionByName(distinct, 1, 2, 2, <<2, 1>>)>>,
           {Coverage({<<<<3, 1>>, <<2, 1>>>>})}, {{<<<<3, 1>>, <<4, 1>>>>}}) : distinct \in BOOLEAN}

\* UNION BY NAME of t(a) and u(a, b): the IR has no output column for b.
WiderByNamePrograms ==
  {Program(<<Table({1}, <<Maybe>>), Table({1}, <<Maybe, Maybe>>), UnionByName(TRUE, 1, 2, 1, <<1>>)>>, accepted, {}) :
     accepted \in {{}, {Unique(Cols(1, {1}))}}}

-----------------------------------------------------------------------------
(* t(a, b) FULL JOIN u(c, d) under a WHERE that rejects NULL of a, with c    *)
(* declared non-null.                                                       *)

FullJoinPrograms ==
  {Program(JoinBase("full", {EqAC}) \o <<FilterOf(5, 4, {IsNotNull(C(5, 1))})>>, {NotNull(<<2, 1>>)}, {})}

-----------------------------------------------------------------------------
(* Enumerated Domains of t(a, b), a an integer and b text of one collation  *)
(* or the other: what bounds a column, and a CASE over it.                  *)

Texts == {Text(2), Text(3)}
Numbers == {Const(1), Const(2)}

Narrowed(binary, q) ==
  <<TypedTable(IF binary THEN {1, 2} ELSE {1}, IF binary THEN {2} ELSE {}, <<Maybe, {0, 2, 3}>>), FilterOf(1, 2, q)>>

DomainConditions ==
  {{}, {Equality(C(1, 1), Const(1))}, {InList(C(1, 1), Texts), InList(C(1, 1), Numbers)},
   {Equality(C(1, 2), Text(3))}, {InList(C(1, 2), Texts), IsNotNull(C(1, 1))},
   {Or({{Equality(C(1, 1), Const(1))}, {InList(C(1, 1), {Text(3)}), IsNotNull(C(1, 2))}})},
   {Or({{Equality(C(1, 2), Text(2))}, {Equality(C(1, 1), Const(2))}})}}

DomainKnowledge ==
  {{Enum(<<1, 1>>, {Const(1)}), Enum(<<1, 2>>, {Text(2)})},
   {Enum(<<1, 1>>, Numbers), Enum(<<1, 2>>, Texts), NotNull(<<1, 2>>)},
   {Enum(<<1, 1>>, {Text(3)}), NotNull(<<1, 1>>)}}

CaseOutputs ==
  {<<Case(C(2, 1), <<Const(1), Const(2)>>, <<C(2, 2), Text(2)>>, NullLiteral), Coalesce(<<C(2, 2), Text(3)>>)>>,
   <<Case(C(2, 2), <<Text(3), Text(2)>>, <<Const(1), C(2, 1)>>, Const(2)), Coalesce(<<C(2, 1), Const(1)>>)>>,
   <<Case(C(2, 2), <<Text(1)>>, <<C(2, 1)>>, NullLiteral), NullLiteral>>,
   <<Case(C(2, 1), <<Text(3), Const(1)>>, <<Const(1), Const(1)>>, Const(2)), C(2, 2)>>}

\* A CASE over a CASE, and an aggregate, read what the first stage hands on.
DomainStages ==
  {AliasOf(3, 2), GroupBy(3, {2}, <<AnyAggregate(C(3, 1)), C(3, 2)>>),
   ProjectOf(3, <<Case(C(3, 1), <<Const(1), Const(2)>>, <<Const(1), C(3, 1)>>, NullLiteral), C(3, 2)>>)}

NarrowedPrograms ==
  {Program(Narrowed(binary, q) \o <<ProjectOf(2, outputs), stage>>, accepted, {}) :
     binary \in BOOLEAN, q \in DomainConditions, outputs \in CaseOutputs, stage \in DomainStages,
     accepted \in DomainKnowledge}

\* t(a) joined to u(c): each side bounded, by Knowledge or by ON.
JoinedPrograms ==
  {Program(<<Table({1}, <<Maybe>>), Table({1}, <<Maybe>>), JoinOf(kind, 1, 1, 2, 1, on), final>>, accepted, {}) :
     kind \in Kinds \ {"semi", "anti"},
     on \in {{Equality(C(1, 1), C(2, 1))}, {Equality(C(2, 1), Const(1))}, {Equality(C(1, 1), C(2, 1)), Equality(C(1, 1), Const(2))}},
     accepted \in {{Enum(<<1, 1>>, Numbers)}, {Enum(<<2, 1>>, {Const(2)}), NotNull(<<2, 1>>)}},
     final \in {ProjectOf(3, <<Case(C(3, 2), <<Const(2), Const(1)>>, <<C(3, 1), Const(1)>>, Const(2))>>),
                FilterOf(3, 2, {Equality(C(3, 1), C(3, 2))})}}

\* Set operations of binary and collated text, and of integers, each arm
\* bounded by literals of one type or of two.
UnitedTables ==
  {<<TypedTable({1}, {1}, <<{0, 2, 3}>>), Table({}, <<{0, 2, 3}>>)>>, <<Table({1}, <<Maybe>>), Table({1}, <<Maybe>>)>>}

UnitedPrograms ==
  {Program(tables \o <<SetOpOf(operator, distinct, 1, 2, 1),
             ProjectOf(3, <<Case(C(3, 1), <<Text(2), Const(2)>>, <<Const(1), Const(2)>>, NullLiteral), C(3, 1)>>)>>,
           {Enum(<<1, 1>>, left), Enum(<<2, 1>>, right)}, {}) :
     tables \in UnitedTables, operator \in SetOperators, distinct \in BOOLEAN,
     left \in {{Text(2)}, Texts}, right \in {{Text(3)}, {Const(2)}, Texts}}

DomainPrograms == NarrowedPrograms \union JoinedPrograms \union UnitedPrograms

-----------------------------------------------------------------------------
(* Rewrites: t(a) joined to u(c) and then to w(e), of which the Select may  *)
(* read a and e only; a WHERE subquery; DISTINCT and GROUP BY over t(a, b). *)

References == {Unique(Cols(2, {1})), NotNull(<<1, 1>>), Coverage({<<<<1, 1>>, <<2, 1>>>>})}

\* A WHERE over a FULL JOIN only where its two paddings, which the null
\* sources do not tell apart, lead to nothing false.
ChainConditions(first, second, accepted) ==
  {{}} \union CASE second # "full" -> {{IsNotNull(C(5, 2))}, {IsNotNull(C(5, 3))}}
                [] second = "full" /\ first # "inner" /\ accepted # References -> {{IsNotNull(C(5, 3))}}
                [] OTHER -> {}

ChainedJoins ==
  UNION {{Program(<<Table({1}, <<Bit>>), Table({1}, <<Bit>>), Table({1}, <<Bit>>),
                    JoinOf(first, 1, 1, 2, 1, {Equality(C(1, 1), C(2, 1))}), JoinOf(second, 4, 2, 3, 1, on),
                    FilterOf(5, 3, where), ProjectOf(6, <<C(6, 1), C(6, 3)>>)>>, accepted, {}) :
            where \in ChainConditions(first, second, accepted)} :
     first \in {"inner", "left", "right"}, second \in {"inner", "left", "right", "full"},
     on \in {{Equality(C(4, 1), C(3, 1))}, {Equality(C(4, 2), C(3, 1))}},
     accepted \in {{Unique(Cols(2, {1}))}, References}}

Subqueries ==
  {Program(<<Table({1}, <<Maybe>>), Table({1}, <<Bit>>), JoinOf(kind, 1, 1, 2, 1, {Equality(C(1, 1), C(2, 1))}),
             ProjectOf(3, <<C(3, 1)>>)>>, accepted, {}) :
     kind \in {"semi", "inner"}, accepted \in {References, References \ {NotNull(<<1, 1>>)}}}

Deduplicated ==
  {Program(<<Table({1}, <<Maybe, {0, 2, 3}>>), FilterOf(1, 2, q), stage>>, accepted, {}) :
     q \in {{}, {IsNotNull(C(1, 1))}, {Equality(C(1, 2), Const(2))}},
     stage \in {DistinctOf(2, <<C(2, 1)>>), DistinctOf(2, <<C(2, 2), C(2, 1)>>), DistinctOf(2, <<Succ(C(2, 1)), C(2, 2)>>),
                GroupBy(2, {1, 2}, <<C(2, 1), C(2, 2), CountAll>>), GroupBy(2, {1, 2}, <<C(2, 2), Succ(C(2, 1))>>)},
     accepted \in {{Unique(Cols(1, {1}))}, {Unique(Cols(1, {1, 2})), NotNull(<<1, 2>>)},
                   {Fd(Cols(1, {1}), Cols(1, {2}))}, {Fd(Cols(1, {2}), Cols(1, {1}))}}}

RewritePrograms == ChainedJoins \union Subqueries \union Deduplicated

-----------------------------------------------------------------------------
(* What the runs take together: the families about keys, rows and coverage, *)
(* and those about NULL, padding, equality and values.                      *)

KeyPrograms == JoinPrograms \union GroupingPrograms \union ReferencePrograms \union DirectReferences
NullPrograms == WherePrograms \union PaddingPrograms \union SetOperationPrograms \union DomainPrograms \union RewritePrograms
=============================================================================
