---------------------------- MODULE SqlSemantics ----------------------------
(***************************************************************************)
(* What SQL makes of an IR program on given table contents: the standard   *)
(* the inference rules are held to.  sqlassert never runs SQL; its test    *)
(* oracle (tests/soundness_oracle.py) asks DuckDB, and this module stands  *)
(* for that database, as the comments of sqlassert/ir/model.py describe    *)
(* each node.                                                              *)
(*                                                                         *)
(* A relation's content is a set of rows [id, val]; the id tells apart     *)
(* rows with the same values, so a bag is a set.  A join row's id is the   *)
(* pair of its inputs' row ids, NoRow on a padded side.  Where SQL leaves  *)
(* the choice of rows open (LIMIT, QUALIFY, the value of AnyAggregate, the *)
(* spelling DISTINCT keeps) `pick` selects one of two outcomes.            *)
(***************************************************************************)
EXTENDS Ir

NoRow == <<>>

\* Under the collation of an untyped column, 2 and 3 are two spellings of one value.
Fold(v) == IF v = 3 THEN 2 ELSE v

\* The expressions whose value an expression may hand on.
HandedOn(x) ==
  CASE x.e = "any"      -> {x.argument}
    [] x.e = "coalesce" -> Elements(x.arguments)
    [] x.e = "case"     -> Elements(x.thens) \union {x.default}
    [] OTHER            -> {}

\* A value taken from a column keeps its collation; a computed one has none.
RECURSIVE Collated(_), CollatedExpr(_)
Collated(c) ==
  CASE Is(c[1], "table") -> c[2] \notin Rel(c[1]).typed
    [] Is(c[1], "setop") -> Collated(<<Rel(c[1]).left, c[2]>>) \/ Collated(<<Rel(c[1]).right, c[2]>>)
    [] OTHER             -> CollatedExpr(Expr(c))
CollatedExpr(x) == IF IsRef(x) THEN Collated(x.column) ELSE \E y \in HandedOn(x) : CollatedExpr(y)

\* Whether the values are text, of either collation.
RECURSIVE TextColumn(_), TextExpr(_)
TextColumn(c) ==
  IF Is(c[1], "table") THEN c[2] \in Rel(c[1]).binary \/ c[2] \notin Rel(c[1]).typed ELSE TextExpr(Expr(c))
TextExpr(x) ==
  CASE x.e = "ref"   -> TextColumn(x.column)
    [] x.e = "const" -> x.text
    [] OTHER         -> \E y \in HandedOn(x) : TextExpr(y)

\* What GROUP BY, DISTINCT, UNION and = compare of a value of column c.
Compared(c, v) == IF Fold(v) # v /\ Collated(c) THEN Fold(v) ELSE v

-----------------------------------------------------------------------------
(* Expressions over env, a function from columns to values *)

\* A pure function whose result shows the spelling of its argument, maps
\* NULL to a value and a value to NULL.
Mangle(v) == CASE v = 0 -> 1 [] v = 1 -> 0 [] OTHER -> v

RECURSIVE Eval(_, _, _), EqualTo(_, _, _)
Eval(x, env, groupSize) ==
  CASE x.e = "ref"      -> env[x.column]
    [] x.e = "const"    -> x.value
    [] x.e = "null"     -> Null
    [] x.e = "count"    -> groupSize + 1   \* 0 is taken by NULL
    [] x.e = "any"      -> Eval(x.argument, env, groupSize)
    [] x.e = "pure"     -> Mangle(Eval(x.argument, env, groupSize))
    [] x.e = "call"     -> LET v == Eval(x.argument, env, groupSize) IN IF v = Null THEN Null ELSE v + 1
    [] x.e = "coalesce" ->
         LET values  == [i \in DOMAIN x.arguments |-> Eval(x.arguments[i], env, groupSize)]
             nonNull == SelectSeq(values, LAMBDA v : v # Null)
         IN IF nonNull = <<>> THEN Null ELSE Head(nonNull)
    [] x.e = "case"     ->
         LET met == {i \in DOMAIN x.whens : EqualTo(x.operand, x.whens[i], env)} IN
         IF met = {} THEN Eval(x.default, env, groupSize)
         ELSE Eval(x.thens[CHOOSE i \in met : \A k \in met : i <= k], env, groupSize)

\* A text compared with a number is cast, and both spellings give one number.
EqualTo(x, y, env) ==
  LET v == Eval(x, env, 0)  w == Eval(y, env, 0) IN
  /\ v # Null /\ w # Null
  /\ Fold(v) = Fold(w)
  /\ v = w \/ CollatedExpr(x) \/ CollatedExpr(y) \/ TextExpr(x) # TextExpr(y)

\* Whether a conjunct is TRUE (not merely not FALSE).
RECURSIVE Holds(_, _)
Holds(q, env) ==
  CASE q.e = "eq"      -> EqualTo(q.left, q.right, env)
    [] q.e = "isnull"  -> Eval(q.operand, env, 0) = Null
    [] q.e = "notnull" -> Eval(q.operand, env, 0) # Null
    [] q.e = "in"      -> \E v \in q.values : EqualTo(q.operand, v, env)
    [] q.e = "or"      -> \E part \in q.parts : \A p \in part : Holds(p, env)

Env(s, row) == [c \in OutputColumns(s) |-> row.val[c[2]]]
Width(s) == Len(Rel(s).output)

-----------------------------------------------------------------------------
(* Choices SQL leaves open *)

Picks == {"first", "last"}

PickRow(rows, pick) ==
  LET first == CHOOSE t \in rows : TRUE IN
  IF pick = "first" \/ rows = {first} THEN first ELSE CHOOSE t \in rows \ {first} : TRUE

RECURSIVE Take(_, _, _)
Take(rows, n, pick) ==
  IF n = 0 \/ rows = {} THEN {}
  ELSE LET t == PickRow(rows, pick) IN {t} \union Take(rows \ {t}, n - 1, pick)

OtherPick(pick) == IF pick = "first" THEN "last" ELSE "first"

-----------------------------------------------------------------------------
(* Relations; `below` is the content of every earlier relation *)

Output(r, row, groupSize) ==
  [i \in DOMAIN Rel(r).output |-> Eval(Rel(r).output[i], Env(Source(r), row), groupSize)]

\* The values a column of r is grouped or deduplicated by.
Key(r, val, positions) == [i \in positions |-> Compared(<<r, i>>, val[i])]

\* The input rows of r by their key on some output columns of r.
Classes(r, rows, positions) ==
  LET key(t) == Key(r, Output(r, t, 0), positions) IN
  {{t \in rows : key(t) = k} : k \in {key(t) : t \in rows}}

\* Grouping outputs hold no aggregate, so they evaluate row by row.
GroupingKey(r, row) == [i \in Rel(r).grouping |-> Compared(<<r, i>>, Eval(Rel(r).output[i], Env(Source(r), row), 0))]

AggregateRows(r, rows, pick) ==
  LET \* Each aggregate picks its own row of the group.
      value(group, i) == Eval(Rel(r).output[i],
                              Env(Source(r), PickRow(group, IF i % 2 = 0 THEN pick ELSE OtherPick(pick))),
                              Cardinality(group))
      groups == {{t \in rows : GroupingKey(r, t) = k} : k \in {GroupingKey(r, t) : t \in rows}}
      ofNone == [id |-> NoRow, val |-> [i \in DOMAIN Rel(r).output |-> Eval(Rel(r).output[i], <<>>, 0)]]
  IN IF Rel(r).grouping = {} /\ rows = {} THEN {ofNone}
     ELSE {[id |-> PickRow(g, "first").id, val |-> [i \in DOMAIN Rel(r).output |-> value(g, i)]] : g \in groups}

JoinRows(j, below) ==
  LET left == Rel(j).left  right == Rel(j).right
      lefts == below[left]  rights == below[right]
      on(l, t) == LET env == Env(left, l) @@ Env(right, t) IN \A q \in Rel(j).predicate : Holds(q, env)
      matches == {m \in lefts \X rights : on(m[1], m[2])}
      unmatchedLeft  == {l \in lefts : ~\E m \in matches : m[1] = l}
      unmatchedRight == {t \in rights : ~\E m \in matches : m[2] = t}
      nulls(s) == [i \in 1..Width(s) |-> Null]
      joined == {[id |-> <<m[1].id, m[2].id>>, val |-> m[1].val \o m[2].val] : m \in matches}
      padRight == {[id |-> <<l.id, NoRow>>, val |-> l.val \o nulls(right)] : l \in unmatchedLeft}
      padLeft  == {[id |-> <<NoRow, t.id>>, val |-> nulls(left) \o t.val] : t \in unmatchedRight}
      leftOnly(l) == [l EXCEPT !.val = [i \in DOMAIN Rel(j).output |-> Eval(Rel(j).output[i], Env(left, l), 0)]]
  IN CASE Rel(j).kind \in {"inner", "cross"} -> joined
       [] Rel(j).kind = "left"  -> joined \union padRight
       [] Rel(j).kind = "right" -> joined \union padLeft
       [] Rel(j).kind = "full"  -> joined \union padRight \union padLeft
       [] Rel(j).kind = "semi"  -> {leftOnly(l) : l \in lefts \ unmatchedLeft}
       [] Rel(j).kind = "anti"  -> {leftOnly(l) : l \in unmatchedLeft}

\* UNION BY NAME pairs left position i with right position byName[i] (0:
\* absent, so NULL) and appends the right columns the left input lacks.
SetOperationRows(r, below, pick) ==
  LET s == Rel(r)
      lefts == below[s.left]  rights == below[s.right]
      width == 1..Width(s.left)
      rightAt(i) == IF s.byName THEN s.rightAt[i] ELSE i
      extra == {i \in 1..Width(s.right) : s.byName /\ \A k \in width : rightAt(k) # i}
      aligned(t) == [i \in width |-> IF rightAt(i) = 0 THEN Null ELSE t.val[rightAt(i)]]
      key(val) == [i \in width |-> Compared(<<r, i>>, val[i])]
      tagged == {[id |-> <<1, t.id>>, val |-> t.val, more |-> [i \in extra |-> Null]] : t \in lefts}
                  \union {[id |-> <<2, t.id>>, val |-> aligned(t), more |-> [i \in extra |-> t.val[i]]] : t \in rights}
      bare(t) == [id |-> t.id, val |-> t.val]
      all == {<<key(t.val), t.more>> : t \in tagged}
      unioned == IF s.distinct
                 THEN {bare(PickRow({t \in tagged : <<key(t.val), t.more>> = k}, pick)) : k \in all}
                 ELSE {bare(t) : t \in tagged}
      ofLeft(k)  == {t \in lefts : key(t.val) = k}
      inRight(k) == Cardinality({t \in rights : key(aligned(t)) = k})
      kept(k) == LET n == Cardinality(ofLeft(k)) IN
        CASE s.operator = "intersect" /\ s.distinct  -> IF inRight(k) > 0 THEN 1 ELSE 0
          [] s.operator = "intersect" /\ ~s.distinct -> IF inRight(k) < n THEN inRight(k) ELSE n
          [] s.operator = "except" /\ s.distinct     -> IF inRight(k) > 0 THEN 0 ELSE 1
          [] s.operator = "except" /\ ~s.distinct    -> IF inRight(k) < n THEN n - inRight(k) ELSE 0
  IN IF s.operator = "union" THEN unioned
     ELSE UNION {Take(ofLeft(k), kept(k), pick) : k \in {key(t.val) : t \in lefts}}

UnaryRows(r, rows, pick) ==
  LET mapped(ts) == {[id |-> t.id, val |-> Output(r, t, 0)] : t \in ts} IN
  CASE Rel(r).op \in {"named", "alias", "project"} -> mapped(rows)
    [] Is(r, "filter")    -> mapped({t \in rows : \A q \in Rel(r).predicate : Holds(q, Env(Source(r), t))})
    [] Is(r, "limit")     -> mapped(Take(rows, Rel(r).count, pick))
    [] Is(r, "distinct")  -> mapped({PickRow(g, pick) : g \in Classes(r, rows, DOMAIN Rel(r).output)})
    [] Is(r, "qualify")   -> mapped({PickRow(g, pick) : g \in Classes(r, rows, Rel(r).partition)})
    [] Is(r, "aggregate") -> AggregateRows(r, rows, pick)

\* tables[t] is a bag of value tuples, as a function to their multiplicity.
TableRows(bag) == {[id |-> <<v, k>>, val |-> v] : <<v, k>> \in UNION {{v} \X (1..bag[v]) : v \in DOMAIN bag}}

RowsOf(r, below, tables, pick) ==
  CASE Is(r, "table") -> TableRows(tables[r])
    [] Is(r, "join")  -> JoinRows(r, below)
    [] Is(r, "setop") -> SetOperationRows(r, below, pick)
    [] OTHER          -> UnaryRows(r, below[Source(r)], pick)

\* The content of relations 1..n.
RECURSIVE EvaluateUpTo(_, _, _)
EvaluateUpTo(n, tables, pick) ==
  IF n = 0 THEN <<>>
  ELSE LET below == EvaluateUpTo(n - 1, tables, pick) IN Append(below, RowsOf(n, below, tables, pick))

Evaluate(tables, pick) == EvaluateUpTo(Len(program.relations), tables, pick)

-----------------------------------------------------------------------------
(* What Properties mean of contents *)

\* Rows t and u of relation r have the same value of an attribute, NULL
\* agreeing with NULL; a RowIdentity's value is the row it tells apart.
SideId(r, a, t) ==
  IF a[1] = r \/ ~IsJoin(r, {"inner", "cross", "left", "right", "full"}) THEN t.id
  ELSE IF a[1] = Rel(r).left THEN t.id[1] ELSE t.id[2]

AgreeAt(r, a, t, u) ==
  IF IsColumn(a) THEN Compared(a, t.val[a[2]]) = Compared(a, u.val[a[2]])
  ELSE SideId(r, a, t) = SideId(r, a, u)

Agree(r, attributes, t, u) == \A a \in attributes : AgreeAt(r, a, t, u)

NonNullAt(columns, t) == \A c \in columns : t.val[c[2]] # Null

\* Rows that agree on the determinant, non-null on `definite`, agree on the dependents.
Determines(r, rows, determinant, definite, dependents) ==
  \A t, u \in {t \in rows : NonNullAt(definite, t)} :
    Agree(r, determinant, t, u) => Agree(r, dependents, t, u)

Covers(pairs, content) ==
  LET from == CHOOSE r \in RelationOf({p[1] : p \in pairs}) : TRUE
      to   == CHOOSE r \in RelationOf({p[2] : p \in pairs}) : TRUE
      same(p, t, u) == LET v == t.val[p[1][2]]  w == u.val[p[2][2]] IN
        IF Collated(p[1]) \/ Collated(p[2]) THEN Fold(v) = Fold(w) ELSE v = w
  IN \A t \in content[from] :
       NonNullAt({p[1] : p \in pairs}, t) => \E u \in content[to] : \A p \in pairs : same(p, t, u)

\* NULL is outside every domain; any other value equals one of the literals.
InDomain(c, v, values) == v = Null \/ \E w \in values : EqualTo(Ref(c), w, c :> v)

Satisfied(k, content) ==
  LET of(columns) == CHOOSE r \in RelationOf(columns) : TRUE IN
  CASE k.kind = "unique_set" ->
         LET r == of(k.columns) IN Determines(r, content[r], k.columns, k.columns, {RowIdentity(r)})
    [] k.kind = "functional_dependency" ->
         LET r == of(k.determinant \union k.dependent) IN
         Determines(r, content[r], k.determinant, k.determinant, k.dependent)
    [] k.kind = "non_null_column" -> \A t \in content[k.column[1]] : NonNullAt({k.column}, t)
    [] k.kind = "enumerated_domain" -> \A t \in content[k.column[1]] : InDomain(k.column, t.val[k.column[2]], k.values)
    [] k.kind = "referential_coverage" -> Covers(k.pairs, content)
=============================================================================
