------------------------------ MODULE Inference ------------------------------
(***************************************************************************)
(* The inference rules of sqlassert/rules/, as the engine evaluates them   *)
(* over one immutable program.                                             *)
(*                                                                         *)
(* The engine is demand-driven and memoized; its Stratum order (see        *)
(* Arena.tla) makes that equivalent to the bottom-up evaluation used here: *)
(* one relation after the other, and for a relation its equality groups,   *)
(* then its join facts, then its null sources, then its dependencies.      *)
(* Each variable is the memo of one group of analyses.  Evidence trees are *)
(* left out: a fact is its value.                                          *)
(***************************************************************************)
EXTENDS Ir

VARIABLES
  groups,       \* groups[r]: the partition _equality_groups computes
  joins,        \* joins[r]: [unique, exactlyOne] of a join, FALSE elsewhere
  sources,      \* sources[r]: column -> its null sources
  dependencies, \* dependencies[r]: what _functional_dependencies returns
  delegations   \* delegations[r]: what _delegations returns

Accepted(kind) == {k \in program.accepted : k.kind = kind}

-----------------------------------------------------------------------------
(* rules/equality.py *)

\* Declared types are abstracted to three: an exact integer and binary text,
\* both compared by identity, and text under a collation that equates distinct
\* values, whose comparison type is unknown as a computed column's is.  The
\* three declared-type analyses then share one recursion.
RECURSIVE ComparisonType(_)
ComparisonType(c) ==
  CASE IsRef(Expr(c)) /\ ~Is(c[1], "setop")         -> ComparisonType(Expr(c).column)
    [] Is(c[1], "table") /\ c[2] \in Rel(c[1]).binary -> "text"
    [] Is(c[1], "table") /\ c[2] \in Rel(c[1]).typed  -> "integer"
    [] OTHER                                         -> "unknown"

Typed(c)        == ComparisonType(c) # "unknown"
ExactNumeric(c) == ComparisonType(c) = "integer"

SameType(c, d) == c = d \/ (Typed(c) /\ ComparisonType(c) = ComparisonType(d))

\* Each column of r that passes a column of s through, and that column.
PassThrough(r, s) ==
  {c \in OutputColumns(r) : IsRef(Expr(c)) /\ Expr(c).column[1] = s}

\* Mutation: a UNION counts as well.
KeepsSomeRows(r) == Is(r, "setop")

\* Every output row of the operation equals some row of the left input.
KeepsLeftRows(r) == IsSetOp(r, {"intersect", "except"})

EqualityInputs(r) ==
  CASE Rel(r).op \in Unary                      -> {Source(r)}
    [] IsJoin(r, {"semi", "anti"})              -> {Rel(r).left}
    [] Is(r, "join") /\ ~IsJoin(r, {"semi", "anti"}) -> {Rel(r).left, Rel(r).right}
    [] KeepsLeftRows(r)                         -> {Rel(r).left}
    [] OTHER                                    -> {}

\* Mutation: the ON of a padding join counts as well.
StrictOfEveryJoin(r) == IF Is(r, "filter") \/ Is(r, "join") THEN Rel(r).predicate ELSE {}

StrictConjuncts(r) ==
  IF Is(r, "filter") \/ IsJoin(r, {"inner", "cross", "semi"}) THEN Rel(r).predicate ELSE {}

\* The output columns of r that repeat an input column.
PassersOf(r, upstream) ==
  {c \in OutputColumns(r) : Expr(c) = Ref(upstream) /\ upstream[1] \in EqualityInputs(r)}

Merge(partition, columns) ==
  LET met == {g \in partition : g \intersect columns # {}} IN
  IF met = {} THEN partition ELSE (partition \ met) \union {UNION met}

EqualityGroups(r) ==
  LET inherited == {UNION {PassersOf(r, u) : u \in g} : g \in UNION {groups[s] : s \in EqualityInputs(r)}}
      equated   == {PassersOf(r, q.left.column) \union PassersOf(r, q.right.column) :
                     q \in {q \in StrictConjuncts(r) :
                              /\ q.e = "eq" /\ IsRef(q.left) /\ IsRef(q.right)
                              /\ PassersOf(r, q.left.column) # {}
                              /\ PassersOf(r, q.right.column) # {}
                              /\ SameType(q.left.column, q.right.column)}}
  IN FoldSet(LAMBDA s, p : Merge(p, s), {{c} : c \in OutputColumns(r)}, inherited \union equated)

EqualColumns(c) == CHOOSE g \in groups[c[1]] : c \in g

-----------------------------------------------------------------------------
(* rules/nullability.py *)

Organic == [join |-> 0, aliases |-> <<>>]
Padding(j) == [join |-> j, aliases |-> <<>>]
IsPadding(s) == s.join # 0
SeenThrough(a, s) == IF IsPadding(s) THEN [s EXCEPT !.aliases = Append(@, a)] ELSE s

NonNull(c) == sources[c[1]][c] = {}

\* TRUE for the left input and FALSE for the right, as in the code.
PaddedSides(j) ==
  CASE Rel(j).kind = "left"  -> IF joins[j].exactlyOne THEN {} ELSE {FALSE}
    [] Rel(j).kind = "right" -> {TRUE}
    [] Rel(j).kind = "full"  -> {TRUE, FALSE}
    [] OTHER                 -> {}

-----------------------------------------------------------------------------
(* rules/domain.py: the literals a column's non-null values are among.  A   *)
(* domain is {D} when they are among the literals D, and {} (None in the    *)
(* code) when nothing bounds them.                                          *)

\* Every column equated with c, here or upstream, is text compared by identity.
RECURSIVE BinaryText(_)
BinaryText(c) ==
  \A d \in EqualColumns(c) :
    IF IsRef(Expr(d)) /\ ~Is(c[1], "setop") THEN BinaryText(Expr(d).column)
    ELSE Is(c[1], "table") /\ d[2] \in Rel(c[1]).binary

\* Mutation: distinct literals are taken for distinct values.
OnlyIdentical(v, w, binary) == v = w

\* Whether some value equals both literals.  Numbers are integers here.
MayCoincide(v, w, binary) == v = w \/ v.text # w.text \/ (v.text /\ ~binary)

Meet(domains, binary) ==
  {v \in Head(domains) : \A i \in 2..Len(domains) : \E w \in domains[i] : MayCoincide(v, w, binary)}

\* The values of the first known bound that every other one admits.
Intersection(c, bounds) ==
  LET known == SelectSeq(bounds, LAMBDA b : b # {})
      sets  == [i \in DOMAIN known |-> CHOOSE D \in known[i] : TRUE]
  IN IF Len(known) <= 1 THEN UNION Elements(known) ELSE {Meet(sets, BinaryText(c))}

\* A value that comes from one of several places.
EitherOf(bounds) == IF {} \in bounds THEN {} ELSE {UNION UNION bounds}

RECURSIVE DomainOf(_), ExpressionDomain(_), ConjunctBound(_, _)

\* The literals that are WHEN arms.
Listed(x) == {w \in Elements(x.whens) : w.e = "const"}

ExhaustiveCase(x) == \E D \in ExpressionDomain(x.operand) : D \subseteq Listed(x)

ElseUnreachable(x) ==
  /\ ExhaustiveCase(x)
  /\ x.operand.e = "const" \/ (IsRef(x.operand) /\ NonNull(x.operand.column))

ExpressionDomain(x) ==
  CASE x.e = "ref"      -> DomainOf(x.column)
    [] x.e = "const"    -> {{x}}
    [] x.e = "null"     -> {{}}
    [] x.e = "coalesce" -> EitherOf({ExpressionDomain(y) : y \in Elements(x.arguments)})
    [] x.e = "any"      -> ExpressionDomain(x.argument)
    [] x.e = "case"     -> EitherOf({ExpressionDomain(y) : y \in Elements(x.thens)}
                                    \union (IF ElseUnreachable(x) THEN {} ELSE {ExpressionDomain(x.default)}))
    [] OTHER            -> {}

\* Mutation: the ON of an outer join bounds its preserved side as well.
HoldsOnEveryRow(r, source) == Rel(r).predicate

\* The conjuncts that are TRUE on every row of r that carries a value of `source`.
HoldsOnCarriers(r, source) ==
  IF \/ Is(r, "filter") \/ IsJoin(r, {"inner", "cross", "semi"})
     \/ IsJoin(r, {"left"}) /\ source[1] = Rel(r).right
     \/ IsJoin(r, {"right"}) /\ source[1] = Rel(r).left
  THEN Rel(r).predicate ELSE {}

\* What `c = x` says of c.  A comparison that may cast its operands says nothing.
BoundDomain(c, x) ==
  IF x.e \in {"const", "null"} \/ (IsRef(x) /\ SameType(c, x.column)) THEN ExpressionDomain(x) ELSE {}

Bounds(conjuncts, c) == {ConjunctBound(q, c) : q \in conjuncts} \ {{}}

\* The values c takes on the rows where q is TRUE.
ConjunctBound(q, c) ==
  CASE q.e = "eq" /\ q.left = Ref(c) -> BoundDomain(c, q.right)
    [] q.e = "eq" /\ q.left # Ref(c) /\ q.right = Ref(c) -> BoundDomain(c, q.left)
    [] q.e = "in" /\ q.operand = Ref(c) -> {q.values}
    [] q.e = "or" -> EitherOf({Intersection(c, SetToSeq(Bounds(part, c))) : part \in q.parts})
    [] OTHER -> {}

\* An INTERSECT row equals a right one under the left column's comparison.
SetOperationDomain(c) ==
  LET s     == Rel(c[1])
      left  == ExpressionDomain(Expr(c))
      both(arm) ==
        IF (\E D \in DomainOf(arm.right) : \E v \in D : v.text) /\ ~BinaryText(arm.left) THEN left
        ELSE Intersection(c, <<left, DomainOf(arm.right)>>)
      either(arm) == {D \in EitherOf({left, DomainOf(arm.right)}) : Cardinality({v.text : v \in D}) <= 1}
  IN CASE s.operator = "except"                    -> left
       [] s.operator = "intersect" /\ Arms(c) = {} -> left
       [] s.operator = "intersect" /\ Arms(c) # {} -> UNION {both(arm) : arm \in Arms(c)}
       [] s.operator = "union"                     -> UNION {either(arm) : arm \in Arms(c)}

ComputedDomain(c) ==
  CASE Is(c[1], "table") -> {}
    [] Is(c[1], "setop") -> SetOperationDomain(c)
    [] Rel(c[1]).op \in {"filter", "join"} ->
         Intersection(c, <<ExpressionDomain(Expr(c))>>
                           \o SetToSeq(Bounds(HoldsOnCarriers(c[1], Expr(c).column), Expr(c).column)))
    [] OTHER -> ExpressionDomain(Expr(c))

OwnDomain(c) ==
  Intersection(c, <<ComputedDomain(c)>> \o
                    SetToSeq({{k.values} : k \in {k \in Accepted("enumerated_domain") : k.column = c}}))

\* A column has the values of every column it equals.
DomainOf(c) ==
  LET members == SelectSeq([i \in DOMAIN Rel(c[1]).output |-> <<c[1], i>>], LAMBDA d : d \in EqualColumns(c))
  IN Intersection(c, [i \in DOMAIN members |-> OwnDomain(members[i])])

-----------------------------------------------------------------------------
(* rules/nullability.py, continued: a CASE is NULL when the arm it takes is *)

RECURSIVE ExpressionSources(_)
ExpressionSources(x) ==
  CASE x.e = "ref"               -> sources[x.column[1]][x.column]
    [] x.e \in {"const", "count"} -> {}
    [] x.e \in {"any", "call"}   -> ExpressionSources(x.argument)
    [] x.e = "case"              -> UNION {ExpressionSources(y) : y \in Elements(x.thens)}
                                    \union (IF ElseUnreachable(x) THEN {} ELSE ExpressionSources(x.default))
    [] x.e = "coalesce" ->
         LET each   == {ExpressionSources(x.arguments[i]) : i \in DOMAIN x.arguments}
             common == {s \in UNION each : IsPadding(s) /\ \A ss \in each : s \in ss}
         IN IF {} \in each THEN {}
            ELSE common \union (IF \E ss \in each : ss \ common # {} THEN {Organic} ELSE {})
    [] OTHER                     -> {Organic}

RECURSIVE NullRejected(_)
NullRejected(conjuncts) ==
  UNION {CASE q.e = "or"      -> {c \in UNION {NullRejected(p) : p \in q.parts} :
                                    \A p \in q.parts : c \in NullRejected(p)}
           [] q.e = "notnull" -> StrictInputs(q.operand)
           [] OTHER           -> StrictInputs(q) : q \in conjuncts}

OnRejected(j) ==
  LET rejected == NullRejected(Rel(j).predicate) IN
  CASE Rel(j).kind \in {"inner", "semi"} -> rejected
    [] Rel(j).kind = "left"  -> rejected \intersect OutputColumns(Rel(j).right)
    [] Rel(j).kind = "right" -> rejected \intersect OutputColumns(Rel(j).left)
    [] OTHER -> {}

\* Mutation: every source of a rejected column is taken for a padding.
RejectedSources(rejected, c, found) == found \ UNION {sources[d[1]][d] : d \in rejected}

\* What is left of `found`, the sources of input column c, once the rows on
\* which a rejected column is NULL are gone.
Rejected(rejected, c, found) ==
  found \ ((IF c \in rejected THEN {Organic} ELSE {})
           \union {s \in UNION {sources[d[1]][d] : d \in rejected} : IsPadding(s)})

\* A UNION's column is non-null when both arms are.
UnionNonNull(arm) == NonNull(arm.left) /\ NonNull(arm.right)

SetOperationSources(c) ==
  LET s == Rel(c[1])
      leftOf == Expr(c).column
      proved == CASE s.operator = "union" ->
                       \E arm \in Arms(c) : UnionNonNull(arm)
                  [] s.operator = "intersect" ->
                       \E arm \in Arms(c) : NonNull(arm.left) \/ NonNull(arm.right)
                  [] OTHER ->
                       IF Arms(c) = {} THEN NonNull(leftOf) ELSE \E arm \in Arms(c) : NonNull(arm.left)
  IN IF proved THEN {} ELSE {Organic}

JoinSources(j, c) ==
  Rejected(OnRejected(j), Expr(c).column, ExpressionSources(Expr(c)))
    \union (IF (Expr(c).column[1] = Rel(j).left) \in PaddedSides(j) THEN {Padding(j)} ELSE {})

FilterSources(r, c) ==
  Rejected(NullRejected(Rel(r).predicate), Expr(c).column, ExpressionSources(Expr(c)))

OutputSources(r, c) ==
  CASE Is(r, "table")  -> {Organic}
    [] Is(r, "setop")  -> SetOperationSources(c)
    [] Is(r, "join")   -> JoinSources(r, c)
    [] Is(r, "filter") -> FilterSources(r, c)
    [] Is(r, "alias")  -> {SeenThrough(r, s) : s \in ExpressionSources(Expr(c))}
    [] Is(r, "aggregate") /\ c[2] \notin Rel(r).grouping ->
         {IF IsPadding(s) THEN Organic ELSE s : s \in ExpressionSources(Expr(c))}
    [] OTHER -> ExpressionSources(Expr(c))

NullSources(r) ==
  [c \in OutputColumns(r) |->
     IF [kind |-> "non_null_column", column |-> c] \in program.accepted THEN {} ELSE OutputSources(r, c)]

-----------------------------------------------------------------------------
(* rules/uniqueness.py: attribute closure *)

\* Whether attribute a is non-null on every row of r (_definite).
Definite(r, a) ==
  IF IsColumn(a) THEN NonNull(a)
  ELSE a = RowIdentity(r) \/ (Is(r, "join") /\ (a[1] = Rel(r).left) \notin PaddedSides(r))

RowAttributes(r) ==
  OutputColumns(r) \union
    CASE IsJoin(r, {"semi", "anti"}) -> {RowIdentity(Rel(r).left)}
      [] Is(r, "join") /\ ~IsJoin(r, {"semi", "anti"}) -> {RowIdentity(Rel(r).left), RowIdentity(Rel(r).right)}
      [] OTHER         -> {}

\* Whether two rows agreeing on `reached` may be compared as rows of the
\* delegation's input (_Delegation.valid).
Valid(d, reached, definite) ==
  \/ ~d.padded
  \/ \E a \in reached \intersect DOMAIN d.down : a \in definite \/ a \in d.matched
  \/ \E status \in d.status : status \subseteq reached

RECURSIVE Closure(_, _, _)

\* The attributes _Delegation.run brings back to its relation.
Delegated(d, reached, definite) ==
  IF ~Valid(d, reached, definite) THEN {}
  ELSE LET asked == reached \intersect DOMAIN d.down
           below == Closure(d.input, {d.down[a] : a \in asked}, {d.down[a] : a \in asked \intersect definite})
       IN {d.back[a] : a \in below \intersect DOMAIN d.back}
            \union {c \in DOMAIN d.computed : d.computed[c] \subseteq below}

\* One round of everything _closure does with the attributes reached so far;
\* `given` are the attributes its caller requested as non-null.
ClosureRound(r, reached, given) ==
  LET definite == given \union {a \in reached : Definite(r, a)} IN
  reached
    \union {d.dependent : d \in {d \in dependencies[r] :
              d.determinant \subseteq reached /\ (d.strict \/ d.determinant \subseteq definite)}}
    \union (IF RowIdentity(r) \in reached THEN RowAttributes(r) ELSE {})
    \union UNION {Delegated(d, reached, definite) : d \in delegations[r]}

RECURSIVE Saturate(_, _, _)
Saturate(r, reached, given) ==
  LET more == ClosureRound(r, reached, given) IN
  IF more = reached THEN reached ELSE Saturate(r, more, given)

\* The least set closed under those rounds; Closure.tla models the worklist
\* that computes it.
Closure(r, columns, definite) == Saturate(r, columns, definite)

UniqueSet(columns) ==
  \E r \in RelationOf(columns) : RowIdentity(r) \in Closure(r, columns, columns)

-----------------------------------------------------------------------------
(* rules/uniqueness.py: delegations *)

\* A one-to-one column of r with the column of s it is a function of.
OneToOne(r, s) ==
  LET injective == {c \in OutputColumns(r) \ PassThrough(r, s) :
                      \E u \in InjectiveInput(Expr(c)) : u[1] = s /\ ExactNumeric(u)}
  IN [c \in PassThrough(r, s) \union injective |-> CHOOSE u \in InjectiveInput(Expr(c)) : TRUE]

\* The inverse dict keeps the last entry of a column mapped twice, and the
\* pass-through columns come last.
Inverted(r, s, down) ==
  [u \in {down[c] : c \in DOMAIN down} |->
     LET own    == {c \in DOMAIN down : down[c] = u}
         passed == own \intersect PassThrough(r, s)
         last   == IF passed # {} THEN passed ELSE own
     IN CHOOSE c \in last : \A d \in last : d[2] <= c[2]]

\* The columns computed from columns of s compared by identity.
IdentityInputs(x, columns) ==
  IF IsPure(x) /\ \A c \in Determinants(x) : c \in columns /\ Typed(c) THEN {Determinants(x)} ELSE {}

Computed(r, s) ==
  LET pure == {c \in OutputColumns(r) : ~IsRef(Expr(c)) /\ IdentityInputs(Expr(c), OutputColumns(s)) # {}}
  IN [c \in pure |-> Determinants(Expr(c))]

Unpadded == [padded |-> FALSE, matched |-> {}, status |-> {}]

Delegation(s, down, back, computed, validity) ==
  [input |-> s, down |-> down, back |-> back, computed |-> computed, padded |-> validity.padded,
   matched |-> validity.matched, status |-> validity.status]

RowPreserving(r, s) ==
  LET down == OneToOne(r, s) @@ (RowIdentity(r) :> RowIdentity(s)) IN
  Delegation(s, down, Inverted(r, s, OneToOne(r, s)) @@ (RowIdentity(s) :> RowIdentity(r)), Computed(r, s), Unpadded)

\* Each output row stands for input rows that share its pass-through values.
Grouped(r, s) ==
  LET oneToOne  == OneToOne(r, s)
      back      == Inverted(r, s, oneToOne)
      identity  == RowIdentity(s) :> RowIdentity(r)
      isGroup(c)  == c[2] \in Rel(r).grouping
      constant  == Closure(s, {oneToOne[c] : c \in {c \in DOMAIN oneToOne : isGroup(c)}}, {})
      picked    == {c \in OutputColumns(r) : Expr(c).e = "any" /\ IsRef(Expr(c).argument)
                                             /\ Expr(c).argument.column \in constant}
      lastPick(u) == CHOOSE c \in picked : /\ Expr(c).argument.column = u
                                           /\ \A d \in picked : Expr(d).argument.column = u => d[2] <= c[2]
      backPicked == [u \in {Expr(c).argument.column : c \in picked} |-> lastPick(u)]
  IN IF Is(r, "aggregate")
     THEN Delegation(s, [c \in {c \in DOMAIN oneToOne : isGroup(c)} |-> oneToOne[c]],
                     backPicked @@ identity @@ back, Computed(r, s), Unpadded)
     ELSE Delegation(s, oneToOne, identity @@ back, Computed(r, s), Unpadded)

JoinOutputs(j) ==
  [u \in OutputColumns(Rel(j).left) \union OutputColumns(Rel(j).right) |->
     <<j, IF u[1] = Rel(j).left THEN u[2] ELSE u[2] + Len(Rel(Rel(j).left).output)>>]

Recognized(q) ==
  CASE q.e = "eq"                  -> {q.left.e, q.right.e} \subseteq {"ref", "const", "null"}
    [] q.e \in {"isnull", "notnull"} -> q.operand.e \in {"ref", "const", "null"}
    [] OTHER                       -> FALSE

\* What fixes on the preserved side whether a row matched: {} for a full join.
MatchStatus(j, paddedLeft) ==
  LET preserved == IF paddedLeft THEN Rel(j).right ELSE Rel(j).left IN
  IF Rel(j).kind \notin {"left", "right"} THEN {}
  ELSE IF \A q \in Rel(j).predicate : Recognized(q)
  THEN {{JoinOutputs(j)[c] : c \in UNION {Determinants(q) : q \in Rel(j).predicate} \intersect OutputColumns(preserved)}}
  ELSE {{RowIdentity(preserved)}}

\* Mutation: any column of the padded side tells matched rows.
AnyOfSide(j, c) == TRUE

\* Column c of join j is NULL on padded rows only.
PaddedOnly(j, c) == sources[j][c] \subseteq {Padding(j)}

JoinSide(j, left) ==
  LET side == IF left THEN Rel(j).left ELSE Rel(j).right
      own  == {c \in OutputColumns(j) : Expr(c).column[1] = side}
      down == [c \in own |-> Expr(c).column] @@ (RowIdentity(side) :> RowIdentity(side))
      back == [u \in OutputColumns(side) |-> JoinOutputs(j)[u]] @@ (RowIdentity(side) :> RowIdentity(side))
      never == [c \in {} |-> {}]
  IN IF left \notin PaddedSides(j) THEN Delegation(side, down, back, never, Unpadded)
     ELSE Delegation(side, down, back, never,
            [padded  |-> TRUE,
             matched |-> {RowIdentity(side)} \union {c \in own : PaddedOnly(j, c)},
             status  |-> MatchStatus(j, left)])

Delegations(r) ==
  CASE Rel(r).op \in {"named", "alias", "filter", "project", "limit", "qualify"} -> {RowPreserving(r, Source(r))}
    [] IsJoin(r, {"semi", "anti"})         -> {RowPreserving(r, Rel(r).left)}
    [] Is(r, "join") /\ ~IsJoin(r, {"semi", "anti"}) -> {JoinSide(r, TRUE), JoinSide(r, FALSE)}
    [] Rel(r).op \in {"aggregate", "distinct"} -> {Grouped(r, Source(r))}
    [] KeepsLeftRows(r)                    -> {Grouped(r, Rel(r).left)}
    [] OTHER                               -> {}

-----------------------------------------------------------------------------
(* rules/uniqueness.py: the dependencies a relation introduces itself *)

Strict(determinant, dependent) == [determinant |-> determinant, dependent |-> dependent, strict |-> TRUE]
Lax(determinant, dependent)    == [determinant |-> determinant, dependent |-> dependent, strict |-> FALSE]

DeclaredDependencies(r) ==
  {Lax(k.columns, RowIdentity(r)) : k \in {k \in Accepted("unique_set") : k.columns \subseteq OutputColumns(r)}}
  \union UNION {{Lax(k.determinant, c) : c \in k.dependent} :
     k \in {k \in Accepted("functional_dependency") : k.determinant \union k.dependent \subseteq OutputColumns(r)}}

ConstantDependencies(r) ==
  {Strict({}, c) : c \in {c \in OutputColumns(r) : Expr(c).e \in {"const", "null"}}}

\* What conjuncts that hold on every row say of the columns `outputs` maps.
EqualityDependencies(conjuncts, outputs) ==
  LET equalities == {q \in conjuncts : q.e = "eq"}
      kept(x)    == IsRef(x) /\ x.column \in DOMAIN outputs
      bothKept   == {q \in equalities : kept(q.left) /\ kept(q.right)}
      literal    == {q \in equalities : (kept(q.left) /\ q.right.e = "const") \/ (q.left.e = "const" /\ kept(q.right))}
      sides(q)   == {<<q.left, q.right>>, <<q.right, q.left>>}
      computed   == {p \in UNION {sides(q) : q \in equalities \ (bothKept \union literal)} :
                       kept(p[1]) /\ Typed(p[1].column)}
      fixed(q)   == IF q.left.e = "const" THEN q.right.column ELSE q.left.column
  IN {Strict({outputs[p[1].column]}, outputs[p[2].column]) : p \in UNION {sides(q) : q \in bothKept}}
     \union {Strict({}, outputs[fixed(q)]) : q \in literal}
     \union {Strict({}, outputs[q.operand.column]) : q \in {q \in conjuncts : q.e = "isnull" /\ kept(q.operand)}}
     \union UNION {{Strict({outputs[c] : c \in inputs}, outputs[p[1].column]) :
                      inputs \in IdentityInputs(p[2], DOMAIN outputs)} : p \in computed}
     \union UNION {{Strict({outputs[p[1].column]}, outputs[c]) :
                      c \in {c \in InjectiveInput(p[2]) : c \in DOMAIN outputs /\ ExactNumeric(c) /\ ExactNumeric(p[1].column)}} : p \in computed}

\* Paulley Lemma 9: what an outer join's ON condition still guarantees.
OuterOnDependencies(j, paddedLeft) ==
  LET padded == IF paddedLeft THEN Rel(j).left ELSE Rel(j).right
      out    == JoinOutputs(j)
      status == CHOOSE s \in MatchStatus(j, paddedLeft) : TRUE
      of(x)  == IsRef(x) /\ x.column[1] = padded
      pairs  == {p \in UNION {{<<q.left, q.right>>, <<q.right, q.left>>} : q \in {q \in Rel(j).predicate : q.e = "eq"}} :
                   of(p[1])}
      across == {p \in pairs : IsRef(p[2]) /\ ~of(p[2])}
  IN {Strict({}, out[q.operand.column]) : q \in {q \in Rel(j).predicate : q.e = "isnull" /\ of(q.operand)}}
     \union {Strict({out[p[2].column]}, out[p[1].column]) : p \in {p \in pairs : of(p[2])}}
     \union {Strict(status, out[p[1].column]) : p \in across \union {p \in pairs : p[2].e = "const"}}
     \union {Lax({out[p[1].column]}, out[p[2].column]) : p \in across}

JoinDependencies(j) ==
  LET left == RowIdentity(Rel(j).left)  right == RowIdentity(Rel(j).right)
      sides == {Strict({left, right}, RowIdentity(j))}
      unique == IF Rel(j).kind \in {"inner", "left", "cross"} /\ joins[j].unique
                THEN {Strict({left}, RowIdentity(j)), Strict({left}, right)} ELSE {}
      on == CASE Rel(j).kind \in {"inner", "cross"} -> EqualityDependencies(Rel(j).predicate, JoinOutputs(j))
              [] Rel(j).kind \in {"left", "right"} -> OuterOnDependencies(j, Rel(j).kind = "right")
              [] OTHER -> {}
      \* A semi join outputs only left columns.
      outputs == [u \in OutputColumns(Rel(j).left) |-> JoinOutputs(j)[u]]
  IN CASE Rel(j).kind = "semi" -> EqualityDependencies(Rel(j).predicate, outputs)
       [] Rel(j).kind = "anti" -> {}
       [] OTHER -> sides \union unique \union on

\* Each input column of a Filter with the column passing it through.
FilterOutputs(r) == [u \in OutputColumns(Source(r)) |-> <<r, u[2]>>]

At(r, positions) == {<<r, i>> : i \in positions}

OwnDependencies(r) ==
  LET identity == RowIdentity(r) IN
  CASE Is(r, "filter")    -> EqualityDependencies(Rel(r).predicate, FilterOutputs(r))
    [] Is(r, "join")      -> JoinDependencies(r)
    [] Is(r, "aggregate") -> {Strict(At(r, Rel(r).grouping), identity)}
    [] Is(r, "distinct")  -> {Strict(OutputColumns(r), identity)}
    [] Is(r, "qualify")   -> {Strict(At(r, Rel(r).partition), identity)}
    [] Is(r, "setop") /\ Rel(r).distinct   -> {Strict(OutputColumns(r), identity)}
    [] Is(r, "limit") /\ Rel(r).count <= 1 -> {Strict({}, identity)}
    [] OTHER -> {}

FunctionalDependencies(r) == DeclaredDependencies(r) \union ConstantDependencies(r) \union OwnDependencies(r)

-----------------------------------------------------------------------------
(* rules/foreign_key.py: Referential Coverage *)

\* The input column c repeats, when a row takes it from one input row or padding.
Passed(c) ==
  IF ~IsRef(Expr(c)) \/ Is(c[1], "setop") \/ (Is(c[1], "aggregate") /\ c[2] \notin Rel(c[1]).grouping) THEN {}
  ELSE {Expr(c).column}

\* Mutation: an inner join is taken to keep its left rows.
KeepsLeft(j, side) ==
  \/ side = Rel(j).left /\ IsJoin(j, {"inner", "left", "full"})
  \/ side = Rel(j).right /\ IsJoin(j, {"right", "full"})

\* A join keeps every row of its preserved sides, and a proved Exactly One
\* Join every left row.
JoinKeeps(j, side) ==
  \/ side = Rel(j).left /\ IsJoin(j, {"left", "full"})
  \/ side = Rel(j).right /\ IsJoin(j, {"right", "full"})
  \/ side = Rel(j).left /\ IsJoin(j, {"inner"}) /\ joins[j].exactlyOne

\* The input column whose value on every input row c takes on some output row.
Kept(c) ==
  LET t == c[1] IN
  IF ~IsRef(Expr(c)) THEN {}
  ELSE LET u == Expr(c).column IN
       IF \/ Rel(t).op \in {"alias", "named", "project", "distinct"}
          \/ Is(t, "aggregate") /\ c[2] \in Rel(t).grouping
          \/ Is(t, "join") /\ JoinKeeps(t, u[1])
       THEN {u} ELSE {}

\* The upstream lists of `refs`, columns of t, whose coverage carries over to
\* them in one step, each as a function of the column.
UpstreamTargets(t, refs) ==
  IF IsSetOp(t, {"union"})
  THEN {[c \in refs |-> <<s, c[2]>>] : s \in {Rel(t).left, Rel(t).right}}
  ELSE IF Cardinality({u[1] : u \in UNION {Kept(c) : c \in refs}}) = 1 /\ \A c \in refs : Kept(c) # {}
  THEN {[c \in refs |-> Expr(c).column]}
  ELSE {}

RECURSIVE Targets(_, _)
Targets(t, refs) ==
  {[c \in refs |-> c]} \union
    UNION {LET s == CHOOSE s \in Relations : \A c \in refs : up[c][1] = s
               onward == Targets(s, {up[c] : c \in refs})
           IN {[c \in refs |-> f[up[c]]] : f \in onward} : up \in UpstreamTargets(t, refs)}

ColumnsOf(pairs)    == {p[1] : p \in pairs}
ReferencedOf(pairs) == {p[2] : p \in pairs}

\* The ways to name one member of choices[p] for every p.
Product(choices) ==
  {f \in [DOMAIN choices -> UNION {choices[p] : p \in DOMAIN choices}] : \A p \in DOMAIN choices : f[p] \in choices[p]}

SemiPartners(j, c) ==
  {p[2].column : p \in {p \in UNION {{<<q.left, q.right>>, <<q.right, q.left>>} :
                                       q \in {q \in Rel(j).predicate : q.e = "eq"}} :
                          p[1] = Expr(c) /\ IsRef(p[2]) /\ p[2].column[1] = Rel(j).right}}

RECURSIVE CoveredBy(_)

SemiJoinCovers(j, pairs) ==
  \E partner \in Product([p \in pairs |-> SemiPartners(j, p[1])]) :
    CoveredBy({<<partner[p], p[2]>> : p \in pairs})

SetOperationCovers(r, pairs) ==
  LET arm(p) == CHOOSE a \in Arms(p[1]) : TRUE
      leftCovered  == CoveredBy({<<arm(p).left, p[2]>> : p \in pairs})
      rightCovered == CoveredBy({<<arm(p).right, p[2]>> : p \in pairs})
  IN /\ \A p \in pairs : Arms(p[1]) # {}
     /\ CASE Rel(r).operator = "union"     -> leftCovered /\ rightCovered
          [] Rel(r).operator = "intersect" -> leftCovered \/ rightCovered
          [] OTHER                         -> leftCovered

InputRowsCover(pairs, targets) ==
  \E chosen \in Product([p \in pairs |-> EqualColumns(p[1])]) :
    \/ \E t \in targets : \A p \in pairs : chosen[p] = t[p[2]]
    \/ /\ \A p \in pairs : Passed(chosen[p]) # {}
       /\ Cardinality({Expr(chosen[p]).column[1] : p \in pairs}) = 1
       /\ CoveredBy({<<Expr(chosen[p]).column, p[2]>> : p \in pairs})

\* referential_coverage: `pairs` are <<referencing, referenced>> columns.
CoveredBy(pairs) ==
  \E r \in RelationOf(ColumnsOf(pairs)), t \in RelationOf(ReferencedOf(pairs)) :
    LET targets == Targets(t, ReferencedOf(pairs)) IN
    \/ \E f \in targets :
         LET upstream == {<<p[1], f[p[2]]>> : p \in pairs} IN
         \/ \E k \in Accepted("referential_coverage") : k.pairs = upstream
         \/ \A p \in upstream : p[1] = p[2]
    \/ IsJoin(r, {"semi"}) /\ SemiJoinCovers(r, pairs)
    \/ IF Is(r, "setop") THEN SetOperationCovers(r, pairs) ELSE InputRowsCover(pairs, targets)

-----------------------------------------------------------------------------
(* rules/unique_join.py and rules/exactly_one.py *)

BoundOnRight(j) ==
  {p[1].column : p \in {p \in UNION {{<<q.left, q.right>>, <<q.right, q.left>>} :
                                       q \in {q \in Rel(j).predicate : q.e = "eq"}} :
                          /\ IsRef(p[1]) /\ p[1].column[1] = Rel(j).right
                          /\ p[2].e = "const" \/ (IsRef(p[2]) /\ p[2].column[1] = Rel(j).left)}}

UniqueJoin(j) == RowIdentity(Rel(j).right) \in Closure(Rel(j).right, BoundOnRight(j), BoundOnRight(j))

IsCrossEquality(j, q) ==
  q.e = "eq" /\ IsRef(q.left) /\ IsRef(q.right)
    /\ {q.left.column[1], q.right.column[1]} = {Rel(j).left, Rel(j).right}

CrossPair(j, q) ==
  IF q.left.column[1] = Rel(j).left THEN <<q.left.column, q.right.column>> ELSE <<q.right.column, q.left.column>>

\* Mutation: a NULL left value is not looked for.
ExactlyOneOrNull(j) ==
  LET pairs == {CrossPair(j, q) : q \in {q \in Rel(j).predicate : IsCrossEquality(j, q)}} IN
  /\ Rel(j).kind # "anti" /\ UniqueJoin(j) /\ pairs # {} /\ CoveredBy(pairs)
  /\ \A q \in Rel(j).predicate : IsCrossEquality(j, q)

ExactlyOneJoin(j) ==
  LET pairs == {CrossPair(j, q) : q \in {q \in Rel(j).predicate : IsCrossEquality(j, q)}} IN
  /\ Rel(j).kind # "anti"
  /\ UniqueJoin(j)
  /\ pairs # {}
  /\ CoveredBy(pairs)
  /\ \A q \in Rel(j).predicate : IsCrossEquality(j, q)
  /\ \A c \in ColumnsOf(pairs) : NonNull(c)

JoinFacts(r) ==
  IF Is(r, "join") THEN [unique |-> UniqueJoin(r), exactlyOne |-> ExactlyOneJoin(r)]
  ELSE [unique |-> FALSE, exactlyOne |-> FALSE]

-----------------------------------------------------------------------------
(* Bottom-up evaluation, one Stratum of one relation at a time. *)

inferenceVars == <<groups, joins, sources, dependencies, delegations>>

InitInference ==
  /\ groups = <<>>  /\ joins = <<>>  /\ sources = <<>>  /\ dependencies = <<>>  /\ delegations = <<>>

\* The relation analysed next: every fact about the earlier ones is known.
NextRelation == Len(dependencies) + 1

InferGroups ==
  /\ NextRelation \in Relations /\ Len(groups) < NextRelation
  /\ groups' = Append(groups, EqualityGroups(NextRelation))
  /\ UNCHANGED <<joins, sources, dependencies, delegations>>

InferJoin ==
  /\ Len(groups) = NextRelation /\ Len(joins) < NextRelation
  /\ joins' = Append(joins, JoinFacts(NextRelation))
  /\ UNCHANGED <<groups, sources, dependencies, delegations>>

InferNullSources ==
  /\ Len(joins) = NextRelation /\ Len(sources) < NextRelation
  /\ sources' = Append(sources, NullSources(NextRelation))
  /\ UNCHANGED <<groups, joins, dependencies, delegations>>

InferDependencies ==
  /\ Len(sources) = NextRelation
  /\ dependencies' = Append(dependencies, FunctionalDependencies(NextRelation))
  /\ delegations' = Append(delegations, Delegations(NextRelation))
  /\ UNCHANGED <<groups, joins, sources>>

Infer == InferGroups \/ InferJoin \/ InferNullSources \/ InferDependencies

Inferred == Len(dependencies) = Len(program.relations)
=============================================================================
