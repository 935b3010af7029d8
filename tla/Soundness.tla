------------------------------ MODULE Soundness ------------------------------
(***************************************************************************)
(* The promise of sqlassert: a PROVED Property holds on every content of   *)
(* the database that satisfies the accepted Properties.                    *)
(*                                                                         *)
(* Engine.run analyses one program and reports; the database is never      *)
(* looked at, and may afterwards hold anything its constraints allow.  So  *)
(* a behaviour chooses a program, infers its facts (Inference.tla),        *)
(* publishes the report, and then executes the program on any content      *)
(* whatsoever (SqlSemantics.tla), again and again.                         *)
(***************************************************************************)
EXTENDS Improvements, SqlSemantics

CONSTANTS
  Programs,     \* the programs analysed
  MaxRows,      \* rows of a table, at most
  MaxColumns    \* columns of a requested set, at most

ASSUME SoundnessAssumption == MaxRows \in Nat /\ MaxColumns \in Nat

VARIABLES
  report,       \* Engine.run's Report; NoReport until published
  content       \* the content of every relation; <<>> while nothing executes

soundnessVars == <<program, groups, joins, sources, dependencies, delegations, report, content>>

NoReport == <<>>

-----------------------------------------------------------------------------
(* The database *)

Tables == {r \in Relations : Is(r, "table")}

\* Rows of table t: the values each of its columns may take.
TableValues(t) == {v \in [DOMAIN Rel(t).output -> UNION {Rel(t).domain[i] : i \in DOMAIN Rel(t).output}] :
                     \A i \in DOMAIN v : v[i] \in Rel(t).domain[i]}

\* Bags of at most MaxRows rows.
Bags(values) ==
  LET supports == UNION {kSubset(n, values) : n \in 0..MaxRows}
      total(f) == FoldFunction(+, 0, f)
  IN {f \in UNION {[s -> 1..MaxRows] : s \in supports} : total(f) <= MaxRows}

\* The tables alone may decide an accepted Property, before any relation is
\* evaluated over them.
MentionedColumns(k) ==
  CASE k.kind = "unique_set"            -> k.columns
    [] k.kind = "functional_dependency" -> k.determinant \union k.dependent
    [] k.kind \in {"non_null_column", "enumerated_domain"} -> {k.column}
    [] k.kind = "referential_coverage"  -> UNION {{p[1], p[2]} : p \in k.pairs}

DecidedBy(tables) == {k \in program.accepted : \A c \in MentionedColumns(k) : c[1] \in tables}

LawfulBags(t) ==
  {bag \in Bags(TableValues(t)) : \A k \in DecidedBy({t}) : Satisfied(k, t :> TableRows(bag))}

Databases ==
  LET coverage == {k \in DecidedBy(Tables) : k.kind = "referential_coverage"}
      stored == FoldSet(LAMBDA t, found : {d @@ (t :> bag) : <<d, bag>> \in found \X LawfulBags(t)}, {<<>>}, Tables)
  IN {d \in stored : \A k \in coverage : Satisfied(k, [t \in Tables |-> TableRows(d[t])])}

\* Only these operations leave a choice of rows open.
OpenPicks == IF \E r \in Relations : Rel(r).op \in {"limit", "distinct", "qualify", "aggregate", "setop"}
           THEN Picks ELSE {"first"}

-----------------------------------------------------------------------------
(* What the engine reports *)

Requests(r) == UNION {kSubset(n, OutputColumns(r)) : n \in 0..MaxColumns} \union {OutputColumns(r)}

\* Attribute closures, both of a set requested as non-null and of one that is
\* not; each keeps only what a weaker request does not already determine.
ReportedClosures ==
  LET asked == UNION {{[relation |-> r, columns |-> s, given |-> g, reached |-> Closure(r, s, g)] : g \in {{}, s}} :
                        <<r, s>> \in UNION {{r} \X Requests(r) : r \in Relations}}
      weaker(k) == {m \in asked : /\ m # k /\ m.relation = k.relation
                                  /\ m.columns \subseteq k.columns /\ m.given \subseteq k.given}
      news(k) == k.reached \ (k.columns \union UNION {m.reached : m \in weaker(k)})
  IN {[k EXCEPT !.reached = news(k)] : k \in {k \in asked : news(k) # {}}}

Columns == UNION {OutputColumns(r) : r \in Relations}

\* Domains are asked for where the program declares one.
ReportedDomains ==
  IF Accepted("enumerated_domain") = {} THEN {}
  ELSE UNION {{[column |-> c, values |-> D] : D \in DomainOf(c)} : c \in Columns}

ReportedCoverage == {pairs \in program.questions : CoveredBy(pairs)}

\* minimal_keys: the smallest first, none a superset of another; when no key
\* has max_size columns or fewer, one found by dropping columns in order.
Shrink(r) ==
  FoldLeft(LAMBDA members, i : LET rest == members \ {<<r, i>>} IN
             IF rest # {} /\ UniqueSet(rest) THEN rest ELSE members,
           OutputColumns(r), [i \in DOMAIN Rel(r).output |-> i])

\* Mutation: supersets of smaller keys are kept.
AllKeys(r, maxSize) == {s \in UNION {kSubset(n, OutputColumns(r)) : n \in 1..maxSize} : UniqueSet(s)}

MinimalKeys(r, maxSize) ==
  LET small == {s \in UNION {kSubset(n, OutputColumns(r)) : n \in 1..maxSize} : UniqueSet(s)}
      minimal == {s \in small : ~\E t \in small : t # s /\ t \subseteq s}
  IN IF OutputColumns(r) = {} \/ ~UniqueSet(OutputColumns(r)) THEN {}
     ELSE IF small # {} THEN minimal ELSE {Shrink(r)}

-----------------------------------------------------------------------------
Init ==
  /\ program \in Programs
  /\ InitInference
  /\ report = NoReport
  /\ content = <<>>

Step == report = NoReport /\ Infer /\ UNCHANGED <<program, report, content>>

\* Engine.session ends: the arena and its memo are released, the report stays.
Publish ==
  /\ Inferred
  /\ report' = [determined  |-> ReportedClosures,
                nonNull     |-> {c \in Columns : NonNull(c)},
                matchedNonNull |-> {c \in Columns : sources[c[1]][c] = {Padding(c[1])}},
                uniqueJoins |-> {r \in Relations : joins[r].unique},
                exactlyOne  |-> {r \in Relations : joins[r].exactlyOne},
                equal       |-> {g \in UNION {groups[r] : r \in Relations} : Cardinality(g) > 1},
                uniqueSets  |-> UNION {MinimalKeys(r, MaxColumns) : r \in Relations},
                coverage    |-> ReportedCoverage,
                domains     |-> ReportedDomains,
                suggestions |-> Suggestions,
                exhaustive  |-> {c \in Columns : Expr(c).e = "case" /\ ExhaustiveCase(Expr(c))}]
  /\ groups' = <<>> /\ joins' = <<>> /\ sources' = <<>> /\ dependencies' = <<>> /\ delegations' = <<>>
  /\ UNCHANGED <<program, content>>

\* The program runs on some content that satisfies the accepted Properties.
Execute ==
  /\ report # NoReport /\ content = <<>>
  /\ \E tables \in Databases, pick \in OpenPicks :
       /\ content' = Evaluate(tables, pick)
       /\ \A k \in program.accepted \ DecidedBy(Tables) : Satisfied(k, content')
  /\ UNCHANGED <<program, groups, joins, sources, dependencies, delegations, report>>

\* The database is free to change before the next execution.
Release ==
  /\ content # <<>>
  /\ content' = <<>>
  /\ UNCHANGED <<program, groups, joins, sources, dependencies, delegations, report>>

Next == Step \/ Publish \/ Execute \/ Release

Spec == Init /\ [][Next]_soundnessVars

-----------------------------------------------------------------------------
(* Properties *)

\* Every attribute a reported closure reaches is determined: rows that agree
\* on the requested columns, and are non-null on the ones given as non-null,
\* agree on it.  With the RowIdentity among the reached attributes this is
\* soundness of unique_set and of functional_dependency at once.
ClosuresSound ==
  content # <<>> =>
    \A k \in report.determined : Determines(k.relation, content[k.relation], k.columns, k.given, k.reached)

\* A column with no null source left is never NULL, and at a join a column
\* whose only source is the join's padding is NULL on no matched row.
NullSourcesSound ==
  content # <<>> =>
    /\ \A c \in report.nonNull : \A t \in content[c[1]] : NonNullAt({c}, t)
    /\ \A c \in report.matchedNonNull : \A t \in content[c[1]] :
         SideId(c[1], RowIdentity(Expr(c).column[1]), t) # NoRow => NonNullAt({c}, t)

\* The number of right rows that satisfy ON for a left row of join j.
Matches(j, l) ==
  Cardinality({t \in content[Rel(j).right] :
     \A q \in Rel(j).predicate : Holds(q, Env(Rel(j).left, l) @@ Env(Rel(j).right, t))})

\* A proved Unique Join matches each left row at most once and a proved
\* Exactly One Join exactly once, whatever its kind.
JoinFactsSound ==
  content # <<>> =>
    /\ \A j \in report.uniqueJoins : \A l \in content[Rel(j).left] : Matches(j, l) <= 1
    /\ \A j \in report.exactlyOne : \A l \in content[Rel(j).left] : Matches(j, l) = 1

\* The columns of an equality group hold one value on each row, or are all NULL.
GroupsSound ==
  content # <<>> =>
    \A g \in report.equal : \A c, d \in g : \A t \in content[c[1]] : t.val[c[2]] = t.val[d[2]]

\* A non-null value of a column equals, as SQL compares it with a literal, a
\* member of the column's Enumerated Domain.
DomainsSound ==
  content # <<>> =>
    \A d \in report.domains : \A t \in content[d.column[1]] : InDomain(d.column, t.val[d.column[2]], d.values)

\* The rows of the program's result with their multiplicity; spellings of one
\* text are one value.
Result(rows) ==
  LET value(t) == [i \in DOMAIN t.val |-> Compared(<<Root, i>>, t.val[i])] IN
  [v \in {value(t) : t \in rows} |-> Cardinality({t \in rows : value(t) = v})]

Rewritten(p) == INSTANCE SqlSemantics WITH program <- p

\* The tables that hold the current content.
Stored ==
  [t \in Tables |-> LET values == {u.val : u \in content[t]} IN [v \in values |-> Cardinality({u \in content[t] : u.val = v})]]

\* A program with a suggested rewrite returns the rows of the original, each
\* as often, whatever the database holds.
SuggestionsPreserve ==
  content # <<>> =>
    \A p \in report.suggestions : \A pick \in OpenPicks :
      Result(Rewritten(p)!Evaluate(Stored, pick)[Root]) = Result(content[Root])

\* No row whose operand is non-null reaches the ELSE of a CASE proved exhaustive.
ExhaustiveCasesSound ==
  content # <<>> =>
    \A c \in report.exhaustive : \A t \in content[Source(c[1])] :
      LET env == Env(Source(c[1]), t)  x == Expr(c) IN
      Eval(x.operand, env, 0) # Null => \E w \in Elements(x.whens) : EqualTo(x.operand, w, env)

\* Reported Referential Coverage holds: each fully non-null referencing tuple
\* appears among the referenced columns.
CoverageSound ==
  content # <<>> => \A pairs \in report.coverage : Covers(pairs, content)

\* No two rows share fully non-null values of a reported minimal key, and no
\* reported key contains another of its relation.
MinimalKeysSound ==
  content # <<>> =>
    \A s \in report.uniqueSets :
      LET r == CHOOSE r \in RelationOf(s) : TRUE IN
      /\ Determines(r, content[r], s, s, {RowIdentity(r)})
      /\ \A t \in report.uniqueSets : t \subseteq s => t = s
=============================================================================
