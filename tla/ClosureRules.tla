---------------------------- MODULE ClosureRules ----------------------------
(***************************************************************************)
(* What one relation's attribute closure may conclude: the facts _closure  *)
(* of rules/uniqueness.py reads, and what follows from a set of attributes *)
(* in one step.  The relation, its inputs and all facts about them are     *)
(* fixed while a closure runs, so they are constants.                      *)
(***************************************************************************)
EXTENDS Integers, Sequences, FiniteSets

CONSTANTS
  Relation,
  RowIdentity,           \* of each relation, an attribute
  RowAttributes,         \* of each relation, what its row identity determines
  Dependencies,          \* of each relation, what _functional_dependencies returns
  Delegations,           \* of each relation, its _Delegations in order
  AlwaysNonNull,         \* of each relation, the attributes _definite accepts
  InputClosure(_, _, _)  \* the (memoized) closure of an input relation

AttributesOf(r) == RowAttributes[r] \union {RowIdentity[r]}

\* A call of _closure: `columns` are requested, those in `given` as non-null.
IsCall(c) ==
  /\ c.relation \in Relation
  /\ c.columns \subseteq AttributesOf(c.relation)
  /\ c.given \subseteq c.columns

\* A dependency speaks of attributes of its own relation only.
IsDependencyOf(r, d) ==
  /\ IsFiniteSet(d.determinant) /\ d.determinant \subseteq AttributesOf(r)
  /\ d.dependent \in AttributesOf(r)

\* What a delegation brings back are attributes of its own relation.
IsDelegationOf(r, d) ==
  /\ \A source \in DOMAIN d.back : d.back[source] \in AttributesOf(r)
  /\ DOMAIN d.computed \subseteq AttributesOf(r)

ASSUME RulesAssumption ==
  \A r \in Relation :
    /\ \A d \in Dependencies[r] : IsDependencyOf(r, d)
    /\ Len(Delegations[r]) \in Nat
    /\ \A i \in 1..Len(Delegations[r]) : IsDelegationOf(r, Delegations[r][i])

\* Asking an input for more never gets less back.  Inputs are closures
\* themselves, lower in the IR's DAG: ClosureProofs shows that a relation
\* whose inputs have this property has it too (AskingMoreGetsMore).
ASSUME InputsMonotone ==
  \A r \in Relation : \A i \in 1..Len(Delegations[r]) :
    LET d == Delegations[r][i] IN
    \A s, t \in SUBSET {d.down[a] : a \in DOMAIN d.down} : s \subseteq t =>
      \A g \in SUBSET s, h \in SUBSET t :
        g \subseteq h => InputClosure(d.input, s, g) \subseteq InputClosure(d.input, t, h)

-----------------------------------------------------------------------------
IsDefinite(c, a) == a \in c.given \/ a \in AlwaysNonNull[c.relation]

\* Lax steps need non-null middles.
Fires(c, d) == d.strict \/ \A a \in d.determinant : IsDefinite(c, a)

\* Whether two rows agreeing on `reached` may be compared as input rows: a
\* padded input asks for a column that is NULL on padded rows only, or for
\* the attributes of the other side that fix which rows match.
Valid(c, d, reached) ==
  \/ ~d.padded
  \/ \E a \in reached : a \in DOMAIN d.down /\ (IsDefinite(c, a) \/ a \in d.matched)
  \/ \E status \in d.status : status \subseteq reached

Mapped(d, attributes) == {d.down[a] : a \in attributes \intersect DOMAIN d.down}

Below(c, d, reached) ==
  InputClosure(d.input, Mapped(d, reached), Mapped(d, {a \in reached : IsDefinite(c, a)}))

\* The attributes one delegation brings back.
Delegated(c, d, reached) ==
  {a \in AttributesOf(c.relation) :
     /\ Valid(c, d, reached)
     /\ \/ \E source \in DOMAIN d.back : d.back[source] = a /\ source \in Below(c, d, reached)
        \/ a \in DOMAIN d.computed /\ d.computed[a] \subseteq Below(c, d, reached)}

OfIdentity(c, reached) ==
  IF RowIdentity[c.relation] \in reached THEN RowAttributes[c.relation] ELSE {}

OfDependencies(c, reached) ==
  {a \in AttributesOf(c.relation) : \E d \in Dependencies[c.relation] :
     d.dependent = a /\ d.determinant \subseteq reached /\ Fires(c, d)}

OfInputs(c, reached) ==
  {a \in AttributesOf(c.relation) : \E i \in 1..Len(Delegations[c.relation]) :
     a \in Delegated(c, Delegations[c.relation][i], reached)}

Consequences(c, reached) == OfIdentity(c, reached) \union OfDependencies(c, reached) \union OfInputs(c, reached)

\* A set of attributes call c may stop at.
IsClosed(c, s) == c.columns \subseteq s /\ Consequences(c, s) \subseteq s
=============================================================================
