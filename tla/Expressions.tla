----------------------------- MODULE Expressions -----------------------------
(***************************************************************************)
(* The scalar expressions of sqlassert/ir/model.py, and what the rules     *)
(* read off their shape.  An expression is a record whose field e names    *)
(* its class.  Values are small numbers; 0 stands for NULL.                *)
(* An Or is only ever a conjunct of a condition.  A literal is a number or *)
(* a text; the values of an IN list are literals.                          *)
(***************************************************************************)
EXTENDS Sequences

Null == 0

Ref(c)          == [e |-> "ref", column |-> c]
Const(v)        == [e |-> "const", value |-> v, text |-> FALSE]
Text(v)         == [e |-> "const", value |-> v, text |-> TRUE]
NullLiteral     == [e |-> "null"]
Opaque          == [e |-> "opaque"]
CountAll        == [e |-> "count"]
Succ(x)         == [e |-> "call", argument |-> x]       \* x + 1: strict, total, injective
PureFn(x)       == [e |-> "pure", argument |-> x]       \* OpaquePureFunction
Coalesce(xs)    == [e |-> "coalesce", arguments |-> xs]
AnyAggregate(x) == [e |-> "any", argument |-> x]
Equality(x, y)  == [e |-> "eq", left |-> x, right |-> y]
IsNull(x)       == [e |-> "isnull", operand |-> x]
IsNotNull(x)    == [e |-> "notnull", operand |-> x]
InList(x, vs)   == [e |-> "in", operand |-> x, values |-> vs]
Case(x, whens, thens, default) == [e |-> "case", operand |-> x, whens |-> whens, thens |-> thens, default |-> default]
Or(parts)       == [e |-> "or", parts |-> parts]        \* each part a set of conjuncts

IsRef(x)    == x.e = "ref"

\* Expression children, in order.
Children(x) ==
  CASE x.e \in {"call", "pure", "any"}  -> <<x.argument>>
    [] x.e = "coalesce"                 -> x.arguments
    [] x.e = "eq"                       -> <<x.left, x.right>>
    [] x.e \in {"isnull", "notnull", "in"} -> <<x.operand>>
    [] x.e = "case"                     -> <<x.operand>> \o x.whens \o x.thens \o <<x.default>>
    [] OTHER                            -> <<>>

\* Whether the expression is a pure function of columns (determinants is not
\* None), and the columns it is a function of.
RECURSIVE IsPure(_)
IsPure(x) ==
  /\ x.e \notin {"opaque", "count", "any"}
  /\ \A i \in DOMAIN Children(x) : IsPure(Children(x)[i])

RECURSIVE Determinants(_)
Determinants(x) ==
  IF IsRef(x) THEN {x.column}
  ELSE UNION {Determinants(Children(x)[i]) : i \in DOMAIN Children(x)}

\* The one column a one-to-one expression reads, as a set of at most one.
RECURSIVE InjectiveInput(_)
InjectiveInput(x) ==
  CASE x.e = "ref"  -> {x.column}
    [] x.e = "call" -> InjectiveInput(x.argument)
    [] OTHER        -> {}

\* The columns whose NULL makes the expression NULL.
RECURSIVE StrictInputs(_)
StrictInputs(x) ==
  CASE x.e = "ref"  -> {x.column}
    [] x.e = "call" -> StrictInputs(x.argument)
    [] x.e = "eq"   -> StrictInputs(x.left) \union StrictInputs(x.right)
    [] x.e = "in"   -> StrictInputs(x.operand)
    [] OTHER        -> {}
=============================================================================
