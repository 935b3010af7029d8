---------------------------- MODULE Improvements ----------------------------
(***************************************************************************)
(* The rewrites of sqlassert/improvements.py: an outer join that pads      *)
(* nothing is an inner join, a join that is not read is deleted or only    *)
(* filters, a DISTINCT or a grouping column that changes nothing goes.     *)
(* Each is worth its name only if the program still returns the same rows. *)
(*                                                                         *)
(* A Select is what the IR makes of it: its joins, then its Filter, then   *)
(* the relation that computes its outputs.  Names are resolved, so whether *)
(* a column is read is read off the IR and not off its spelling.  Unused   *)
(* CTEs are not in an IR at all and are left out.                          *)
(***************************************************************************)
EXTENDS Inference

Root == Len(program.relations)

Inputs(r) ==
  CASE Is(r, "table")                   -> <<>>
    [] Is(r, "join") \/ Is(r, "setop")  -> <<Rel(r).left, Rel(r).right>>
    [] OTHER                            -> <<Source(r)>>

\* parents: each relation that reads r, once for each time it does.
Parents(r) == {<<p, i>> \in Relations \X {1, 2} : i \in DOMAIN Inputs(p) /\ Inputs(p)[i] = r}

SoleParent(r) == (CHOOSE p \in Parents(r) : TRUE)[1]

-----------------------------------------------------------------------------
(* Outer joins that cannot pad *)

\* Whether a row padded by one of the joins `chained` holds NULL in c.
PaddedBy(c, chained) == \E s \in sources[c[1]][c] : s.join \in chained

\* What the joins and the WHERE above say of their inputs' columns.
RejectedAbove(p) == IF Is(p, "filter") THEN NullRejected(Rel(p).predicate) ELSE OnRejected(p)

\* A later LEFT or FULL JOIN whose ON finds no match for the rows `chained`
\* pad pads them as well.
PadsTheSameRows(p, chained) ==
  /\ IsJoin(p, {"left", "full"})
  /\ \E c \in NullRejected(Rel(p).predicate) \intersect OutputColumns(Rel(p).left) : PaddedBy(c, chained)

\* No row that one of the joins `chained` pads leaves the Select of r: past
\* its WHERE a row may be looked at as a whole.
RECURSIVE PaddingRemoved(_, _)
PaddingRemoved(r, chained) ==
  /\ Cardinality(Parents(r)) = 1
  /\ LET p == SoleParent(r) IN
     /\ Rel(p).op \in {"filter", "join"}
     /\ \/ \E c \in RejectedAbove(p) : PaddedBy(c, chained)
        \/ /\ Is(p, "join")
           /\ PaddingRemoved(p, chained \union (IF PadsTheSameRows(p, chained) THEN {p} ELSE {}))

PadsNothing(j) ==
  /\ IsJoin(j, {"left", "right"})
  /\ (Rel(j).kind = "left" /\ joins[j].exactlyOne) \/ PaddingRemoved(j, {j})

-----------------------------------------------------------------------------
(* Redundant joins *)

\* The columns a condition reads, those of every OR branch among them.
RECURSIVE ReadBy(_)
ReadBy(q) ==
  IF q.e = "or" THEN UNION {ReadBy(p) : p \in UNION q.parts} ELSE Determinants(q)

FromAndWhere == {r \in Relations : Rel(r).op \in {"filter", "join"}}

\* The columns of an input of j wherever joins and WHERE hand them on.
Carried(columns, j) ==
  FoldLeft(LAMBDA found, r : found \union {c \in OutputColumns(r) : r \in FromAndWhere /\ Expr(c).column \in found},
           columns, [i \in 1..(Root - j + 1) |-> j + i - 1])

\* Anything but the ON of j reads a column of its right side.
RightSideUsed(j) ==
  LET columns == Carried(OutputColumns(Rel(j).right), j) IN
  \/ columns \intersect OutputColumns(Root) # {}
  \/ \E r \in FromAndWhere \ {j} : \E q \in Rel(r).predicate : ReadBy(q) \intersect columns # {}
  \/ \E r \in Relations \ FromAndWhere : \E c \in OutputColumns(r) :
       r # Rel(j).right /\ Determinants(Expr(c)) \intersect columns # {}

\* Later joins of the same FROM.
RECURSIVE JoinsAfter(_)
JoinsAfter(j) ==
  LET later == {p \in Relations : Is(p, "join") /\ Rel(p).left = j} IN
  later \union UNION {JoinsAfter(p) : p \in later}

RedundantJoin(j) ==
  /\ IsJoin(j, {"inner", "left"}) /\ ~RightSideUsed(j)
  /\ IF Rel(j).kind = "left" THEN joins[j].unique ELSE joins[j].exactlyOne

FiltersOnly(j) ==
  IsJoin(j, {"inner"}) /\ ~RightSideUsed(j) /\ joins[j].unique /\ ~joins[j].exactlyOne

\* Mutation: whatever joins follow.
FilterJoinAnywhere(j) == FiltersOnly(j)

\* In WHERE the condition acts after the joins that follow, which a RIGHT or
\* FULL JOIN among them would notice.
FilterJoin(j) == FiltersOnly(j) /\ \A p \in JoinsAfter(j) : ~IsJoin(p, {"right", "full"})

\* A WHERE EXISTS or IN, or a SEMI JOIN that ends the FROM, that every row passes.
RedundantFilter(j) ==
  IsJoin(j, {"semi"}) /\ joins[j].exactlyOne /\ \A p \in JoinsAfter(j) : IsJoin(p, {"semi", "anti"})

-----------------------------------------------------------------------------
(* DISTINCT and GROUP BY *)

RefsOf(columns) == {Expr(c).column : c \in {c \in columns : IsRef(Expr(c))}}

\* No two input rows agree on the selected columns, NULL equal to NULL.
RedundantDistinct(r) ==
  /\ Is(r, "distinct")
  /\ RefsOf(OutputColumns(r)) # {}
  /\ RowIdentity(Source(r)) \in Closure(Source(r), RefsOf(OutputColumns(r)), {})

\* The grouping columns left once each one that those kept so far determine
\* is dropped.  One always stays.
KeptGrouping(r) ==
  FoldLeft(LAMBDA kept, i :
             LET others == kept \ {i} IN
             IF /\ i \in kept /\ others # {} /\ IsRef(Expr(<<r, i>>))
                /\ Expr(<<r, i>>).column \in Closure(Source(r), RefsOf(At(r, others)), {})
             THEN others ELSE kept,
           Rel(r).grouping, [i \in DOMAIN Rel(r).output |-> i])

RedundantGrouping(r) == Is(r, "aggregate") /\ KeptGrouping(r) # Rel(r).grouping

-----------------------------------------------------------------------------
(* The rewritten program *)

\* The left rows of a join that is gone; its right columns are read by no one.
LeftRows(j) ==
  [i \in DOMAIN Rel(j).output |-> IF i <= Len(Rel(Rel(j).left).output) THEN Rel(j).output[i] ELSE NullLiteral]

\* Condition x with the columns of one relation read from another.
RECURSIVE Renamed(_, _)
Renamed(x, to) ==
  IF IsRef(x) THEN Ref(to[x.column])
  ELSE [k \in DOMAIN x |-> CASE k \in {"left", "right", "operand", "argument"} -> Renamed(x[k], to)
                             [] k = "parts" -> {{Renamed(q, to) : q \in part} : part \in x.parts}
                             [] OTHER -> x[k]]

\* WHERE f with EXISTS (SELECT 1 FROM <the right side of j> WHERE <its ON>).
WithExists(f, j) ==
  LET here == [c \in OutputColumns(Rel(j).left) |-> CHOOSE d \in Carried({c}, j) : d[1] = Source(f)]
                @@ [c \in OutputColumns(Rel(j).right) |-> c] IN
  [op |-> "join", kind |-> "semi", left |-> Source(f), right |-> Rel(j).right, output |-> Rel(f).output,
   predicate |-> Rel(f).predicate \union {Renamed(q, here) : q \in Rel(j).predicate}]

Without(j) == [op |-> "project", input |-> Rel(j).left, output |-> LeftRows(j)]

\* One suggestion: the relations it rewrites, as they become.
Rewrites ==
  LET gone == {j \in Relations : RedundantJoin(j) \/ FilterJoin(j)} IN
  {j :> Without(j) : j \in {j \in Relations : RedundantJoin(j) \/ RedundantFilter(j)}}
  \union {(j :> Without(j)) @@ (f :> WithExists(f, j)) :
            <<j, f>> \in {<<j, f>> \in Relations \X Relations :
                            FilterJoin(j) /\ Is(f, "filter") /\ Source(f) \in {j} \union JoinsAfter(j)}}
  \union {j :> [Rel(j) EXCEPT !.kind = "inner"] : j \in {j \in Relations \ gone : PadsNothing(j)}}
  \union {r :> [op |-> "project", input |-> Source(r), output |-> Rel(r).output] :
            r \in {r \in Relations : RedundantDistinct(r)}}
  \union {r :> [Rel(r) EXCEPT !.grouping = KeptGrouping(r),
                             !.output = [i \in DOMAIN @ |-> IF i \in Rel(r).grouping \ KeptGrouping(r)
                                                             THEN AnyAggregate(@[i]) ELSE @[i]]] :
            r \in {r \in Relations : RedundantGrouping(r)}}

\* The program after each of the suggestions.
Suggestions == {[program EXCEPT !.relations = [r \in DOMAIN @ |-> (rewritten @@ @)[r]]] : rewritten \in Rewrites}
=============================================================================
