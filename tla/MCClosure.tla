------------------------------ MODULE MCClosure ------------------------------
(***************************************************************************)
(* Every small combination of facts a program gives three relations:       *)
(*   - a Filter over a table, with what its WHERE and the author's DECLAREs *)
(*     say of its columns x, y and of the table's;                         *)
(*   - a Project of the table with a column z computed from x and y;       *)
(*   - a LEFT JOIN of the table t with a table u(w), whose right side is   *)
(*     padded.                                                             *)
(* A table's attributes are its columns tx, ty and its row identity t; the *)
(* other relations' are named likewise, a join's row identities j, t, u.   *)
(***************************************************************************)
EXTENDS Closure, SequencesExt

Dep(determinant, dependent, strict) == [determinant |-> determinant, dependent |-> dependent, strict |-> strict]
UpTo(n, pool) == UNION {kSubset(k, pool) : k \in 0..n}

\* DECLAREd facts of the tables are lax; of the join, ON tx = uw says that the
\* preserved column fixes the padded one, which gives it back where not NULL.
TableFacts  == <<Dep({"tx"}, "ty", FALSE), Dep({"ty"}, "t", FALSE), Dep({"tx", "ty"}, "t", FALSE)>>
RightFacts  == <<Dep({"uw"}, "u", FALSE)>>
FilterFacts == <<Dep({"x"}, "y", TRUE), Dep({"y"}, "x", FALSE), Dep({}, "y", TRUE), Dep({"x", "y"}, "id", FALSE)>>
JoinFacts   == <<Dep({"t", "u"}, "j", TRUE), Dep({"x"}, "w", TRUE), Dep({"w"}, "x", FALSE),
                 Dep({"t"}, "j", TRUE), Dep({"t"}, "u", TRUE)>>
Taken(facts, numbers) == {facts[n] : n \in numbers}

\* A relation is the facts it takes: a Filter own ones and the table's, a
\* Project the table's, a join (Unique Join or not) both tables'.
Filters  == {"filter"} \X UpTo(2, DOMAIN FilterFacts) \X UpTo(1, DOMAIN TableFacts) \X {{}} \X {{}, {"x"}}
Projects == {"project"} \X {{}} \X UpTo(2, DOMAIN TableFacts) \X {{}} \X {{}, {"z"}}
Joins    == {"join"} \X {1..3, 1..5} \X {{}, {2}} \X {{}, {1}} \X {{}, {"x"}}

MCRelation == Filters \union Projects \union Joins

Identity(q) == IF q[1] = "join" THEN "j" ELSE "id"
Attributes(q) ==
  CASE q[1] = "filter" -> {"x", "y"} [] q[1] = "project" -> {"x", "z"}
    [] OTHER -> {"x", "y", "w", "t", "u"}

MCRowIdentity   == [q \in MCRelation |-> Identity(q)]
MCRowAttributes == [q \in MCRelation |-> Attributes(q)]
MCDependencies  == [q \in MCRelation |-> Taken(IF q[1] = "join" THEN JoinFacts ELSE FilterFacts, q[2])]
MCAlwaysNonNull ==
  [q \in MCRelation |-> {Identity(q)} \union q[5] \union (IF q[1] = "join" THEN {"t"} ELSE {})]

\* Own attributes to the input's, by name.
Down(q) ==
  CASE q[1] = "filter" -> ("x" :> "tx") @@ ("y" :> "ty") @@ ("id" :> "t")
    [] q[1] = "project" -> ("x" :> "tx") @@ ("id" :> "t")
    [] OTHER -> ("x" :> "tx") @@ ("y" :> "ty") @@ ("t" :> "t")
RightDown == ("w" :> "uw") @@ ("u" :> "u")
Upward(down) == [b \in Range(down) |-> CHOOSE a \in DOMAIN down : down[a] = b]

Given(input, down, computed) ==
  [input |-> input, down |-> down, back |-> Upward(down), computed |-> computed,
   padded |-> FALSE, matched |-> {}, status |-> {}]

NothingComputed == [c \in {} |-> {}]

MCDelegations ==
  [q \in MCRelation |->
     <<Given(Taken(TableFacts, q[3]), Down(q), IF q[1] = "project" THEN "z" :> {"tx", "ty"} ELSE NothingComputed)>>
       \o (IF q[1] # "join" THEN <<>>
           ELSE <<[Given(Taken(RightFacts, q[4]), RightDown, NothingComputed)
                     EXCEPT !.padded = TRUE, !.matched = {"u"}, !.status = {{"x"}}]>>)]

\* The closure of a table is that of its facts: nothing is delegated further.
TableClosure(facts, columns, given) ==
  LET more(s) == s \union {d.dependent : d \in {d \in facts : d.determinant \subseteq s \intersect given}}
                   \union (IF "t" \in s THEN {"tx", "ty"} ELSE {}) \union (IF "u" \in s THEN {"uw"} ELSE {})
  IN more(more(more(columns)))

\* Every one- or two-column request, once as a Unique Set asks (all of them
\* non-null) and once as _grouped does.
MCCalls ==
  UNION {{[relation |-> q, columns |-> s, given |-> g] : g \in {{}, s}} :
           <<q, s>> \in UNION {{q} \X UpTo(2, Attributes(q)) : q \in MCRelation}}
=============================================================================
