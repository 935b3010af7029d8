---------------------------- MODULE LinkerProofs ----------------------------
(***************************************************************************)
(* Proofs about Linker, for every set of syntax trees: whatever the state   *)
(* mentions was met, names are lexical, and linking implements Resolution,  *)
(* whatever is read first.  They rest on facts about sequences and syntax   *)
(* trees, and on the scopes that discovery hands from query to query.       *)
(***************************************************************************)
EXTENDS Linker, NaturalsInduction, WellFoundedInduction, TLAPS

-----------------------------------------------------------------------------
(* Sequences and functions.                                                 *)

\* What has positions 1..n is a sequence of its elements.
LEMMA Listed1 ==
    ASSUME NEW n \in Nat, NEW f, f = [i \in 1..n |-> f[i]]
    PROVE  IsSequence(f) /\ Len(f) = n
<1>1. \A i \in 1..n : f[i] \in ToSet(f)
  BY DEF ToSet
<1>2. [i \in 1..n |-> f[i]] \in Seq(ToSet(f)) /\ Len([i \in 1..n |-> f[i]]) = n
  BY <1>1
<1> QED
  BY <1>2 DEF IsSequence

LEMMA SequenceFacts ==
    ASSUME NEW s, IsSequence(s)
    PROVE  /\ Len(s) \in Nat
           /\ DOMAIN s = 1..Len(s)
           /\ \A i \in 1..Len(s) : s[i] \in ToSet(s)
           /\ \A x \in ToSet(s) : \E i \in 1..Len(s) : x = s[i]
<1>1. s \in Seq(ToSet(s))
  BY DEF IsSequence
<1>2. Len(s) \in Nat /\ DOMAIN s = 1..Len(s) /\ \A i \in 1..Len(s) : s[i] \in ToSet(s)
  BY <1>1
<1> QED
  BY <1>2 DEF ToSet

\* A sequence of elements of a set is one of its own elements.
LEMMA OwnElements ==
    ASSUME NEW S, NEW s \in Seq(S)
    PROVE  IsSequence(s) /\ ToSet(s) \subseteq S
<1>1. Len(s) \in Nat /\ DOMAIN s = 1..Len(s) /\ s = [i \in 1..Len(s) |-> s[i]] /\ \A i \in 1..Len(s) : s[i] \in S
  OBVIOUS
<1>2. IsSequence(s)
  BY <1>1, Listed1
<1>3. ToSet(s) \subseteq S
  BY <1>1 DEF ToSet
<1> QED
  BY <1>2, <1>3

\* The step's own calls come before the rest.
LEMMA ThenFacts ==
    ASSUME NEW tasks, NEW rest, IsSequence(tasks), IsSequence(rest), rest # <<>>
    PROVE  /\ IsSequence(tasks \o Tail(rest))
           /\ ToSet(tasks \o Tail(rest)) \subseteq ToSet(tasks) \cup ToSet(rest)
           /\ Head(rest) \in ToSet(rest)
<1> DEFINE S == ToSet(tasks) \cup ToSet(rest)
<1>1. tasks \in Seq(ToSet(tasks)) /\ rest \in Seq(ToSet(rest))
  BY DEF IsSequence
<1>2. Tail(rest) \in Seq(ToSet(rest)) /\ Head(rest) \in ToSet(rest)
  BY <1>1
<1>3. tasks \in Seq(S) /\ Tail(rest) \in Seq(S)
  <2> HIDE DEF S
  <2>1. ToSet(tasks) \subseteq S /\ ToSet(rest) \subseteq S
    BY DEF S
  <2> QED
    BY <1>1, <1>2, <2>1
<1>4. tasks \o Tail(rest) \in Seq(S)
  <2> HIDE DEF S
  <2> QED
    BY <1>3
<1> HIDE DEF S
<1>5. IsSequence(tasks \o Tail(rest)) /\ ToSet(tasks \o Tail(rest)) \subseteq S
  BY <1>4, OwnElements
<1> QED
  BY <1>2, <1>5 DEF S

LEMMA ConcatFacts ==
    ASSUME NEW s, NEW t, IsSequence(s), IsSequence(t)
    PROVE  /\ IsSequence(s \o t)
           /\ ToSet(s \o t) = ToSet(s) \cup ToSet(t)
<1> DEFINE S == ToSet(s) \cup ToSet(t)
<1>1. s \in Seq(ToSet(s)) /\ t \in Seq(ToSet(t))
  BY DEF IsSequence
<1>2. s \in Seq(S) /\ t \in Seq(S)
  <2> HIDE DEF S
  <2>1. ToSet(s) \subseteq S /\ ToSet(t) \subseteq S
    BY DEF S
  <2> QED
    BY <1>1, <2>1
<1> HIDE DEF S
<1>3. s \o t \in Seq(S)
  BY <1>2
<1>4. IsSequence(s \o t) /\ ToSet(s \o t) \subseteq S
  BY <1>3, OwnElements
<1>5. /\ Len(s) \in Nat /\ Len(t) \in Nat /\ DOMAIN s = 1..Len(s) /\ DOMAIN t = 1..Len(t)
      /\ DOMAIN (s \o t) = 1..(Len(s) + Len(t))
      /\ \A i \in 1..Len(s) : (s \o t)[i] = s[i]
      /\ \A i \in 1..Len(t) : (s \o t)[Len(s) + i] = t[i]
  BY <1>2
<1>6. ASSUME NEW x \in S
      PROVE  x \in ToSet(s \o t)
  <2>1. CASE x \in ToSet(s)
    <3>1. PICK i \in 1..Len(s) : x = s[i]
      BY <2>1, <1>5 DEF ToSet
    <3>2. i \in DOMAIN (s \o t) /\ (s \o t)[i] = x
      BY <1>5, <3>1
    <3> QED
      BY <3>2 DEF ToSet
  <2>2. CASE x \in ToSet(t)
    <3>1. PICK i \in 1..Len(t) : x = t[i]
      BY <2>2, <1>5 DEF ToSet
    <3>2. Len(s) + i \in DOMAIN (s \o t) /\ (s \o t)[Len(s) + i] = x
      BY <1>5, <3>1
    <3> QED
      BY <3>2 DEF ToSet
  <2> QED
    BY <2>1, <2>2 DEF S
<1> QED
  BY <1>4, <1>6 DEF S

LEMMA EmptyFacts == IsSequence(<<>>) /\ ToSet(<<>>) = {}
<1>1. \A S : <<>> \in Seq(S)
  OBVIOUS
<1>2. DOMAIN <<>> = {}
  OBVIOUS
<1> QED
  BY <1>1, <1>2 DEF IsSequence, ToSet

LEMMA OneFacts ==
    ASSUME NEW x
    PROVE  IsSequence(<<x>>) /\ ToSet(<<x>>) = {x}
<1>1. <<x>> \in Seq({x}) /\ DOMAIN <<x>> = 1..1 /\ <<x>>[1] = x
  OBVIOUS
<1>2. ToSet(<<x>>) = {x}
  BY <1>1 DEF ToSet
<1> QED
  BY <1>1, <1>2, OwnElements

LEMMA AppendFacts ==
    ASSUME NEW s, NEW x, IsSequence(s)
    PROVE  /\ IsSequence(Append(s, x)) /\ Append(s, x) # <<>>
           /\ ToSet(Append(s, x)) = ToSet(s) \cup {x}
           /\ Len(Append(s, x)) = Len(s) + 1 /\ Len(s) \in Nat
           /\ DOMAIN Append(s, x) = 1..(Len(s) + 1) /\ DOMAIN s = 1..Len(s)
           /\ \A i \in 1..Len(s) : Append(s, x)[i] = s[i]
           /\ Append(s, x)[Len(s) + 1] = x
<1> DEFINE S == ToSet(s) \cup {x}
<1>1. s \in Seq(ToSet(s))
  BY DEF IsSequence
<1>2. s \in Seq(S) /\ x \in S
  <2> HIDE DEF S
  <2>1. ToSet(s) \subseteq S /\ x \in S
    BY DEF S
  <2> QED
    BY <1>1, <2>1
<1> HIDE DEF S
<1>3. Append(s, x) \in Seq(S)
  BY <1>2
<1>4. IsSequence(Append(s, x)) /\ ToSet(Append(s, x)) \subseteq S
  BY <1>3, OwnElements
<1>5. /\ Len(Append(s, x)) = Len(s) + 1 /\ Len(s) \in Nat
      /\ DOMAIN Append(s, x) = 1..(Len(s) + 1) /\ DOMAIN s = 1..Len(s)
      /\ \A i \in 1..Len(s) : Append(s, x)[i] = s[i]
      /\ Append(s, x)[Len(s) + 1] = x
  BY <1>2
<1>6. S \subseteq ToSet(Append(s, x))
  BY <1>5 DEF ToSet, S
<1>7. Append(s, x) # <<>>
  BY <1>5
<1> QED
  BY <1>4, <1>5, <1>6, <1>7 DEF S

LEMMA FrontFacts ==
    ASSUME NEW s, IsSequence(s), s # <<>>
    PROVE  /\ IsSequence(Front(s))
           /\ Len(s) \in Nat \ {0} /\ Len(Front(s)) = Len(s) - 1
           /\ DOMAIN s = 1..Len(s) /\ DOMAIN Front(s) = 1..(Len(s) - 1)
           /\ \A i \in 1..(Len(s) - 1) : Front(s)[i] = s[i]
           /\ Last(s) = s[Len(s)] /\ Last(s) \in ToSet(s)
           /\ ToSet(s) = ToSet(Front(s)) \cup {Last(s)}
<1>1. s \in Seq(ToSet(s))
  BY DEF IsSequence
<1>2. Len(s) \in Nat \ {0} /\ DOMAIN s = 1..Len(s) /\ s[Len(s)] \in ToSet(s)
  BY <1>1
<1>3. /\ Front(s) \in Seq(ToSet(s))
      /\ Len(Front(s)) = Len(s) - 1
      /\ DOMAIN Front(s) = 1..(Len(s) - 1)
      /\ \A i \in 1..(Len(s) - 1) : Front(s)[i] = s[i]
  BY <1>1, <1>2 DEF Front
<1>4. IsSequence(Front(s)) /\ ToSet(Front(s)) \subseteq ToSet(s)
  BY <1>3, OwnElements
<1>5. ASSUME NEW x \in ToSet(s)
      PROVE  x \in ToSet(Front(s)) \cup {Last(s)}
  <2>1. PICK i \in 1..Len(s) : x = s[i]
    BY <1>2 DEF ToSet
  <2>2. CASE i = Len(s)
    BY <2>1, <2>2 DEF Last
  <2>3. CASE i # Len(s)
    <3>1. \A n \in Nat : \A j \in 1..n : j # n => j \in 1..(n - 1)
      OBVIOUS
    <3>2. i \in 1..(Len(s) - 1)
      BY <3>1, <2>1, <2>3, <1>2
    <3> QED
      BY <3>2, <2>1, <1>3 DEF ToSet
  <2> QED
    BY <2>2, <2>3
<1> QED
  BY <1>2, <1>3, <1>4, <1>5 DEF Last

\* A list of something for every element of a sequence.
LEMMA EachFacts ==
    ASSUME NEW s, IsSequence(s), NEW f, f = [i \in DOMAIN s |-> f[i]]
    PROVE  /\ IsSequence(f) /\ Len(f) = Len(s)
           /\ ToSet(f) = {f[i] : i \in 1..Len(s)}
<1>1. Len(s) \in Nat /\ DOMAIN s = 1..Len(s)
  BY SequenceFacts
<1>2. IsSequence(f) /\ Len(f) = Len(s)
  BY <1>1, Listed1
<1>3. DOMAIN f = 1..Len(s)
  BY <1>1
<1> QED
  BY <1>2, <1>3 DEF ToSet

-----------------------------------------------------------------------------
(* What the assumption says of a syntax tree.                               *)

LEMMA TreeFacts ==
    ASSUME NEW p, IsProgram(p), NEW q \in DOMAIN p.query
    PROVE  /\ p.query[q].kind \in {"select", "setop", "paren"}
           /\ IsSequence(p.query[q].with)
           /\ \A i \in DOMAIN p.query[q].with : p.query[q].with[i].body \in DOMAIN p.query
           /\ p.query[q].kind = "select" =>
                /\ IsSequence(p.query[q].sources) /\ IsSequence(p.query[q].where)
                /\ IsSequence(p.query[q].markers)
                /\ \A i \in DOMAIN p.query[q].sources :
                      p.query[q].sources[i].kind = "subquery" => p.query[q].sources[i].body \in DOMAIN p.query
                /\ \A i \in DOMAIN p.query[q].where :
                      /\ p.query[q].where[i].body \in DOMAIN p.query
                      /\ p.query[p.query[q].where[i].body].kind = "select"
           /\ p.query[q].kind = "setop" => \A i \in 1..2 : p.query[q].arms[i] \in DOMAIN p.query
           /\ p.query[q].kind = "paren" =>
                p.query[q].body \in DOMAIN p.query /\ p.query[p.query[q].body].kind # "paren"
<1> DEFINE node == p.query[q]
<1>1. /\ IsNode(node)
      /\ DirectlyWithin(node) \subseteq DOMAIN p.query
      /\ node.kind = "paren" => p.query[node.body].kind # "paren"
      /\ node.kind = "select" => \A c \in ToSet(node.where) : p.query[c.body].kind = "select"
  BY DEF IsProgram
<1> HIDE DEF node
<1>2. node.kind \in {"select", "setop", "paren"} /\ IsSequence(node.with)
  BY <1>1 DEF IsNode
<1>3. \A i \in DOMAIN node.with : node.with[i].body \in DOMAIN p.query
  BY <1>1 DEF DirectlyWithin, Inlined
<1>4. CASE node.kind = "select"
  <2>1. IsSequence(node.sources) /\ IsSequence(node.where) /\ IsSequence(node.markers)
    BY <1>1, <1>4 DEF IsNode
  <2>2. /\ {node.where[i].body : i \in DOMAIN node.where} \subseteq DirectlyWithin(node)
        /\ {s.body : s \in {s \in ToSet(node.sources) : s.kind = "subquery"}} \subseteq DirectlyWithin(node)
    BY <1>4 DEF DirectlyWithin, Inlined
  <2>3. \A i \in DOMAIN node.sources : node.sources[i].kind = "subquery" => node.sources[i].body \in DOMAIN p.query
    BY <2>2, <1>1 DEF ToSet
  <2>4. \A i \in DOMAIN node.where : /\ node.where[i].body \in DOMAIN p.query
                                     /\ p.query[node.where[i].body].kind = "select"
    BY <2>2, <1>1, <1>4 DEF ToSet
  <2> QED
    BY <1>2, <1>3, <1>4, <2>1, <2>3, <2>4 DEF node
<1>5. CASE node.kind = "setop"
  <2>1. IsSequence(node.arms) /\ Len(node.arms) = 2 /\ ToSet(node.arms) \subseteq DirectlyWithin(node)
    BY <1>1, <1>5 DEF IsNode, DirectlyWithin, Inlined
  <2>2. \A i \in 1..2 : node.arms[i] \in ToSet(node.arms)
    BY <2>1, SequenceFacts
  <2> QED
    BY <1>1, <1>2, <1>3, <1>5, <2>1, <2>2 DEF node
<1>6. CASE node.kind = "paren"
  <2>1. node.body \in DirectlyWithin(node)
    BY <1>6 DEF DirectlyWithin, Inlined
  <2> QED
    BY <1>1, <1>2, <1>3, <1>6, <2>1 DEF node
<1> QED
  BY <1>2, <1>4, <1>5, <1>6

LEMMA StatementFacts ==
    ASSUME NEW p, IsProgram(p)
    PROVE  /\ IsSequence(p.statements)
           /\ \A s \in ToSet(p.statements) : s.body \in DOMAIN p.query \cup {NoQuery} /\ IsSequence(s.constraints)
           /\ p.root \in DOMAIN p.query \cup {NoQuery}
           /\ NoQuery \notin DOMAIN p.query
BY DEF IsProgram, Outermost

-----------------------------------------------------------------------------
(* What encloses a query.                                                   *)

\* Outward-closed sets of queries.
Outward(query) ==
    {found \in SUBSET DOMAIN query :
       \A p \in DOMAIN query : DirectlyWithin(query[p]) \cap found # {} => p \in found}

LEMMA EnclosingFacts ==
    ASSUME NEW query, NEW q \in DOMAIN query
    PROVE  Enclosing(query)[q] = {p \in DOMAIN query : \A found \in Outward(query) : q \in found => p \in found}
BY DEF Enclosing, Outward

\* A query that is written in a statement is enclosed by itself.
LEMMA OutermostEnclosed ==
    ASSUME NEW p, IsProgram(p), NEW q \in Outermost(p)
    PROVE  Enclosing(p.query)[q] = {q}
<1> DEFINE query == p.query
<1>1. q \in DOMAIN query /\ \A r \in DOMAIN query : q \notin DirectlyWithin(query[r])
  BY DEF IsProgram
<1> HIDE DEF query
<1>2. {q} \in Outward(query)
  BY <1>1 DEF Outward
<1>3. Enclosing(query)[q] = {r \in DOMAIN query : \A found \in Outward(query) : q \in found => r \in found}
  BY <1>1, EnclosingFacts
<1>4. Enclosing(query)[q] = {q}
  BY <1>1, <1>2, <1>3
<1> QED
  BY <1>4 DEF query

\* Any other query is enclosed by itself and by what encloses the one it is
\* written in.
LEMMA WithinEnclosed ==
    ASSUME NEW p, IsProgram(p), NEW r \in DOMAIN p.query, NEW q \in DirectlyWithin(p.query[r])
    PROVE  q \in DOMAIN p.query /\ Enclosing(p.query)[q] = {q} \cup Enclosing(p.query)[r]
<1> DEFINE query == p.query
<1>1. q \in DOMAIN query /\ \A x \in DOMAIN query : q \in DirectlyWithin(query[x]) => x = r
  BY DEF IsProgram
<1>2. r \in DOMAIN query /\ q \in DirectlyWithin(query[r])
  OBVIOUS
<1> HIDE DEF query
<1> DEFINE around(x) == {y \in DOMAIN query : \A found \in Outward(query) : x \in found => y \in found}
<1>3. Enclosing(query)[q] = around(q) /\ Enclosing(query)[r] = around(r)
  BY <1>1, <1>2, EnclosingFacts
<1>4. {q} \cup around(r) \in Outward(query)
  <2>1. {q} \cup around(r) \in SUBSET DOMAIN query
    BY <1>1
  <2>2. ASSUME NEW x \in DOMAIN query, NEW y \in DirectlyWithin(query[x]), y \in {q} \cup around(r)
        PROVE  x \in {q} \cup around(r)
    <3>1. CASE y = q
      BY <1>1, <1>2, <2>2, <3>1
    <3>2. CASE y \in around(r)
      <4>1. \A found \in Outward(query) : r \in found => x \in found
        BY <2>2, <3>2 DEF Outward
      <4> QED
        BY <4>1
    <3> QED
      BY <2>2, <3>1, <3>2
  <2> HIDE DEF around
  <2>3. \A x \in DOMAIN query : DirectlyWithin(query[x]) \cap ({q} \cup around(r)) # {} => x \in {q} \cup around(r)
    BY <2>2
  <2> QED
    BY <2>1, <2>3 DEF Outward
<1>5. around(q) \subseteq {q} \cup around(r)
  <2>1. ASSUME NEW y \in around(q) PROVE y \in {q} \cup around(r)
    <3> DEFINE found == {q} \cup around(r)
    <3>1. found \in Outward(query) /\ q \in found
      BY <1>4
    <3> HIDE DEF found
    <3>2. y \in found
      BY <3>1, <2>1
    <3> QED
      BY <3>2 DEF found
  <2> QED
    BY <2>1
<1>6. around(r) \subseteq around(q)
  <2>1. \A found \in Outward(query) : q \in found => r \in found
    BY <1>2 DEF Outward
  <2> QED
    BY <2>1
<1>7. q \in around(q)
  BY <1>1
<1> HIDE DEF around
<1>8. Enclosing(query)[q] = {q} \cup Enclosing(query)[r]
  BY <1>3, <1>5, <1>6, <1>7
<1> QED
  BY <1>1, <1>8 DEF query

-----------------------------------------------------------------------------
(* The names in scope.                                                      *)

LEMMA LeastNumber ==
    ASSUME NEW S, S \subseteq Nat, S # {}
    PROVE  \E i \in S : \A j \in S : i <= j
<1> DEFINE R == {ss \in Nat \X Nat : ss[1] < ss[2]}
<1>1. IsWellFoundedOn(R, Nat)
  BY NatLessThanWellFounded DEF OpToRel
<1>2. PICK i \in S : \A j \in S : <<j, i>> \notin R
  BY <1>1, WFMin
<1>3. \A j \in S : ~ (j < i)
  BY <1>2
<1> QED
  BY <1>3, <1>2

\* Some positions of a sequence have a last one.
LEMMA LastPosition ==
    ASSUME NEW n \in Nat, NEW S, S \subseteq 1..n, S # {}
    PROVE  \E i \in S : \A j \in S : j <= i
<1> DEFINE D == {n - i : i \in S}
<1>0. \A i \in S : i \in 1..n /\ n - i \in Nat
  OBVIOUS
<1>1. D \subseteq Nat /\ D # {}
  BY <1>0
<1>2. PICK d \in D : \A e \in D : d <= e
  <2> HIDE DEF D
  <2> QED
    BY <1>1, LeastNumber
<1>3. PICK i \in S : d = n - i
  BY <1>2
<1>4. \A j \in S : n - i <= n - j
  BY <1>2, <1>3
<1>5. \A j \in S : j \in Nat
  OBVIOUS
<1>6. \A j \in S : j <= i
  BY <1>3, <1>4, <1>5
<1> QED
  BY <1>3, <1>6

\* What a WITH makes visible.
Shows(with, outer, scope) ==
    /\ DOMAIN scope = DOMAIN outer \cup CteNames(with)
    /\ \A name \in CteNames(with) : \E i \in DOMAIN with : with[i].name = name /\ scope[name] = Cte(with[i])
    /\ \A name \in DOMAIN outer \ CteNames(with) : scope[name] = outer[name]

LEMMA VisibleFacts ==
    ASSUME NEW with, IsSequence(with), NEW outer, NEW scope, scope = Visible(with, outer)
    PROVE  Shows(with, outer, scope)
<1> DEFINE last(name) == CHOOSE i \in DOMAIN with :
                           /\ with[i].name = name
                           /\ \A j \in DOMAIN with : with[j].name = name => j <= i
<1>1. DOMAIN with = 1..Len(with) /\ Len(with) \in Nat
  BY SequenceFacts
<1>2. ASSUME NEW name \in CteNames(with)
      PROVE  last(name) \in DOMAIN with /\ with[last(name)].name = name
  <2> DEFINE S == {i \in DOMAIN with : with[i].name = name}
  <2>1. S \subseteq 1..Len(with) /\ S # {}
    BY <1>1 DEF CteNames
  <2>2. \E i \in S : \A j \in S : j <= i
    <3> HIDE DEF S
    <3> QED
      BY <1>1, <2>1, LastPosition
  <2>3. \E i \in DOMAIN with : /\ with[i].name = name
                               /\ \A j \in DOMAIN with : with[j].name = name => j <= i
    BY <2>2
  <2> QED
    BY <2>3
<1>3. scope = [name \in DOMAIN outer \cup CteNames(with) |->
                  IF name \in CteNames(with) THEN Cte(with[last(name)]) ELSE outer[name]]
  BY DEF Visible
<1> HIDE DEF last
<1>4. /\ DOMAIN scope = DOMAIN outer \cup CteNames(with)
      /\ \A name \in CteNames(with) : scope[name] = Cte(with[last(name)])
      /\ \A name \in DOMAIN outer \ CteNames(with) : scope[name] = outer[name]
  BY <1>3
<1> QED
  BY <1>2, <1>4 DEF Shows

\* The queries around q whose WITH has the name, and the innermost of them.
Having(p, q, name) == {r \in Enclosing(p.query)[q] : name \in CteNames(p.query[r].with)}
Nearest(p, q, name) == {r \in Having(p, q, name) : Having(p, q, name) \subseteq Enclosing(p.query)[r]}

\* What a name stands for where `around` has it and `nearest` has it first.
StandsFor(p, nearest, name, s) ==
    \E r \in nearest : \E i \in DOMAIN p.query[r].with :
        s = Cte(p.query[r].with[i]) /\ p.query[r].with[i].name = name

\* A scope holds the CTEs a name means at q, and no other names.
IsScope(p, q, scope) ==
    \A name : IF Having(p, q, name) = {} THEN name \notin DOMAIN scope
              ELSE name \in DOMAIN scope /\ StandsFor(p, Nearest(p, q, name), name, scope[name])

\* A query is written outermost, and sees nothing, or it is written in another
\* one and sees what is in scope there.
ScopedIn(p, q, outer) ==
    \/ q \in Outermost(p) /\ outer = NoEntry
    \/ \E r \in DOMAIN p.query : q \in DirectlyWithin(p.query[r]) /\ IsScope(p, r, outer)

\* What a query makes visible is lexical when what it sees is.
LEMMA ScopeWithin ==
    ASSUME NEW p, IsProgram(p), NEW q \in DOMAIN p.query, NEW outer, NEW scope,
           scope = Visible(p.query[q].with, outer), ScopedIn(p, q, outer)
    PROVE  IsScope(p, q, scope)
<1> DEFINE with == p.query[q].with
<1>0. scope = Visible(with, outer)
  OBVIOUS
<1>1. IsSequence(with)
  BY TreeFacts
<1>2. q \in Enclosing(p.query)[q]
  BY EnclosingFacts
<1> HIDE DEF with
<1>3. /\ DOMAIN scope = DOMAIN outer \cup CteNames(with)
      /\ \A name \in CteNames(with) : \E i \in DOMAIN with : with[i].name = name /\ scope[name] = Cte(with[i])
      /\ \A name \in DOMAIN outer \ CteNames(with) : scope[name] = outer[name]
  <2>1. Shows(with, outer, scope)
    BY <1>0, <1>1, VisibleFacts
  <2> QED
    BY <2>1 DEF Shows
<1>4. ASSUME NEW name \in CteNames(with), Having(p, q, name) \subseteq Enclosing(p.query)[q]
      PROVE  /\ Having(p, q, name) # {}
             /\ name \in DOMAIN scope /\ StandsFor(p, Nearest(p, q, name), name, scope[name])
  <2>1. q \in Having(p, q, name)
    BY <1>2, <1>4 DEF Having, with
  <2>2. q \in Nearest(p, q, name)
    BY <2>1, <1>4 DEF Nearest
  <2>3. PICK i \in DOMAIN with : with[i].name = name /\ scope[name] = Cte(with[i])
    BY <1>3, <1>4
  <2> QED
    BY <1>3, <1>4, <2>1, <2>2, <2>3 DEF StandsFor, with
<1>5. \A name : Having(p, q, name) \subseteq Enclosing(p.query)[q]
  BY DEF Having
<1>6. CASE q \in Outermost(p) /\ outer = NoEntry
  <2>1. Enclosing(p.query)[q] = {q} /\ DOMAIN outer = {}
    BY <1>6, OutermostEnclosed DEF NoEntry
  <2>2. ASSUME NEW name, name \notin CteNames(with)
        PROVE  Having(p, q, name) = {} /\ name \notin DOMAIN scope
    BY <2>1, <2>2, <1>3 DEF Having, with
  <2> QED
    BY <1>4, <1>5, <2>2 DEF IsScope
<1>7. ASSUME NEW r \in DOMAIN p.query, q \in DirectlyWithin(p.query[r]), IsScope(p, r, outer)
      PROVE  IsScope(p, q, scope)
  <2>1. Enclosing(p.query)[q] = {q} \cup Enclosing(p.query)[r]
    BY <1>7, WithinEnclosed
  <2>2. ASSUME NEW name, name \notin CteNames(with)
        PROVE  /\ Having(p, q, name) = Having(p, r, name)
               /\ name \in DOMAIN scope <=> name \in DOMAIN outer
               /\ name \in DOMAIN outer => scope[name] = outer[name]
    BY <2>1, <2>2, <1>3 DEF Having, with
  <2>3. ASSUME NEW name, name \notin CteNames(with)
        PROVE  Nearest(p, q, name) = Nearest(p, r, name)
    BY <2>2, <2>3 DEF Nearest
  <2>4. ASSUME NEW name, name \notin CteNames(with)
        PROVE  IF Having(p, q, name) = {} THEN name \notin DOMAIN scope
               ELSE name \in DOMAIN scope /\ StandsFor(p, Nearest(p, q, name), name, scope[name])
    BY <1>7, <2>2, <2>3, <2>4 DEF IsScope
  <2> QED
    BY <1>4, <1>5, <2>4 DEF IsScope
<1> QED
  BY <1>6, <1>7 DEF ScopedIn

\* The queries that discovery goes on to.
LEMMA WrittenWithin ==
    ASSUME NEW p, IsProgram(p), NEW q \in DOMAIN p.query, NEW scope, IsScope(p, q, scope)
    PROVE  LET node == p.query[q] IN
           /\ \A i \in DOMAIN node.with : ScopedIn(p, node.with[i].body, scope)
           /\ node.kind = "setop" => \A i \in 1..2 : ScopedIn(p, node.arms[i], scope)
           /\ node.kind = "select" => \A i \in DOMAIN node.where : ScopedIn(p, node.where[i].body, scope)
           /\ node.kind = "select" => \A i \in DOMAIN node.sources :
                 node.sources[i].kind = "subquery" => ScopedIn(p, node.sources[i].body, scope)
<1> DEFINE node == p.query[q]
<1>1. IsNode(node)
  BY DEF IsProgram
<1>2. \A r \in DirectlyWithin(node) : ScopedIn(p, r, scope)
  BY DEF ScopedIn
<1> HIDE DEF node
<1>3. \A i \in DOMAIN node.with : node.with[i].body \in DirectlyWithin(node)
  BY DEF DirectlyWithin, Inlined
<1>4. node.kind = "setop" => \A i \in 1..2 : node.arms[i] \in DirectlyWithin(node)
  <2>1. SUFFICES ASSUME node.kind = "setop" PROVE \A i \in 1..2 : node.arms[i] \in DirectlyWithin(node)
    OBVIOUS
  <2>2. IsSequence(node.arms) /\ Len(node.arms) = 2 /\ ToSet(node.arms) \subseteq DirectlyWithin(node)
    BY <1>1, <2>1 DEF IsNode, DirectlyWithin, Inlined
  <2> QED
    BY <2>2, SequenceFacts
<1>5. node.kind = "select" => \A i \in DOMAIN node.where : node.where[i].body \in DirectlyWithin(node)
  BY DEF DirectlyWithin, Inlined
<1>6. node.kind = "select" => \A i \in DOMAIN node.sources :
         node.sources[i].kind = "subquery" => node.sources[i].body \in DirectlyWithin(node)
  BY DEF DirectlyWithin, Inlined, ToSet
<1> QED
  BY <1>2, <1>3, <1>4, <1>5, <1>6 DEF node

\* What the name at an occurrence means: the CTE it stands for, or else the
\* relation of the whole program.
Means(p, o, names, s) ==
    LET name == p.query[o[1]].sources[o[2]].name IN
    IF Having(p, o[1], name) = {} THEN name \in DOMAIN names /\ s = names[name]
    ELSE StandsFor(p, Nearest(p, o[1], name), name, s)

\* Names are added, and none changes.
Grows(names, later) == DOMAIN names \subseteq DOMAIN later /\ \A name \in DOMAIN names : later[name] = names[name]

LEMMA MeansStill ==
    ASSUME NEW p, NEW names, NEW later, Grows(names, later), NEW o, NEW s, Means(p, o, names, s)
    PROVE  Means(p, o, later, s)
BY DEF Means, Grows

\* What was bound so far means what it should: `met` are the symbols, `names`
\* the global ones.  A view is the body of a statement, and an undeclared table
\* is known by its name.
Lexically(s, names, p) ==
    /\ s.role = "VIEW" => s.body \in Outermost(p) \cup {NoQuery}
    /\ IsUndeclared(s) => s.name \in DOMAIN names /\ names[s.name] = s
NamesLexical(met, names, inScope, sources, p) ==
    /\ \A s \in met : Lexically(s, names, p)
    /\ \A q \in DOMAIN inScope : q \in DOMAIN p.query /\ IsScope(p, q, inScope[q])
    /\ \A o \in DOMAIN sources : Means(p, o, names, sources[o])

LEMMA LexicallyStill ==
    ASSUME NEW p, NEW names, NEW later, Grows(names, later), NEW s, Lexically(s, names, p)
    PROVE  Lexically(s, later, p)
BY DEF Lexically, Grows

-----------------------------------------------------------------------------
(* The invariant: whatever the state mentions was met.                      *)

\* The calls that lowering a query makes.
LoweringCalls == {"lower", "read", "filter", "join", "finish", "mark"}
IsLowering(calls) == \A t \in ToSet(calls) : t.do \in LoweringCalls

\* A call is about queries of the program and relations that were met; a
\* reference is stated among the n assertions there are; a query binds names
\* once its scope is known.
KnownCall(t, p, met, n, seen) ==
    /\ t.do \in {"discover", "require", "target", "lower", "finish", "mark"} => t.query \in DOMAIN p.query
    /\ t.do \in {"bind", "read"} => /\ t.at[1] \in DOMAIN p.query
                                    /\ p.query[t.at[1]].kind = "select"
                                    /\ t.at[2] \in DOMAIN p.query[t.at[1]].sources
    /\ t.do = "filter" => t.conjunct.body \in DOMAIN p.query /\ p.query[t.conjunct.body].kind = "select"
    /\ t.do = "finish" => p.query[t.query].kind # "paren"
    /\ t.do = "declare" => t.statement \in ToSet(p.statements)
    /\ t.do = "discover" => /\ \A name \in DOMAIN t.scope : t.scope[name] \in met
                            /\ ScopedIn(p, t.query, t.scope)
    /\ t.do \in {"view", "constraints of", "constraint", "resolve"} => t.symbol \in met
    /\ t.do \in {"link", "constrain"} => t.reference.table \in met
    /\ t.do \in {"link", "constrain", "refer"} => t.reference.target \in met
    /\ t.do = "refer" => t.reference.position \in 0..n
    /\ t.do = "bind" => t.at[1] \in seen
    /\ t.do \in {"require", "target"} => t.query \in seen
    /\ t.do = "target" => t.marker.references \in Names(p)
KnownCalls(calls, p, met, n, seen) == IsSequence(calls) /\ \A t \in ToSet(calls) : KnownCall(t, p, met, n, seen)

\* Only lowering resolves a relation inside another one.
CallsKnown(calls, around, p, met, n, seen) ==
    /\ KnownCalls(calls, p, met, n, seen)
    /\ around # <<>> => IsLowering(calls)
    /\ IsSequence(around)
    /\ \A i \in DOMAIN around :
          /\ around[i].symbol \in met
          /\ KnownCalls(around[i].rest, p, met, n, seen)
          /\ i > 1 => IsLowering(around[i].rest)

NamesKnown(found, columns, names, inScope, sources, foreign, stated, p) ==
    LET met == ToSet(found) IN
    /\ IsSequence(found)
    /\ \A s \in met : /\ s.body \in DOMAIN p.query \cup {NoQuery}
                      /\ s.declared => s \in DOMAIN stated
    /\ DOMAIN columns = met
    /\ \A name \in DOMAIN names : names[name] \in met /\ names[name].name = name
    /\ \A q \in DOMAIN inScope : \A name \in DOMAIN inScope[q] : inScope[q][name] \in met
    /\ \A o \in DOMAIN sources : sources[o] \in met
    /\ \A m \in DOMAIN foreign : foreign[m] \in met
    /\ \A s \in DOMAIN stated : IsSequence(stated[s])
    /\ NamesLexical(met, names, inScope, sources, p)

ReferencesKnown(refs, waiting, met) ==
    /\ IsSequence(refs) /\ \A r \in ToSet(refs) : r.table \in met /\ r.target \in met
    /\ IsSequence(waiting) /\ \A r \in ToSet(waiting) : r.target \in met

\* A relation is resolved once: it is not resolved inside itself, nor again.
LinksKnown(around, done, results_, open, reported, met) ==
    /\ IsSequence(done) /\ ToSet(done) \subseteq met /\ DOMAIN results_ = ToSet(done)
    /\ \A i, j \in DOMAIN around : around[i].symbol = around[j].symbol => i = j
    /\ open = {around[i].symbol : i \in DOMAIN around}
    /\ open \cap ToSet(done) = {}
    /\ reported \subseteq {s \in met : s.role = "VIEW"}

\* Assertions are inserted where there is something to insert them into.
PositionsKnown(said, waiting, linked) ==
    /\ IsSequence(said) /\ IsSequence(waiting) /\ IsSequence(linked)
    /\ \A r \in ToSet(waiting) \cup ToSet(linked) : r.position \in 0..Len(said)

IInv ==
    /\ IsProgram(program)
    /\ NamesKnown(symbols, required, global, scopes, bound, targets, constraints, program)
    /\ CallsKnown(agenda, callers, program, ToSet(symbols), Len(assertions), DOMAIN scopes)
    /\ ReferencesKnown(references, pending, ToSet(symbols))
    /\ LinksKnown(callers, named, outputs, resolving, cycles, ToSet(symbols))
    /\ PositionsKnown(assertions, pending, placed)

-----------------------------------------------------------------------------
(* How the invariant is kept.                                               *)

LEMMA MoreMet ==
    ASSUME NEW met, NEW more, met \subseteq more, NEW p,
           NEW n, NEW m, 0..n \subseteq 0..m, NEW seen, NEW later, seen \subseteq later
    PROVE  /\ \A t : KnownCall(t, p, met, n, seen) => KnownCall(t, p, more, m, later)
           /\ \A calls : KnownCalls(calls, p, met, n, seen) => KnownCalls(calls, p, more, m, later)
           /\ \A calls, around : CallsKnown(calls, around, p, met, n, seen) => CallsKnown(calls, around, p, more, m, later)
<1>1. ASSUME NEW t, KnownCall(t, p, met, n, seen)
      PROVE  KnownCall(t, p, more, m, later)
  <2>1. /\ t.do = "discover" => \A name \in DOMAIN t.scope : t.scope[name] \in more
        /\ t.do \in {"view", "constraints of", "constraint", "resolve"} => t.symbol \in more
        /\ t.do \in {"link", "constrain"} => t.reference.table \in more
        /\ t.do \in {"link", "constrain", "refer"} => t.reference.target \in more
    BY <1>1 DEF KnownCall
  <2>2. /\ t.do = "refer" => t.reference.position \in 0..m
        /\ t.do = "bind" => t.at[1] \in later
        /\ t.do \in {"require", "target"} => t.query \in later
    BY <1>1 DEF KnownCall
  <2> QED
    BY <1>1, <2>1, <2>2 DEF KnownCall
<1>2. \A calls : KnownCalls(calls, p, met, n, seen) => KnownCalls(calls, p, more, m, later)
  BY <1>1 DEF KnownCalls
<1>3. \A calls, around : CallsKnown(calls, around, p, met, n, seen) => CallsKnown(calls, around, p, more, m, later)
  BY <1>2 DEF CallsKnown
<1> QED
  BY <1>1, <1>2, <1>3

LEMMA MoreRelations ==
    ASSUME NEW met, NEW more, met \subseteq more
    PROVE  /\ \A refs, waiting : ReferencesKnown(refs, waiting, met) => ReferencesKnown(refs, waiting, more)
           /\ \A around, done, results_, open, reported :
                 LinksKnown(around, done, results_, open, reported, met)
                 => LinksKnown(around, done, results_, open, reported, more)
BY DEF ReferencesKnown, LinksKnown

\* The call that is made was known, and known calls may come in its place.
LEMMA CallMade ==
    ASSUME NEW calls, NEW around, NEW p, NEW met, NEW n, NEW seen,
           NEW more, NEW m, NEW later, NEW tasks,
           CallsKnown(calls, around, p, met, n, seen), calls # <<>>, met \subseteq more, 0..n \subseteq 0..m,
           seen \subseteq later,
           KnownCalls(tasks, p, more, m, later), around # <<>> => IsLowering(tasks)
    PROVE  CallsKnown(tasks \o Tail(calls), around, p, more, m, later)
<1>1. CallsKnown(calls, around, p, more, m, later)
  BY MoreMet
<1>2. IsSequence(tasks) /\ IsSequence(calls)
  BY <1>1 DEF CallsKnown, KnownCalls
<1>3. /\ IsSequence(tasks \o Tail(calls))
      /\ ToSet(tasks \o Tail(calls)) \subseteq ToSet(tasks) \cup ToSet(calls)
  BY <1>2, ThenFacts
<1>4. KnownCalls(tasks \o Tail(calls), p, more, m, later)
  BY <1>1, <1>3 DEF KnownCalls, CallsKnown
<1>5. around # <<>> => IsLowering(tasks \o Tail(calls))
  BY <1>1, <1>3 DEF IsLowering, CallsKnown
<1> QED
  BY <1>1, <1>4, <1>5 DEF CallsKnown

LEMMA NextCall ==
    ASSUME NEW calls, NEW around, NEW p, NEW met, NEW n, NEW seen,
           CallsKnown(calls, around, p, met, n, seen), calls # <<>>
    PROVE  /\ KnownCall(Head(calls), p, met, n, seen)
           /\ around # <<>> => Head(calls).do \in LoweringCalls
<1>1. IsSequence(calls)
  BY DEF CallsKnown, KnownCalls
<1>2. Head(calls) \in ToSet(calls)
  BY <1>1, ThenFacts, EmptyFacts
<1> QED
  BY <1>2 DEF CallsKnown, KnownCalls, IsLowering

\* No call at all, and one call.
LEMMA NoCalls ==
    ASSUME NEW p, NEW met, NEW n, NEW seen
    PROVE  KnownCalls(<<>>, p, met, n, seen) /\ IsLowering(<<>>)
BY EmptyFacts DEF KnownCalls, IsLowering

LEMMA OneCall ==
    ASSUME NEW t, NEW p, NEW met, NEW n, NEW seen, KnownCall(t, p, met, n, seen)
    PROVE  KnownCalls(<<t>>, p, met, n, seen) /\ (t.do \in LoweringCalls => IsLowering(<<t>>))
BY OneFacts DEF KnownCalls, IsLowering

LEMMA MoreCalls ==
    ASSUME NEW p, NEW met, NEW n, NEW seen, NEW first, NEW then, KnownCalls(first, p, met, n, seen), KnownCalls(then, p, met, n, seen)
    PROVE  /\ KnownCalls(first \o then, p, met, n, seen)
           /\ IsLowering(first) /\ IsLowering(then) => IsLowering(first \o then)
BY ConcatFacts DEF KnownCalls, IsLowering

LEMMA TwoCalls ==
    ASSUME NEW p, NEW met, NEW n, NEW seen, NEW t, NEW u, KnownCall(t, p, met, n, seen), KnownCall(u, p, met, n, seen)
    PROVE  /\ KnownCalls(<<t, u>>, p, met, n, seen)
           /\ t.do \in LoweringCalls /\ u.do \in LoweringCalls => IsLowering(<<t, u>>)
<1>1. <<t, u>> \in Seq({t, u})
  OBVIOUS
<1>2. IsSequence(<<t, u>>) /\ ToSet(<<t, u>>) \subseteq {t, u}
  BY <1>1, OwnElements
<1> QED
  BY <1>2 DEF KnownCalls, IsLowering

\* A call for every element of a sequence.
LEMMA CallEach ==
    ASSUME NEW s, IsSequence(s), NEW f, f = [i \in DOMAIN s |-> f[i]], NEW p, NEW met, NEW n, NEW seen,
           \A i \in DOMAIN s : KnownCall(f[i], p, met, n, seen)
    PROVE  /\ KnownCalls(f, p, met, n, seen)
           /\ (\A i \in DOMAIN s : f[i].do \in LoweringCalls) => IsLowering(f)
<1>1. IsSequence(f) /\ ToSet(f) = {f[i] : i \in DOMAIN s}
  BY EachFacts, SequenceFacts
<1> QED
  BY <1>1 DEF KnownCalls, IsLowering
-----------------------------------------------------------------------------
(* The invariant is kept.                                                   *)

\* What a step leaves alone when it makes calls, and does nothing else that
\* the invariant is about.
Base ==
    /\ IsProgram(program)
    /\ NamesKnown(symbols, required, global, scopes, bound, targets, constraints, program)
    /\ CallsKnown(agenda, callers, program, ToSet(symbols), Len(assertions), DOMAIN scopes)
    /\ LinksKnown(callers, named, outputs, resolving, cycles, ToSet(symbols))

LEMMA BaseStep ==
    ASSUME Base, agenda # <<>>, NEW tasks, agenda' = tasks \o Tail(agenda),
           KnownCalls(tasks, program, ToSet(symbols), Len(assertions), DOMAIN scopes), callers # <<>> => IsLowering(tasks),
           UNCHANGED <<program, binding, constraints, linking>>, DOMAIN required' = DOMAIN required,
           0..Len(assertions) \subseteq 0..Len(assertions')
    PROVE  Base'
<1>1. /\ program' = program /\ symbols' = symbols /\ global' = global /\ scopes' = scopes
      /\ bound' = bound /\ targets' = targets /\ constraints' = constraints
      /\ callers' = callers /\ named' = named /\ outputs' = outputs
      /\ resolving' = resolving /\ cycles' = cycles
  BY DEF binding, linking
<1>2. CallsKnown(tasks \o Tail(agenda), callers, program, ToSet(symbols), Len(assertions'), DOMAIN scopes)
  <2>1. KnownCalls(tasks, program, ToSet(symbols), Len(assertions'), DOMAIN scopes)
    BY MoreMet
  <2> QED
    BY <2>1, CallMade DEF Base
<1>3. CallsKnown(agenda, callers, program, ToSet(symbols), Len(assertions), DOMAIN scopes)'
  BY <1>1, <1>2
<1>4. NamesKnown(symbols, required, global, scopes, bound, targets, constraints, program)'
  BY <1>1 DEF Base, NamesKnown
<1> QED
  BY <1>1, <1>3, <1>4 DEF Base

\* The common case: nothing is promised or placed either.
LEMMA QuietStep ==
    ASSUME IInv, agenda # <<>>, NEW tasks, agenda' = tasks \o Tail(agenda),
           KnownCalls(tasks, program, ToSet(symbols), Len(assertions), DOMAIN scopes), callers # <<>> => IsLowering(tasks),
           UNCHANGED <<program, binding, constraints, linking, references, assertions, pending, placed>>,
           DOMAIN required' = DOMAIN required
    PROVE  IInv'
<1>1. assertions' = assertions
  OBVIOUS
<1>2. Base'
  BY <1>1, BaseStep DEF IInv, Base
<1>3. ReferencesKnown(references, pending, ToSet(symbols))' /\ PositionsKnown(assertions, pending, placed)'
  BY DEF IInv, binding
<1> QED
  BY <1>2, <1>3 DEF IInv, Base

LEMMA InitInv == Init => IInv
<1> SUFFICES ASSUME Init PROVE IInv
  OBVIOUS
<1>1. IsProgram(program)
  BY ProgramsAssumption DEF Init
<1> DEFINE declare == [i \in DOMAIN program.statements |-> [do |-> "declare", statement |-> program.statements[i]]]
           root(task) == IF program.root = NoQuery THEN <<>> ELSE <<task>>
<1>2. KnownCalls(declare, program, {}, 0, {})
  <2>1. IsSequence(program.statements)
    BY <1>1, StatementFacts
  <2>2. \A i \in DOMAIN program.statements : KnownCall(declare[i], program, {}, 0, {})
    BY DEF KnownCall, ToSet
  <2> QED
    BY <2>1, <2>2, CallEach
<1>3. KnownCalls(root(Discover(program.root, NoEntry)), program, {}, 0, {})
  <2>1. CASE program.root = NoQuery
    BY <2>1, NoCalls
  <2>2. CASE program.root # NoQuery
    <3>1. KnownCall(Discover(program.root, NoEntry), program, {}, 0, {})
      <4>1. ScopedIn(program, program.root, NoEntry)
        BY <2>2 DEF ScopedIn, Outermost
      <4> QED
        BY <2>2, <1>1, <4>1, StatementFacts DEF KnownCall, Discover, NoEntry
    <3> QED
      BY <2>2, <3>1, OneCall
  <2> QED
    BY <2>1, <2>2
<1>4. KnownCalls(root(Lower(program.root)), program, {}, 0, {})
  <2>1. CASE program.root = NoQuery
    BY <2>1, NoCalls
  <2>2. CASE program.root # NoQuery
    <3>1. KnownCall(Lower(program.root), program, {}, 0, {})
      BY <2>2, <1>1, StatementFacts DEF KnownCall, Lower
    <3> QED
      BY <2>2, <3>1, OneCall
  <2> QED
    BY <2>1, <2>2
<1>5. \A what \in {"views", "constraints", "propagate", "links", "references", "place", "report", "settle"} :
         KnownCalls(<<Call(what)>>, program, {}, 0, {})
  <2>1. \A what \in {"views", "constraints", "propagate", "links", "references", "place", "report", "settle"} :
           KnownCall(Call(what), program, {}, 0, {})
    BY ZenonT(30) DEF KnownCall, Call
  <2> QED
    BY <2>1, OneCall
<1> DEFINE middle == <<Call("constraints"), Call("propagate")>>
           last == <<Call("links"), Call("references"), Call("place"), Call("report"), Call("settle")>>
<1>6. KnownCalls(middle, program, {}, 0, {})
  <2>1. middle = <<Call("constraints")>> \o <<Call("propagate")>>
    OBVIOUS
  <2> HIDE DEF middle
  <2> QED
    BY <2>1, <1>5, MoreCalls
<1>7. KnownCalls(last, program, {}, 0, {})
  <2>1. last = <<Call("links")>> \o (<<Call("references")>> \o (<<Call("place")>> \o (<<Call("report")>> \o <<Call("settle")>>)))
    OBVIOUS
  <2> HIDE DEF last
  <2>2. KnownCalls(<<Call("report")>> \o <<Call("settle")>>, program, {}, 0, {})
    BY <1>5, MoreCalls
  <2>3. KnownCalls(<<Call("place")>> \o (<<Call("report")>> \o <<Call("settle")>>), program, {}, 0, {})
    BY <1>5, <2>2, MoreCalls
  <2>4. KnownCalls(<<Call("references")>> \o (<<Call("place")>> \o (<<Call("report")>> \o <<Call("settle")>>)), program, {}, 0, {})
    BY <1>5, <2>3, MoreCalls
  <2> QED
    BY <2>1, <1>5, <2>4, MoreCalls
<1>8. agenda = declare \o <<Call("views")>> \o root(Discover(program.root, NoEntry)) \o middle
                 \o root(Lower(program.root)) \o last
  BY DEF Init
<1>9. KnownCalls(agenda, program, {}, 0, {})
  <2> HIDE DEF declare, root, middle, last
  <2>1. KnownCalls(declare \o <<Call("views")>>, program, {}, 0, {})
    BY <1>2, <1>5, MoreCalls
  <2>2. KnownCalls(declare \o <<Call("views")>> \o root(Discover(program.root, NoEntry)), program, {}, 0, {})
    BY <2>1, <1>3, MoreCalls
  <2>3. KnownCalls(declare \o <<Call("views")>> \o root(Discover(program.root, NoEntry)) \o middle, program, {}, 0, {})
    BY <2>2, <1>6, MoreCalls
  <2>4. KnownCalls(declare \o <<Call("views")>> \o root(Discover(program.root, NoEntry)) \o middle
                     \o root(Lower(program.root)), program, {}, 0, {})
    BY <2>3, <1>4, MoreCalls
  <2> QED
    BY <1>8, <2>4, <1>7, MoreCalls
<1> HIDE DEF declare, root, middle, last
<1>10. /\ symbols = <<>> /\ references = <<>> /\ named = <<>> /\ callers = <<>>
       /\ assertions = <<>> /\ pending = <<>> /\ placed = <<>>
       /\ global = NoEntry /\ constraints = NoEntry /\ scopes = NoEntry /\ bound = NoEntry
       /\ required = NoEntry /\ targets = NoEntry /\ outputs = NoEntry
       /\ resolving = {} /\ cycles = {}
  BY DEF Init
<1>11. Len(<<>>) = 0 /\ IsSequence(<<>>) /\ ToSet(<<>>) = {} /\ DOMAIN <<>> = {} /\ DOMAIN NoEntry = {}
  BY EmptyFacts DEF NoEntry
<1>12. NamesKnown(symbols, required, global, scopes, bound, targets, constraints, program)
  BY <1>10, <1>11 DEF NamesKnown, NamesLexical
<1>13. CallsKnown(agenda, callers, program, ToSet(symbols), Len(assertions), DOMAIN scopes)
  BY <1>9, <1>10, <1>11 DEF CallsKnown
<1>14. ReferencesKnown(references, pending, ToSet(symbols))
  BY <1>10, <1>11 DEF ReferencesKnown
<1>15. LinksKnown(callers, named, outputs, resolving, cycles, ToSet(symbols))
  BY <1>10, <1>11 DEF LinksKnown
<1>16. PositionsKnown(assertions, pending, placed)
  BY <1>10, <1>11 DEF PositionsKnown
<1> QED
  BY <1>1, <1>12, <1>13, <1>14, <1>15, <1>16 DEF IInv

\* The call that a step makes.
LEMMA TaskFacts ==
    ASSUME IInv, NEW what, Doing(what)
    PROVE  /\ agenda # <<>> /\ Task.do = what
           /\ KnownCall(Task, program, ToSet(symbols), Len(assertions), DOMAIN scopes)
           /\ what \notin LoweringCalls => callers = <<>>
<1>1. agenda # <<>> /\ Task.do = what /\ Task = Head(agenda)
  BY DEF Doing, Task
<1>2. CallsKnown(agenda, callers, program, ToSet(symbols), Len(assertions), DOMAIN scopes)
  BY DEF IInv
<1> QED
  BY <1>1, <1>2, NextCall

\* What such a call is about.
LEMMA SymbolCall ==
    ASSUME IInv, NEW what \in {"view", "constraints of", "constraint", "resolve"}, Doing(what)
    PROVE  Task.symbol \in ToSet(symbols)
BY TaskFacts DEF KnownCall

LEMMA ReferenceCall ==
    ASSUME IInv, NEW what \in {"link", "constrain", "refer"}, Doing(what)
    PROVE  /\ Task.reference.target \in ToSet(symbols)
           /\ what # "refer" => Task.reference.table \in ToSet(symbols)
BY TaskFacts DEF KnownCall

LEMMA StatementCall ==
    ASSUME IInv, Doing("declare")
    PROVE  Task.statement \in ToSet(program.statements)
BY TaskFacts DEF KnownCall

LEMMA DiscoverCall ==
    ASSUME IInv, Doing("discover")
    PROVE  /\ Task.query \in DOMAIN program.query
           /\ \A name \in DOMAIN Task.scope : Task.scope[name] \in ToSet(symbols)
           /\ ScopedIn(program, Task.query, Task.scope)
BY TaskFacts DEF KnownCall

LEMMA ScopedCall ==
    ASSUME IInv, NEW what \in {"require", "target"}, Doing(what)
    PROVE  Task.query \in DOMAIN scopes
BY TaskFacts DEF KnownCall

LEMMA BindCall ==
    ASSUME IInv, Doing("bind")
    PROVE  /\ Task.at[1] \in DOMAIN program.query /\ program.query[Task.at[1]].kind = "select"
           /\ Task.at[2] \in DOMAIN program.query[Task.at[1]].sources
           /\ Task.at[1] \in DOMAIN scopes
BY TaskFacts DEF KnownCall

Expanding == DiscoverViews \/ DiscoverView \/ DiscoverConstraints \/ DiscoverConstraintsOf
             \/ LinkConstraints \/ LinkReference

\* Steps that only make calls, outside of lowering.
LEMMA ExpandingKept == IInv /\ Expanding => IInv'
<1> SUFFICES ASSUME IInv, Expanding PROVE IInv'
  OBVIOUS
<1> DEFINE met == ToSet(symbols)
<1>1. /\ IsSequence(symbols) /\ IsSequence(references) /\ IsProgram(program)
      /\ \A i \in DOMAIN symbols : symbols[i] \in met
      /\ \A i \in DOMAIN references : references[i].table \in met /\ references[i].target \in met
      /\ \A s \in met : s.body \in DOMAIN program.query \cup {NoQuery}
      /\ \A s \in met : s.declared => s \in DOMAIN constraints
      /\ \A s \in DOMAIN constraints : IsSequence(constraints[s])
  BY DEF IInv, NamesKnown, ReferencesKnown, ToSet
<1>2. CASE DiscoverViews
  <2> DEFINE tasks == [i \in DOMAIN symbols |-> About("view", symbols[i])]
  <2>1. agenda # <<>> /\ callers = <<>> /\ agenda' = tasks \o Tail(agenda)
    BY <1>2, TaskFacts, SMTT(30) DEF DiscoverViews, Then, LoweringCalls
  <2>2. \A i \in DOMAIN symbols : KnownCall(tasks[i], program, met, Len(assertions), DOMAIN scopes)
    BY <1>1 DEF KnownCall, About
  <2>3. KnownCalls(tasks, program, met, Len(assertions), DOMAIN scopes)
    BY <2>2, <1>1, CallEach
  <2>4. UNCHANGED <<program, binding, constraints, linking, references, assertions, pending, placed, required>>
    BY <1>2 DEF DiscoverViews, asking, marking
  <2> HIDE DEF tasks
  <2> QED
    BY <2>1, <2>3, <2>4, QuietStep
<1>3. CASE DiscoverView
  <2> DEFINE s == Task.symbol
             tasks == IF s.role = "VIEW" /\ s.body # NoQuery THEN <<Discover(s.body, NoEntry)>> ELSE <<>>
  <2>0. agenda' = tasks \o Tail(agenda)
    BY <1>3 DEF DiscoverView, Then
  <2>1. agenda # <<>> /\ callers = <<>> /\ s \in met
    <3>1. Doing("view")
      BY <1>3 DEF DiscoverView
    <3>2. agenda # <<>> /\ callers = <<>>
      BY <3>1, TaskFacts DEF LoweringCalls
    <3>3. s \in met
      BY <3>1, SymbolCall
    <3> QED
      BY <3>2, <3>3
  <2>2. tasks = <<>> \/ (s.role = "VIEW" /\ s.body # NoQuery /\ tasks = <<Discover(s.body, NoEntry)>>)
    OBVIOUS
  <2>6. s.role = "VIEW" /\ s.body # NoQuery => ScopedIn(program, s.body, NoEntry)
    <3>1. Lexically(s, global, program)
      BY <2>1 DEF IInv, NamesKnown, NamesLexical
    <3> QED
      BY <3>1 DEF Lexically, ScopedIn
  <2>3. s.role = "VIEW" /\ s.body # NoQuery
        => KnownCall(Discover(s.body, NoEntry), program, met, Len(assertions), DOMAIN scopes)
    BY <2>1, <2>6, <1>1 DEF KnownCall, Discover, NoEntry
  <2> HIDE DEF tasks, s
  <2>4. KnownCalls(tasks, program, met, Len(assertions), DOMAIN scopes)
    BY <2>2, <2>3, OneCall, NoCalls
  <2>5. UNCHANGED <<program, binding, constraints, linking, references, assertions, pending, placed, required>>
    BY <1>3 DEF DiscoverView, asking, marking
  <2> QED
    BY <2>0, <2>1, <2>4, <2>5, QuietStep
<1>4. CASE DiscoverConstraints
  <2> DEFINE tasks == [i \in DOMAIN symbols |-> About("constraints of", symbols[i])]
  <2>0. agenda' = tasks \o Tail(agenda)
    BY <1>4 DEF DiscoverConstraints, Then
  <2>1. agenda # <<>> /\ callers = <<>>
    <3>1. Doing("constraints")
      BY <1>4 DEF DiscoverConstraints
    <3> QED
      BY <3>1, TaskFacts DEF LoweringCalls
  <2>2. \A i \in DOMAIN symbols : KnownCall(tasks[i], program, met, Len(assertions), DOMAIN scopes)
    BY <1>1 DEF KnownCall, About
  <2>3. KnownCalls(tasks, program, met, Len(assertions), DOMAIN scopes)
    BY <2>2, <1>1, CallEach
  <2>4. UNCHANGED <<program, binding, constraints, linking, references, assertions, pending, placed, required>>
    BY <1>4 DEF DiscoverConstraints, asking, marking
  <2> HIDE DEF tasks
  <2> QED
    BY <2>0, <2>1, <2>3, <2>4, QuietStep
<1>5. CASE DiscoverConstraintsOf
  <2> DEFINE s == Task.symbol
             of == ConstraintsOf(s)
             tasks == [i \in DOMAIN of |-> [do |-> "constraint", symbol |-> s, constraint |-> of[i]]]
  <2>0. agenda' = tasks \o Tail(agenda)
    BY <1>5 DEF DiscoverConstraintsOf, Then
  <2>1. agenda # <<>> /\ callers = <<>> /\ s \in met
    <3>1. Doing("constraints of")
      BY <1>5 DEF DiscoverConstraintsOf
    <3>0. "constraints of" \notin LoweringCalls
      BY DEF LoweringCalls
    <3> HIDE DEF tasks, of, s, met
    <3>2. agenda # <<>> /\ callers = <<>>
      BY <3>0, <3>1, TaskFacts
    <3>3. s \in met
      BY <3>1, SymbolCall DEF s, met
    <3> QED
      BY <3>2, <3>3
  <2>2. IsSequence(of)
    BY <2>1, <1>1, EmptyFacts DEF ConstraintsOf
  <2>3. \A i \in DOMAIN of : KnownCall(tasks[i], program, met, Len(assertions), DOMAIN scopes)
    BY <2>1 DEF KnownCall
  <2>4. KnownCalls(tasks, program, met, Len(assertions), DOMAIN scopes)
    <3> HIDE DEF of, s
    <3> QED
      BY <2>2, <2>3, CallEach
  <2>5. UNCHANGED <<program, binding, constraints, linking, references, assertions, pending, placed, required>>
    BY <1>5 DEF DiscoverConstraintsOf, asking, marking
  <2> HIDE DEF tasks, s, of
  <2> QED
    BY <2>0, <2>1, <2>4, <2>5, QuietStep
<1>6. CASE LinkConstraints
  <2> DEFINE tasks == [i \in DOMAIN references |-> Reference("link", references[i])]
  <2>1. agenda # <<>> /\ callers = <<>> /\ agenda' = tasks \o Tail(agenda)
    BY <1>6, TaskFacts, SMTT(30) DEF LinkConstraints, Then, LoweringCalls
  <2>2. \A i \in DOMAIN references : KnownCall(tasks[i], program, met, Len(assertions), DOMAIN scopes)
    BY <1>1 DEF KnownCall, Reference
  <2>3. KnownCalls(tasks, program, met, Len(assertions), DOMAIN scopes)
    BY <2>2, <1>1, CallEach
  <2>4. UNCHANGED <<program, binding, constraints, linking, references, assertions, pending, placed, required>>
    BY <1>6 DEF LinkConstraints, asking, marking
  <2> HIDE DEF tasks
  <2> QED
    BY <2>1, <2>3, <2>4, QuietStep
<1>7. CASE LinkReference
  <2> DEFINE r == Task.reference
             tasks == <<Resolve(r.table), Resolve(r.target), Reference("constrain", r)>>
  <2>1. agenda # <<>> /\ callers = <<>> /\ agenda' = tasks \o Tail(agenda) /\ r.table \in met /\ r.target \in met
    BY <1>7, TaskFacts, ReferenceCall DEF LinkReference, Then, LoweringCalls
  <2>2. /\ KnownCall(Resolve(r.table), program, met, Len(assertions), DOMAIN scopes) /\ KnownCall(Resolve(r.target), program, met, Len(assertions), DOMAIN scopes)
        /\ KnownCall(Reference("constrain", r), program, met, Len(assertions), DOMAIN scopes)
    BY <2>1 DEF KnownCall, Resolve, About, Reference
  <2>3. tasks = <<Resolve(r.table)>> \o (<<Resolve(r.target)>> \o <<Reference("constrain", r)>>)
    OBVIOUS
  <2> HIDE DEF tasks, r
  <2>4. KnownCalls(<<Resolve(r.target)>> \o <<Reference("constrain", r)>>, program, met, Len(assertions), DOMAIN scopes)
    BY <2>2, OneCall, MoreCalls
  <2>5. KnownCalls(tasks, program, met, Len(assertions), DOMAIN scopes)
    BY <2>2, <2>3, <2>4, OneCall, MoreCalls
  <2>6. UNCHANGED <<program, binding, constraints, linking, references, assertions, pending, placed, required>>
    BY <1>7 DEF LinkReference, asking, marking
  <2> QED
    BY <2>1, <2>5, <2>6, QuietStep
<1> QED
  BY <1>2, <1>3, <1>4, <1>5, <1>6, <1>7 DEF Expanding

Passing == RequireColumns \/ Propagate \/ ConstrainReference \/ ReportUnanalyzed

\* Steps that make no call, and bind, promise and link nothing.
LEMMA PassingKept == IInv /\ Passing => IInv'
<1> SUFFICES ASSUME IInv, Passing PROVE IInv'
  OBVIOUS
<1>1. KnownCalls(<<>>, program, ToSet(symbols), Len(assertions), DOMAIN scopes) /\ IsLowering(<<>>)
  BY NoCalls
<1>2. CASE RequireColumns
  <2>1. agenda # <<>> /\ agenda' = <<>> \o Tail(agenda) /\ DOMAIN required' = DOMAIN required
    BY <1>2, TaskFacts DEF RequireColumns, Ask, Then
  <2>2. UNCHANGED <<program, binding, constraints, linking, references, assertions, pending, placed>>
    BY <1>2 DEF RequireColumns, marking
  <2> QED
    BY <1>1, <2>1, <2>2, QuietStep
<1>3. CASE Propagate
  <2>1. UNCHANGED <<program, binding, constraints, linking, references, assertions, pending, placed>>
    BY <1>3 DEF Propagate, marking
  <2>2. DOMAIN required' = DOMAIN required
    BY <1>3 DEF Propagate, Ask, asking
  <2>0. agenda' = agenda \/ (agenda # <<>> /\ agenda' = <<>> \o Tail(agenda))
    <3>1. agenda # <<>>
      BY <1>3, TaskFacts DEF Propagate
    <3>2. agenda' = agenda \/ agenda' = <<>> \o Tail(agenda)
      BY <1>3 DEF Propagate, Then, Crash
    <3> QED
      BY <3>1, <3>2
  <2>3. CASE agenda' = agenda
    <3>1. /\ program' = program /\ symbols' = symbols /\ global' = global /\ scopes' = scopes
          /\ bound' = bound /\ targets' = targets /\ constraints' = constraints
          /\ callers' = callers /\ named' = named /\ outputs' = outputs
          /\ resolving' = resolving /\ cycles' = cycles
          /\ references' = references /\ assertions' = assertions /\ pending' = pending /\ placed' = placed
      BY <2>1 DEF binding, linking
    <3>2. NamesKnown(symbols, required, global, scopes, bound, targets, constraints, program)'
      BY <3>1, <2>2 DEF IInv, NamesKnown
    <3> QED
      BY <3>1, <3>2, <2>3 DEF IInv
  <2>4. CASE agenda # <<>> /\ agenda' = <<>> \o Tail(agenda)
    BY <1>1, <2>1, <2>2, <2>4, QuietStep
  <2> QED
    BY <2>0, <2>3, <2>4
<1>4. CASE ConstrainReference
  <2>1. agenda # <<>> /\ agenda' = <<>> \o Tail(agenda)
    BY <1>4, TaskFacts DEF ConstrainReference, Then
  <2>2. UNCHANGED <<program, binding, constraints, linking, references, assertions, pending, placed, required>>
    BY <1>4 DEF ConstrainReference, marking, asking
  <2> QED
    BY <1>1, <2>1, <2>2, QuietStep
<1>5. CASE ReportUnanalyzed
  <2>1. agenda # <<>> /\ agenda' = <<>> \o Tail(agenda)
    BY <1>5, TaskFacts DEF ReportUnanalyzed, Then
  <2>2. UNCHANGED <<program, binding, constraints, linking, references, assertions, pending, placed, required>>
    BY <1>5 DEF ReportUnanalyzed, marking, asking
  <2> QED
    BY <1>1, <2>1, <2>2, QuietStep
<1> QED
  BY <1>2, <1>3, <1>4, <1>5 DEF Passing

Working == LowerQuery \/ FilterRows \/ FinishQuery

\* Lowering a query makes the calls of lowering, on queries of the program.
LEMMA WorkingKept == IInv /\ Working => IInv'
<1> SUFFICES ASSUME IInv, Working PROVE IInv'
  OBVIOUS
<1> DEFINE met == ToSet(symbols)
           known(tasks) == KnownCalls(tasks, program, met, Len(assertions), DOMAIN scopes) /\ IsLowering(tasks)
<1>1. IsProgram(program)
  BY DEF IInv
<1>2. ASSUME NEW q \in DOMAIN program.query, Node(q).kind = "select"
      PROVE  known(SourceTasks(q))
  <2>1. IsSequence(Node(q).sources)
    BY <1>1, <1>2, TreeFacts DEF Node
  <2>2. \A i \in DOMAIN Node(q).sources : KnownCall(Read(q, i), program, met, Len(assertions), DOMAIN scopes) /\ Read(q, i).do \in LoweringCalls
    BY <1>2 DEF KnownCall, Read, Node, LoweringCalls
  <2>3. /\ SourceTasks(q) = [i \in DOMAIN Node(q).sources |-> SourceTasks(q)[i]]
        /\ \A i \in DOMAIN Node(q).sources : SourceTasks(q)[i] = Read(q, i)
    BY DEF SourceTasks
  <2>4. \A i \in DOMAIN Node(q).sources :
          /\ KnownCall(SourceTasks(q)[i], program, met, Len(assertions), DOMAIN scopes)
          /\ SourceTasks(q)[i].do \in LoweringCalls
    BY <2>2, <2>3
  <2> HIDE DEF met
  <2> QED
    BY <2>1, <2>3, <2>4, CallEach
<1>3. ASSUME NEW q \in DOMAIN program.query, Node(q).kind = "select"
      PROVE  known(WhereTasks(q))
  <2> DEFINE filter(i) == [do |-> "filter", conjunct |-> Node(q).where[i]]
             filters == [i \in DOMAIN Node(q).where |-> filter(i)]
  <2>1. /\ IsSequence(Node(q).where)
        /\ \A i \in DOMAIN Node(q).where : /\ Node(q).where[i].body \in DOMAIN program.query
                                           /\ program.query[Node(q).where[i].body].kind = "select"
    BY <1>1, <1>3, TreeFacts DEF Node
  <2>2. \A i \in DOMAIN Node(q).where : KnownCall(filter(i), program, met, Len(assertions), DOMAIN scopes) /\ filter(i).do \in LoweringCalls
    BY <2>1 DEF KnownCall, LoweringCalls
  <2>3. known(filters)
    <3>1. \A i \in DOMAIN Node(q).where : filters[i] = filter(i)
      OBVIOUS
    <3> HIDE DEF filter
    <3> QED
      BY <2>1, <2>2, <3>1, CallEach
  <2>4. WhereTasks(q) = filters \/ WhereTasks(q) = <<>>
    BY DEF WhereTasks
  <2> QED
    BY <2>3, <2>4, NoCalls
<1>4. ASSUME NEW tasks, known(tasks), agenda # <<>>, agenda' = tasks \o Tail(agenda),
             UNCHANGED <<program, binding, constraints, linking, references, assertions, pending, placed, required>>
      PROVE  IInv'
  BY <1>4, QuietStep
<1>5. CASE LowerQuery
  <2> DEFINE q == Unwrap(Task.query)
             finish == <<[do |-> "finish", query |-> q]>>
             tasks == CASE Node(q).kind = "setop" -> <<Lower(Node(q).arms[1]), Lower(Node(q).arms[2])>> \o finish
                        [] Node(q).kind = "select" /\ Node(q).tail = "natural" -> finish
                        [] OTHER -> SourceTasks(q) \o WhereTasks(q) \o finish
  <2>1. agenda # <<>> /\ Task.query \in DOMAIN program.query
    BY <1>5, TaskFacts DEF LowerQuery, KnownCall
  <2>2. q \in DOMAIN program.query /\ Node(q).kind # "paren"
    BY <2>1, <1>1, TreeFacts DEF Unwrap, Node
  <2>3. agenda' = tasks \o Tail(agenda)
    BY <1>5 DEF LowerQuery, Then
  <2>4. UNCHANGED <<program, binding, constraints, linking, references, assertions, pending, placed, required>>
    BY <1>5 DEF LowerQuery, asking, marking
  <2> HIDE DEF q
  <2>5. known(finish)
    <3>1. KnownCall([do |-> "finish", query |-> q], program, met, Len(assertions), DOMAIN scopes)
      BY <2>2 DEF KnownCall, Node
    <3> QED
      BY <3>1, OneCall DEF LoweringCalls
  <2> HIDE DEF finish
  <2>6. CASE Node(q).kind = "setop"
    <3>1. KnownCall(Lower(Node(q).arms[1]), program, met, Len(assertions), DOMAIN scopes) /\ KnownCall(Lower(Node(q).arms[2]), program, met, Len(assertions), DOMAIN scopes)
      <4>1. \A i \in 1..2 : Node(q).arms[i] \in DOMAIN program.query
        BY <2>2, <2>6, <1>1, TreeFacts DEF Node
      <4>2. /\ Lower(Node(q).arms[1]) = [do |-> "lower", query |-> Node(q).arms[1]]
            /\ Lower(Node(q).arms[2]) = [do |-> "lower", query |-> Node(q).arms[2]]
        BY DEF Lower
      <4>3. Node(q).arms[1] \in DOMAIN program.query /\ Node(q).arms[2] \in DOMAIN program.query
        BY <4>1
      <4> QED
        BY <4>2, <4>3 DEF KnownCall
    <3>2. Lower(Node(q).arms[1]).do \in LoweringCalls /\ Lower(Node(q).arms[2]).do \in LoweringCalls
      BY DEF Lower, LoweringCalls
    <3> DEFINE arms == <<Lower(Node(q).arms[1]), Lower(Node(q).arms[2])>>
    <3>3. known(arms)
      <4>1. KnownCalls(arms, program, met, Len(assertions), DOMAIN scopes)
        BY <3>1, TwoCalls
      <4>2. IsLowering(arms)
        BY <3>1, <3>2, TwoCalls
      <4> QED
        BY <4>1, <4>2
    <3>4. tasks = arms \o finish
      BY <2>6
    <3> HIDE DEF arms, tasks
    <3>7. known(tasks)
      BY <3>3, <3>4, <2>5, MoreCalls
    <3> QED
      BY <3>7, <2>1, <2>3, <2>4, <1>4
  <2>7. CASE Node(q).kind # "setop"
    <3>1. Node(q).kind = "select"
      BY <2>2, <2>7, <1>1, TreeFacts DEF Node
    <3>2. known(SourceTasks(q) \o WhereTasks(q))
      BY <3>1, <2>2, <1>2, <1>3, MoreCalls
    <3>3. known(SourceTasks(q) \o WhereTasks(q) \o finish)
      BY <3>2, <2>5, MoreCalls
    <3>4. known(tasks)
      <4>1. tasks = finish \/ tasks = SourceTasks(q) \o WhereTasks(q) \o finish
        BY <2>7
      <4> HIDE DEF tasks
      <4> QED
        BY <4>1, <3>3, <2>5
    <3> QED
      BY <3>4, <2>1, <2>3, <2>4, <1>4
  <2> QED
    BY <2>6, <2>7
<1>6. CASE FilterRows
  <2> DEFINE body == Task.conjunct.body
             tasks == CASE Task.conjunct.kind = "in" -> <<Lower(body)>>
                        [] Task.conjunct.kind = "exists" /\ Lowered(Node(body).tail) /\ Node(body).with = <<>> -> SourceTasks(body)
                        [] OTHER -> <<>>
  <2>1. agenda # <<>> /\ body \in DOMAIN program.query /\ Node(body).kind = "select"
    BY <1>6, TaskFacts DEF FilterRows, KnownCall, Node
  <2>2. agenda' = tasks \o Tail(agenda)
    BY <1>6 DEF FilterRows, Then
  <2>3. UNCHANGED <<program, binding, constraints, linking, references, assertions, pending, placed, required>>
    BY <1>6 DEF FilterRows, asking, marking
  <2>4. known(<<Lower(body)>>)
    <3>1. KnownCall(Lower(body), program, met, Len(assertions), DOMAIN scopes) /\ Lower(body).do \in LoweringCalls
      BY <2>1 DEF KnownCall, Lower, LoweringCalls
    <3> QED
      BY <3>1, OneCall
  <2>5. tasks = <<Lower(body)>> \/ tasks = SourceTasks(body) \/ tasks = <<>>
    OBVIOUS
  <2> HIDE DEF tasks, body
  <2>6. known(tasks)
    BY <2>1, <2>4, <2>5, <1>2, NoCalls
  <2> QED
    BY <2>1, <2>2, <2>3, <2>6, <1>4
<1>7. CASE FinishQuery
  <2> DEFINE q == Task.query
             marks == [i \in DOMAIN Node(q).markers |-> Mark("mark", q, Node(q).markers[i])]
  <2>1. agenda # <<>> /\ q \in DOMAIN program.query
    BY <1>7, TaskFacts DEF FinishQuery, KnownCall
  <2>2. UNCHANGED <<program, binding, constraints, linking, references, assertions, pending, placed, required>>
    BY <1>7 DEF FinishQuery, asking, marking
  <2>3. agenda' = <<>> \o Tail(agenda) \/ (Node(q).kind = "select" /\ agenda' = marks \o Tail(agenda))
    BY <1>7 DEF FinishQuery, Then
  <2>4. ASSUME Node(q).kind = "select" PROVE known(marks)
    <3>1. IsSequence(Node(q).markers)
      BY <2>1, <2>4, <1>1, TreeFacts DEF Node
    <3>2. \A i \in DOMAIN Node(q).markers :
             KnownCall(marks[i], program, met, Len(assertions), DOMAIN scopes) /\ marks[i].do \in LoweringCalls
      BY <2>1 DEF KnownCall, Mark, LoweringCalls
    <3> QED
      BY <3>1, <3>2, CallEach
  <2> HIDE DEF marks
  <2> QED
    BY <2>1, <2>2, <2>3, <2>4, <1>4, NoCalls
<1> QED
  BY <1>5, <1>6, <1>7 DEF Working

\* Inserting and removing.
LEMMA InsertFacts ==
    ASSUME NEW s, IsSequence(s), NEW k \in 0..Len(s), NEW x
    PROVE  IsSequence(InsertAt(s, k + 1, x)) /\ Len(InsertAt(s, k + 1, x)) = Len(s) + 1
<1> DEFINE S == ToSet(s) \cup {x}
<1>1. s \in Seq(ToSet(s)) /\ Len(s) \in Nat
  BY SequenceFacts DEF IsSequence
<1>2. s \in Seq(S) /\ x \in S
  <2> HIDE DEF S
  <2>1. ToSet(s) \subseteq S /\ x \in S
    BY DEF S
  <2> QED
    BY <1>1, <2>1
<1> HIDE DEF S
<1>3. k \in Nat /\ k <= Len(s) /\ (k + 1) - 1 = k
  BY <1>1
<1>4. SubSeq(s, 1, k) \in Seq(S) /\ Len(SubSeq(s, 1, k)) = k
  BY <1>1, <1>2, <1>3
<1>5. SubSeq(s, k + 1, Len(s)) \in Seq(S) /\ Len(SubSeq(s, k + 1, Len(s))) = Len(s) - k
  BY <1>1, <1>2, <1>3
<1>6. <<x>> \in Seq(S) /\ Len(<<x>>) = 1
  BY <1>2
<1>7. InsertAt(s, k + 1, x) = SubSeq(s, 1, k) \o <<x>> \o SubSeq(s, k + 1, Len(s))
  BY <1>3 DEF InsertAt
<1> DEFINE before == SubSeq(s, 1, k)
           after == SubSeq(s, k + 1, Len(s))
<1>8. before \in Seq(S) /\ after \in Seq(S) /\ Len(before) = k /\ Len(after) = Len(s) - k
  BY <1>4, <1>5
<1>9. InsertAt(s, k + 1, x) = (before \o <<x>>) \o after
  BY <1>7
<1> HIDE DEF before, after
<1>10. before \o <<x>> \in Seq(S) /\ Len(before \o <<x>>) = k + 1
  BY <1>6, <1>8
<1>11. (before \o <<x>>) \o after \in Seq(S) /\ Len((before \o <<x>>) \o after) = (k + 1) + (Len(s) - k)
  BY <1>8, <1>10
<1>12. (k + 1) + (Len(s) - k) = Len(s) + 1
  BY <1>1, <1>3
<1> QED
  BY <1>9, <1>11, <1>12, OwnElements

LEMMA RemoveFacts ==
    ASSUME NEW s, IsSequence(s), NEW k \in 1..Len(s)
    PROVE  IsSequence(RemoveAt(s, k)) /\ ToSet(RemoveAt(s, k)) \subseteq ToSet(s) /\ s[k] \in ToSet(s)
<1>1. s \in Seq(ToSet(s)) /\ Len(s) \in Nat /\ s[k] \in ToSet(s)
  BY SequenceFacts DEF IsSequence
<1>2. k \in Nat /\ k >= 1 /\ k <= Len(s)
  BY <1>1
<1>3. SubSeq(s, 1, k - 1) \in Seq(ToSet(s)) /\ SubSeq(s, k + 1, Len(s)) \in Seq(ToSet(s))
  BY <1>1, <1>2
<1>4. RemoveAt(s, k) \in Seq(ToSet(s))
  BY <1>3 DEF RemoveAt
<1> QED
  BY <1>1, <1>4, OwnElements

LEMMA TailFacts ==
    ASSUME NEW s, IsSequence(s), s # <<>>
    PROVE  IsSequence(Tail(s)) /\ ToSet(Tail(s)) \subseteq ToSet(s) /\ Head(s) \in ToSet(s)
<1>1. s \in Seq(ToSet(s))
  BY DEF IsSequence
<1>2. Tail(s) \in Seq(ToSet(s)) /\ Head(s) \in ToSet(s)
  BY <1>1
<1> QED
  BY <1>2, OwnElements

\* What is first of two sequences, one after the other.
LEMMA FirstFacts ==
    ASSUME NEW s, NEW t, IsSequence(s), IsSequence(t)
    PROVE  /\ s = <<>> => s \o t = t
           /\ s # <<>> => s \o t # <<>> /\ Head(s \o t) = Head(s) /\ Tail(s \o t) = Tail(s) \o t
<1> DEFINE S == ToSet(s) \cup ToSet(t)
<1>1. s \in Seq(S) /\ t \in Seq(S)
  <2> HIDE DEF S
  <2>1. ToSet(s) \subseteq S /\ ToSet(t) \subseteq S
    BY DEF S
  <2> QED
    BY <2>1 DEF IsSequence
<1> HIDE DEF S
<1> QED
  BY <1>1

Marking == AssertJoin \/ RegisterMarker \/ LinkMarkers \/ StateReference \/ PlaceAssertion

\* Assertions are only added, so what is to be inserted keeps its position.
LEMMA MorePositions ==
    ASSUME NEW said, NEW waiting, NEW linked, PositionsKnown(said, waiting, linked),
           NEW more, IsSequence(more), Len(more) = Len(said) \/ Len(more) = Len(said) + 1
    PROVE  PositionsKnown(more, waiting, linked)
<1>1. Len(said) \in Nat /\ Len(more) \in Nat
  BY SequenceFacts DEF PositionsKnown
<1>2. 0..Len(said) \subseteq 0..Len(more)
  BY <1>1
<1> QED
  BY <1>2 DEF PositionsKnown

LEMMA MarkingKept == IInv /\ Marking => IInv'
<1> SUFFICES ASSUME IInv, Marking PROVE IInv'
  OBVIOUS
<1> DEFINE met == ToSet(symbols)
<1>1. KnownCalls(<<>>, program, met, Len(assertions), DOMAIN scopes) /\ IsLowering(<<>>)
  BY NoCalls
<1>2. /\ IsSequence(assertions) /\ IsSequence(pending) /\ IsSequence(placed) /\ Len(assertions) \in Nat
      /\ PositionsKnown(assertions, pending, placed)
      /\ ReferencesKnown(references, pending, met)
      /\ \A m \in DOMAIN targets : targets[m] \in met
      /\ Base
  BY SequenceFacts DEF IInv, Base, PositionsKnown, NamesKnown
<1> DEFINE grown(more) == Len(more) \in Nat /\ 0..Len(assertions) \subseteq 0..Len(more)
<1>0. grown(assertions) /\ \A x : grown(Append(assertions, x))
  BY <1>2, AppendFacts
<1>3. CASE AssertJoin
  <2>1. /\ agenda # <<>> /\ agenda' = <<>> \o Tail(agenda) /\ assertions' = Append(assertions, Task.marker)
        /\ UNCHANGED <<program, binding, constraints, references, linking, pending, placed, required>>
    BY <1>3, TaskFacts DEF AssertJoin, Then, asking
  <2>2. Base'
    BY <1>0, <1>1, <1>2, <2>1, BaseStep
  <2>3. PositionsKnown(assertions, pending, placed)'
    BY <2>1, <1>2, AppendFacts, MorePositions
  <2>4. ReferencesKnown(references, pending, ToSet(symbols))'
    BY <2>1, <1>2 DEF binding
  <2> QED
    BY <2>2, <2>3, <2>4 DEF IInv, Base
<1>4. CASE RegisterMarker
  <2> DEFINE m == Task.marker
             r == [marker |-> m, target |-> targets[m.id], position |-> Len(assertions)]
  <2>1. /\ agenda # <<>>
        /\ UNCHANGED <<program, binding, constraints, references, linking, placed, required>>
        /\ agenda' = <<>> \o Tail(agenda) \/ agenda' = agenda
    BY <1>4, TaskFacts DEF RegisterMarker, Then, asking, Crash
  <2>2. \/ pending' = pending /\ (assertions' = assertions \/ assertions' = Append(assertions, m.id))
        \/ m.id \in DOMAIN targets /\ pending' = Append(pending, r) /\ assertions' = assertions
    BY <1>4 DEF RegisterMarker
  <2>3. Base'
    <3>1. 0..Len(assertions) \subseteq 0..Len(assertions')
      BY <2>2, <1>0
    <3>2. CASE agenda' = <<>> \o Tail(agenda)
      BY <1>1, <1>2, <2>1, <3>1, <3>2, BaseStep
    <3>3. CASE agenda' = agenda
      <4>1. CallsKnown(agenda, callers, program, ToSet(symbols), Len(assertions'), DOMAIN scopes)
        BY <1>2, <3>1, MoreMet DEF Base
      <4> QED
        BY <1>2, <2>1, <3>3, <4>1 DEF Base, binding, linking
    <3> QED
      BY <2>1, <3>2, <3>3
  <2>4. CASE pending' = pending /\ (assertions' = assertions \/ assertions' = Append(assertions, m.id))
    <3>0. IsSequence(assertions') /\ (Len(assertions') = Len(assertions) \/ Len(assertions') = Len(assertions) + 1)
      BY <2>4, <1>2, AppendFacts, ZenonT(30)
    <3>1. PositionsKnown(assertions, pending, placed)'
      BY <2>1, <2>4, <3>0, <1>2, MorePositions
    <3>2. ReferencesKnown(references, pending, ToSet(symbols))'
      BY <2>1, <2>4, <1>2 DEF binding
    <3> QED
      BY <2>3, <3>1, <3>2 DEF IInv, Base
  <2>5. CASE m.id \in DOMAIN targets /\ pending' = Append(pending, r) /\ assertions' = assertions
    <3>1. r.target \in met /\ r.position \in 0..Len(assertions)
      BY <2>5, <1>2
    <3> HIDE DEF r
    <3>2. IsSequence(Append(pending, r)) /\ ToSet(Append(pending, r)) = ToSet(pending) \cup {r}
      BY <1>2, AppendFacts
    <3>3. PositionsKnown(assertions, pending, placed)'
      BY <2>1, <2>5, <1>2, <3>1, <3>2 DEF PositionsKnown
    <3>4. ReferencesKnown(references, pending, ToSet(symbols))'
      BY <2>1, <2>5, <1>2, <3>1, <3>2 DEF ReferencesKnown, binding
    <3> QED
      BY <2>3, <3>3, <3>4 DEF IInv, Base
  <2> QED
    BY <2>2, <2>4, <2>5
<1>5. CASE LinkMarkers
  <2>1. /\ agenda # <<>> /\ callers = <<>>
        /\ UNCHANGED <<program, binding, constraints, references, linking, assertions, placed, required>>
    BY <1>5, TaskFacts DEF LinkMarkers, LoweringCalls, asking
  <2>2. CASE pending = <<>>
    <3>1. agenda' = <<>> \o Tail(agenda) /\ pending' = pending
      BY <1>5, <2>2 DEF LinkMarkers, Then
    <3> QED
      BY <2>1, <3>1, <1>1, QuietStep
  <2>3. CASE pending # <<>>
    <3> DEFINE first == Head(pending)
               tasks == <<Resolve(first.target), Reference("refer", first)>> \o LinkMore
    <3>1. agenda' = tasks \o Tail(agenda) /\ pending' = Tail(pending)
      BY <1>5, <2>3 DEF LinkMarkers, Then
    <3>2. first.target \in met /\ first.position \in 0..Len(assertions) /\ IsSequence(Tail(pending)) /\ ToSet(Tail(pending)) \subseteq ToSet(pending)
      BY <2>3, <1>2, TailFacts DEF ReferencesKnown, PositionsKnown
    <3>3. /\ KnownCall(Resolve(first.target), program, met, Len(assertions), DOMAIN scopes)
          /\ KnownCall(Reference("refer", first), program, met, Len(assertions), DOMAIN scopes)
          /\ KnownCall(Call("references"), program, met, Len(assertions), DOMAIN scopes)
      BY <3>2 DEF KnownCall, Resolve, About, Reference, Call
    <3>4. tasks = <<Resolve(first.target)>> \o <<Reference("refer", first)>> \o <<Call("references")>>
      BY DEF LinkMore
    <3> HIDE DEF tasks, first
    <3>5. KnownCalls(<<Resolve(first.target)>> \o <<Reference("refer", first)>>, program, met, Len(assertions), DOMAIN scopes)
      BY <3>3, OneCall, MoreCalls
    <3>6. KnownCalls(tasks, program, met, Len(assertions), DOMAIN scopes)
      BY <3>3, <3>4, <3>5, OneCall, MoreCalls
    <3>7. Base'
      BY <1>0, <2>1, <3>1, <3>6, <1>2, BaseStep
    <3>8. PositionsKnown(assertions, pending, placed)'
      BY <2>1, <3>1, <3>2, <1>2 DEF PositionsKnown
    <3>9. ReferencesKnown(references, pending, ToSet(symbols))'
      BY <2>1, <3>1, <3>2, <1>2 DEF ReferencesKnown, binding
    <3> QED
      BY <3>7, <3>8, <3>9 DEF IInv, Base
  <2> QED
    BY <2>2, <2>3
<1>6. CASE StateReference
  <2> DEFINE r == Task.reference
  <2>1. /\ agenda # <<>> /\ agenda' = <<>> \o Tail(agenda)
        /\ placed' = placed \/ placed' = Append(placed, r)
        /\ UNCHANGED <<program, binding, constraints, references, linking, assertions, pending, required>>
    BY <1>6, TaskFacts DEF StateReference, Then, asking
  <2>2. CASE placed' = placed
    BY <2>1, <2>2, <1>1, QuietStep
  <2>3. CASE placed' = Append(placed, r)
    <3>1. Base'
      BY <1>0, <2>1, <1>1, <1>2, BaseStep
    <3>2. r.position \in 0..Len(assertions)
      BY <1>6, TaskFacts DEF StateReference, KnownCall
    <3> HIDE DEF r
    <3>3. IsSequence(Append(placed, r)) /\ ToSet(Append(placed, r)) = ToSet(placed) \cup {r}
      BY <1>2, AppendFacts
    <3>4. PositionsKnown(assertions, pending, placed)'
      BY <2>1, <2>3, <1>2, <3>2, <3>3 DEF PositionsKnown
    <3>5. ReferencesKnown(references, pending, ToSet(symbols))'
      BY <2>1, <1>2 DEF binding
    <3> QED
      BY <3>1, <3>4, <3>5 DEF IInv, Base
  <2> QED
    BY <2>1, <2>2, <2>3
<1>7. CASE PlaceAssertion
  <2>1. /\ agenda # <<>>
        /\ UNCHANGED <<program, binding, constraints, references, linking, pending, required>>
    BY <1>7, TaskFacts DEF PlaceAssertion, asking
  <2>2. CASE placed = <<>>
    <3>1. agenda' = <<>> \o Tail(agenda) /\ placed' = placed /\ assertions' = assertions
      BY <1>7, <2>2 DEF PlaceAssertion, Then
    <3> QED
      BY <2>1, <3>1, <1>1, QuietStep
  <2>3. CASE placed # <<>>
    <3> DEFINE r == placed[LastPlaced]
    <3>1. /\ agenda' = agenda /\ placed' = RemoveAt(placed, LastPlaced)
          /\ assertions' = InsertAt(assertions, r.position + 1, r.marker.id)
      BY <1>7, <2>3 DEF PlaceAssertion
    <3>2. LastPlaced \in 1..Len(placed)
      BY <2>3, <1>2, FrontFacts DEF LastPlaced
    <3>3. IsSequence(RemoveAt(placed, LastPlaced)) /\ ToSet(RemoveAt(placed, LastPlaced)) \subseteq ToSet(placed)
          /\ r \in ToSet(placed)
      BY <3>2, <1>2, RemoveFacts
    <3>4. r.position \in 0..Len(assertions)
      BY <3>3, <1>2 DEF PositionsKnown
    <3>5. IsSequence(assertions') /\ Len(assertions') = Len(assertions) + 1
      BY <3>1, <3>4, <1>2, InsertFacts
    <3>6. PositionsKnown(assertions', pending, placed)
      BY <3>5, <1>2, MorePositions
    <3>7. PositionsKnown(assertions, pending, placed)'
      BY <3>1, <3>3, <3>6, <2>1 DEF PositionsKnown
    <3>10. 0..Len(assertions) \subseteq 0..Len(assertions')
      BY <3>5, <1>2
    <3>11. CallsKnown(agenda, callers, program, ToSet(symbols), Len(assertions'), DOMAIN scopes)
      BY <1>2, <3>10, MoreMet DEF Base
    <3>8. Base'
      BY <1>2, <2>1, <3>1, <3>11 DEF Base, binding, linking
    <3>9. ReferencesKnown(references, pending, ToSet(symbols))'
      BY <2>1, <1>2 DEF binding
    <3> QED
      BY <3>7, <3>8, <3>9 DEF IInv, Base
  <2> QED
    BY <2>2, <2>3
<1> QED
  BY <1>3, <1>4, <1>5, <1>6, <1>7 DEF Marking

\* A step that binds names: relations are met, calls are made.
LEMMA NamingStep ==
    ASSUME IInv, agenda # <<>>, NEW tasks, agenda' = tasks \o Tail(agenda), callers = <<>>,
           NamesKnown(symbols, required, global, scopes, bound, targets, constraints, program)',
           ToSet(symbols) \subseteq ToSet(symbols'), DOMAIN scopes \subseteq DOMAIN scopes',
           KnownCalls(tasks, program, ToSet(symbols'), Len(assertions), DOMAIN scopes'),
           UNCHANGED <<program, linking, assertions, pending, placed>>,
           ReferencesKnown(references', pending, ToSet(symbols'))
    PROVE  IInv'
<1>1. CallsKnown(tasks \o Tail(agenda), callers, program, ToSet(symbols'), Len(assertions), DOMAIN scopes')
  <2>1. callers # <<>> => IsLowering(tasks)
    OBVIOUS
  <2>2. CallsKnown(agenda, callers, program, ToSet(symbols), Len(assertions), DOMAIN scopes)
    BY DEF IInv
  <2> QED
    BY <2>1, <2>2, CallMade
<1>2. LinksKnown(callers, named, outputs, resolving, cycles, ToSet(symbols'))
  BY MoreRelations DEF IInv
<1>3. /\ program' = program /\ callers' = callers /\ named' = named /\ outputs' = outputs
      /\ resolving' = resolving /\ cycles' = cycles
      /\ assertions' = assertions /\ pending' = pending /\ placed' = placed
  BY DEF linking
<1> QED
  BY <1>1, <1>2, <1>3 DEF IInv

LEMMA SymbolFacts ==
    ASSUME IInv, NEW q \in DOMAIN scopes, NEW name
    PROVE  LET s == SymbolFor(name, scopes[q]) IN
           /\ s \in ToSet(symbols) \/ (s = Undeclared(name) /\ name \notin DOMAIN global)
           /\ s.body \in DOMAIN program.query \cup {NoQuery}
           /\ s.declared => s \in DOMAIN constraints
<1> DEFINE scope == scopes[q]
           s == SymbolFor(name, scope)
<1>1. NamesKnown(symbols, required, global, scopes, bound, targets, constraints, program)
  BY DEF IInv
<1>2. name \in DOMAIN scope => scope[name] \in ToSet(symbols)
  BY <1>1 DEF NamesKnown
<1>3. name \in DOMAIN global => global[name] \in ToSet(symbols)
  BY <1>1 DEF NamesKnown
<1> HIDE DEF scope
<1>4. s \in ToSet(symbols) \/ (s = Undeclared(name) /\ name \notin DOMAIN global)
  BY <1>2, <1>3 DEF SymbolFor
<1>5. Undeclared(name).body = NoQuery /\ ~Undeclared(name).declared
  BY DEF Undeclared, Symbol
<1> HIDE DEF s
<1>6. s.body \in DOMAIN program.query \cup {NoQuery} /\ (s.declared => s \in DOMAIN constraints)
  BY <1>1, <1>4, <1>5 DEF NamesKnown
<1> QED
  BY <1>4, <1>6 DEF s, scope

\* A relation that was met is met afterwards, and its name is known.
LEMMA MeetFacts ==
    ASSUME NamesKnown(symbols, required, global, scopes, bound, targets, constraints, program),
           NEW s, NEW columns, Meet(s, columns), UNCHANGED <<program, scopes, constraints>>,
           s.body \in DOMAIN program.query \cup {NoQuery}, s.declared => s \in DOMAIN constraints
    PROVE  /\ ToSet(symbols') = ToSet(symbols) \cup {s}
           /\ IsSequence(symbols')
           /\ DOMAIN required' = ToSet(symbols')
           /\ \A name \in DOMAIN global' : global'[name] \in ToSet(symbols') /\ global'[name].name = name
           /\ \A t \in ToSet(symbols') : /\ t.body \in DOMAIN program.query \cup {NoQuery}
                                         /\ t.declared => t \in DOMAIN constraints
<1>1. /\ IsSequence(symbols) /\ DOMAIN required = ToSet(symbols)
      /\ \A name \in DOMAIN global : global[name] \in ToSet(symbols) /\ global[name].name = name
      /\ \A t \in ToSet(symbols) : /\ t.body \in DOMAIN program.query \cup {NoQuery}
                                   /\ t.declared => t \in DOMAIN constraints
  BY DEF NamesKnown
<1>2. DOMAIN required' = DOMAIN required \cup {s}
  BY DEF With, Meet
<1>3. CASE s \in ToSet(symbols)
  <2>1. symbols' = symbols /\ global' = global
    BY <1>3 DEF Meet
  <2> QED
    BY <1>1, <1>2, <1>3, <2>1
<1>4. CASE s \notin ToSet(symbols)
  <2>1. symbols' = Append(symbols, s) /\ global' = With(global, s.name, s)
    BY <1>4 DEF Meet
  <2>2. IsSequence(symbols') /\ ToSet(symbols') = ToSet(symbols) \cup {s}
    BY <1>1, <2>1, AppendFacts
  <2>3. /\ DOMAIN global' = DOMAIN global \cup {s.name} /\ global'[s.name] = s
        /\ \A name \in DOMAIN global : name # s.name => global'[name] = global[name]
    BY <2>1 DEF With
  <2> QED
    BY <1>1, <1>2, <2>2, <2>3
<1> QED
  BY <1>3, <1>4

\* No name changes its meaning when a relation is met, and it is the one its
\* name means.
LEMMA MeetLexical ==
    ASSUME IInv, NEW q \in DOMAIN scopes, NEW name, NEW s, s = SymbolFor(name, scopes[q]),
           NEW columns, Meet(s, columns)
    PROVE  /\ Grows(global, global')
           /\ \A t \in ToSet(symbols') : Lexically(t, global', program)
           /\ IF Having(program, q, name) = {} THEN name \in DOMAIN global' /\ s = global'[name]
              ELSE StandsFor(program, Nearest(program, q, name), name, s)
<1> DEFINE scope == scopes[q]
<1>1. /\ s \in ToSet(symbols) \/ (s = Undeclared(name) /\ name \notin DOMAIN global)
      /\ name \in DOMAIN scope => s = scope[name]
      /\ name \notin DOMAIN scope /\ name \in DOMAIN global => s = global[name]
      /\ name \notin DOMAIN scope /\ name \notin DOMAIN global => s = Undeclared(name)
  <2>1. s \in ToSet(symbols) \/ (s = Undeclared(name) /\ name \notin DOMAIN global)
    BY SymbolFacts
  <2>2. s = SymbolFor(name, scope)
    OBVIOUS
  <2> HIDE DEF scope
  <2>3. name \in DOMAIN scope => s = scope[name]
    BY <2>2 DEF SymbolFor
  <2>4. name \notin DOMAIN scope /\ name \in DOMAIN global => s = global[name]
    BY <2>2 DEF SymbolFor
  <2>5. name \notin DOMAIN scope /\ name \notin DOMAIN global => s = Undeclared(name)
    BY <2>2 DEF SymbolFor
  <2> QED
    BY <2>1, <2>3, <2>4, <2>5
<1>2. /\ IF Having(program, q, name) = {} THEN name \notin DOMAIN scope
         ELSE name \in DOMAIN scope /\ StandsFor(program, Nearest(program, q, name), name, scope[name])
      /\ \A t \in ToSet(symbols) : Lexically(t, global, program)
      /\ IsSequence(symbols)
      /\ name \in DOMAIN scope => scope[name] \in ToSet(symbols)
  <2>1. NamesLexical(ToSet(symbols), global, scopes, bound, program)
    BY DEF IInv, NamesKnown
  <2>2. IsScope(program, q, scope) /\ \A t \in ToSet(symbols) : Lexically(t, global, program)
    BY <2>1 DEF NamesLexical
  <2>3. IsSequence(symbols) /\ (name \in DOMAIN scope => scope[name] \in ToSet(symbols))
    BY DEF IInv, NamesKnown
  <2> HIDE DEF scope
  <2>4. IF Having(program, q, name) = {} THEN name \notin DOMAIN scope
        ELSE name \in DOMAIN scope /\ StandsFor(program, Nearest(program, q, name), name, scope[name])
    BY <2>2 DEF IsScope
  <2> QED
    BY <2>2, <2>3, <2>4
<1> HIDE DEF scope
<1>3. Undeclared(name).name = name /\ Undeclared(name).role = "TABLE" /\ IsUndeclared(Undeclared(name))
  BY DEF Undeclared, Symbol, IsUndeclared
<1>4. CASE s \in ToSet(symbols)
  <2>1. symbols' = symbols /\ global' = global
    BY <1>4 DEF Meet
  <2>2. name \notin DOMAIN scope => name \in DOMAIN global /\ s = global[name]
    <3>1. SUFFICES ASSUME name \notin DOMAIN scope, name \notin DOMAIN global PROVE FALSE
      BY <1>1
    <3>2. s = Undeclared(name) /\ Lexically(s, global, program)
      BY <1>1, <1>2, <1>4, <3>1
    <3> QED
      BY <1>3, <3>1, <3>2 DEF Lexically
  <2> QED
    BY <1>1, <1>2, <2>1, <2>2 DEF Grows
<1>5. CASE s \notin ToSet(symbols)
  <2>1. symbols' = Append(symbols, s) /\ global' = With(global, s.name, s)
    BY <1>5 DEF Meet
  <2>2. s = Undeclared(name) /\ name \notin DOMAIN global /\ name \notin DOMAIN scope
    BY <1>1, <1>2, <1>5
  <2>3. ToSet(symbols') = ToSet(symbols) \cup {s}
    BY <1>2, <2>1, AppendFacts
  <2>4. /\ DOMAIN global' = DOMAIN global \cup {name} /\ global'[name] = s
        /\ \A other \in DOMAIN global : other # name => global'[other] = global[other]
    BY <1>3, <2>1, <2>2 DEF With
  <2>5. Grows(global, global')
    BY <2>2, <2>4 DEF Grows
  <2>6. Lexically(s, global', program)
    BY <1>3, <2>2, <2>4 DEF Lexically
  <2>7. \A t \in ToSet(symbols') : Lexically(t, global', program)
    BY <1>2, <2>3, <2>5, <2>6, LexicallyStill
  <2> QED
    BY <1>2, <2>2, <2>4, <2>5, <2>7
<1> QED
  BY <1>4, <1>5

\* Entries are added to what is known of sources and of markers.
LEMMA BindSourceKept == IInv /\ BindSource => IInv'
<1> SUFFICES ASSUME IInv, BindSource PROVE IInv'
  OBVIOUS
<1> DEFINE o == Task.at
           q == o[1]
           source == Source(o)
           s == SymbolFor(source.name, scopes[q])
           tasks == IF source.kind = "subquery" THEN <<Discover(source.body, scopes[q])>> ELSE <<>>
<1>1. /\ agenda # <<>> /\ callers = <<>> /\ agenda' = tasks \o Tail(agenda)
      /\ q \in DOMAIN program.query /\ program.query[q].kind = "select"
      /\ o[2] \in DOMAIN program.query[q].sources /\ q \in DOMAIN scopes
  BY TaskFacts, BindCall DEF BindSource, Then, LoweringCalls
<1>2. UNCHANGED <<program, scopes, targets, constraints, references, linking, assertions, pending, placed>>
  BY DEF BindSource, marking
<1>3. NamesKnown(symbols, required, global, scopes, bound, targets, constraints, program) /\ IsProgram(program)
  BY DEF IInv
<1>4. /\ s.body \in DOMAIN program.query \cup {NoQuery}
      /\ s.declared => s \in DOMAIN constraints
  BY <1>1, SymbolFacts
<1>5. /\ source.kind = "table" => Meet(s, {}) /\ bound' = With(bound, o, s)
      /\ source.kind # "table" => UNCHANGED <<symbols, global, required, bound>>
  BY DEF BindSource
<1>6. source.kind = "subquery" => source.body \in DOMAIN program.query
  BY <1>1, <1>3, TreeFacts DEF Source, Node
<1> HIDE DEF s, source, q, o
<1>7. NamesKnown(symbols, required, global, scopes, bound, targets, constraints, program)'
      /\ ToSet(symbols) \subseteq ToSet(symbols')
  <2>1. CASE source.kind = "table"
    <3>1. /\ ToSet(symbols') = ToSet(symbols) \cup {s}
          /\ IsSequence(symbols')
          /\ DOMAIN required' = ToSet(symbols')
          /\ \A name \in DOMAIN global' : global'[name] \in ToSet(symbols') /\ global'[name].name = name
          /\ \A t \in ToSet(symbols') : /\ t.body \in DOMAIN program.query \cup {NoQuery}
                                        /\ t.declared => t \in DOMAIN constraints
      BY <2>1, <1>2, <1>3, <1>4, <1>5, MeetFacts
    <3>2. /\ DOMAIN bound' = DOMAIN bound \cup {o} /\ bound'[o] = s
          /\ \A p \in DOMAIN bound : p # o => bound'[p] = bound[p]
      BY <2>1, <1>5 DEF With
    <3>3. /\ Grows(global, global')
          /\ \A t \in ToSet(symbols') : Lexically(t, global', program)
          /\ Means(program, o, global', s)
      <4>1. q \in DOMAIN scopes /\ s = SymbolFor(source.name, scopes[q]) /\ Meet(s, {})
        BY <1>1, <1>5, <2>1 DEF s
      <4>2. /\ Grows(global, global')
            /\ \A t \in ToSet(symbols') : Lexically(t, global', program)
            /\ IF Having(program, q, source.name) = {} THEN source.name \in DOMAIN global' /\ s = global'[source.name]
               ELSE StandsFor(program, Nearest(program, q, source.name), source.name, s)
        BY <4>1, MeetLexical
      <4>3. source.name = program.query[o[1]].sources[o[2]].name /\ q = o[1]
        BY DEF source, q, Source, Node
      <4> QED
        BY <4>2, <4>3 DEF Means
    <3>4. NamesLexical(ToSet(symbols'), global', scopes', bound', program')
      <4>1. NamesLexical(ToSet(symbols), global, scopes, bound, program)
        BY <1>3 DEF NamesKnown
      <4>2. \A p \in DOMAIN bound' : Means(program, p, global', bound'[p])
        BY <4>1, <3>2, <3>3, MeansStill DEF NamesLexical
      <4> QED
        BY <1>2, <3>3, <4>1, <4>2 DEF NamesLexical
    <3> QED
      BY <1>2, <1>3, <3>1, <3>2, <3>4 DEF NamesKnown
  <2>2. CASE source.kind # "table"
    BY <2>2, <1>2, <1>3, <1>5
  <2> QED
    BY <2>1, <2>2
<1>8. KnownCalls(tasks, program, ToSet(symbols'), Len(assertions), DOMAIN scopes')
  <2>1. CASE source.kind = "subquery"
    <3>1. \A name \in DOMAIN scopes[q] : scopes[q][name] \in ToSet(symbols)
      BY <1>1, <1>3 DEF NamesKnown
    <3>3. ScopedIn(program, source.body, scopes[q])
      <4>1. IsScope(program, q, scopes[q])
        BY <1>1, <1>3 DEF NamesKnown, NamesLexical
      <4> QED
        BY <2>1, <1>1, <1>3, <4>1, WrittenWithin DEF source, q, Source, Node
    <3>2. KnownCall(Discover(source.body, scopes[q]), program, ToSet(symbols'), Len(assertions), DOMAIN scopes')
      BY <2>1, <1>6, <1>7, <3>1, <3>3 DEF KnownCall, Discover
    <3> QED
      BY <2>1, <3>2, OneCall
  <2>2. CASE source.kind # "subquery"
    BY <2>2, NoCalls
  <2> QED
    BY <2>1, <2>2
<1>9. ReferencesKnown(references', pending, ToSet(symbols'))
  BY <1>2, <1>7, MoreRelations DEF IInv
<1> HIDE DEF tasks
<1> QED
  BY <1>1, <1>2, <1>7, <1>8, <1>9, NamingStep

LEMMA FindTargetKept == IInv /\ FindTarget => IInv'
<1> SUFFICES ASSUME IInv, FindTarget PROVE IInv'
  OBVIOUS
<1> DEFINE m == Task.marker
           q == Task.query
           s == SymbolFor(m.references, scopes[q])
<1>1. agenda # <<>> /\ callers = <<>> /\ agenda' = <<>> \o Tail(agenda) /\ q \in DOMAIN scopes
  BY TaskFacts, ScopedCall DEF FindTarget, Then, LoweringCalls
<1>2. UNCHANGED <<program, scopes, bound, constraints, references, linking, assertions, pending, placed>>
  BY DEF FindTarget, marking
<1>3. NamesKnown(symbols, required, global, scopes, bound, targets, constraints, program)
  BY DEF IInv
<1>4. /\ s.body \in DOMAIN program.query \cup {NoQuery}
      /\ s.declared => s \in DOMAIN constraints
  BY <1>1, SymbolFacts
<1>5. \/ (\E columns : Meet(s, columns)) /\ targets' = With(targets, m.id, s)
      \/ UNCHANGED <<symbols, global, required, targets>>
  BY DEF FindTarget
<1> HIDE DEF s, m, q
<1>6. NamesKnown(symbols, required, global, scopes, bound, targets, constraints, program)'
      /\ ToSet(symbols) \subseteq ToSet(symbols')
  <2>1. CASE (\E columns : Meet(s, columns)) /\ targets' = With(targets, m.id, s)
    <3>1. PICK columns : Meet(s, columns)
      BY <2>1
    <3>2. /\ ToSet(symbols') = ToSet(symbols) \cup {s}
          /\ IsSequence(symbols')
          /\ DOMAIN required' = ToSet(symbols')
          /\ \A name \in DOMAIN global' : global'[name] \in ToSet(symbols') /\ global'[name].name = name
          /\ \A t \in ToSet(symbols') : /\ t.body \in DOMAIN program.query \cup {NoQuery}
                                        /\ t.declared => t \in DOMAIN constraints
      BY <3>1, <1>2, <1>3, <1>4, MeetFacts
    <3>3. /\ DOMAIN targets' = DOMAIN targets \cup {m.id} /\ targets'[m.id] = s
          /\ \A n \in DOMAIN targets : n # m.id => targets'[n] = targets[n]
      BY <2>1 DEF With
    <3>4. NamesLexical(ToSet(symbols'), global', scopes', bound', program')
      <4>1. NamesLexical(ToSet(symbols), global, scopes, bound, program)
        BY <1>3 DEF NamesKnown
      <4>2. Grows(global, global') /\ \A t \in ToSet(symbols') : Lexically(t, global', program)
        BY <1>1, <3>1, MeetLexical DEF s
      <4>3. \A p \in DOMAIN bound : Means(program, p, global', bound[p])
        BY <4>1, <4>2, MeansStill DEF NamesLexical
      <4> QED
        BY <1>2, <4>1, <4>2, <4>3 DEF NamesLexical
    <3> QED
      BY <1>2, <1>3, <3>2, <3>3, <3>4 DEF NamesKnown
  <2>2. CASE UNCHANGED <<symbols, global, required, targets>>
    BY <2>2, <1>2, <1>3
  <2> QED
    BY <1>5, <2>1, <2>2
<1>7. ReferencesKnown(references', pending, ToSet(symbols'))
  BY <1>2, <1>6, MoreRelations DEF IInv
<1>8. KnownCalls(<<>>, program, ToSet(symbols'), Len(assertions), DOMAIN scopes')
  BY NoCalls
<1> QED
  BY <1>1, <1>2, <1>6, <1>7, <1>8, NamingStep

\* The names that are written in a program.
LEMMA NamesWritten ==
    ASSUME NEW p
    PROVE  /\ \A i \in DOMAIN p.statements : p.statements[i].name \in Names(p)
           /\ \A q \in DOMAIN p.query : \A i \in DOMAIN p.query[q].with : p.query[q].with[i].name \in Names(p)
           /\ \A q \in DOMAIN p.query : p.query[q].kind = "select" =>
                 /\ \A i \in DOMAIN p.query[q].sources : p.query[q].sources[i].name \in Names(p)
                 /\ \A i \in DOMAIN p.query[q].markers : p.query[q].markers[i].references \in Names(p)
<1>1. \A i \in DOMAIN p.statements : p.statements[i].name \in Names(p)
  <2>1. \A i \in DOMAIN p.statements : p.statements[i].name \in {s.name : s \in ToSet(p.statements)}
    BY DEF ToSet
  <2> QED
    BY <2>1 DEF Names
<1>2. \A q \in DOMAIN p.query : NamesIn(p.query[q]) \subseteq Names(p)
  BY DEF Names
<1>3. ASSUME NEW node
      PROVE  /\ \A i \in DOMAIN node.with : node.with[i].name \in NamesIn(node)
             /\ node.kind = "select" =>
                   /\ \A i \in DOMAIN node.sources : node.sources[i].name \in NamesIn(node)
                   /\ \A i \in DOMAIN node.markers : node.markers[i].references \in NamesIn(node)
  BY DEF NamesIn, ToSet
<1> QED
  BY <1>1, <1>2, <1>3

LEMMA DiscoverQueryKept == IInv /\ DiscoverQuery => IInv'
<1> SUFFICES ASSUME IInv, DiscoverQuery PROVE IInv'
  OBVIOUS
<1> DEFINE q == Task.query
           outer == Task.scope
           with == Node(q).with
           ctes == [i \in DOMAIN with |-> Cte(with[i])]
           scope == Visible(with, outer)
<1>1. /\ agenda # <<>> /\ callers = <<>> /\ q \in DOMAIN program.query
      /\ \A name \in DOMAIN outer : outer[name] \in ToSet(symbols)
      /\ ScopedIn(program, q, outer)
  BY TaskFacts, DiscoverCall DEF DiscoverQuery, LoweringCalls
<1>2. UNCHANGED <<program, global, bound, targets, constraints, references, linking, assertions, pending, placed>>
  BY DEF DiscoverQuery, marking
<1>3. NamesKnown(symbols, required, global, scopes, bound, targets, constraints, program) /\ IsProgram(program)
  BY DEF IInv
<1>4. CASE q \in DOMAIN scopes
  <2>1. agenda' = <<>> \o Tail(agenda) /\ scopes' = scopes /\ symbols' = symbols /\ required' = required
    BY <1>4 DEF DiscoverQuery, Then
  <2>2. KnownCalls(<<>>, program, ToSet(symbols), Len(assertions), DOMAIN scopes)
    BY NoCalls
  <2>3. UNCHANGED <<program, binding, constraints, linking, references, assertions, pending, placed>>
    BY <1>2, <2>1 DEF binding
  <2> QED
    BY <1>1, <2>1, <2>2, <2>3, QuietStep
<1>5. CASE q \notin DOMAIN scopes
  <2>1. /\ scopes' = With(scopes, q, scope)
        /\ symbols' = symbols \o ctes
        /\ DOMAIN required' = DOMAIN required \cup ToSet(ctes)
        /\ agenda' = Within(q, scope, outer) \o Tail(agenda)
    BY <1>5 DEF DiscoverQuery, Then
  <2>2. /\ IsSequence(with)
        /\ \A i \in DOMAIN with : with[i].body \in DOMAIN program.query
    BY <1>1, <1>3, TreeFacts DEF Node
  <2> HIDE DEF with
  <2>3. IsSequence(ctes) /\ ToSet(ctes) = {Cte(with[i]) : i \in DOMAIN with}
    <3>1. ToSet(ctes) = {ctes[i] : i \in DOMAIN with}
      BY DEF ToSet
    <3>2. ctes = [i \in DOMAIN with |-> ctes[i]]
      OBVIOUS
    <3> QED
      BY <2>2, <3>1, <3>2, EachFacts
  <2>4. IsSequence(symbols') /\ ToSet(symbols') = ToSet(symbols) \cup ToSet(ctes)
    BY <1>3, <2>1, <2>3, ConcatFacts DEF NamesKnown
  <2>5. \A i \in DOMAIN with : Cte(with[i]).body \in DOMAIN program.query /\ ~Cte(with[i]).declared
    BY <2>2 DEF Cte, Symbol
  <2>6. \A name \in DOMAIN scope : scope[name] \in ToSet(symbols')
    <3> HIDE DEF outer, ctes
    <3>0. Shows(with, outer, scope)
      <4>1. scope = Visible(with, outer)
        OBVIOUS
      <4> HIDE DEF scope
      <4> QED
        BY <2>2, <4>1, VisibleFacts
    <3> HIDE DEF scope
    <3>1. \A name \in DOMAIN scope : (\E i \in DOMAIN with : scope[name] = Cte(with[i]))
                                      \/ (name \in DOMAIN outer /\ scope[name] = outer[name])
      BY <3>0 DEF Shows
    <3> HIDE DEF scope, ctes, outer
    <3> QED
      BY <3>1, <2>3, <2>4, <1>1
  <2>11. IsScope(program, q, scope)
    BY <1>1, <1>3, ScopeWithin DEF with, Node
  <2>12. \A i \in DOMAIN with : Lexically(Cte(with[i]), global, program)
    BY DEF Lexically, Cte, Symbol, IsUndeclared
  <2> HIDE DEF scope, ctes, outer, q
  <2>7. /\ DOMAIN scopes' = DOMAIN scopes \cup {q} /\ scopes'[q] = scope
        /\ \A p \in DOMAIN scopes : p # q => scopes'[p] = scopes[p]
    BY <2>1 DEF With
  <2>8. NamesKnown(symbols, required, global, scopes, bound, targets, constraints, program)'
    <3>1. \A s \in ToSet(symbols') : /\ s.body \in DOMAIN program.query \cup {NoQuery}
                                     /\ s.declared => s \in DOMAIN constraints
      BY <1>3, <2>3, <2>4, <2>5 DEF NamesKnown
    <3>2. DOMAIN required' = ToSet(symbols')
      BY <1>3, <2>1, <2>4 DEF NamesKnown
    <3>3. \A p \in DOMAIN scopes' : \A name \in DOMAIN scopes'[p] : scopes'[p][name] \in ToSet(symbols')
      BY <1>3, <2>4, <2>6, <2>7 DEF NamesKnown
    <3>4. NamesLexical(ToSet(symbols'), global', scopes', bound', program')
      <4>1. NamesLexical(ToSet(symbols), global, scopes, bound, program)
        BY <1>3 DEF NamesKnown
      <4>2. \A s \in ToSet(symbols') : Lexically(s, global, program)
        BY <4>1, <2>3, <2>4, <2>12 DEF NamesLexical
      <4>3. \A p \in DOMAIN scopes' : p \in DOMAIN program.query /\ IsScope(program, p, scopes'[p])
        BY <4>1, <1>1, <2>7, <2>11 DEF NamesLexical
      <4> QED
        BY <1>2, <4>1, <4>2, <4>3 DEF NamesLexical
    <3> QED
      BY <1>2, <1>3, <2>4, <3>1, <3>2, <3>3, <3>4 DEF NamesKnown
  <2>9. KnownCalls(Within(q, scope, outer), program, ToSet(symbols'), Len(assertions), DOMAIN scopes')
    <3> DEFINE node == Node(q)
               known(tasks) == KnownCalls(tasks, program, ToSet(symbols'), Len(assertions), DOMAIN scopes')
    <3>1. \A p \in DOMAIN program.query : ScopedIn(program, p, scope) =>
             KnownCall(Discover(p, scope), program, ToSet(symbols'), Len(assertions), DOMAIN scopes')
      BY <2>6 DEF KnownCall, Discover
    <3>2. node.kind \in {"select", "setop", "paren"}
      BY <1>1, <1>3, TreeFacts DEF Node
    <3>3. CASE node.kind = "paren"
      BY <3>3, NoCalls DEF Within
    <3>4. CASE node.kind = "setop"
      <4> DEFINE tasks == [i \in 1..2 |-> Discover(node.arms[i], scope)]
      <4>1. \A i \in 1..2 : node.arms[i] \in DOMAIN program.query /\ ScopedIn(program, node.arms[i], scope)
        BY <3>4, <1>1, <1>3, <2>11, TreeFacts, WrittenWithin DEF Node
      <4>2. Within(q, scope, outer) = tasks
        BY <3>4 DEF Within
      <4>3. \A i \in 1..2 : KnownCall(tasks[i], program, ToSet(symbols'), Len(assertions), DOMAIN scopes')
        BY <4>1, <3>1
      <4>4. IsSequence(tasks) /\ Len(tasks) = 2
        <5>1. tasks = [i \in 1..2 |-> tasks[i]]
          OBVIOUS
        <5> QED
          BY <5>1, Listed1
      <4>5. \A t \in ToSet(tasks) : \E i \in 1..2 : t = tasks[i]
        BY <4>4, SequenceFacts
      <4> HIDE DEF tasks
      <4> QED
        BY <4>2, <4>3, <4>4, <4>5 DEF KnownCalls
    <3>5. CASE node.kind = "select"
      <4> DEFINE binds == [i \in DOMAIN node.sources |-> Bind(q, i)]
                 marks == [i \in DOMAIN node.markers |-> Mark("target", q, node.markers[i])]
                 conjuncts == [i \in DOMAIN node.where |-> Discover(node.where[i].body, scope)]
                 bodies == [i \in DOMAIN node.with |-> Discover(node.with[i].body, scope)]
      <4>1. Within(q, scope, outer) = binds \o <<Require(q)>> \o marks \o conjuncts \o bodies
        BY <3>5 DEF Within, Bodies
      <4>2. /\ IsSequence(node.sources) /\ IsSequence(node.markers) /\ IsSequence(node.where)
            /\ \A i \in DOMAIN node.where : node.where[i].body \in DOMAIN program.query
        BY <3>5, <1>1, <1>3, TreeFacts DEF Node
      <4>11. /\ \A i \in DOMAIN node.where : ScopedIn(program, node.where[i].body, scope)
             /\ \A i \in DOMAIN node.with : ScopedIn(program, node.with[i].body, scope)
        BY <3>5, <1>1, <1>3, <2>11, WrittenWithin DEF Node
      <4>3. known(binds)
        <5>1. \A i \in DOMAIN node.sources :
                 KnownCall(binds[i], program, ToSet(symbols'), Len(assertions), DOMAIN scopes')
          BY <3>5, <1>1, <2>7 DEF KnownCall, Bind, Node
        <5> QED
          BY <4>2, <5>1, CallEach
      <4>4. known(<<Require(q)>>)
        <5>1. KnownCall(Require(q), program, ToSet(symbols'), Len(assertions), DOMAIN scopes')
          BY <1>1, <2>7 DEF KnownCall, Require
        <5> QED
          BY <5>1, OneCall
      <4>5. known(marks)
        <5>1. \A i \in DOMAIN node.markers : node.markers[i].references \in Names(program)
          BY <3>5, <1>1, NamesWritten DEF Node
        <5>2. \A i \in DOMAIN node.markers :
                 KnownCall(marks[i], program, ToSet(symbols'), Len(assertions), DOMAIN scopes')
          BY <1>1, <2>7, <5>1 DEF KnownCall, Mark
        <5> QED
          BY <4>2, <5>2, CallEach
      <4>6. known(conjuncts)
        <5>1. \A i \in DOMAIN node.where :
                 KnownCall(conjuncts[i], program, ToSet(symbols'), Len(assertions), DOMAIN scopes')
          BY <4>2, <4>11, <3>1
        <5> QED
          BY <4>2, <5>1, CallEach
      <4>7. known(bodies)
        <5>1. \A i \in DOMAIN node.with :
                 KnownCall(bodies[i], program, ToSet(symbols'), Len(assertions), DOMAIN scopes')
          BY <2>2, <4>11, <3>1 DEF with
        <5> QED
          BY <2>2, <5>1, CallEach DEF with
      <4> HIDE DEF binds, marks, conjuncts, bodies
      <4>8. known(binds \o <<Require(q)>>)
        BY <4>3, <4>4, MoreCalls
      <4>9. known(binds \o <<Require(q)>> \o marks)
        BY <4>5, <4>8, MoreCalls
      <4>10. known(binds \o <<Require(q)>> \o marks \o conjuncts)
        BY <4>6, <4>9, MoreCalls
      <4> QED
        BY <4>1, <4>7, <4>10, MoreCalls
    <3> QED
      BY <3>2, <3>3, <3>4, <3>5
  <2>10. ReferencesKnown(references', pending, ToSet(symbols'))
    BY <1>2, <2>4, MoreRelations DEF IInv
  <2> QED
    BY <1>1, <1>2, <2>1, <2>4, <2>7, <2>8, <2>9, <2>10, NamingStep
<1> QED
  BY <1>4, <1>5

LEMMA DeclareStatementKept == IInv /\ DeclareStatement => IInv'
<1> SUFFICES ASSUME IInv, DeclareStatement PROVE IInv'
  OBVIOUS
<1> DEFINE s == Task.statement
           symbol == Symbol(s.name, s.kind, s.body, s.columns, TRUE)
<1>1. agenda # <<>> /\ callers = <<>> /\ agenda' = <<>> \o Tail(agenda) /\ s \in ToSet(program.statements)
  BY TaskFacts, StatementCall DEF DeclareStatement, Then, LoweringCalls
<1>2. UNCHANGED <<program, scopes, bound, targets, references, linking, assertions, pending, placed>>
  BY DEF DeclareStatement, marking
<1>3. NamesKnown(symbols, required, global, scopes, bound, targets, constraints, program) /\ IsProgram(program)
  BY DEF IInv
<1>4. s.body \in DOMAIN program.query \cup {NoQuery} /\ IsSequence(s.constraints)
  BY <1>1, <1>3, StatementFacts
<1>5. \/ UNCHANGED <<symbols, global, constraints, required>>
      \/ Declare(s) /\ s.name \notin DOMAIN global
      \/ /\ Refusals(s) = {} /\ constraints' = [constraints EXCEPT ![global[s.name]] = @ \o s.constraints]
         /\ UNCHANGED <<symbols, global, required>>
  BY DEF DeclareStatement, Declare, Amend
<1> HIDE DEF s
<1>6. /\ NamesKnown(symbols, required, global, scopes, bound, targets, constraints, program)'
      /\ ToSet(symbols) \subseteq ToSet(symbols')
  <2>1. CASE UNCHANGED <<symbols, global, constraints, required>>
    BY <1>2, <1>3, <2>1
  <2>2. CASE Declare(s) /\ s.name \notin DOMAIN global
    <3>1. /\ symbols' = Append(symbols, symbol)
          /\ global' = With(global, s.name, symbol)
          /\ constraints' = With(constraints, symbol, s.constraints)
          /\ required' = With(required, symbol, {})
      BY <2>2 DEF Declare
    <3>2. symbol.body = s.body /\ symbol.name = s.name
      BY DEF Symbol
    <3>11. symbol.declared
      BY DEF Symbol
    <3> HIDE DEF symbol
    <3>3. IsSequence(symbols') /\ ToSet(symbols') = ToSet(symbols) \cup {symbol}
      BY <1>3, <3>1, AppendFacts DEF NamesKnown
    <3>4. /\ DOMAIN global' = DOMAIN global \cup {s.name} /\ global'[s.name] = symbol
          /\ \A name \in DOMAIN global : name # s.name => global'[name] = global[name]
      BY <3>1 DEF With
    <3>5. /\ DOMAIN constraints' = DOMAIN constraints \cup {symbol} /\ constraints'[symbol] = s.constraints
          /\ \A t \in DOMAIN constraints : t # symbol => constraints'[t] = constraints[t]
      BY <3>1 DEF With
    <3>6. DOMAIN required' = DOMAIN required \cup {symbol}
      BY <3>1 DEF With
    <3>7. \A t \in ToSet(symbols') : /\ t.body \in DOMAIN program.query \cup {NoQuery}
                                     /\ t.declared => t \in DOMAIN constraints'
      BY <1>3, <1>4, <3>2, <3>3, <3>5 DEF NamesKnown
    <3>8. \A name \in DOMAIN global' : global'[name] \in ToSet(symbols') /\ global'[name].name = name
      BY <1>3, <3>2, <3>3, <3>4 DEF NamesKnown
    <3>9. \A t \in DOMAIN constraints' : IsSequence(constraints'[t])
      BY <1>3, <1>4, <3>5 DEF NamesKnown
    <3>10. NamesLexical(ToSet(symbols'), global', scopes', bound', program')
      <4>1. NamesLexical(ToSet(symbols), global, scopes, bound, program)
        BY <1>3 DEF NamesKnown
      <4>2. Grows(global, global')
        BY <2>2, <3>4 DEF Grows
      <4>3. Lexically(symbol, global', program)
        <5>1. s.body \in Outermost(program) \cup {NoQuery}
          BY <1>1 DEF s, Outermost
        <5> QED
          BY <3>2, <3>11, <5>1 DEF Lexically, IsUndeclared
      <4>4. \A t \in ToSet(symbols') : Lexically(t, global', program)
        BY <3>3, <4>1, <4>2, <4>3, LexicallyStill DEF NamesLexical
      <4>5. \A p \in DOMAIN bound : Means(program, p, global', bound[p])
        BY <4>1, <4>2, MeansStill DEF NamesLexical
      <4> QED
        BY <1>2, <4>1, <4>4, <4>5 DEF NamesLexical
    <3> QED
      BY <1>2, <1>3, <3>3, <3>6, <3>7, <3>8, <3>9, <3>10 DEF NamesKnown
  <2>3. CASE /\ Refusals(s) = {} /\ constraints' = [constraints EXCEPT ![global[s.name]] = @ \o s.constraints]
             /\ UNCHANGED <<symbols, global, required>>
    <3> DEFINE t == global[s.name]
    <3>1. s.name \in DOMAIN global /\ t.declared
      BY <2>3 DEF Refusals, Created
    <3>2. t \in DOMAIN constraints /\ IsSequence(constraints[t])
      BY <1>3, <3>1 DEF NamesKnown
    <3>3. IsSequence(constraints[t] \o s.constraints)
      BY <1>4, <3>2, ConcatFacts
    <3>4. /\ DOMAIN constraints' = DOMAIN constraints
          /\ constraints'[t] = constraints[t] \o s.constraints
          /\ \A u \in DOMAIN constraints : u # t => constraints'[u] = constraints[u]
      BY <2>3, <3>2
    <3> HIDE DEF t
    <3>5. \A u \in DOMAIN constraints' : IsSequence(constraints'[u])
      BY <1>3, <3>3, <3>4 DEF NamesKnown
    <3> QED
      BY <1>2, <1>3, <2>3, <3>4, <3>5 DEF NamesKnown
  <2> QED
    BY <1>5, <2>1, <2>2, <2>3
<1>7. ReferencesKnown(references', pending, ToSet(symbols'))
  BY <1>2, <1>6, MoreRelations DEF IInv
<1>8. KnownCalls(<<>>, program, ToSet(symbols'), Len(assertions), DOMAIN scopes')
  BY NoCalls
<1> QED
  BY <1>1, <1>2, <1>6, <1>7, <1>8, NamingStep

LEMMA DiscoverReferenceKept == IInv /\ DiscoverReference => IInv'
<1> SUFFICES ASSUME IInv, DiscoverReference PROVE IInv'
  OBVIOUS
<1> DEFINE c == Task.constraint
           target == global[c.target]
           r == [table |-> Task.symbol, columns |-> c.columns, target |-> target, referenced |-> c.referenced]
<1>1. agenda # <<>> /\ callers = <<>> /\ agenda' = <<>> \o Tail(agenda) /\ Task.symbol \in ToSet(symbols)
  <2>1. Doing("constraint") /\ agenda' = <<>> \o Tail(agenda)
    BY DEF DiscoverReference, Then
  <2>2. agenda # <<>> /\ callers = <<>>
    BY <2>1, TaskFacts DEF LoweringCalls
  <2>3. Task.symbol \in ToSet(symbols)
    BY <2>1, SymbolCall
  <2> QED
    BY <2>1, <2>2, <2>3
<1>2. UNCHANGED <<program, binding, constraints, linking, assertions, pending, placed>>
  BY DEF DiscoverReference, marking
<1>3. NamesKnown(symbols, required, global, scopes, bound, targets, constraints, program)
  BY DEF IInv
<1>4. DOMAIN required' = DOMAIN required
  BY DEF DiscoverReference
<1>5. NamesKnown(symbols, required, global, scopes, bound, targets, constraints, program)'
  BY <1>2, <1>3, <1>4 DEF NamesKnown, binding
<1>6. references' = references \/ (c.target \in DOMAIN global /\ references' = Append(references, r))
  BY DEF DiscoverReference
<1>7. ReferencesKnown(references', pending, ToSet(symbols'))
  <2>1. symbols' = symbols /\ ReferencesKnown(references, pending, ToSet(symbols))
    BY <1>2 DEF IInv, binding
  <2>2. CASE references' = references
    BY <2>1, <2>2
  <2>3. CASE c.target \in DOMAIN global /\ references' = Append(references, r)
    <3>1. r.table \in ToSet(symbols) /\ r.target \in ToSet(symbols)
      BY <1>1, <1>3, <2>3 DEF NamesKnown
    <3> HIDE DEF r
    <3>2. IsSequence(Append(references, r)) /\ ToSet(Append(references, r)) = ToSet(references) \cup {r}
      BY <2>1, AppendFacts DEF ReferencesKnown
    <3> QED
      BY <2>1, <2>3, <3>1, <3>2 DEF ReferencesKnown
  <2> QED
    BY <1>6, <2>2, <2>3
<1>8. KnownCalls(<<>>, program, ToSet(symbols'), Len(assertions), DOMAIN scopes')
  BY NoCalls
<1>9. symbols' = symbols /\ scopes' = scopes
  BY <1>2 DEF binding
<1> QED
  BY <1>1, <1>2, <1>5, <1>7, <1>8, <1>9, NamingStep

\* A relation is resolved, or was; then the calls around it go on.
LEMMA ResolveFacts ==
    ASSUME IInv, agenda # <<>>, NEW s \in ToSet(symbols), s \notin resolving, NEW tasks,
           KnownCalls(tasks, program, ToSet(symbols), Len(assertions), DOMAIN scopes),
           callers # <<>> => IsLowering(tasks), ResolveThen(s, tasks)
    PROVE  /\ CallsKnown(agenda', callers', program, ToSet(symbols), Len(assertions), DOMAIN scopes)
           /\ LinksKnown(callers', named', outputs', resolving', cycles, ToSet(symbols))
<1> DEFINE met == ToSet(symbols)
           n == Len(assertions)
           seen == DOMAIN scopes
<1>1. CallsKnown(agenda, callers, program, met, n, seen) /\ LinksKnown(callers, named, outputs, resolving, cycles, met)
  BY DEF IInv
<1>2. CallsKnown(tasks \o Tail(agenda), callers, program, met, n, seen)
  BY <1>1, CallMade
<1>3. CASE s \in ToSet(named)
  <2>1. agenda' = tasks \o Tail(agenda) /\ UNCHANGED <<callers, named, outputs, resolving>>
    BY <1>3 DEF ResolveThen, Then
  <2> QED
    BY <1>1, <1>2, <2>1
<1>4. CASE s \notin ToSet(named) /\ s.role = "TABLE"
  <2>1. /\ agenda' = tasks \o Tail(agenda) /\ UNCHANGED <<callers, resolving>>
        /\ named' = Append(named, s) /\ outputs' = With(outputs, s, TableOutput(s))
    BY <1>4 DEF ResolveThen, Open, Then, Name
  <2>2. IsSequence(named') /\ ToSet(named') = ToSet(named) \cup {s} /\ DOMAIN outputs' = DOMAIN outputs \cup {s}
    BY <1>1, <2>1, AppendFacts DEF With, LinksKnown
  <2>3. LinksKnown(callers', named', outputs', resolving', cycles, met)
    BY <1>1, <2>1, <2>2 DEF LinksKnown
  <2> QED
    BY <1>2, <2>1, <2>3
<1>5. CASE s \notin ToSet(named) /\ s.role # "TABLE"
  <2> DEFINE entry == [symbol |-> s, rest |-> tasks \o Tail(agenda)]
             body == IF s.body = NoQuery THEN <<>> ELSE <<Lower(s.body)>>
  <2>1. /\ resolving' = resolving \cup {s} /\ callers' = Append(callers, entry)
        /\ agenda' = body /\ UNCHANGED <<named, outputs>>
    BY <1>5 DEF ResolveThen, Open
  <2>2. KnownCalls(body, program, met, n, seen) /\ IsLowering(body)
    <3>1. CASE s.body = NoQuery
      BY <3>1, NoCalls
    <3>2. CASE s.body # NoQuery
      <4>1. s.body \in DOMAIN program.query
        BY <3>2 DEF IInv, NamesKnown
      <4>2. KnownCall(Lower(s.body), program, met, n, seen) /\ Lower(s.body).do \in LoweringCalls
        BY <4>1 DEF KnownCall, Lower, LoweringCalls
      <4> QED
        BY <3>2, <4>2, OneCall
    <3> QED
      BY <3>1, <3>2
  <2>3. entry.symbol = s /\ entry.rest = tasks \o Tail(agenda)
    OBVIOUS
  <2> HIDE DEF body, entry
  <2>4. /\ IsSequence(callers)
        /\ KnownCalls(entry.rest, program, met, n, seen)
        /\ callers # <<>> => IsLowering(entry.rest)
    BY <1>2, <2>3 DEF CallsKnown
  <2>5. /\ IsSequence(callers') /\ Len(callers) \in Nat
        /\ DOMAIN callers' = 1..(Len(callers) + 1) /\ DOMAIN callers = 1..Len(callers)
        /\ \A i \in 1..Len(callers) : callers'[i] = callers[i]
        /\ callers'[Len(callers) + 1] = entry
    BY <2>1, <2>4, AppendFacts
  <2>6. ASSUME NEW i \in DOMAIN callers'
        PROVE  /\ callers'[i].symbol \in met
               /\ KnownCalls(callers'[i].rest, program, met, n, seen)
               /\ i > 1 => IsLowering(callers'[i].rest)
    <3>1. CASE i \in 1..Len(callers)
      BY <1>1, <2>5, <3>1 DEF CallsKnown
    <3>2. CASE i = Len(callers) + 1
      <4>1. i > 1 => callers # <<>>
        BY <3>2
      <4> QED
        BY <2>3, <2>4, <2>5, <3>2, <4>1
    <3> QED
      BY <2>5, <3>1, <3>2
  <2>7. CallsKnown(agenda', callers', program, met, n, seen)
    BY <2>1, <2>2, <2>5, <2>6 DEF CallsKnown
  <2>8. {callers'[i].symbol : i \in DOMAIN callers'} = {callers[i].symbol : i \in DOMAIN callers} \cup {s}
    <3>1. \A i \in DOMAIN callers' : i \in 1..Len(callers) \/ i = Len(callers) + 1
      BY <2>5
    <3>2. \A i \in DOMAIN callers : i \in DOMAIN callers'
      BY <2>5
    <3>3. Len(callers) + 1 \in DOMAIN callers'
      BY <2>5
    <3> QED
      BY <2>3, <2>5, <3>1, <3>2, <3>3
  <2>9. \A i, j \in DOMAIN callers' : callers'[i].symbol = callers'[j].symbol => i = j
    <3>1. \A i \in DOMAIN callers : callers[i].symbol # s
      BY <1>1 DEF LinksKnown
    <3>2. \A i \in DOMAIN callers' : i \in DOMAIN callers \/ i = Len(callers) + 1
      BY <2>5
    <3>3. \A i \in DOMAIN callers : callers'[i] = callers[i]
      BY <2>5
    <3> QED
      BY <1>1, <2>3, <2>5, <3>1, <3>2, <3>3 DEF LinksKnown
  <2>10. LinksKnown(callers', named', outputs', resolving', cycles, met)
    BY <1>1, <1>5, <2>1, <2>8, <2>9 DEF LinksKnown
  <2> QED
    BY <2>7, <2>10
<1> QED
  BY <1>3, <1>4, <1>5

Idle == UNCHANGED <<program, binding, asking, constraints, references, assertions, pending, placed>>

LEMMA LinkingStep ==
    ASSUME IInv, Idle,
           CallsKnown(agenda', callers', program, ToSet(symbols), Len(assertions), DOMAIN scopes),
           LinksKnown(callers', named', outputs', resolving', cycles', ToSet(symbols))
    PROVE  IInv'
<1>1. /\ program' = program /\ symbols' = symbols /\ global' = global /\ scopes' = scopes
      /\ bound' = bound /\ targets' = targets /\ constraints' = constraints /\ required' = required
      /\ references' = references /\ assertions' = assertions /\ pending' = pending /\ placed' = placed
  BY DEF Idle, binding, asking
<1> QED
  BY <1>1 DEF IInv

\* A read that is cut is of a relation being lowered, and reported of a view.
LEMMA ReadSourceKept == IInv /\ ReadSource => IInv'
<1> SUFFICES ASSUME IInv, ReadSource PROVE IInv'
  OBVIOUS
<1> DEFINE met == ToSet(symbols)
           n == Len(assertions)
           seen == DOMAIN scopes
           o == Task.at
           source == Source(o)
           join == IF source.joined = NoMarker THEN <<>> ELSE <<[do |-> "join", marker |-> source.joined]>>
           lower == IF source.kind = "subquery" THEN <<Lower(source.body)>> ELSE <<>>
           known(tasks) == KnownCalls(tasks, program, met, n, seen) /\ IsLowering(tasks)
<1>1. /\ agenda # <<>> /\ o[1] \in DOMAIN program.query
      /\ program.query[o[1]].kind = "select" /\ o[2] \in DOMAIN program.query[o[1]].sources
  BY TaskFacts DEF ReadSource, KnownCall
<1>2. Idle
  BY DEF ReadSource, Idle, marking
<1>3. /\ CallsKnown(agenda, callers, program, met, n, seen) /\ LinksKnown(callers, named, outputs, resolving, cycles, met)
      /\ IsProgram(program) /\ NamesKnown(symbols, required, global, scopes, bound, targets, constraints, program)
  BY DEF IInv
<1>4. known(join)
  <2>1. \A m : KnownCall([do |-> "join", marker |-> m], program, met, n, seen)
    BY DEF KnownCall
  <2>2. \A m : known(<<[do |-> "join", marker |-> m]>>)
    BY <2>1, OneCall DEF LoweringCalls
  <2> QED
    BY <2>2, NoCalls
<1>5. known(lower)
  <2>1. CASE source.kind = "subquery"
    <3>1. source.body \in DOMAIN program.query
      BY <2>1, <1>1, <1>3, TreeFacts DEF Source, Node
    <3>2. KnownCall(Lower(source.body), program, met, n, seen) /\ Lower(source.body).do \in LoweringCalls
      BY <3>1 DEF KnownCall, Lower, LoweringCalls
    <3> QED
      BY <2>1, <3>2, OneCall
  <2> QED
    BY <2>1, NoCalls
<1>6. \/ agenda' = (lower \o join) \o Tail(agenda) /\ UNCHANGED linking
      \/ o \in DOMAIN bound /\ ReadRelation(o, bound[o], join)
      \/ agenda' = agenda /\ UNCHANGED linking
  BY DEF ReadSource, Then, Crash
<1> HIDE DEF lower, join
<1>7. CASE agenda' = (lower \o join) \o Tail(agenda) /\ UNCHANGED linking
  <2>1. known(lower \o join)
    BY <1>4, <1>5, MoreCalls
  <2>2. CallsKnown(agenda', callers, program, met, n, seen)
    BY <1>1, <1>3, <1>7, <2>1, CallMade
  <2> QED
    BY <1>2, <1>3, <1>7, <2>2, LinkingStep DEF linking
<1>8. CASE agenda' = agenda /\ UNCHANGED linking
  BY <1>2, <1>3, <1>8, LinkingStep DEF linking
<1>9. CASE o \in DOMAIN bound /\ ReadRelation(o, bound[o], join)
  <2> DEFINE s == bound[o]
  <2>1. s \in met
    BY <1>3, <1>9 DEF NamesKnown
  <2>2. CASE s \in resolving
    <3>1. /\ agenda' = join \o Tail(agenda) /\ UNCHANGED <<callers, named, outputs, resolving>>
          /\ cycles' = IF s.role = "VIEW" THEN cycles \cup {s} ELSE cycles
      BY <1>9, <2>2 DEF ReadRelation, Then
    <3>2. CallsKnown(agenda', callers, program, met, n, seen)
      BY <1>1, <1>3, <1>4, <3>1, CallMade
    <3>3. LinksKnown(callers', named', outputs', resolving', cycles', met)
      BY <1>3, <2>1, <3>1 DEF LinksKnown
    <3> QED
      BY <1>2, <3>1, <3>2, <3>3, LinkingStep
  <2>3. CASE s \notin resolving
    <3>1. ResolveThen(s, join) /\ cycles' = cycles
      BY <1>9, <2>3 DEF ReadRelation
    <3> HIDE DEF s
    <3> QED
      BY <1>1, <1>2, <1>4, <2>1, <2>3, <3>1, ResolveFacts, LinkingStep
  <2> QED
    BY <2>2, <2>3
<1> QED
  BY <1>6, <1>7, <1>8, <1>9

LEMMA ResolveSymbolKept == IInv /\ ResolveSymbol => IInv'
<1> SUFFICES ASSUME IInv, ResolveSymbol PROVE IInv'
  OBVIOUS
<1> DEFINE s == Task.symbol
<1>0. ResolveThen(s, <<>>) /\ cycles' = cycles /\ Idle
  BY DEF ResolveSymbol, Idle, marking
<1>1. agenda # <<>> /\ callers = <<>> /\ s \in ToSet(symbols)
  <2>1. Doing("resolve")
    BY DEF ResolveSymbol
  <2>2. agenda # <<>> /\ callers = <<>>
    BY <2>1, TaskFacts DEF LoweringCalls
  <2>3. s \in ToSet(symbols)
    BY <2>1, SymbolCall
  <2> QED
    BY <2>2, <2>3
<1>2. s \notin resolving
  BY <1>1 DEF IInv, LinksKnown
<1>3. KnownCalls(<<>>, program, ToSet(symbols), Len(assertions), DOMAIN scopes) /\ IsLowering(<<>>)
  BY NoCalls
<1> HIDE DEF s
<1> QED
  BY <1>0, <1>1, <1>2, <1>3, ResolveFacts, LinkingStep

\* The innermost relation is named, and the calls around it go on.
LEMMA NameRelationKept == IInv /\ NameRelation => IInv'
<1> SUFFICES ASSUME IInv, NameRelation PROVE IInv'
  OBVIOUS
<1> DEFINE met == ToSet(symbols)
           n == Len(assertions)
           seen == DOMAIN scopes
           s == Last(callers).symbol
<1>1. /\ CallsKnown(agenda, callers, program, met, n, seen)
      /\ LinksKnown(callers, named, outputs, resolving, cycles, met)
  BY DEF IInv
<1>2. /\ callers # <<>> /\ agenda' = Last(callers).rest /\ callers' = Front(callers)
      /\ named' = Append(named, s) /\ DOMAIN outputs' = DOMAIN outputs \cup {s}
      /\ resolving' = resolving \ {s} /\ cycles' = cycles /\ Idle
  BY DEF With, NameRelation, Name, Resolved, Idle, marking
<1>3. /\ IsSequence(Front(callers))
      /\ Len(callers) \in Nat \ {0}
      /\ DOMAIN callers = 1..Len(callers) /\ DOMAIN Front(callers) = 1..(Len(callers) - 1)
      /\ \A i \in 1..(Len(callers) - 1) : Front(callers)[i] = callers[i]
      /\ Last(callers) = callers[Len(callers)]
  BY <1>1, <1>2, FrontFacts DEF CallsKnown
<1>4. /\ Len(callers) \in DOMAIN callers
      /\ \A i \in DOMAIN callers' : i \in DOMAIN callers /\ i # Len(callers) /\ callers'[i] = callers[i]
      /\ \A i \in DOMAIN callers : i # Len(callers) => i \in DOMAIN callers'
  BY <1>2, <1>3
<1>5. callers' # <<>> => Len(callers) > 1
  <2>1. Len(callers) = 1 => DOMAIN Front(callers) = {}
    BY <1>3
  <2>2. Len(callers) = 1 => Front(callers) = <<>>
    <3>1. Front(callers) \in Seq(ToSet(Front(callers)))
      BY <1>3 DEF IsSequence
    <3> QED
      BY <3>1, <2>1
  <2> QED
    BY <1>2, <1>3, <2>2
<1>6. CallsKnown(agenda', callers', program, met, n, seen)
  BY <1>1, <1>2, <1>3, <1>4, <1>5 DEF CallsKnown
<1>7. s \in resolving /\ \A i \in DOMAIN callers' : callers[i].symbol # s
  BY <1>1, <1>3, <1>4 DEF LinksKnown
<1>8. resolving \ {s} = {callers'[i].symbol : i \in DOMAIN callers'}
  BY <1>1, <1>3, <1>4, <1>7 DEF LinksKnown
<1>9. IsSequence(named') /\ ToSet(named') = ToSet(named) \cup {s} /\ s \in met
  BY <1>1, <1>2, <1>3, <1>4, AppendFacts DEF LinksKnown, CallsKnown
<1>10. \A i, j \in DOMAIN callers' : callers'[i].symbol = callers'[j].symbol => i = j
  BY <1>1, <1>4 DEF LinksKnown
<1>11. LinksKnown(callers', named', outputs', resolving', cycles', met)
  <2> HIDE DEF s
  <2> QED
    BY <1>1, <1>2, <1>8, <1>9, <1>10 DEF LinksKnown
<1> QED
  BY <1>2, <1>6, <1>11, LinkingStep

LEMMA SettleKept == IInv /\ Settle => IInv'
<1> SUFFICES ASSUME IInv, Settle PROVE IInv'
  OBVIOUS
<1> DEFINE met == ToSet(symbols)
           n == Len(assertions)
           seen == DOMAIN scopes
<1>1. /\ CallsKnown(agenda, callers, program, met, n, seen)
      /\ LinksKnown(callers, named, outputs, resolving, cycles, met)
  BY DEF IInv
<1>2. /\ agenda # <<>> /\ callers = <<>> /\ UNCHANGED <<callers, resolving, cycles>> /\ Idle
  BY TaskFacts DEF Settle, LoweringCalls, Idle, marking
<1>3. \/ agenda' = <<>> \o Tail(agenda) /\ UNCHANGED <<named, outputs>>
      \/ \E s \in met : \E output : agenda' = agenda /\ s \notin ToSet(named) /\ Name(s, output)
  BY DEF Settle, Then, ToSet
<1>4. CASE agenda' = <<>> \o Tail(agenda) /\ UNCHANGED <<named, outputs>>
  <2>1. CallsKnown(agenda', callers', program, met, n, seen)
    BY <1>1, <1>2, <1>4, NoCalls, CallMade
  <2> QED
    BY <1>1, <1>2, <1>4, <2>1, LinkingStep
<1>5. CASE \E s \in met : \E output : agenda' = agenda /\ s \notin ToSet(named) /\ Name(s, output)
  <2>0. PICK s \in met : \E output : agenda' = agenda /\ s \notin ToSet(named) /\ Name(s, output)
    BY <1>5
  <2>1. PICK output : agenda' = agenda /\ s \notin ToSet(named) /\ Name(s, output)
    BY <2>0
  <2>2. named' = Append(named, s) /\ DOMAIN outputs' = DOMAIN outputs \cup {s}
    BY <2>1 DEF With, Name
  <2>3. IsSequence(named') /\ ToSet(named') = ToSet(named) \cup {s}
    BY <1>1, <2>2, AppendFacts DEF LinksKnown
  <2>4. resolving = {}
    BY <1>1, <1>2 DEF LinksKnown
  <2>5. LinksKnown(callers', named', outputs', resolving', cycles', met)
    BY <1>1, <1>2, <2>2, <2>3, <2>4 DEF LinksKnown
  <2> QED
    BY <1>1, <1>2, <2>1, <2>5, LinkingStep
<1> QED
  BY <1>3, <1>4, <1>5

LEMMA NextInv == IInv /\ [Next]_vars => IInv'
<1> SUFFICES ASSUME IInv, [Next]_vars PROVE IInv'
  OBVIOUS
<1>1. CASE Expanding
  BY <1>1, ExpandingKept
<1>2. CASE Passing
  BY <1>2, PassingKept
<1>3. CASE Working
  BY <1>3, WorkingKept
<1>4. CASE Marking
  BY <1>4, MarkingKept
<1>5. CASE BindSource \/ FindTarget \/ DiscoverQuery \/ DeclareStatement \/ DiscoverReference
  BY <1>5, BindSourceKept, FindTargetKept, DiscoverQueryKept, DeclareStatementKept, DiscoverReferenceKept
<1>6. CASE ReadSource \/ ResolveSymbol \/ NameRelation \/ Settle
  BY <1>6, ReadSourceKept, ResolveSymbolKept, NameRelationKept, SettleKept
<1>7. CASE UNCHANGED vars
  BY <1>7 DEF IInv, vars, binding, asking, linking, marking
<1> QED
  BY <1>1, <1>2, <1>3, <1>4, <1>5, <1>6, <1>7 DEF Next, Expanding, Passing, Working, Marking

LEMMA Invariant == Spec => []IInv
BY InitInv, NextInv, PTL DEF Spec

(***************************************************************************)
(* The state of the conversion stays well formed: what is bound, required,  *)
(* named, resolved or reported was met, and what is to be inserted has a    *)
(* place among the assertions.                                              *)
(***************************************************************************)
THEOREM TypeCorrect == Spec => []TypeOK
<1>1. IInv => TypeOK
  <2> SUFFICES ASSUME IInv PROVE TypeOK
    OBVIOUS
  <2>1. /\ ToSet(symbols) = DOMAIN required
        /\ \A name \in DOMAIN global : global[name] \in ToSet(symbols) /\ global[name].name = name
        /\ \A o \in DOMAIN bound : bound[o] \in ToSet(symbols)
    BY DEF IInv, NamesKnown
  <2>2. /\ DOMAIN outputs = ToSet(named) /\ ToSet(named) \subseteq ToSet(symbols)
        /\ cycles \subseteq {s \in ToSet(symbols) : s.role = "VIEW"}
    BY DEF IInv, LinksKnown
  <2>3. resolving = ToSet(Stack)
    BY DEF IInv, LinksKnown, Stack, ToSet
  <2>4. \A i \in DOMAIN pending : pending[i].position \in 0..Len(assertions)
    BY DEF IInv, PositionsKnown, ToSet
  <2> QED
    BY <2>1, <2>2, <2>3, <2>4 DEF TypeOK
<1> QED
  BY <1>1, Invariant, PTL

(***************************************************************************)
(* A name means what SQL scoping says, in every program: whatever query was *)
(* met first, in whatever order the CTEs of a WITH are written and whoever  *)
(* reads a view, a source is bound to a CTE of the nearest enclosing WITH   *)
(* that has the name, and else to the relation of the whole program.        *)
(***************************************************************************)
THEOREM NamesAreLexical == Spec => []Lexical
<1>1. IInv => Lexical
  <2> SUFFICES ASSUME IInv, NEW o \in DOMAIN bound
               PROVE  LET name == Source(o).name
                          having == {q \in Enclosing(program.query)[o[1]] : name \in CteNames(Node(q).with)}
                          nearest == {q \in having : having \subseteq Enclosing(program.query)[q]}
                      IN  IF having = {} THEN bound[o] = global[name]
                          ELSE \E q \in nearest : \E i \in DOMAIN Node(q).with :
                                  bound[o] = Cte(Node(q).with[i]) /\ Node(q).with[i].name = name
    BY DEF Lexical
  <2>1. Means(program, o, global, bound[o])
    BY DEF IInv, NamesKnown, NamesLexical
  <2> QED
    BY <2>1 DEF Means, Having, Nearest, StandsFor, Source, Node
<1> QED
  BY <1>1, Invariant, PTL

-----------------------------------------------------------------------------
(* Steps that resolve nothing: relations are at most met.                   *)

LEMMA MeetStep ==
    ASSUME UNCHANGED linking, ToSet(symbols) \subseteq ToSet(symbols')
    PROVE  AbstractResolution!Next
<1>1. Stack' = Stack /\ named' = named /\ kept' = kept /\ cut' = cut
  BY DEF linking, Stack
<1> QED
  BY <1>1 DEF AbstractResolution!Next, AbstractResolution!Meet

\* Names are only added.
LEMMA NamesAdded ==
    ASSUME IInv, BindSource \/ FindTarget \/ DiscoverQuery \/ DeclareStatement
    PROVE  UNCHANGED linking /\ ToSet(symbols) \subseteq ToSet(symbols')
<1>1. UNCHANGED linking
  BY DEF BindSource, FindTarget, DiscoverQuery, DeclareStatement
<1>2. IsSequence(symbols) /\ IsProgram(program)
  BY DEF IInv, NamesKnown
<1>3. symbols' = symbols \/ (\E s : symbols' = Append(symbols, s))
      \/ (\E ctes : IsSequence(ctes) /\ symbols' = symbols \o ctes)
  <2>1. CASE BindSource
    BY <2>1 DEF BindSource, Meet
  <2>2. CASE FindTarget
    BY <2>2 DEF FindTarget, Meet
  <2>3. CASE DeclareStatement
    BY <2>3 DEF DeclareStatement, Declare, Amend
  <2>4. CASE DiscoverQuery
    <3> DEFINE with == Node(Task.query).with
               ctes == [i \in DOMAIN with |-> Cte(with[i])]
    <3>1. symbols' = symbols \/ symbols' = symbols \o ctes
      BY <2>4 DEF DiscoverQuery
    <3>2. Task.query \in DOMAIN program.query
      <4>1. Doing("discover")
        BY <2>4 DEF DiscoverQuery
      <4> QED
        BY <4>1, DiscoverCall
    <3>3. IsSequence(with)
      BY <1>2, <3>2, TreeFacts DEF Node
    <3> HIDE DEF with
    <3>4. ctes = [i \in DOMAIN with |-> ctes[i]]
      OBVIOUS
    <3>5. IsSequence(ctes)
      <4> HIDE DEF ctes
      <4> QED
        BY <3>3, <3>4, EachFacts
    <3> QED
      BY <3>1, <3>5
  <2> QED
    BY <2>1, <2>2, <2>3, <2>4
<1>4. CASE \E s : symbols' = Append(symbols, s)
  <2>1. PICK s : symbols' = Append(symbols, s)
    BY <1>4
  <2> QED
    BY <1>1, <1>2, <2>1, AppendFacts
<1>5. CASE \E ctes : IsSequence(ctes) /\ symbols' = symbols \o ctes
  <2>1. PICK ctes : IsSequence(ctes) /\ symbols' = symbols \o ctes
    BY <1>5
  <2> QED
    BY <1>1, <1>2, <2>1, ConcatFacts
<1> QED
  BY <1>1, <1>3, <1>4, <1>5

-----------------------------------------------------------------------------
(* The relations being resolved.                                            *)

LEMMA StackFacts ==
    ASSUME IInv
    PROVE  /\ AbstractResolution!Elements(Stack) = resolving
           /\ AbstractResolution!Elements(named) = ToSet(named)
           /\ callers = <<>> => Stack = <<>>
           /\ callers # <<>> => /\ Stack # <<>>
                                /\ Len(callers) \in Nat \ {0}
                                /\ DOMAIN callers = 1..Len(callers)
                                /\ AbstractResolution!Top = Last(callers).symbol
           /\ IsSequence(Stack) /\ Len(Stack) = Len(callers)
<1>1. IsSequence(callers) /\ resolving = {callers[i].symbol : i \in DOMAIN callers}
  BY DEF IInv, CallsKnown, LinksKnown
<1>2. DOMAIN callers = 1..Len(callers) /\ Len(callers) \in Nat
  BY <1>1, SequenceFacts
<1>3. IsSequence(Stack) /\ Len(Stack) = Len(callers)
  BY <1>1, EachFacts DEF Stack
<1>4. \A i \in DOMAIN callers : Stack[i] = callers[i].symbol
  BY DEF Stack
<1>5. DOMAIN Stack = DOMAIN callers
  BY DEF Stack
<1>6. AbstractResolution!Elements(Stack) = resolving
  BY <1>1, <1>4, <1>5 DEF AbstractResolution!Elements
<1>7. AbstractResolution!Elements(named) = ToSet(named)
  BY DEF AbstractResolution!Elements, ToSet
<1>8. ASSUME callers # <<>>
      PROVE  Len(callers) \in Nat \ {0} /\ AbstractResolution!Top = Last(callers).symbol /\ Stack # <<>>
  <2>1. Len(callers) \in Nat \ {0}
    BY <1>1, <1>8, FrontFacts
  <2>2. Stack # <<>>
    <3>1. 1 \in DOMAIN Stack
      BY <2>1, <1>2, <1>5
    <3> QED
      BY <3>1
  <2>3. AbstractResolution!Top = Stack[Len(callers)]
    BY <1>3 DEF AbstractResolution!Top
  <2>4. Len(callers) \in DOMAIN callers
    BY <1>2, <2>1
  <2> QED
    BY <2>1, <2>2, <2>3, <2>4, <1>4 DEF Last
<1>9. callers = <<>> => Stack = <<>>
  <2>1. ASSUME callers = <<>> PROVE Stack = <<>>
    <3>1. Len(Stack) = 0
      BY <1>3, <2>1
    <3>2. Stack \in Seq(ToSet(Stack))
      BY <1>3 DEF IsSequence
    <3> QED
      BY <3>1, <3>2
  <2> QED
    BY <2>1
<1> QED
  BY <1>2, <1>3, <1>6, <1>7, <1>8, <1>9

-----------------------------------------------------------------------------
(* Resolving a relation.                                                    *)

\* The history of reads between relations.
LEMMA LinkFact ==
    ASSUME IInv, NEW s, kept' = kept \cup Between(s)
    PROVE  AbstractResolution!Link(s)
<1>1. CASE callers = <<>>
  BY <1>1, StackFacts DEF Between, AbstractResolution!Link
<1>2. CASE callers # <<>>
  BY <1>2, StackFacts DEF Between, AbstractResolution!Link
<1> QED
  BY <1>1, <1>2

LEMMA ResolveStep ==
    ASSUME IInv, NEW s \in ToSet(symbols), NEW tasks, s \notin resolving, ResolveThen(s, tasks),
           AbstractResolution!Link(s), cut' = cut, symbols' = symbols
    PROVE  AbstractResolution!Next
<1>1. CASE s \in ToSet(named)
  <2>1. Stack' = Stack /\ named' = named
    BY <1>1 DEF ResolveThen, Stack
  <2>2. AbstractResolution!Read(s)
    BY <1>1, <2>1, StackFacts DEF AbstractResolution!Read
  <2> QED
    BY <2>2 DEF AbstractResolution!Next
<1>2. ASSUME s \notin ToSet(named)
      PROVE  AbstractResolution!Next
  <2>1. s \in AbstractResolution!Unstarted
    BY <1>2, StackFacts DEF AbstractResolution!Unstarted
  <2>2. CASE s.role = "TABLE"
    <3>1. named' = Append(named, s) /\ Stack' = Stack
      BY <1>2, <2>2 DEF ResolveThen, Open, Name, Stack
    <3>2. AbstractResolution!Leaf(s)
      BY <2>1, <3>1 DEF AbstractResolution!Leaf
    <3> QED
      BY <3>2 DEF AbstractResolution!Next
  <2>3. CASE s.role # "TABLE"
    <3> DEFINE call == [symbol |-> s, rest |-> tasks \o Tail(agenda)]
    <3>1. callers' = Append(callers, call) /\ named' = named
      BY <1>2, <2>3 DEF ResolveThen, Open
    <3>2. call.symbol = s
      OBVIOUS
    <3> HIDE DEF call
    <3>3. Stack' = Append(Stack, s)
      <4>1. IsSequence(callers)
        BY DEF IInv, CallsKnown
      <4>2. /\ DOMAIN Append(callers, call) = 1..(Len(callers) + 1) /\ DOMAIN callers = 1..Len(callers)
            /\ Len(callers) \in Nat
            /\ \A i \in 1..Len(callers) : Append(callers, call)[i] = callers[i]
            /\ Append(callers, call)[Len(callers) + 1] = call
        BY <4>1, AppendFacts
      <4>3. /\ DOMAIN Append(Stack, s) = 1..(Len(callers) + 1)
            /\ \A i \in 1..Len(callers) : Append(Stack, s)[i] = Stack[i]
            /\ Append(Stack, s)[Len(callers) + 1] = s
        BY StackFacts, AppendFacts
      <4>4. \A i \in 1..Len(callers) : Stack[i] = callers[i].symbol
        BY <4>2 DEF Stack
      <4>5. \A i \in 1..(Len(callers) + 1) : i \in 1..Len(callers) \/ i = Len(callers) + 1
        BY <4>2
      <4>6. \A i \in 1..(Len(callers) + 1) : Append(callers, call)[i].symbol = Append(Stack, s)[i]
        BY <4>2, <4>3, <4>4, <4>5, <3>2
      <4>7. Append(Stack, s) = [i \in 1..(Len(callers) + 1) |-> Append(Stack, s)[i]]
        <5>1. IsSequence(Append(Stack, s))
          BY StackFacts, AppendFacts
        <5>2. Append(Stack, s) \in Seq(ToSet(Append(Stack, s)))
          BY <5>1 DEF IsSequence
        <5>3. \A S : \A t \in Seq(S) : t = [i \in DOMAIN t |-> t[i]]
          OBVIOUS
        <5> QED
          BY <5>2, <5>3, <4>3
      <4>8. Stack' = [i \in DOMAIN callers' |-> callers'[i].symbol]
        BY DEF Stack
      <4>9. Stack' = [i \in 1..(Len(callers) + 1) |-> Append(callers, call)[i].symbol]
        BY <4>8, <3>1, <4>2
      <4> QED
        BY <4>6, <4>7, <4>9
    <3>4. AbstractResolution!Enter(s)
      BY <2>1, <3>1, <3>3 DEF AbstractResolution!Enter
    <3> QED
      BY <3>4 DEF AbstractResolution!Next
  <2> QED
    BY <2>2, <2>3
<1> QED
  BY <1>1, <1>2

LEMMA ReadSourceStep == IInv /\ ReadSource => AbstractResolution!Next
<1> SUFFICES ASSUME IInv, ReadSource PROVE AbstractResolution!Next
  OBVIOUS
<1>1. symbols' = symbols
  BY DEF ReadSource, binding
<1>2. CASE UNCHANGED linking
  BY <1>1, <1>2, MeetStep
<1>3. ASSUME NEW o \in DOMAIN bound, NEW tasks, ReadRelation(o, bound[o], tasks)
      PROVE  AbstractResolution!Next
  <2> DEFINE s == bound[o]
  <2>1. s \in ToSet(symbols)
    BY DEF IInv, NamesKnown
  <2>2. ReadRelation(o, s, tasks)
    BY <1>3
  <2> HIDE DEF s
  <2>3. CASE s \in resolving
    <3>1. cut' = cut \cup Between(s) /\ UNCHANGED <<callers, kept, named>>
      BY <2>2, <2>3 DEF ReadRelation
    <3>2. callers # <<>>
      <4>1. ASSUME callers = <<>> PROVE FALSE
        <5>1. DOMAIN callers = {}
          BY <4>1
        <5> QED
          BY <5>1, <2>3 DEF IInv, LinksKnown
      <4> QED
        BY <4>1
    <3>3. cut' = cut \cup {<<AbstractResolution!Top, s>>}
      BY <3>1, <3>2, StackFacts DEF Between
    <3>4. AbstractResolution!Cut(s)
      BY <3>1, <3>3, <2>3, <1>1, StackFacts DEF AbstractResolution!Cut, Stack
    <3> QED
      BY <2>1, <3>4 DEF AbstractResolution!Next
  <2>4. CASE s \notin resolving
    <3>1. kept' = kept \cup Between(s) /\ ResolveThen(s, tasks) /\ cut' = cut
      BY <2>2, <2>4 DEF ReadRelation
    <3>2. AbstractResolution!Link(s)
      BY <3>1, LinkFact
    <3> QED
      BY <1>1, <2>1, <2>4, <3>1, <3>2, ResolveStep
  <2> QED
    BY <2>3, <2>4
<1> QED
  BY <1>2, <1>3 DEF ReadSource

LEMMA ResolveSymbolStep == IInv /\ ResolveSymbol => AbstractResolution!Next
<1> SUFFICES ASSUME IInv, ResolveSymbol PROVE AbstractResolution!Next
  OBVIOUS
<1> DEFINE s == Task.symbol
<1>1. ResolveThen(s, <<>>) /\ symbols' = symbols /\ kept' = kept /\ cut' = cut
  BY DEF ResolveSymbol, binding
<1>2. Doing("resolve")
  BY DEF ResolveSymbol
<1>3. callers = <<>>
  BY <1>2, TaskFacts DEF LoweringCalls
<1>4. s \in ToSet(symbols)
  BY <1>2, SymbolCall
<1> HIDE DEF s
<1>5. DOMAIN callers = {}
  BY <1>3
<1>6. s \notin resolving
  BY <1>5 DEF IInv, LinksKnown
<1>7. AbstractResolution!Link(s)
  BY <1>1, <1>3, StackFacts DEF AbstractResolution!Link
<1> QED
  BY <1>1, <1>4, <1>6, <1>7, ResolveStep

\* The innermost relation is finished.
LEMMA NameRelationStep == IInv /\ NameRelation => AbstractResolution!Next
<1> SUFFICES ASSUME IInv, NameRelation PROVE AbstractResolution!Next
  OBVIOUS
<1>1. /\ callers # <<>> /\ callers' = Front(callers) /\ named' = Append(named, Last(callers).symbol)
      /\ symbols' = symbols /\ kept' = kept /\ cut' = cut
  BY DEF NameRelation, Name, binding
<1>2. IsSequence(callers)
  BY DEF IInv, CallsKnown
<1>3. /\ Len(callers) \in Nat \ {0} /\ DOMAIN callers = 1..Len(callers)
      /\ DOMAIN Front(callers) = 1..(Len(callers) - 1)
      /\ \A i \in 1..(Len(callers) - 1) : Front(callers)[i] = callers[i]
  BY <1>1, <1>2, FrontFacts
<1>4. Stack' = SubSeq(Stack, 1, Len(Stack) - 1)
  <2>1. Stack' = [i \in 1..(Len(callers) - 1) |-> Front(callers)[i].symbol]
    BY <1>1, <1>3 DEF Stack
  <2>2. \A i \in 1..(Len(callers) - 1) : i \in DOMAIN callers
    BY <1>3
  <2>3. \A i \in 1..(Len(callers) - 1) : Stack[i] = Front(callers)[i].symbol
    BY <1>3, <2>2 DEF Stack
  <2>4. Stack \in Seq(ToSet(Stack)) /\ Len(Stack) = Len(callers)
    BY StackFacts DEF IsSequence
  <2>5. SubSeq(Stack, 1, Len(Stack) - 1) = [i \in 1..(Len(Stack) - 1) |-> Stack[i]]
    BY <2>4, <1>3
  <2> QED
    BY <2>1, <2>3, <2>4, <2>5
<1>5. AbstractResolution!Leave
  BY <1>1, <1>4, StackFacts DEF AbstractResolution!Leave
<1> QED
  BY <1>5 DEF AbstractResolution!Next

\* What nobody read is a relation without reads.
LEMMA SettleStep == IInv /\ Settle => AbstractResolution!Next
<1> SUFFICES ASSUME IInv, Settle PROVE AbstractResolution!Next
  OBVIOUS
<1>1. UNCHANGED <<symbols, callers, kept, cut, resolving>>
  BY DEF Settle, binding
<1>2. Stack' = Stack
  BY <1>1 DEF Stack
<1>3. CASE named' = named
  BY <1>1, <1>2, <1>3 DEF AbstractResolution!Next, AbstractResolution!Meet
<1>4. CASE \E s \in ToSet(symbols) : s \notin ToSet(named) /\ named' = Append(named, s)
  <2>1. PICK s \in ToSet(symbols) : s \notin ToSet(named) /\ named' = Append(named, s)
    BY <1>4
  <2>2. callers = <<>>
    <3>1. Doing("settle")
      BY DEF Settle
    <3> QED
      BY <3>1, TaskFacts DEF LoweringCalls
  <2>3. DOMAIN callers = {}
    BY <2>2
  <2>4. s \notin resolving
    BY <2>3 DEF IInv, LinksKnown
  <2>5. s \in AbstractResolution!Unstarted
    BY <2>1, <2>4, StackFacts DEF AbstractResolution!Unstarted
  <2>6. AbstractResolution!Link(s)
    BY <1>1, <2>2, StackFacts DEF AbstractResolution!Link
  <2>7. AbstractResolution!Leaf(s)
    BY <1>1, <1>2, <2>1, <2>5, <2>6 DEF AbstractResolution!Leaf
  <2> QED
    BY <2>1, <2>7 DEF AbstractResolution!Next
<1> QED
  BY <1>3, <1>4 DEF Settle, Name, ToSet

-----------------------------------------------------------------------------
LEMMA InitImplements == Init => AbstractResolution!Init
<1> SUFFICES ASSUME Init PROVE AbstractResolution!Init
  OBVIOUS
<1>1. symbols = <<>> /\ callers = <<>> /\ named = <<>> /\ kept = {} /\ cut = {}
  BY DEF Init
<1>2. ToSet(symbols) = {}
  BY <1>1, EmptyFacts
<1>3. Stack = <<>>
  <2>1. DOMAIN callers = {}
    BY <1>1
  <2>2. Stack = [i \in {} |-> callers[i].symbol]
    BY <2>1 DEF Stack
  <2>3. \A S : <<>> \in Seq(S) /\ DOMAIN <<>> = {}
    OBVIOUS
  <2>4. [i \in {} |-> callers[i].symbol] = <<>>
    BY <2>3
  <2> QED
    BY <2>2, <2>4
<1> QED
  BY <1>1, <1>2, <1>3 DEF AbstractResolution!Init

LEMMA NextImplements == IInv /\ [Next]_vars => [AbstractResolution!Next]_(AbstractResolution!vars)
<1> SUFFICES ASSUME IInv, [Next]_vars PROVE [AbstractResolution!Next]_(AbstractResolution!vars)
  OBVIOUS
<1>1. CASE DiscoverViews \/ DiscoverView \/ RequireColumns \/ DiscoverConstraints \/ DiscoverConstraintsOf
           \/ DiscoverReference \/ Propagate \/ LowerQuery \/ FilterRows
  <2>1. UNCHANGED linking /\ symbols' = symbols
    BY <1>1 DEF DiscoverViews, DiscoverView, RequireColumns, DiscoverConstraints, DiscoverConstraintsOf,
                DiscoverReference, Propagate, LowerQuery, FilterRows, binding
  <2> QED
    BY <2>1, MeetStep
<1>2. CASE AssertJoin \/ FinishQuery \/ RegisterMarker \/ LinkConstraints \/ LinkReference \/ ConstrainReference
           \/ LinkMarkers \/ StateReference \/ PlaceAssertion \/ ReportUnanalyzed
  <2>1. UNCHANGED linking /\ symbols' = symbols
    BY <1>2 DEF AssertJoin, FinishQuery, RegisterMarker, LinkConstraints, LinkReference, ConstrainReference,
                LinkMarkers, StateReference, PlaceAssertion, ReportUnanalyzed, binding
  <2> QED
    BY <2>1, MeetStep
<1>3. CASE BindSource \/ FindTarget \/ DiscoverQuery \/ DeclareStatement
  BY <1>3, NamesAdded, MeetStep
<1>4. CASE ReadSource
  BY <1>4, ReadSourceStep
<1>5. CASE ResolveSymbol
  BY <1>5, ResolveSymbolStep
<1>6. CASE NameRelation
  BY <1>6, NameRelationStep
<1>7. CASE Settle
  BY <1>7, SettleStep
<1>8. CASE UNCHANGED vars
  BY <1>8 DEF vars, binding, linking, AbstractResolution!vars, Stack
<1> QED
  BY <1>1, <1>2, <1>3, <1>4, <1>5, <1>6, <1>7, <1>8 DEF Next

(***************************************************************************)
(* Linking implements Resolution: whatever the syntax trees, each relation  *)
(* is lowered once, what is being lowered is a stack, and a read is cut     *)
(* exactly when its relation is on it.                                      *)
(***************************************************************************)
THEOREM LinksAsResolution == Spec => Implements
BY InitImplements, NextImplements, Invariant, PTL DEF Spec, Implements, AbstractResolution!Spec

(***************************************************************************)
(* So what is proved of Resolution is true of the relations of a program:   *)
(* they are lowered once, in an order in which each is lowered after those  *)
(* it reads, and a read that is cut closes a cycle of reads.                *)
(***************************************************************************)
LinkedProgram ==
    INSTANCE ResolutionProofs WITH known <- ToSet(symbols), stack <- Stack, done <- named

LEMMA LinksAsProved == Spec => LinkedProgram!Spec
<1>1. AbstractResolution!Init => LinkedProgram!Init
  BY DEF AbstractResolution!Init, LinkedProgram!Init
<1>2. [AbstractResolution!Next]_(AbstractResolution!vars) => [LinkedProgram!Next]_(LinkedProgram!vars)
  BY DEF AbstractResolution!Next, LinkedProgram!Next, AbstractResolution!vars, LinkedProgram!vars,
         AbstractResolution!Meet, LinkedProgram!Meet, AbstractResolution!Leave, LinkedProgram!Leave,
         AbstractResolution!Enter, LinkedProgram!Enter, AbstractResolution!Leaf, LinkedProgram!Leaf,
         AbstractResolution!Read, LinkedProgram!Read, AbstractResolution!Cut, LinkedProgram!Cut,
         AbstractResolution!Link, LinkedProgram!Link, AbstractResolution!Top, LinkedProgram!Top,
         AbstractResolution!Elements, LinkedProgram!Elements,
         AbstractResolution!Unstarted, LinkedProgram!Unstarted
<1> QED
  BY <1>1, <1>2, LinksAsResolution, PTL DEF Implements, AbstractResolution!Spec, LinkedProgram!Spec

(***************************************************************************)
(* The relations of the linked program form a DAG: each reads relations     *)
(* named before it.                                                         *)
(***************************************************************************)
THEOREM LinkedIsAcyclic == Spec => [](LinkedProgram!LoweredOnce /\ LinkedProgram!Acyclic)
BY LinksAsProved, LinkedProgram!OnlyLoweredOnce, LinkedProgram!LinkedAcyclic, PTL

(***************************************************************************)
(* A read that lowering replaced by an opaque relation closes a cycle of    *)
(* reads that the program really wrote.                                     *)
(***************************************************************************)
THEOREM CutsCloseCycles == Spec => []LinkedProgram!CutsOnCycles
BY LinksAsProved, LinkedProgram!OnlyCyclesCut, PTL

=============================================================================
