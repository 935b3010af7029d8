---------------------------- MODULE CycleProofs -----------------------------
(***************************************************************************)
(* Proofs about cycles of views, for every set of syntax trees: a view that *)
(* is read back, by way of whatever relations, is on a cycle that has a     *)
(* view which lowering reported.                                            *)
(***************************************************************************)
EXTENDS LoweringProofs

-----------------------------------------------------------------------------
(* Chains of pairs.                                                         *)

Ends(pairs) == {pair[1] : pair \in pairs} \cup {pair[2] : pair \in pairs}
IsClosed(found, pairs) == found \subseteq Ends(pairs) /\ \A pair \in pairs : pair[1] \in found => pair[2] \in found
Nexts(a, pairs) == {pair[2] : pair \in {pair \in pairs : pair[1] = a}}
Leads(a, b, pairs) ==
    /\ a \in Ends(pairs) /\ b \in Ends(pairs)
    /\ \A found : IsClosed(found, pairs) /\ Nexts(a, pairs) \subseteq found => b \in found

LEMMA ConnectedFacts ==
    ASSUME NEW pairs, NEW a, NEW b
    PROVE  <<a, b>> \in Connected(pairs) <=> Leads(a, b, pairs)
<1> DEFINE closed == {found \in SUBSET Ends(pairs) : \A pair \in pairs : pair[1] \in found => pair[2] \in found}
           onward == [x \in Ends(pairs) |-> {found \in closed : \A pair \in pairs : pair[1] = x => pair[2] \in found}]
<1>1. Connected(pairs) = {ab \in Ends(pairs) \X Ends(pairs) : \A found \in onward[ab[1]] : ab[2] \in found}
  BY DEF Connected, Ends
<1>2. \A found : found \in closed <=> IsClosed(found, pairs)
  BY DEF IsClosed
<1> HIDE DEF closed
<1>3. \A x \in Ends(pairs) : \A found :
         found \in onward[x] <=> IsClosed(found, pairs) /\ Nexts(x, pairs) \subseteq found
  BY <1>2 DEF Nexts
<1> HIDE DEF onward
<1>4. <<a, b>> \in Connected(pairs) <=>
         a \in Ends(pairs) /\ b \in Ends(pairs) /\ \A found \in onward[a] : b \in found
  BY <1>1
<1> QED
  BY <1>3, <1>4 DEF Leads

\* A pair leads; what leads on, leads all the way.
LEMMA LeadsPair ==
    ASSUME NEW pairs, NEW a, NEW b, <<a, b>> \in pairs
    PROVE  Leads(a, b, pairs)
<1>1. a \in Ends(pairs) /\ b \in Ends(pairs)
  BY DEF Ends
<1>2. b \in Nexts(a, pairs)
  BY DEF Nexts
<1> QED
  BY <1>1, <1>2 DEF Leads

LEMMA LeadsFurther ==
    ASSUME NEW pairs, NEW a, NEW b, NEW c, Leads(a, b, pairs), Leads(b, c, pairs)
    PROVE  Leads(a, c, pairs)
<1>1. ASSUME NEW found, IsClosed(found, pairs), Nexts(a, pairs) \subseteq found
      PROVE  c \in found
  <2>1. b \in found
    BY <1>1 DEF Leads
  <2>2. Nexts(b, pairs) \subseteq found
    BY <1>1, <2>1 DEF IsClosed, Nexts
  <2> QED
    BY <1>1, <2>2 DEF Leads
<1> QED
  BY <1>1 DEF Leads

\* What is good of the next ones, and of a later one after a good one, is good
\* of all it leads to.
LEMMA LeadsWithin ==
    ASSUME NEW pairs, pairs \subseteq Ends(pairs) \X Ends(pairs), NEW a, NEW b, Leads(a, b, pairs), NEW good,
           \A y : <<a, y>> \in pairs => y \in good,
           \A x, y : Leads(a, x, pairs) /\ x \in good /\ <<x, y>> \in pairs => y \in good
    PROVE  b \in good
<1> DEFINE found == {x \in Ends(pairs) : Leads(a, x, pairs) /\ x \in good}
<1>1. \A pair \in pairs : pair = <<pair[1], pair[2]>>
  OBVIOUS
<1>2. ASSUME NEW pair \in pairs, pair[1] \in found
      PROVE  pair[2] \in found
  <2>1. Leads(pair[1], pair[2], pairs) /\ <<pair[1], pair[2]>> \in pairs
    BY <1>1, LeadsPair
  <2>2. Leads(a, pair[1], pairs) /\ pair[1] \in good
    BY <1>2
  <2>3. Leads(a, pair[2], pairs)
    BY <2>1, <2>2, LeadsFurther
  <2>4. pair[2] \in Ends(pairs)
    BY <2>3 DEF Leads
  <2> QED
    BY <2>1, <2>2, <2>3, <2>4
<1>3. ASSUME NEW pair \in pairs, pair[1] = a
      PROVE  pair[2] \in found
  <2>1. Leads(a, pair[2], pairs) /\ <<a, pair[2]>> \in pairs
    BY <1>1, <1>3, LeadsPair
  <2>2. pair[2] \in Ends(pairs)
    BY <2>1 DEF Leads
  <2> QED
    BY <2>1, <2>2
<1>4. found \subseteq Ends(pairs)
  OBVIOUS
<1>5. IsClosed(found, pairs) /\ Nexts(a, pairs) \subseteq found
  <2> HIDE DEF found
  <2> QED
    BY <1>2, <1>3, <1>4 DEF IsClosed, Nexts
<1>6. b \in found
  <2> HIDE DEF found
  <2> QED
    BY <1>5 DEF Leads
<1> QED
  BY <1>6

\* On a chain that comes back there is one before.
LEMMA LeadsBack ==
    ASSUME NEW pairs, pairs \subseteq Ends(pairs) \X Ends(pairs), NEW a, Leads(a, a, pairs)
    PROVE  \E b : <<b, a>> \in pairs /\ Leads(a, b, pairs)
<1> SUFFICES ASSUME \A b : <<b, a>> \in pairs => ~Leads(a, b, pairs)
             PROVE  FALSE
  OBVIOUS
<1> DEFINE good == Ends(pairs) \ {a}
<1>1. \A x, y : <<x, y>> \in pairs => y \in Ends(pairs)
  BY DEF Ends
<1>2. \A y : <<a, y>> \in pairs => y \in good
  BY <1>1
<1>3. \A x, y : Leads(a, x, pairs) /\ x \in good /\ <<x, y>> \in pairs => y \in good
  BY <1>1
<1>4. a \notin good
  OBVIOUS
<1> HIDE DEF good
<1> QED
  BY <1>2, <1>3, <1>4, LeadsWithin

-----------------------------------------------------------------------------
(* The statement a query is written in, by its outermost query.             *)

Home(p, q) == Enclosing(p.query)[q] \cap Outermost(p)

LEMMA HomeOutermost ==
    ASSUME NEW p, IsProgram(p), NEW q \in Outermost(p)
    PROVE  Home(p, q) = {q}
BY OutermostEnclosed DEF Home

LEMMA HomeWithin ==
    ASSUME NEW p, IsProgram(p), NEW r \in DOMAIN p.query, NEW q \in DirectlyWithin(p.query[r])
    PROVE  q \in DOMAIN p.query /\ Home(p, q) = Home(p, r)
<1>1. q \in DOMAIN p.query /\ Enclosing(p.query)[q] = {q} \cup Enclosing(p.query)[r]
  BY WithinEnclosed
<1>2. q \notin Outermost(p)
  BY DEF IsProgram
<1> QED
  BY <1>1, <1>2 DEF Home

\* What encloses a query is at home in the same statement.
LEMMA HomeAround ==
    ASSUME NEW p, IsProgram(p), NEW q \in DOMAIN p.query, NEW r \in Enclosing(p.query)[q]
    PROVE  r \in DOMAIN p.query /\ Home(p, r) = Home(p, q)
<1> DEFINE found == {x \in DOMAIN p.query : Home(p, x) = Home(p, q)}
<1>1. \A x \in DOMAIN p.query : DirectlyWithin(p.query[x]) \cap found # {} => x \in found
  BY HomeWithin
<1>2. q \in found /\ found \in Outward(p.query)
  BY <1>1 DEF Outward
<1>3. r \in found
  <2> HIDE DEF found
  <2> QED
    BY <1>2, EnclosingFacts
<1> QED
  BY <1>3

\* The queries that lowering a query goes on to are at home with it.
LEMMA HomeInside ==
    ASSUME NEW p, IsProgram(p), NEW q \in DOMAIN p.query
    PROVE  LET node == p.query[q] IN
           /\ \A i \in DOMAIN node.with : Home(p, node.with[i].body) = Home(p, q)
           /\ node.kind = "setop" => \A i \in 1..2 : Home(p, node.arms[i]) = Home(p, q)
           /\ node.kind = "paren" => Home(p, node.body) = Home(p, q)
           /\ node.kind = "select" => \A i \in DOMAIN node.where : Home(p, node.where[i].body) = Home(p, q)
           /\ node.kind = "select" => \A i \in DOMAIN node.sources :
                 node.sources[i].kind = "subquery" => Home(p, node.sources[i].body) = Home(p, q)
<1> DEFINE node == p.query[q]
<1>1. IsNode(node)
  BY DEF IsProgram
<1>2. \A r \in DirectlyWithin(node) : Home(p, r) = Home(p, q)
  BY HomeWithin
<1> HIDE DEF node
<1>3. \A i \in DOMAIN node.with : node.with[i].body \in DirectlyWithin(node)
  BY DEF DirectlyWithin, Inlined
<1>4. node.kind = "setop" => \A i \in 1..2 : node.arms[i] \in DirectlyWithin(node)
  <2>1. SUFFICES ASSUME node.kind = "setop" PROVE \A i \in 1..2 : node.arms[i] \in DirectlyWithin(node)
    OBVIOUS
  <2>2. IsSequence(node.arms) /\ Len(node.arms) = 2 /\ ToSet(node.arms) \subseteq DirectlyWithin(node)
    BY <1>1, <2>1 DEF IsNode, DirectlyWithin, Inlined
  <2> QED
    BY <2>2, SequenceFacts
<1>5. node.kind = "select" => \A i \in DOMAIN node.where : node.where[i].body \in DirectlyWithin(node)
  BY DEF DirectlyWithin, Inlined
<1>6. node.kind = "select" => \A i \in DOMAIN node.sources :
         node.sources[i].kind = "subquery" => node.sources[i].body \in DirectlyWithin(node)
  BY DEF DirectlyWithin, Inlined, ToSet
<1>7. node.kind = "paren" => node.body \in DirectlyWithin(node)
  BY DEF DirectlyWithin, Inlined
<1> QED
  BY <1>2, <1>3, <1>4, <1>5, <1>6, <1>7 DEF node

\* A CTE is at home where its name is read.
LEMMA HomeRead ==
    ASSUME NEW p, IsProgram(p), NEW q \in DOMAIN p.query, NEW name, NEW s,
           StandsFor(p, Nearest(p, q, name), name, s)
    PROVE  s.role = "CTE" /\ s.body # NoQuery /\ Home(p, s.body) = Home(p, q)
<1>1. PICK r \in Nearest(p, q, name) : \E i \in DOMAIN p.query[r].with :
         s = Cte(p.query[r].with[i]) /\ p.query[r].with[i].name = name
  BY DEF StandsFor
<1>2. PICK i \in DOMAIN p.query[r].with : s = Cte(p.query[r].with[i])
  BY <1>1
<1>3. r \in Enclosing(p.query)[q]
  BY DEF Nearest, Having
<1>4. r \in DOMAIN p.query /\ Home(p, r) = Home(p, q)
  BY <1>3, HomeAround
<1>5. Home(p, p.query[r].with[i].body) = Home(p, r)
  BY <1>4, HomeInside
<1>6. s.role = "CTE" /\ s.body = p.query[r].with[i].body
  BY <1>2 DEF Cte, Symbol
<1>7. s.body # NoQuery
  BY <1>4, <1>6, TreeFacts, StatementFacts
<1> QED
  BY <1>4, <1>5, <1>6, <1>7

-----------------------------------------------------------------------------
(* The invariant: calls lower what is written where the relation is that    *)
(* they are made for, and a CTE is started after the view it is written in. *)

\* The select a marker is written on.
Holders(p, m) == {q \in Selects(p) : m \in ToSet(Ids(p.query[q].markers))}

\* The query a call lowers, and the relations it leads to the resolution of.
Concerns(t) ==
    IF t.do \in {"lower", "finish", "mark"} THEN {t.query}
    ELSE IF t.do = "read" THEN {t.at[1]}
    ELSE IF t.do = "filter" THEN {t.conjunct.body} ELSE {}
Opens(t) ==
    IF t.do \in {"resolve", "constraint"} THEN {t.symbol}
    ELSE IF t.do = "link" THEN {t.reference.table, t.reference.target} ELSE {}

\* The statements whose queries may be lowered: that of the root select, and
\* the views that were started.
IsView(s) == s.role = "VIEW" /\ s.body # NoQuery
Houses(p, started) == {{p.root}} \cup {Home(p, s.body) : s \in {s \in started : IsView(s)}}
IsOpen(p, s, started) == s.role = "CTE" => Home(p, s.body) \in Houses(p, started)

\* What the i-th relation that is being resolved may lower, or else the root.
AtHome(p, around, i, q) ==
    IF i = 0 THEN Home(p, q) = {p.root}
    ELSE around[i].symbol.body # NoQuery /\ Home(p, q) = Home(p, around[i].symbol.body)
CallPlaced(p, t, around, i, started) ==
    /\ \A q \in Concerns(t) : AtHome(p, around, i, q)
    /\ \A s \in Opens(t) : IsOpen(p, s, started)
    /\ t.do \in {"target", "mark"} => t.query \in Holders(p, t.marker.id)
CallsPlaced(p, calls, around, i, started) == \A t \in ToSet(calls) : CallPlaced(p, t, around, i, started)
AllPlaced(p, around, calls, started) ==
    /\ CallsPlaced(p, calls, around, Len(around), started)
    /\ \A i \in DOMAIN around : CallsPlaced(p, around[i].rest, around, i - 1, started)

NamesPlaced(p, met, names, foreign) ==
    /\ \A s \in met : s.role \in {"TABLE", "VIEW", "CTE"}
    /\ \A name \in DOMAIN names : names[name].role # "CTE"
    /\ \A m \in DOMAIN foreign : foreign[m].role = "CTE" =>
          \A q \in Holders(p, m) : Home(p, q) = Home(p, foreign[m].body)
ReferencesPlaced(p, refs, waiting, started) ==
    /\ \A r \in ToSet(refs) : IsOpen(p, r.table, started) /\ IsOpen(p, r.target, started)
    /\ \A r \in ToSet(waiting) : IsOpen(p, r.target, started)

\* A CTE and the view it is written in.
IsPart(p, s, w) == s.role = "CTE" /\ IsView(w) /\ Home(p, s.body) = Home(p, w.body)
StackPlaced(p, around, started) ==
    /\ \A i \in DOMAIN around : around[i].symbol.role # "TABLE" /\ IsOpen(p, around[i].symbol, started)
    /\ \A i, j \in DOMAIN around : i < j => ~IsPart(p, around[i].symbol, around[j].symbol)

\* A CTE is read where it is visible; and of what a view reads, by way of its
\* CTEs too, its CTEs were named before it.
EdgePlaced(p, e, started) ==
    /\ e[1] \in started /\ e[2] \in started
    /\ e[1].role # "TABLE" /\ e[1].body # NoQuery
    /\ e[2].role = "CTE" => Home(p, e[1].body) = Home(p, e[2].body)
NamedBefore(s, w, done) == \E i, j \in DOMAIN done : done[i] = s /\ done[j] = w /\ i < j
ReadsPlaced(p, pairs, done, started) ==
    /\ pairs \subseteq started \X started
    /\ \A e \in pairs : EdgePlaced(p, e, started)
    /\ \A w \in ToSet(done) : \A e \in pairs :
          IsPart(p, e[2], w) /\ (e[1] = w \/ NamedBefore(e[1], w, done)) => NamedBefore(e[2], w, done)
CutsReported(cuts, reported) ==
    /\ \A e \in cuts : e[2].role = "VIEW" => e[2] \in reported
    /\ \A s \in reported : \E e \in cuts : e[2] = s

Started == ToSet(named) \cup resolving
Placed ==
    /\ AllPlaced(program, callers, agenda, Started)
    /\ NamesPlaced(program, ToSet(symbols), global, targets)
    /\ ReferencesPlaced(program, references, pending, Started)
    /\ StackPlaced(program, callers, Started)
    /\ ReadsPlaced(program, kept \cup cut, named, Started)
    /\ CutsReported(cut, cycles)

\* More relations are started, and what was placed is.
LEMMA MoreStarted ==
    ASSUME NEW p, NEW started, NEW more, started \subseteq more
    PROVE  /\ \A s : IsOpen(p, s, started) => IsOpen(p, s, more)
           /\ \A t, around, i : CallPlaced(p, t, around, i, started) => CallPlaced(p, t, around, i, more)
           /\ \A calls, around, i : CallsPlaced(p, calls, around, i, started) => CallsPlaced(p, calls, around, i, more)
           /\ \A around, calls : AllPlaced(p, around, calls, started) => AllPlaced(p, around, calls, more)
           /\ \A refs, waiting : ReferencesPlaced(p, refs, waiting, started) => ReferencesPlaced(p, refs, waiting, more)
           /\ \A around : StackPlaced(p, around, started) => StackPlaced(p, around, more)
           /\ \A e : EdgePlaced(p, e, started) => EdgePlaced(p, e, more)
           /\ \A pairs, done : ReadsPlaced(p, pairs, done, started) => ReadsPlaced(p, pairs, done, more)
<1>1. \A s : IsOpen(p, s, started) => IsOpen(p, s, more)
  BY DEF IsOpen, Houses
<1>2. \A t, around, i : CallPlaced(p, t, around, i, started) => CallPlaced(p, t, around, i, more)
  BY <1>1 DEF CallPlaced
<1>3. \A calls, around, i : CallsPlaced(p, calls, around, i, started) => CallsPlaced(p, calls, around, i, more)
  BY <1>2 DEF CallsPlaced
<1>4. \A around, calls : AllPlaced(p, around, calls, started) => AllPlaced(p, around, calls, more)
  BY <1>3 DEF AllPlaced
<1>5. \A refs, waiting : ReferencesPlaced(p, refs, waiting, started) => ReferencesPlaced(p, refs, waiting, more)
  BY <1>1 DEF ReferencesPlaced
<1>6. \A around : StackPlaced(p, around, started) => StackPlaced(p, around, more)
  BY <1>1 DEF StackPlaced
<1>7. \A e : EdgePlaced(p, e, started) => EdgePlaced(p, e, more)
  BY DEF EdgePlaced
<1>8. \A pairs, done : ReadsPlaced(p, pairs, done, started) => ReadsPlaced(p, pairs, done, more)
  <2>1. \A pairs : pairs \subseteq started \X started => pairs \subseteq more \X more
    OBVIOUS
  <2> QED
    BY <1>7, <2>1 DEF ReadsPlaced
<1> QED
  BY <1>1, <1>2, <1>3, <1>4, <1>5, <1>6, <1>7, <1>8

\* Calls that lower and lead to nothing may be made anywhere.
IsFree(t) == t.do \notin {"lower", "finish", "mark", "read", "filter", "resolve", "constraint", "link", "target"}

LEMMA FreePlaced ==
    ASSUME NEW p, NEW around, NEW i, NEW started
    PROVE  /\ \A t : IsFree(t) => CallPlaced(p, t, around, i, started)
           /\ \A calls : (\A t \in ToSet(calls) : IsFree(t)) => CallsPlaced(p, calls, around, i, started)
           /\ CallsPlaced(p, <<>>, around, i, started)
<1>1. \A t : IsFree(t) => CallPlaced(p, t, around, i, started)
  BY DEF IsFree, CallPlaced, Concerns, Opens
<1> QED
  BY <1>1, EmptyFacts DEF CallsPlaced

LEMMA PlacedConcat ==
    ASSUME NEW p, NEW around, NEW i, NEW started, NEW first, NEW then, IsSequence(first), IsSequence(then),
           CallsPlaced(p, first, around, i, started), CallsPlaced(p, then, around, i, started)
    PROVE  CallsPlaced(p, first \o then, around, i, started)
BY ConcatFacts DEF CallsPlaced

LEMMA PlacedOne ==
    ASSUME NEW p, NEW around, NEW i, NEW started, NEW t, CallPlaced(p, t, around, i, started)
    PROVE  CallsPlaced(p, <<t>>, around, i, started)
BY OneFacts DEF CallsPlaced

LEMMA PlacedEach ==
    ASSUME NEW p, NEW around, NEW k, NEW started, NEW s, IsSequence(s), NEW f, f = [i \in DOMAIN s |-> f[i]],
           \A i \in DOMAIN s : CallPlaced(p, f[i], around, k, started)
    PROVE  CallsPlaced(p, f, around, k, started)
BY EachFacts, SequenceFacts DEF CallsPlaced

\* The next call is placed, and calls that are may come in its place.
LEMMA PlacedNext ==
    ASSUME NEW p, NEW around, NEW calls, NEW started, IsSequence(calls), calls # <<>>, AllPlaced(p, around, calls, started)
    PROVE  CallPlaced(p, Head(calls), around, Len(around), started)
<1>1. Head(calls) \in ToSet(calls)
  BY ThenFacts, EmptyFacts
<1> QED
  BY <1>1 DEF AllPlaced, CallsPlaced

LEMMA PlacedThen ==
    ASSUME NEW p, NEW around, NEW calls, NEW started, IsSequence(calls), calls # <<>>, AllPlaced(p, around, calls, started),
           NEW tasks, IsSequence(tasks), CallsPlaced(p, tasks, around, Len(around), started)
    PROVE  AllPlaced(p, around, tasks \o Tail(calls), started)
<1>1. ToSet(tasks \o Tail(calls)) \subseteq ToSet(tasks) \cup ToSet(calls)
  BY ThenFacts
<1> QED
  BY <1>1 DEF AllPlaced, CallsPlaced

-----------------------------------------------------------------------------
(* The steps that neither start nor name a relation.                        *)

LEMMA LinksStay ==
    ASSUME Placed, UNCHANGED <<program, linking>>
    PROVE  /\ Started' = Started /\ callers' = callers
           /\ StackPlaced(program, callers, Started)' /\ ReadsPlaced(program, kept \cup cut, named, Started)'
           /\ CutsReported(cut, cycles)'
<1>1. /\ callers' = callers /\ named' = named /\ resolving' = resolving /\ kept' = kept /\ cut' = cut
      /\ cycles' = cycles /\ program' = program
  BY DEF linking
<1>2. Started' = Started
  BY <1>1 DEF Started
<1> QED
  BY <1>1, <1>2 DEF Placed

\* Calls that are placed come in the place of the next one.
LEMMA CallStep ==
    ASSUME IInv, Placed, agenda # <<>>, UNCHANGED <<program, linking>>,
           NEW tasks, IsSequence(tasks), CallsPlaced(program, tasks, callers, Len(callers), Started),
           agenda' = tasks \o Tail(agenda),
           NamesPlaced(program, ToSet(symbols), global, targets)',
           ReferencesPlaced(program, references', pending', Started)
    PROVE  Placed'
<1>1. IsSequence(agenda)
  BY DEF IInv, CallsKnown, KnownCalls
<1>2. /\ Started' = Started /\ callers' = callers
      /\ StackPlaced(program, callers, Started)' /\ ReadsPlaced(program, kept \cup cut, named, Started)'
      /\ CutsReported(cut, cycles)'
  BY LinksStay
<1>3. AllPlaced(program, callers, agenda, Started)
  BY DEF Placed
<1>4. AllPlaced(program, callers, tasks \o Tail(agenda), Started)
  BY <1>1, <1>3, PlacedThen
<1> QED
  BY <1>2, <1>4 DEF Placed

LEMMA SameStep ==
    ASSUME IInv, Placed, agenda # <<>>, UNCHANGED <<program, linking, symbols, global, targets, references, pending>>,
           NEW tasks, IsSequence(tasks), CallsPlaced(program, tasks, callers, Len(callers), Started),
           agenda' = tasks \o Tail(agenda)
    PROVE  Placed'
<1>1. NamesPlaced(program, ToSet(symbols), global, targets)' /\ ReferencesPlaced(program, references', pending', Started)
  BY DEF Placed
<1> QED
  BY <1>1, CallStep

\* A step that makes no calls at all.
LEMMA StillStep ==
    ASSUME Placed, UNCHANGED <<program, linking, agenda, symbols, global, targets, references, pending>>
    PROVE  Placed'
BY LinksStay DEF Placed

LEMMA EmptyStep ==
    ASSUME IInv, Placed, agenda # <<>>, UNCHANGED <<program, linking>>, Then(<<>>),
           NamesPlaced(program, ToSet(symbols), global, targets)',
           ReferencesPlaced(program, references', pending', Started)
    PROVE  Placed'
BY CallStep, FreePlaced, EmptyFacts DEF Then

LEMMA FreeEach ==
    ASSUME NEW s, IsSequence(s), NEW f, f = [i \in DOMAIN s |-> f[i]], \A i \in DOMAIN s : IsFree(f[i]),
           NEW p, NEW around, NEW k, NEW started
    PROVE  IsSequence(f) /\ CallsPlaced(p, f, around, k, started)
BY EachFacts, PlacedEach, FreePlaced

LEMMA FreeOne ==
    ASSUME NEW t, IsFree(t), NEW p, NEW around, NEW k, NEW started
    PROVE  IsSequence(<<t>>) /\ CallsPlaced(p, <<t>>, around, k, started)
BY OneFacts, PlacedOne, FreePlaced

Idling == DiscoverViews \/ DiscoverView \/ RequireColumns \/ DiscoverConstraints \/ Propagate \/ AssertJoin
          \/ ConstrainReference \/ StateReference \/ PlaceAssertion \/ ReportUnanalyzed

LEMMA IdlingPlaced == IInv /\ Placed /\ Idling => Placed'
<1> SUFFICES ASSUME IInv, Placed, Idling PROVE Placed'
  OBVIOUS
<1>1. UNCHANGED <<program, linking, symbols, global, targets, references, pending>>
  BY DEF Idling, DiscoverViews, DiscoverView, RequireColumns, DiscoverConstraints, Propagate, AssertJoin,
         ConstrainReference, StateReference, PlaceAssertion, ReportUnanalyzed, binding, linking, marking
<1>2. agenda # <<>>
  BY DEF Idling, DiscoverViews, DiscoverView, RequireColumns, DiscoverConstraints, Propagate, AssertJoin,
         ConstrainReference, StateReference, PlaceAssertion, ReportUnanalyzed, Doing
<1>3. IsSequence(symbols)
  BY DEF IInv, NamesKnown
<1>4. \/ agenda' = agenda
      \/ Then(<<>>)
      \/ Then([i \in DOMAIN symbols |-> About("view", symbols[i])])
      \/ \E q, scope : Then(<<Discover(q, scope)>>)
      \/ Then([i \in DOMAIN symbols |-> About("constraints of", symbols[i])])
  BY DEF Idling, DiscoverViews, DiscoverView, RequireColumns, DiscoverConstraints, Propagate, AssertJoin, Crash,
         ConstrainReference, StateReference, PlaceAssertion, ReportUnanalyzed
<1>5. ASSUME NEW tasks, IsSequence(tasks), CallsPlaced(program, tasks, callers, Len(callers), Started), Then(tasks)
      PROVE  Placed'
  BY <1>1, <1>2, <1>5, SameStep DEF Then
<1>6. CASE agenda' = agenda
  BY <1>1, <1>6, StillStep
<1>7. CASE Then(<<>>)
  BY <1>5, <1>7, EmptyFacts, FreePlaced
<1>8. ASSUME NEW what \in {"view", "constraints of"}, Then([i \in DOMAIN symbols |-> About(what, symbols[i])])
      PROVE  Placed'
  <2> DEFINE tasks == [i \in DOMAIN symbols |-> About(what, symbols[i])]
  <2>1. \A i \in DOMAIN symbols : IsFree(tasks[i])
    BY DEF IsFree, About
  <2>2. tasks = [i \in DOMAIN symbols |-> tasks[i]] /\ Then(tasks)
    BY <1>8
  <2> HIDE DEF tasks
  <2> QED
    BY <1>3, <1>5, <2>1, <2>2, FreeEach
<1>9. ASSUME NEW q, NEW scope, Then(<<Discover(q, scope)>>)
      PROVE  Placed'
  <2>1. IsFree(Discover(q, scope))
    BY DEF IsFree, Discover
  <2> QED
    BY <1>5, <1>9, <2>1, FreeOne
<1> QED
  BY <1>4, <1>6, <1>7, <1>8, <1>9

-----------------------------------------------------------------------------
(* The steps that discover names.                                           *)

\* A sequence of calls that are placed.
Fit(calls, p, around, i, started) == IsSequence(calls) /\ CallsPlaced(p, calls, around, i, started)

LEMMA FitFew ==
    ASSUME NEW p, NEW around, NEW i, NEW started
    PROVE  /\ Fit(<<>>, p, around, i, started)
           /\ \A t : CallPlaced(p, t, around, i, started) => Fit(<<t>>, p, around, i, started)
           /\ \A s, t : Fit(s, p, around, i, started) /\ Fit(t, p, around, i, started)
                        => Fit(s \o t, p, around, i, started)
<1>1. Fit(<<>>, p, around, i, started)
  BY FreePlaced, EmptyFacts DEF Fit
<1>2. \A t : CallPlaced(p, t, around, i, started) => Fit(<<t>>, p, around, i, started)
  BY PlacedOne, OneFacts DEF Fit
<1>3. \A s, t : Fit(s, p, around, i, started) /\ Fit(t, p, around, i, started) => Fit(s \o t, p, around, i, started)
  BY PlacedConcat, ConcatFacts DEF Fit
<1> QED
  BY <1>1, <1>2, <1>3

LEMMA FitEach ==
    ASSUME NEW s, IsSequence(s), NEW f, f = [i \in DOMAIN s |-> f[i]], NEW p, NEW around, NEW k, NEW started,
           \A i \in DOMAIN s : CallPlaced(p, f[i], around, k, started)
    PROVE  Fit(f, p, around, k, started)
BY EachFacts, PlacedEach DEF Fit

LEMMA PlacedInit == Init => Placed
<1> SUFFICES ASSUME Init PROVE Placed
  OBVIOUS
<1>1. IsProgram(program)
  BY ProgramsAssumption DEF Init
<1> DEFINE p == program
           started == {}
           declare == [i \in DOMAIN p.statements |-> [do |-> "declare", statement |-> p.statements[i]]]
           found == IF p.root = NoQuery THEN <<>> ELSE <<Discover(p.root, NoEntry)>>
           lowered == IF p.root = NoQuery THEN <<>> ELSE <<Lower(p.root)>>
           fit(calls) == Fit(calls, p, <<>>, 0, started)
<1>2. fit(declare)
  <2>1. IsSequence(p.statements)
    BY <1>1, StatementFacts
  <2>2. \A i \in DOMAIN p.statements : IsFree(declare[i])
    BY DEF IsFree
  <2>3. declare = [i \in DOMAIN p.statements |-> declare[i]]
    OBVIOUS
  <2> HIDE DEF declare
  <2> QED
    BY <2>1, <2>2, <2>3, FreeEach DEF Fit
<1>3. ASSUME NEW what \in {"views", "constraints", "propagate", "links", "references", "place", "report", "settle"}
      PROVE  fit(<<Call(what)>>)
  <2>1. IsFree(Call(what))
    BY DEF IsFree, Call
  <2> QED
    BY <2>1, FreeOne DEF Fit
<1>4. fit(found)
  <2>1. IsFree(Discover(p.root, NoEntry))
    BY DEF IsFree, Discover
  <2> QED
    BY <2>1, FitFew, FreePlaced
<1>5. fit(lowered)
  <2>1. CASE p.root = NoQuery
    BY <2>1, FitFew
  <2>2. CASE p.root # NoQuery
    <3>1. p.root \in Outermost(p)
      BY <2>2 DEF Outermost
    <3>2. Home(p, p.root) = {p.root}
      BY <1>1, <3>1, HomeOutermost
    <3>3. CallPlaced(p, Lower(p.root), <<>>, 0, started)
      BY <3>2 DEF CallPlaced, Concerns, Opens, AtHome, Lower
    <3> QED
      BY <2>2, <3>3, FitFew
  <2> QED
    BY <2>1, <2>2
<1>6. /\ <<Call("constraints"), Call("propagate")>> = <<Call("constraints")>> \o <<Call("propagate")>>
      /\ <<Call("links"), Call("references"), Call("place"), Call("report"), Call("settle")>>
         = <<Call("links")>> \o <<Call("references")>> \o <<Call("place")>> \o <<Call("report")>> \o <<Call("settle")>>
  OBVIOUS
<1>7. agenda = declare \o <<Call("views")>> \o found \o <<Call("constraints"), Call("propagate")>> \o lowered
               \o <<Call("links"), Call("references"), Call("place"), Call("report"), Call("settle")>>
  BY DEF Init
<1>8. fit(agenda)
  <2> HIDE DEF declare, found, lowered
  <2>1. \A s, t : fit(s) /\ fit(t) => fit(s \o t)
    BY FitFew
  <2> HIDE DEF fit
  <2>2. fit(<<Call("constraints"), Call("propagate")>>)
    BY <1>3, <1>6, <2>1
  <2>3. fit(<<Call("links"), Call("references"), Call("place"), Call("report"), Call("settle")>>)
    BY <1>3, <1>6, <2>1
  <2>4. fit(declare \o <<Call("views")>>)
    BY <1>2, <1>3, <2>1
  <2>5. fit(declare \o <<Call("views")>> \o found)
    BY <1>4, <2>1, <2>4
  <2>6. fit(declare \o <<Call("views")>> \o found \o <<Call("constraints"), Call("propagate")>>)
    BY <2>1, <2>2, <2>5
  <2>7. fit(declare \o <<Call("views")>> \o found \o <<Call("constraints"), Call("propagate")>> \o lowered)
    BY <1>5, <2>1, <2>6
  <2> QED
    BY <1>7, <2>1, <2>3, <2>7
<1>9. /\ callers = <<>> /\ Started = {} /\ symbols = <<>> /\ global = NoEntry /\ targets = NoEntry
      /\ references = <<>> /\ pending = <<>> /\ kept \cup cut = {} /\ cut = {} /\ cycles = {} /\ named = <<>>
  BY EmptyFacts DEF Init, Started
<1>10. DOMAIN NoEntry = {} /\ DOMAIN <<>> = {} /\ Len(<<>>) = 0
  BY DEF NoEntry
<1>11. AllPlaced(program, callers, agenda, Started)
  BY <1>8, <1>9, <1>10 DEF AllPlaced, Fit
<1>12. NamesPlaced(program, ToSet(symbols), global, targets) /\ ReferencesPlaced(program, references, pending, Started)
  BY <1>9, <1>10, EmptyFacts DEF NamesPlaced, ReferencesPlaced
<1>13. /\ StackPlaced(program, callers, Started) /\ ReadsPlaced(program, kept \cup cut, named, Started)
       /\ CutsReported(cut, cycles)
  BY <1>9, <1>10 DEF StackPlaced, ReadsPlaced, CutsReported
<1> QED
  BY <1>11, <1>12, <1>13 DEF Placed

\* A marker is written on one select.
LEMMA OneHolder ==
    ASSUME NEW p, IsProgram(p), NEW m, NEW q \in Holders(p, m), NEW r \in Holders(p, m)
    PROVE  q = r
<1>1. ASSUME NEW x \in Holders(p, m)
      PROVE  x \in DOMAIN p.query /\ \E i \in DOMAIN MarkersOn(p.query[x]) : MarkersOn(p.query[x])[i] = m /\ m # NoMarker
  <2>1. x \in Selects(p) /\ m \in ToSet(Ids(p.query[x].markers))
    BY DEF Holders
  <2>2. x \in DOMAIN p.query /\ p.query[x].kind = "select" /\ m # NoMarker
    BY <2>1 DEF Selects, IsProgram
  <2>3. PICK i \in DOMAIN p.query[x].markers : m = p.query[x].markers[i].id
    BY <2>1 DEF ToSet, Ids
  <2> DEFINE a == Len(p.query[x].sources)
             b == Len(p.query[x].markers)
  <2>a. /\ a \in Nat /\ b \in Nat /\ DOMAIN p.query[x].markers = 1..b
        /\ DOMAIN MarkersOn(p.query[x]) = 1..(a + b)
        /\ \A j \in 1..b : MarkersOn(p.query[x])[a + j] = p.query[x].markers[j].id
    BY <2>2, MarkerFacts
  <2> HIDE DEF a, b
  <2>4. a \in Nat /\ b \in Nat /\ i \in 1..b /\ MarkersOn(p.query[x])[a + i] = m
    BY <2>3, <2>a
  <2>5. a + i \in 1..(a + b)
    BY <2>4
  <2> QED
    BY <2>2, <2>4, <2>5, <2>a
<1>2. PICK i \in DOMAIN MarkersOn(p.query[q]) : MarkersOn(p.query[q])[i] = m /\ m # NoMarker
  BY <1>1
<1>3. PICK j \in DOMAIN MarkersOn(p.query[r]) : MarkersOn(p.query[r])[j] = m
  BY <1>1
<1>4. q \in Selects(p) /\ r \in Selects(p)
  BY DEF Holders
<1> QED
  BY <1>2, <1>3, <1>4 DEF IsProgram

\* A name that is a CTE is a CTE of the statement it is written in.
LEMMA SymbolPlaced ==
    ASSUME IInv, Placed, NEW q \in DOMAIN scopes, NEW name
    PROVE  LET s == SymbolFor(name, scopes[q]) IN
           /\ s.role \in {"TABLE", "VIEW", "CTE"}
           /\ s.role = "CTE" => Home(program, q) = Home(program, s.body)
           /\ s \notin ToSet(symbols) => s.role # "CTE"
<1> DEFINE s == SymbolFor(name, scopes[q])
<1>1. NamesKnown(symbols, required, global, scopes, bound, targets, constraints, program) /\ IsProgram(program)
  BY DEF IInv
<1>2. NamesPlaced(program, ToSet(symbols), global, targets)
  BY DEF Placed
<1>3. s \in ToSet(symbols) \/ s = Undeclared(name)
  BY SymbolFacts
<1>4. Undeclared(name).role = "TABLE"
  BY DEF Undeclared, Symbol
<1>5. s.role = "CTE" => Home(program, q) = Home(program, s.body)
  <2>1. q \in DOMAIN program.query /\ IsScope(program, q, scopes[q])
    BY <1>1 DEF NamesKnown, NamesLexical
  <2>2. CASE name \in DOMAIN scopes[q]
    <3>1. s = scopes[q][name]
      BY <2>2 DEF SymbolFor
    <3>2. StandsFor(program, Nearest(program, q, name), name, s)
      BY <2>1, <2>2, <3>1 DEF IsScope
    <3> HIDE DEF s
    <3> QED
      BY <1>1, <2>1, <3>2, HomeRead
  <2>3. CASE name \notin DOMAIN scopes[q] /\ name \in DOMAIN global
    <3>1. s = global[name]
      BY <2>3 DEF SymbolFor
    <3>2. s.role # "CTE"
      BY <1>2, <2>3, <3>1 DEF NamesPlaced
    <3> QED
      BY <3>2
  <2>4. CASE name \notin DOMAIN scopes[q] /\ name \notin DOMAIN global
    <3>1. s = Undeclared(name)
      BY <2>4 DEF SymbolFor
    <3> QED
      BY <1>4, <3>1
  <2> QED
    BY <2>2, <2>3, <2>4
<1> HIDE DEF s
<1>6. s.role \in {"TABLE", "VIEW", "CTE"} /\ (s \notin ToSet(symbols) => s.role # "CTE")
  BY <1>2, <1>3, <1>4 DEF NamesPlaced
<1> QED
  BY <1>5, <1>6 DEF s

LEMMA MeetPlaced ==
    ASSUME IInv, Placed, NEW q \in DOMAIN scopes, NEW name, NEW s, s = SymbolFor(name, scopes[q]),
           NEW columns, Meet(s, columns)
    PROVE  /\ \A t \in ToSet(symbols') : t.role \in {"TABLE", "VIEW", "CTE"}
           /\ \A other \in DOMAIN global' : global'[other].role # "CTE"
<1>1. IsSequence(symbols)
  BY DEF IInv, NamesKnown
<1>2. /\ \A t \in ToSet(symbols) : t.role \in {"TABLE", "VIEW", "CTE"}
      /\ \A other \in DOMAIN global : global[other].role # "CTE"
  BY DEF Placed, NamesPlaced
<1>3. s.role \in {"TABLE", "VIEW", "CTE"} /\ (s \notin ToSet(symbols) => s.role # "CTE")
  BY SymbolPlaced
<1>4. CASE s \in ToSet(symbols)
  BY <1>2, <1>4 DEF Meet
<1>5. CASE s \notin ToSet(symbols)
  <2>1. symbols' = Append(symbols, s) /\ global' = With(global, s.name, s)
    BY <1>5 DEF Meet
  <2>2. ToSet(symbols') = ToSet(symbols) \cup {s}
    BY <1>1, <2>1, AppendFacts
  <2>3. \A other \in DOMAIN global' : global'[other] = s \/ (other \in DOMAIN global /\ global'[other] = global[other])
    BY <2>1 DEF With
  <2> QED
    BY <1>2, <1>3, <1>5, <2>2, <2>3
<1> QED
  BY <1>4, <1>5

LEMMA WithinPlaced ==
    ASSUME IsProgram(program), NEW q \in DOMAIN program.query, NEW scope, NEW outer, NEW around, NEW k, NEW started
    PROVE  Fit(Within(q, scope, outer), program, around, k, started)
<1> DEFINE node == Node(q)
           fit(calls) == Fit(calls, program, around, k, started)
<1>1. /\ \A i : IsFree(Bind(q, i))
      /\ \A r, s : IsFree(Discover(r, s))
      /\ IsFree(Require(q))
  BY DEF Bind, Discover, Require, IsFree
<1>2. \A t : IsFree(t) => CallPlaced(program, t, around, k, started)
  BY FreePlaced
<1>3. /\ node.kind \in {"select", "setop", "paren"} /\ IsSequence(node.with)
      /\ node.kind = "select" => IsSequence(node.sources) /\ IsSequence(node.where) /\ IsSequence(node.markers)
  BY TreeFacts DEF Node
<1>4. \A s, t : fit(s) /\ fit(t) => fit(s \o t)
  BY FitFew
<1>5. ASSUME node.kind = "select"
      PROVE  \A i \in DOMAIN node.markers : q \in Holders(program, node.markers[i].id)
  <2>1. q \in Selects(program)
    BY <1>5 DEF Selects, Node
  <2>2. \A i \in DOMAIN node.markers : node.markers[i].id \in ToSet(Ids(node.markers))
    BY DEF Ids, ToSet
  <2> QED
    BY <2>1, <2>2 DEF Holders, Node
<1> HIDE DEF node, fit
<1>6. CASE node.kind = "paren"
  <2>1. Within(q, scope, outer) = <<>>
    BY <1>6 DEF Within, node
  <2> QED
    BY <2>1, FitFew
<1>7. CASE node.kind = "setop"
  <2> DEFINE arms == [i \in 1..2 |-> Discover(node.arms[i], scope)]
  <2>1. arms = [i \in 1..2 |-> arms[i]] /\ \A i \in 1..2 : CallPlaced(program, arms[i], around, k, started)
    BY <1>1, <1>2
  <2>2. Within(q, scope, outer) = arms
    BY <1>7 DEF Within, node
  <2> HIDE DEF arms
  <2>3. IsSequence(arms) /\ DOMAIN arms = 1..2
    BY <2>1, Listed1
  <2>4. \A t \in ToSet(arms) : CallPlaced(program, t, around, k, started)
    BY <2>1, <2>3 DEF ToSet
  <2> QED
    BY <2>2, <2>3, <2>4 DEF Fit, CallsPlaced
<1>8. CASE node.kind = "select"
  <2> DEFINE binds == [i \in DOMAIN node.sources |-> Bind(q, i)]
             finds == [i \in DOMAIN node.markers |-> Mark("target", q, node.markers[i])]
             looks == [i \in DOMAIN node.where |-> Discover(node.where[i].body, scope)]
             bodies == [i \in DOMAIN node.with |-> Discover(node.with[i].body, scope)]
  <2>1. fit(binds)
    <3>1. \A i \in DOMAIN node.sources : CallPlaced(program, binds[i], around, k, started)
      BY <1>1, <1>2
    <3> QED
      BY <1>3, <1>8, <3>1, FitEach DEF fit
  <2>2. fit(finds)
    <3>1. ASSUME NEW i \in DOMAIN node.markers
          PROVE  CallPlaced(program, finds[i], around, k, started)
      BY <1>5, <1>8 DEF CallPlaced, Concerns, Opens, Mark
    <3> QED
      BY <1>3, <1>8, <3>1, FitEach DEF fit
  <2>3. fit(looks)
    <3>1. \A i \in DOMAIN node.where : CallPlaced(program, looks[i], around, k, started)
      BY <1>1, <1>2
    <3> QED
      BY <1>3, <1>8, <3>1, FitEach DEF fit
  <2>4. fit(bodies)
    <3>1. \A i \in DOMAIN node.with : CallPlaced(program, bodies[i], around, k, started)
      BY <1>1, <1>2
    <3> QED
      BY <1>3, <3>1, FitEach DEF fit
  <2>5. Within(q, scope, outer) = binds \o <<Require(q)>> \o finds \o looks \o bodies
    BY <1>8 DEF Within, Bodies, node
  <2> HIDE DEF binds, finds, looks, bodies
  <2>6. fit(<<Require(q)>>)
    BY <1>1, <1>2, FitFew DEF fit
  <2>7. fit(binds \o <<Require(q)>>)
    BY <2>1, <2>6, <1>4
  <2>8. fit(binds \o <<Require(q)>> \o finds)
    BY <2>2, <2>7, <1>4
  <2>9. fit(binds \o <<Require(q)>> \o finds \o looks)
    BY <2>3, <2>8, <1>4
  <2>10. fit(binds \o <<Require(q)>> \o finds \o looks \o bodies)
    BY <2>4, <2>9, <1>4
  <2> QED
    BY <2>5, <2>10 DEF fit
<1> QED
  BY <1>3, <1>6, <1>7, <1>8

Naming == DeclareStatement \/ BindSource \/ FindTarget \/ DiscoverQuery

\* Statements declare tables and views.
LEMMA DeclarePlaced == IInv /\ Placed /\ DeclareStatement => Placed'
<1> SUFFICES ASSUME IInv, Placed, DeclareStatement PROVE Placed'
  OBVIOUS
<1> DEFINE s == Task.statement
           symbol == Symbol(s.name, s.kind, s.body, s.columns, TRUE)
<1>1. agenda # <<>> /\ Then(<<>>) /\ UNCHANGED <<program, linking, targets, references, pending>>
  BY DEF DeclareStatement, Doing, marking
<1>2. \/ symbols' = symbols /\ global' = global
      \/ s.kind \in {"TABLE", "VIEW"} /\ symbols' = Append(symbols, symbol) /\ global' = With(global, s.name, symbol)
  BY DEF DeclareStatement, Declare, Amend
<1>3. symbol.role = s.kind
  BY DEF Symbol
<1>4. IsSequence(symbols)
  BY DEF IInv, NamesKnown
<1>5. NamesPlaced(program, ToSet(symbols), global, targets) /\ ReferencesPlaced(program, references, pending, Started)
  BY DEF Placed
<1> HIDE DEF symbol, s
<1>6. NamesPlaced(program, ToSet(symbols), global, targets)'
  <2>1. CASE symbols' = symbols /\ global' = global
    BY <1>1, <1>5, <2>1
  <2>2. CASE s.kind \in {"TABLE", "VIEW"} /\ symbols' = Append(symbols, symbol) /\ global' = With(global, s.name, symbol)
    <3>1. ToSet(symbols') = ToSet(symbols) \cup {symbol}
      BY <1>4, <2>2, AppendFacts
    <3>2. \A name \in DOMAIN global' :
             global'[name] = symbol \/ (name \in DOMAIN global /\ global'[name] = global[name])
      BY <2>2 DEF With
    <3>3. \A t \in ToSet(symbols') : t.role \in {"TABLE", "VIEW", "CTE"}
      BY <1>3, <1>5, <2>2, <3>1 DEF NamesPlaced
    <3>4. \A name \in DOMAIN global' : global'[name].role # "CTE"
      BY <1>3, <1>5, <2>2, <3>2 DEF NamesPlaced
    <3> QED
      BY <1>1, <1>5, <3>3, <3>4 DEF NamesPlaced
  <2> QED
    BY <1>2, <2>1, <2>2
<1> QED
  BY <1>1, <1>5, <1>6, EmptyStep

LEMMA BindPlaced == IInv /\ Placed /\ BindSource => Placed'
<1> SUFFICES ASSUME IInv, Placed, BindSource PROVE Placed'
  OBVIOUS
<1> DEFINE o == Task.at
           source == Source(o)
           s == SymbolFor(source.name, scopes[o[1]])
           tasks == IF source.kind = "subquery" THEN <<Discover(source.body, scopes[o[1]])>> ELSE <<>>
<1>1. agenda # <<>> /\ Then(tasks) /\ UNCHANGED <<program, linking, targets, references, pending>>
  BY DEF BindSource, Doing, marking
<1>2. o[1] \in DOMAIN scopes
  <2>1. Doing("bind")
    BY DEF BindSource
  <2> QED
    BY <2>1, BindCall
<1>3. (symbols' = symbols /\ global' = global) \/ Meet(s, {})
  BY DEF BindSource
<1>4. NamesPlaced(program, ToSet(symbols), global, targets) /\ ReferencesPlaced(program, references, pending, Started)
  BY DEF Placed
<1>5. Fit(tasks, program, callers, Len(callers), Started)
  <2>1. \A r, scope : IsFree(Discover(r, scope))
    BY DEF IsFree, Discover
  <2> QED
    BY <2>1, FitFew, FreePlaced
<1>6. NamesPlaced(program, ToSet(symbols), global, targets)'
  <2>1. CASE symbols' = symbols /\ global' = global
    BY <1>1, <1>4, <2>1
  <2>2. CASE Meet(s, {})
    <3>1. /\ \A t \in ToSet(symbols') : t.role \in {"TABLE", "VIEW", "CTE"}
          /\ \A other \in DOMAIN global' : global'[other].role # "CTE"
      BY <1>2, <2>2, MeetPlaced
    <3> QED
      BY <1>1, <1>4, <3>1 DEF NamesPlaced
  <2> QED
    BY <1>3, <2>1, <2>2
<1> HIDE DEF tasks, s
<1> QED
  BY <1>1, <1>4, <1>5, <1>6, CallStep DEF Then, Fit

\* The target of a marker is at home where the marker is written.
LEMMA TargetPlaced == IInv /\ Placed /\ FindTarget => Placed'
<1> SUFFICES ASSUME IInv, Placed, FindTarget PROVE Placed'
  OBVIOUS
<1> DEFINE marker == Task.marker
           q == Task.query
           s == SymbolFor(marker.references, scopes[q])
<1>1. agenda # <<>> /\ Then(<<>>) /\ UNCHANGED <<program, linking, references, pending>>
  BY DEF FindTarget, Doing, marking
<1>2. q \in DOMAIN scopes /\ Task.do = "target" /\ IsSequence(agenda)
  <2>1. Doing("target")
    BY DEF FindTarget
  <2>2. IsSequence(agenda)
    BY DEF IInv, CallsKnown, KnownCalls
  <2> QED
    BY <2>1, <2>2, ScopedCall DEF Doing
<1>3. \/ symbols' = symbols /\ global' = global /\ targets' = targets
      \/ targets' = With(targets, marker.id, s) /\ \E columns : Meet(s, columns)
  BY DEF FindTarget
<1>4. NamesPlaced(program, ToSet(symbols), global, targets) /\ ReferencesPlaced(program, references, pending, Started)
  BY DEF Placed
<1>5. q \in Holders(program, marker.id)
  <2>1. CallPlaced(program, Task, callers, Len(callers), Started)
    BY <1>1, <1>2, PlacedNext DEF Placed, Task
  <2> QED
    BY <1>2, <2>1 DEF CallPlaced
<1>6. IsProgram(program)
  BY DEF IInv
<1>7. s.role = "CTE" => Home(program, q) = Home(program, s.body)
  BY <1>2, SymbolPlaced
<1>8. NamesPlaced(program, ToSet(symbols), global, targets)'
  <2>1. CASE symbols' = symbols /\ global' = global /\ targets' = targets
    BY <1>1, <1>4, <2>1
  <2>2. CASE targets' = With(targets, marker.id, s) /\ \E columns : Meet(s, columns)
    <3>1. /\ \A t \in ToSet(symbols') : t.role \in {"TABLE", "VIEW", "CTE"}
          /\ \A other \in DOMAIN global' : global'[other].role # "CTE"
      BY <1>2, <2>2, MeetPlaced
    <3> HIDE DEF s, q, marker
    <3>2. ASSUME NEW m \in DOMAIN targets', targets'[m].role = "CTE", NEW r \in Holders(program, m)
          PROVE  Home(program, r) = Home(program, targets'[m].body)
      <4>1. CASE m = marker.id
        <5>1. targets'[m] = s
          BY <2>2, <4>1 DEF With
        <5>2. r = q
          BY <1>5, <1>6, <3>2, <4>1, OneHolder
        <5> QED
          BY <1>7, <3>2, <5>1, <5>2
      <4>2. CASE m # marker.id
        <5>1. m \in DOMAIN targets /\ targets'[m] = targets[m]
          BY <2>2, <3>2, <4>2 DEF With
        <5> QED
          BY <1>4, <3>2, <5>1 DEF NamesPlaced
      <4> QED
        BY <4>1, <4>2
    <3> QED
      BY <1>1, <3>1, <3>2 DEF NamesPlaced
  <2> QED
    BY <1>3, <2>1, <2>2
<1> QED
  BY <1>1, <1>4, <1>8, EmptyStep

LEMMA DiscoverPlaced == IInv /\ Placed /\ DiscoverQuery => Placed'
<1> SUFFICES ASSUME IInv, Placed, DiscoverQuery PROVE Placed'
  OBVIOUS
<1> DEFINE q == Task.query
           with == Node(q).with
           ctes == [i \in DOMAIN with |-> Cte(with[i])]
           scope == Visible(with, Task.scope)
<1>1. agenda # <<>> /\ UNCHANGED <<program, linking, global, targets, references, pending>>
  BY DEF DiscoverQuery, Doing, marking
<1>2. q \in DOMAIN program.query
  <2>1. Doing("discover")
    BY DEF DiscoverQuery
  <2> QED
    BY <2>1, DiscoverCall
<1>3. \/ symbols' = symbols /\ Then(<<>>)
      \/ symbols' = symbols \o ctes /\ Then(Within(q, scope, Task.scope))
  BY DEF DiscoverQuery
<1>4. NamesPlaced(program, ToSet(symbols), global, targets) /\ ReferencesPlaced(program, references, pending, Started)
  BY DEF Placed
<1>5. IsProgram(program) /\ IsSequence(symbols)
  BY DEF IInv, NamesKnown
<1>6. Fit(Within(q, scope, Task.scope), program, callers, Len(callers), Started)
  BY <1>2, <1>5, WithinPlaced
<1>7. IsSequence(with)
  BY <1>2, <1>5, TreeFacts DEF Node
<1> HIDE DEF scope, with
<1>8. IsSequence(ctes) /\ \A t \in ToSet(ctes) : t.role = "CTE"
  <2>1. \A i \in DOMAIN with : ctes[i].role = "CTE"
    BY DEF Cte, Symbol
  <2>2. ctes = [i \in DOMAIN with |-> ctes[i]] /\ DOMAIN ctes = DOMAIN with
    OBVIOUS
  <2> HIDE DEF ctes
  <2> QED
    BY <1>7, <2>1, <2>2, EachFacts DEF ToSet
<1> HIDE DEF ctes
<1>9. NamesPlaced(program, ToSet(symbols), global, targets)'
  <2>1. symbols' = symbols \/ ToSet(symbols') = ToSet(symbols) \cup ToSet(ctes)
    BY <1>3, <1>5, <1>8, ConcatFacts
  <2>2. \A t \in ToSet(symbols') : t.role \in {"TABLE", "VIEW", "CTE"}
    BY <1>4, <1>8, <2>1 DEF NamesPlaced
  <2> QED
    BY <1>1, <1>4, <2>2 DEF NamesPlaced
<1>10. CASE Then(<<>>)
  BY <1>1, <1>4, <1>9, <1>10, EmptyStep
<1>11. CASE Then(Within(q, scope, Task.scope))
  <2> DEFINE tasks == Within(q, scope, Task.scope)
  <2>1. Fit(tasks, program, callers, Len(callers), Started) /\ Then(tasks)
    BY <1>6, <1>11
  <2> HIDE DEF tasks
  <2> QED
    BY <1>1, <1>4, <1>9, <2>1, CallStep DEF Then, Fit
<1> QED
  BY <1>3, <1>10, <1>11

\* Constraints are of tables.
LEMMA ConstraintsPlaced == IInv /\ Placed /\ (DiscoverConstraintsOf \/ DiscoverReference) => Placed'
<1> SUFFICES ASSUME IInv, Placed, DiscoverConstraintsOf \/ DiscoverReference PROVE Placed'
  OBVIOUS
<1>1. IsSequence(agenda)
  BY DEF IInv, CallsKnown, KnownCalls
<1>2. CASE DiscoverConstraintsOf
  <2> DEFINE s == Task.symbol
             stated == ConstraintsOf(s)
             tasks == [i \in DOMAIN stated |-> [do |-> "constraint", symbol |-> s, constraint |-> stated[i]]]
  <2>1. agenda # <<>> /\ Then(tasks) /\ UNCHANGED <<program, linking, symbols, global, targets, references, pending>>
    BY <1>2 DEF DiscoverConstraintsOf, Doing, binding, marking
  <2>2. IsSequence(stated)
    <3>1. Doing("constraints of")
      BY <1>2 DEF DiscoverConstraintsOf
    <3>2. s \in ToSet(symbols)
      BY <3>1, SymbolCall
    <3>3. s.declared => s \in DOMAIN constraints /\ IsSequence(constraints[s])
      BY <3>2 DEF IInv, NamesKnown
    <3> QED
      BY <3>3, EmptyFacts DEF ConstraintsOf
  <2>3. DOMAIN stated # {} => s.role = "TABLE"
    BY DEF ConstraintsOf
  <2> HIDE DEF stated, s
  <2>4. \A i \in DOMAIN stated : CallPlaced(program, tasks[i], callers, Len(callers), Started)
    BY <2>3 DEF CallPlaced, Concerns, Opens, IsOpen
  <2>5. Fit(tasks, program, callers, Len(callers), Started)
    BY <2>2, <2>4, FitEach
  <2> HIDE DEF tasks
  <2> QED
    BY <2>1, <2>5, SameStep DEF Then, Fit
<1>3. CASE DiscoverReference
  <2> DEFINE s == Task.symbol
             c == Task.constraint
             r == [table |-> s, columns |-> c.columns, target |-> global[c.target], referenced |-> c.referenced]
  <2>1. agenda # <<>> /\ Then(<<>>) /\ UNCHANGED <<program, linking, symbols, global, targets, pending>>
    BY <1>3 DEF DiscoverReference, Doing, binding, marking
  <2>2. references' = references \/ (global[c.target].role = "TABLE" /\ references' = Append(references, r))
    BY <1>3 DEF DiscoverReference
  <2>3. IsOpen(program, s, Started)
    <3>1. CallPlaced(program, Task, callers, Len(callers), Started)
      BY <1>1, <2>1, PlacedNext DEF Placed, Task
    <3>2. Task.do = "constraint"
      BY <1>3 DEF DiscoverReference, Doing
    <3> QED
      BY <3>1, <3>2 DEF CallPlaced, Opens
  <2>4. r.table = s /\ r.target = global[c.target]
    OBVIOUS
  <2> HIDE DEF r, s, c
  <2>5. IsSequence(references) /\ NamesPlaced(program, ToSet(symbols), global, targets)
        /\ ReferencesPlaced(program, references, pending, Started)
    BY DEF IInv, ReferencesKnown, Placed
  <2>6. ReferencesPlaced(program, references', pending', Started)
    <3>1. CASE references' = references
      BY <2>1, <2>5, <3>1
    <3>2. CASE global[c.target].role = "TABLE" /\ references' = Append(references, r)
      <4>1. ToSet(references') = ToSet(references) \cup {r}
        BY <2>5, <3>2, AppendFacts
      <4>2. IsOpen(program, r.table, Started) /\ IsOpen(program, r.target, Started)
        BY <2>3, <2>4, <3>2 DEF IsOpen
      <4> QED
        BY <2>1, <2>5, <4>1, <4>2 DEF ReferencesPlaced
    <3> QED
      BY <2>2, <3>1, <3>2
  <2>7. NamesPlaced(program, ToSet(symbols), global, targets)'
    BY <2>1, <2>5
  <2> QED
    BY <2>1, <2>6, <2>7, EmptyStep
<1> QED
  BY <1>2, <1>3

-----------------------------------------------------------------------------
(* The steps that lower a query, and those that link references.            *)

\* Calls go on at home.
LEMMA SameHome ==
    ASSUME NEW p, NEW around, NEW i, NEW started, NEW q, AtHome(p, around, i, q),
           NEW t, t.do \in {"lower", "finish", "read", "filter"}, \A r \in Concerns(t) : Home(p, r) = Home(p, q)
    PROVE  CallPlaced(p, t, around, i, started)
<1>1. Opens(t) = {} /\ t.do \notin {"target", "mark"}
  BY DEF Opens
<1>2. \A r \in Concerns(t) : AtHome(p, around, i, r)
  BY DEF AtHome
<1> QED
  BY <1>1, <1>2 DEF CallPlaced

LEMMA HomeCalls ==
    ASSUME NEW p, NEW around, NEW i, NEW started, NEW q, AtHome(p, around, i, q)
    PROVE  /\ \A r : Home(p, r) = Home(p, q) => CallPlaced(p, Lower(r), around, i, started)
           /\ \A r : Home(p, r) = Home(p, q) => CallPlaced(p, [do |-> "finish", query |-> r], around, i, started)
           /\ \A r, j : Home(p, r) = Home(p, q) => CallPlaced(p, Read(r, j), around, i, started)
           /\ \A c : Home(p, c.body) = Home(p, q) => CallPlaced(p, [do |-> "filter", conjunct |-> c], around, i, started)
<1>1. \A r : Lower(r).do = "lower" /\ Concerns(Lower(r)) = {r}
  BY DEF Lower, Concerns
<1>2. \A r : Finish(r).do = "finish" /\ Concerns(Finish(r)) = {r}
  BY DEF Finish, Concerns
<1>3. \A r, j : Read(r, j).do = "read" /\ Concerns(Read(r, j)) = {r}
  BY DEF Read, Concerns
<1>4. \A c : Filter(c).do = "filter" /\ Concerns(Filter(c)) = {c.body}
  BY DEF Filter, Concerns
<1>5. \A r : Home(p, r) = Home(p, q) => CallPlaced(p, Lower(r), around, i, started)
  BY <1>1, SameHome
<1>6. \A r : Home(p, r) = Home(p, q) => CallPlaced(p, Finish(r), around, i, started)
  BY <1>2, SameHome
<1>7. \A r, j : Home(p, r) = Home(p, q) => CallPlaced(p, Read(r, j), around, i, started)
  BY <1>3, SameHome
<1>8. \A c : Home(p, c.body) = Home(p, q) => CallPlaced(p, Filter(c), around, i, started)
  BY <1>4, SameHome
<1> QED
  BY <1>5, <1>6, <1>7, <1>8 DEF Finish, Filter

\* The sources of a query.
LEMMA SourcesFit ==
    ASSUME IsProgram(program), NEW q \in DOMAIN program.query, program.query[q].kind = "select",
           NEW around, NEW i, NEW started, AtHome(program, around, i, q)
    PROVE  Fit(SourceTasks(q), program, around, i, started)
<1> DEFINE tasks == SourceTasks(q)
           sources == Node(q).sources
<1>1. IsSequence(sources)
  BY TreeFacts DEF Node
<1>2. tasks = [j \in DOMAIN sources |-> tasks[j]] /\ \A j \in DOMAIN sources : tasks[j] = Read(q, j)
  BY DEF SourceTasks
<1> HIDE DEF tasks, sources
<1>3. \A j \in DOMAIN sources : CallPlaced(program, tasks[j], around, i, started)
  BY <1>2, HomeCalls
<1>4. Fit(tasks, program, around, i, started)
  BY <1>1, <1>2, <1>3, FitEach
<1> QED
  BY <1>4 DEF tasks

\* The next call is at home.
LEMMA TaskPlaced ==
    ASSUME IInv, Placed, NEW what, Doing(what)
    PROVE  agenda # <<>> /\ Task.do = what /\ CallPlaced(program, Task, callers, Len(callers), Started)
<1>1. agenda # <<>> /\ Task.do = what /\ Task = Head(agenda)
  BY DEF Doing, Task
<1>2. IsSequence(agenda)
  BY DEF IInv, CallsKnown, KnownCalls
<1> QED
  BY <1>1, <1>2, PlacedNext DEF Placed

LEMMA LowerPlaced == IInv /\ Placed /\ LowerQuery => Placed'
<1> SUFFICES ASSUME IInv, Placed, LowerQuery PROVE Placed'
  OBVIOUS
<1> DEFINE q == Unwrap(Task.query)
           finish == <<[do |-> "finish", query |-> q]>>
           fit(calls) == Fit(calls, program, callers, Len(callers), Started)
<1>1. Doing("lower") /\ UNCHANGED <<program, linking, symbols, global, targets, references, pending>>
  BY DEF LowerQuery, binding, marking
<1>2. IsProgram(program)
  BY DEF IInv
<1>3. Task.query \in DOMAIN program.query /\ agenda # <<>>
  BY <1>1, TaskFacts DEF KnownCall
<1>4. AtHome(program, callers, Len(callers), Task.query)
  <2>1. CallPlaced(program, Task, callers, Len(callers), Started) /\ Task.do = "lower"
    BY <1>1, TaskPlaced
  <2> QED
    BY <2>1 DEF CallPlaced, Concerns
<1>5. q \in DOMAIN program.query /\ Home(program, q) = Home(program, Task.query)
  <2>1. CASE program.query[Task.query].kind = "paren"
    <3>1. q = program.query[Task.query].body
      BY <2>1 DEF Unwrap, Node
    <3>2. q \in DirectlyWithin(program.query[Task.query])
      BY <2>1, <3>1 DEF DirectlyWithin, Inlined
    <3> QED
      BY <1>2, <1>3, <3>2, HomeWithin
  <2>2. CASE program.query[Task.query].kind # "paren"
    <3>1. q = Task.query
      BY <2>2 DEF Unwrap, Node
    <3> QED
      BY <1>3, <3>1
  <2> QED
    BY <2>1, <2>2
<1>6. AtHome(program, callers, Len(callers), q)
  BY <1>4, <1>5 DEF AtHome
<1>7. \A s, t : fit(s) /\ fit(t) => fit(s \o t)
  BY FitFew
<1> DEFINE tasks == CASE Node(q).kind = "setop" -> <<Lower(Node(q).arms[1]), Lower(Node(q).arms[2])>> \o finish
                      [] Node(q).kind = "select" /\ Node(q).tail = "natural" -> finish
                      [] OTHER -> SourceTasks(q) \o WhereTasks(q) \o finish
<1>8. Then(tasks)
  BY DEF LowerQuery
<1>9. Node(q).kind \in {"setop", "select"}
  <2>1. program.query[q].kind \in {"select", "setop", "paren"}
    BY <1>2, <1>5, TreeFacts
  <2>2. program.query[q].kind # "paren"
    BY <1>2, <1>3 DEF IsProgram, Unwrap, Node
  <2> QED
    BY <2>1, <2>2 DEF Node
<1> HIDE DEF q
<1>10. fit(finish)
  BY <1>6, HomeCalls, FitFew
<1>11. CASE Node(q).kind = "setop"
  <2>1. \A i \in 1..2 : Home(program, Node(q).arms[i]) = Home(program, q)
    BY <1>2, <1>5, <1>11, HomeInside DEF Node
  <2>a. Home(program, Node(q).arms[1]) = Home(program, q) /\ Home(program, Node(q).arms[2]) = Home(program, q)
    BY <2>1
  <2>b. /\ CallPlaced(program, Lower(Node(q).arms[1]), callers, Len(callers), Started)
        /\ CallPlaced(program, Lower(Node(q).arms[2]), callers, Len(callers), Started)
    BY <1>6, <2>a, HomeCalls
  <2>2. fit(<<Lower(Node(q).arms[1])>>) /\ fit(<<Lower(Node(q).arms[2])>>)
    BY <2>b, FitFew
  <2>3. <<Lower(Node(q).arms[1]), Lower(Node(q).arms[2])>> = <<Lower(Node(q).arms[1])>> \o <<Lower(Node(q).arms[2])>>
    OBVIOUS
  <2> HIDE DEF finish, fit
  <2>4. fit(tasks)
    BY <1>7, <1>10, <1>11, <2>2, <2>3
  <2> HIDE DEF tasks
  <2> QED
    BY <1>1, <1>3, <1>8, <2>4, SameStep DEF Then, Fit, fit
<1>12. CASE Node(q).kind = "select"
  <2>1. fit(SourceTasks(q))
    BY <1>2, <1>5, <1>6, <1>12, SourcesFit DEF Node
  <2>2. fit(WhereTasks(q))
    <3> DEFINE where == Node(q).where
               filters == [i \in DOMAIN where |-> [do |-> "filter", conjunct |-> where[i]]]
    <3>1. IsSequence(where) /\ \A i \in DOMAIN where : Home(program, where[i].body) = Home(program, q)
      BY <1>2, <1>5, <1>12, TreeFacts, HomeInside DEF Node
    <3>2. WhereTasks(q) = filters \/ WhereTasks(q) = <<>>
      BY DEF WhereTasks
    <3> HIDE DEF where
    <3>3. \A i \in DOMAIN where : CallPlaced(program, filters[i], callers, Len(callers), Started)
      BY <1>6, <3>1, HomeCalls
    <3>4. Fit(filters, program, callers, Len(callers), Started)
      BY <3>1, <3>3, FitEach
    <3> QED
      BY <3>2, <3>4, FitFew
  <2> HIDE DEF finish, fit
  <2>3. tasks = finish \/ tasks = SourceTasks(q) \o WhereTasks(q) \o finish
    BY <1>12
  <2>4. fit(tasks)
    BY <1>7, <1>10, <2>1, <2>2, <2>3
  <2> HIDE DEF tasks
  <2> QED
    BY <1>1, <1>3, <1>8, <2>4, SameStep DEF Then, Fit, fit
<1> QED
  BY <1>9, <1>11, <1>12

LEMMA FilterPlaced == IInv /\ Placed /\ FilterRows => Placed'
<1> SUFFICES ASSUME IInv, Placed, FilterRows PROVE Placed'
  OBVIOUS
<1> DEFINE body == Task.conjunct.body
<1>1. Doing("filter") /\ UNCHANGED <<program, linking, symbols, global, targets, references, pending>>
  BY DEF FilterRows, binding, marking
<1>2. IsProgram(program)
  BY DEF IInv
<1>3. body \in DOMAIN program.query /\ program.query[body].kind = "select" /\ agenda # <<>>
  BY <1>1, TaskFacts DEF KnownCall
<1>4. AtHome(program, callers, Len(callers), body)
  <2>1. CallPlaced(program, Task, callers, Len(callers), Started) /\ Task.do = "filter"
    BY <1>1, TaskPlaced
  <2> QED
    BY <2>1 DEF CallPlaced, Concerns
<1>5. Then(<<Lower(body)>>) \/ Then(SourceTasks(body)) \/ Then(<<>>)
  BY DEF FilterRows
<1> HIDE DEF body
<1>6. ASSUME NEW tasks, Fit(tasks, program, callers, Len(callers), Started), Then(tasks)
      PROVE  Placed'
  BY <1>1, <1>3, <1>6, SameStep DEF Then, Fit
<1>7. /\ Fit(<<Lower(body)>>, program, callers, Len(callers), Started)
      /\ Fit(SourceTasks(body), program, callers, Len(callers), Started)
      /\ Fit(<<>>, program, callers, Len(callers), Started)
  BY <1>2, <1>3, <1>4, SourcesFit, HomeCalls, FitFew
<1> QED
  BY <1>5, <1>6, <1>7

LEMMA FinishPlaced == IInv /\ Placed /\ FinishQuery => Placed'
<1> SUFFICES ASSUME IInv, Placed, FinishQuery PROVE Placed'
  OBVIOUS
<1> DEFINE q == Task.query
           markers == Node(q).markers
           marks == [i \in DOMAIN markers |-> Mark("mark", q, markers[i])]
<1>1. Doing("finish") /\ UNCHANGED <<program, linking, symbols, global, targets, references, pending>>
  BY DEF FinishQuery, binding, marking
<1>2. IsProgram(program)
  BY DEF IInv
<1>3. q \in DOMAIN program.query /\ agenda # <<>>
  BY <1>1, TaskFacts DEF KnownCall
<1>4. AtHome(program, callers, Len(callers), q)
  <2>1. CallPlaced(program, Task, callers, Len(callers), Started) /\ Task.do = "finish"
    BY <1>1, TaskPlaced
  <2> QED
    BY <2>1 DEF CallPlaced, Concerns
<1>5. Then(<<>>) \/ (Node(q).kind = "select" /\ Then(marks))
  BY DEF FinishQuery
<1> HIDE DEF q
<1>6. CASE Then(<<>>)
  BY <1>1, <1>3, <1>6, SameStep, FitFew DEF Then, Fit
<1>7. CASE Node(q).kind = "select" /\ Then(marks)
  <2>1. IsSequence(markers)
    BY <1>2, <1>3, <1>7, TreeFacts DEF Node
  <2>2. q \in Selects(program)
    BY <1>3, <1>7 DEF Selects, Node
  <2>3. \A i \in DOMAIN markers : markers[i].id \in ToSet(Ids(markers))
    BY DEF Ids, ToSet
  <2>4. \A i \in DOMAIN markers : q \in Holders(program, markers[i].id)
    BY <2>2, <2>3 DEF Holders, Node
  <2> HIDE DEF markers
  <2>5. \A i \in DOMAIN markers : CallPlaced(program, marks[i], callers, Len(callers), Started)
    BY <1>4, <2>4 DEF CallPlaced, Concerns, Opens, Mark
  <2>6. Fit(marks, program, callers, Len(callers), Started)
    BY <2>1, <2>5, FitEach
  <2> HIDE DEF marks
  <2> QED
    BY <1>1, <1>3, <1>7, <2>6, SameStep DEF Then, Fit
<1> QED
  BY <1>5, <1>6, <1>7

\* What is lowered is at home in a statement that was started, so that a CTE of
\* that statement may be resolved.
LEMMA HomeOpen ==
    ASSUME IInv, Placed, NEW q, AtHome(program, callers, Len(callers), q)
    PROVE  Home(program, q) \in Houses(program, Started)
<1>1. IsSequence(callers)
  BY DEF IInv, CallsKnown
<1>2. DOMAIN callers = 1..Len(callers) /\ Len(callers) \in Nat
  BY <1>1, SequenceFacts
<1>3. CASE Len(callers) = 0
  BY <1>3 DEF AtHome, Houses
<1>4. CASE Len(callers) # 0
  <2> DEFINE s == callers[Len(callers)].symbol
  <2>1. Len(callers) \in DOMAIN callers
    BY <1>2, <1>4
  <2>2. s.body # NoQuery /\ Home(program, q) = Home(program, s.body)
    BY <1>4 DEF AtHome
  <2>3. s.role # "TABLE" /\ IsOpen(program, s, Started)
    BY <2>1 DEF Placed, StackPlaced
  <2>4. s \in ToSet(symbols) /\ s \in Started
    BY <2>1 DEF IInv, CallsKnown, LinksKnown, Started
  <2>5. s.role \in {"TABLE", "VIEW", "CTE"}
    BY <2>4 DEF Placed, NamesPlaced
  <2> HIDE DEF s
  <2>6. CASE s.role = "CTE"
    BY <2>2, <2>3, <2>6 DEF IsOpen
  <2>7. CASE s.role = "VIEW"
    BY <2>2, <2>4, <2>7 DEF Houses, IsView
  <2> QED
    BY <2>3, <2>5, <2>6, <2>7
<1> QED
  BY <1>3, <1>4

LEMMA RegisterPlaced == IInv /\ Placed /\ RegisterMarker => Placed'
<1> SUFFICES ASSUME IInv, Placed, RegisterMarker PROVE Placed'
  OBVIOUS
<1> DEFINE m == Task.marker
           q == Task.query
           r == [marker |-> m, target |-> targets[m.id], position |-> Len(assertions)]
<1>1. Doing("mark") /\ UNCHANGED <<program, linking, symbols, global, targets, references>>
  BY DEF RegisterMarker, binding
<1>2. \/ agenda' = agenda /\ pending' = pending
      \/ Then(<<>>) /\ pending' = pending
      \/ Then(<<>>) /\ m.id \in DOMAIN targets /\ pending' = Append(pending, r)
  BY DEF RegisterMarker, Crash
<1>3. /\ agenda # <<>> /\ AtHome(program, callers, Len(callers), q)
      /\ q \in Holders(program, m.id)
  <2>1. CallPlaced(program, Task, callers, Len(callers), Started) /\ Task.do = "mark" /\ agenda # <<>>
    BY <1>1, TaskPlaced
  <2> QED
    BY <2>1 DEF CallPlaced, Concerns
<1>4. r.target = targets[m.id]
  OBVIOUS
<1>5. NamesPlaced(program, ToSet(symbols), global, targets)' /\ ReferencesPlaced(program, references, pending, Started)
      /\ NamesPlaced(program, ToSet(symbols), global, targets) /\ IsSequence(pending)
  BY <1>1 DEF Placed, IInv, ReferencesKnown
<1> HIDE DEF r, m, q
<1>6. CASE agenda' = agenda /\ pending' = pending
  BY <1>1, <1>6, StillStep
<1>7. CASE Then(<<>>) /\ pending' = pending
  BY <1>1, <1>3, <1>5, <1>7, EmptyStep
<1>8. CASE Then(<<>>) /\ m.id \in DOMAIN targets /\ pending' = Append(pending, r)
  <2>1. IsOpen(program, r.target, Started)
    <3>1. r.target.role = "CTE" => Home(program, q) = Home(program, r.target.body)
      BY <1>3, <1>4, <1>5, <1>8 DEF NamesPlaced
    <3>2. Home(program, q) \in Houses(program, Started)
      BY <1>3, HomeOpen
    <3> QED
      BY <3>1, <3>2 DEF IsOpen
  <2>2. ToSet(pending') = ToSet(pending) \cup {r}
    BY <1>5, <1>8, AppendFacts
  <2>3. ReferencesPlaced(program, references', pending', Started)
    BY <1>1, <1>5, <2>1, <2>2 DEF ReferencesPlaced
  <2> QED
    BY <1>1, <1>3, <1>5, <1>8, <2>3, EmptyStep
<1> QED
  BY <1>2, <1>6, <1>7, <1>8

\* Calls that resolve a relation, and what references it.
LEMMA ReferenceCalls ==
    ASSUME NEW p, NEW around, NEW i, NEW started
    PROVE  /\ \A s : IsOpen(p, s, started) => CallPlaced(p, Resolve(s), around, i, started)
           /\ \A r : IsOpen(p, r.table, started) /\ IsOpen(p, r.target, started)
                     => CallPlaced(p, Reference("link", r), around, i, started)
           /\ \A r : CallPlaced(p, Reference("constrain", r), around, i, started)
           /\ \A r : CallPlaced(p, Reference("refer", r), around, i, started)
           /\ CallPlaced(p, Call("references"), around, i, started)
<1>1. \A s : Resolve(s).do = "resolve" /\ Concerns(Resolve(s)) = {} /\ Opens(Resolve(s)) = {s}
  BY DEF Resolve, About, Concerns, Opens
<1>2. \A r : LET t == Reference("link", r) IN
         t.do = "link" /\ Concerns(t) = {} /\ Opens(t) = {r.table, r.target}
  BY DEF Reference, Concerns, Opens
<1>3. \A r : IsFree(Reference("constrain", r)) /\ IsFree(Reference("refer", r))
  BY DEF Reference, IsFree
<1>4. IsFree(Call("references"))
  BY DEF Call, IsFree
<1>5. \A s : IsOpen(p, s, started) => CallPlaced(p, Resolve(s), around, i, started)
  BY <1>1 DEF CallPlaced
<1>6. \A r : IsOpen(p, r.table, started) /\ IsOpen(p, r.target, started)
             => CallPlaced(p, Reference("link", r), around, i, started)
  BY <1>2 DEF CallPlaced
<1> QED
  BY <1>3, <1>4, <1>5, <1>6, FreePlaced

LEMMA LinkPlaced == IInv /\ Placed /\ (LinkConstraints \/ LinkReference) => Placed'
<1> SUFFICES ASSUME IInv, Placed, LinkConstraints \/ LinkReference PROVE Placed'
  OBVIOUS
<1>1. UNCHANGED <<program, linking, symbols, global, targets, references, pending>>
  BY DEF LinkConstraints, LinkReference, binding, marking
<1>2. ASSUME NEW tasks, Fit(tasks, program, callers, Len(callers), Started), Then(tasks), agenda # <<>>
      PROVE  Placed'
  BY <1>1, <1>2, SameStep DEF Then, Fit
<1>3. CASE LinkConstraints
  <2> DEFINE tasks == [i \in DOMAIN references |-> Reference("link", references[i])]
  <2>1. Then(tasks) /\ agenda # <<>>
    BY <1>3 DEF LinkConstraints, Doing
  <2>2. IsSequence(references) /\ ReferencesPlaced(program, references, pending, Started)
    BY DEF IInv, ReferencesKnown, Placed
  <2>3. \A i \in DOMAIN references : references[i] \in ToSet(references)
    BY DEF ToSet
  <2>4. \A i \in DOMAIN references : CallPlaced(program, tasks[i], callers, Len(callers), Started)
    BY <2>2, <2>3, ReferenceCalls DEF ReferencesPlaced
  <2>5. Fit(tasks, program, callers, Len(callers), Started)
    BY <2>2, <2>4, FitEach
  <2> HIDE DEF tasks
  <2> QED
    BY <1>2, <2>1, <2>5
<1>4. CASE LinkReference
  <2> DEFINE r == Task.reference
             tasks == <<Resolve(r.table), Resolve(r.target), Reference("constrain", r)>>
             fit(calls) == Fit(calls, program, callers, Len(callers), Started)
  <2>1. Doing("link") /\ Then(tasks)
    BY <1>4 DEF LinkReference
  <2>2. CallPlaced(program, Task, callers, Len(callers), Started) /\ Task.do = "link" /\ agenda # <<>>
    BY <2>1, TaskPlaced
  <2>3. IsOpen(program, r.table, Started) /\ IsOpen(program, r.target, Started)
    BY <2>2 DEF CallPlaced, Opens
  <2>4. tasks = <<Resolve(r.table)>> \o <<Resolve(r.target)>> \o <<Reference("constrain", r)>>
    OBVIOUS
  <2> HIDE DEF tasks, r
  <2>5. \A s, t : fit(s) /\ fit(t) => fit(s \o t)
    BY FitFew
  <2>6. fit(<<Resolve(r.table)>>) /\ fit(<<Resolve(r.target)>>) /\ fit(<<Reference("constrain", r)>>)
    BY <2>3, ReferenceCalls, FitFew
  <2> HIDE DEF fit
  <2>7. fit(tasks)
    BY <2>4, <2>5, <2>6
  <2> QED
    BY <1>2, <2>1, <2>2, <2>7 DEF fit
<1> QED
  BY <1>3, <1>4

LEMMA LinkMarkersPlaced == IInv /\ Placed /\ LinkMarkers => Placed'
<1> SUFFICES ASSUME IInv, Placed, LinkMarkers PROVE Placed'
  OBVIOUS
<1>1. agenda # <<>> /\ UNCHANGED <<program, linking, symbols, global, targets, references>>
  BY DEF LinkMarkers, Doing, binding
<1>2. NamesPlaced(program, ToSet(symbols), global, targets)' /\ ReferencesPlaced(program, references, pending, Started)
      /\ IsSequence(pending)
  BY <1>1 DEF Placed, IInv, ReferencesKnown
<1>3. CASE pending = <<>>
  <2>1. Then(<<>>) /\ pending' = pending
    BY <1>3 DEF LinkMarkers
  <2> QED
    BY <1>1, <1>2, <2>1, EmptyStep
<1>4. CASE pending # <<>>
  <2> DEFINE first == Head(pending)
             tasks == <<Resolve(first.target), Reference("refer", first)>> \o LinkMore
             fit(calls) == Fit(calls, program, callers, Len(callers), Started)
  <2>1. pending' = Tail(pending) /\ Then(tasks)
    BY <1>4 DEF LinkMarkers
  <2>2. ToSet(pending') \subseteq ToSet(pending) /\ first \in ToSet(pending)
    BY <1>2, <1>4, <2>1, TailFacts
  <2>3. IsOpen(program, first.target, Started)
    BY <1>2, <2>2 DEF ReferencesPlaced
  <2>4. <<Resolve(first.target), Reference("refer", first)>> = <<Resolve(first.target)>> \o <<Reference("refer", first)>>
        /\ LinkMore = <<Call("references")>>
    BY DEF LinkMore
  <2> HIDE DEF first
  <2>5. \A s, t : fit(s) /\ fit(t) => fit(s \o t)
    BY FitFew
  <2>6. fit(<<Resolve(first.target)>>) /\ fit(<<Reference("refer", first)>>) /\ fit(<<Call("references")>>)
    BY <2>3, ReferenceCalls, FitFew
  <2> HIDE DEF fit
  <2>7. fit(tasks)
    BY <2>4, <2>5, <2>6
  <2>8. ReferencesPlaced(program, references', pending', Started)
    BY <1>1, <1>2, <2>2 DEF ReferencesPlaced
  <2> HIDE DEF tasks
  <2> QED
    BY <1>1, <1>2, <2>1, <2>7, <2>8, CallStep DEF Then, Fit, fit
<1> QED
  BY <1>3, <1>4

-----------------------------------------------------------------------------
(* The steps that start and name relations.                                 *)

\* A relation is named after those that are.
LEMMA NamedAfter ==
    ASSUME NEW done, IsSequence(done), NEW s, s \notin ToSet(done)
    PROVE  /\ \A w \in ToSet(done) : \A x : NamedBefore(x, w, Append(done, s)) => NamedBefore(x, w, done)
           /\ \A x, w : NamedBefore(x, w, done) => NamedBefore(x, w, Append(done, s))
           /\ \A x \in ToSet(done) : NamedBefore(x, s, Append(done, s))
           /\ \A x : NamedBefore(x, s, Append(done, s)) => x \in ToSet(done)
           /\ \A x, w : NamedBefore(x, w, done) => x \in ToSet(done) /\ w \in ToSet(done)
<1> DEFINE later == Append(done, s)
           n == Len(done)
<1>1. /\ n \in Nat /\ DOMAIN later = 1..(n + 1) /\ DOMAIN done = 1..n
      /\ \A i \in 1..n : later[i] = done[i]
      /\ later[n + 1] = s
  BY AppendFacts
<1>2. \A i \in 1..(n + 1) : i \in 1..n \/ i = n + 1
  BY <1>1
<1>3. \A i \in 1..n : i \in 1..(n + 1) /\ i < n + 1
  BY <1>1
<1>4. \A i, j \in 1..(n + 1) : i < j => i \in 1..n
  BY <1>1
<1>5. \A i \in 1..n : done[i] \in ToSet(done)
  BY <1>1 DEF ToSet
<1>6. \A x \in ToSet(done) : \E i \in 1..n : done[i] = x
  BY <1>1 DEF ToSet
<1> HIDE DEF later, n
<1>7. \A w \in ToSet(done) : \A x : NamedBefore(x, w, later) => NamedBefore(x, w, done)
  <2>1. ASSUME NEW w \in ToSet(done), NEW x, NEW i \in DOMAIN later, NEW j \in DOMAIN later,
               later[i] = x, later[j] = w, i < j
        PROVE  NamedBefore(x, w, done)
    <3>1. i \in 1..n /\ done[i] = x
      BY <1>1, <1>4, <2>1
    <3>2. j \in 1..n /\ done[j] = w
      BY <1>1, <1>2, <2>1
    <3> QED
      BY <1>1, <2>1, <3>1, <3>2 DEF NamedBefore
  <2> QED
    BY <2>1 DEF NamedBefore
<1>8. \A x, w : NamedBefore(x, w, done) => NamedBefore(x, w, later)
  BY <1>1, <1>3 DEF NamedBefore
<1>9. \A x \in ToSet(done) : NamedBefore(x, s, later)
  <2>1. n + 1 \in DOMAIN later
    BY <1>1
  <2> QED
    BY <1>1, <1>3, <1>6, <2>1 DEF NamedBefore
<1>10. \A x : NamedBefore(x, s, later) => x \in ToSet(done)
  <2>1. ASSUME NEW x, NEW i \in DOMAIN later, NEW j \in DOMAIN later, later[i] = x, i < j
        PROVE  x \in ToSet(done)
    BY <1>1, <1>4, <1>5, <2>1
  <2> QED
    BY <2>1 DEF NamedBefore
<1>11. \A x, w : NamedBefore(x, w, done) => x \in ToSet(done) /\ w \in ToSet(done)
  BY <1>1, <1>5 DEF NamedBefore
<1> QED
  BY <1>7, <1>8, <1>9, <1>10, <1>11 DEF later

\* Reads are added by a relation that is not named yet.
LEMMA ReadsAdded ==
    ASSUME NEW p, NEW pairs, NEW done, NEW started, NEW more, started \subseteq more, ToSet(done) \subseteq started,
           ReadsPlaced(p, pairs, done, started), IsSequence(done),
           NEW new, new \subseteq more \X more, \A e \in new : EdgePlaced(p, e, more) /\ e[1] \notin ToSet(done)
    PROVE  ReadsPlaced(p, pairs \cup new, done, more)
<1>1. ReadsPlaced(p, pairs, done, more)
  BY MoreStarted
<1>2. ASSUME NEW w \in ToSet(done), NEW e \in new
      PROVE  ~(e[1] = w \/ NamedBefore(e[1], w, done))
  <2>1. \A x : NamedBefore(x, w, done) => x \in ToSet(done)
    BY SequenceFacts DEF NamedBefore, ToSet
  <2> QED
    BY <1>2, <2>1
<1>3. pairs \cup new \subseteq more \X more
  BY <1>1 DEF ReadsPlaced
<1>4. \A e \in pairs \cup new : EdgePlaced(p, e, more)
  BY <1>1 DEF ReadsPlaced
<1>5. \A w \in ToSet(done) : \A e \in pairs \cup new :
         IsPart(p, e[2], w) /\ (e[1] = w \/ NamedBefore(e[1], w, done)) => NamedBefore(e[2], w, done)
  BY <1>1, <1>2 DEF ReadsPlaced
<1> QED
  BY <1>3, <1>4, <1>5 DEF ReadsPlaced

\* A relation is named when its CTEs are that were read on its behalf.
LEMMA ReadsNamed ==
    ASSUME NEW p, NEW pairs, NEW done, NEW started, ReadsPlaced(p, pairs, done, started), IsSequence(done),
           NEW s, s \notin ToSet(done),
           \A e \in pairs : IsPart(p, e[2], s) => e[2] \in ToSet(done)
    PROVE  ReadsPlaced(p, pairs, Append(done, s), started)
<1> DEFINE later == Append(done, s)
<1>1. ToSet(later) = ToSet(done) \cup {s}
  BY AppendFacts
<1>2. ASSUME NEW w \in ToSet(later), NEW e \in pairs, IsPart(p, e[2], w), e[1] = w \/ NamedBefore(e[1], w, later)
      PROVE  NamedBefore(e[2], w, later)
  <2>1. CASE w \in ToSet(done)
    <3>1. e[1] = w \/ NamedBefore(e[1], w, done)
      BY <1>2, <2>1, NamedAfter DEF later
    <3>2. NamedBefore(e[2], w, done)
      BY <1>2, <2>1, <3>1 DEF ReadsPlaced
    <3> QED
      BY <3>2, NamedAfter DEF later
  <2>2. CASE w = s
    BY <1>2, <2>2, NamedAfter DEF later
  <2> QED
    BY <1>1, <2>1, <2>2
<1> HIDE DEF later
<1>3. ReadsPlaced(p, pairs, later, started)
  BY <1>2 DEF ReadsPlaced
<1> QED
  BY <1>3 DEF later

\* The calls around do not depend on what is resolved inside them.
LEMMA AroundStays ==
    ASSUME NEW p, NEW around, NEW other, NEW i, i = 0 \/ around[i].symbol = other[i].symbol, NEW started
    PROVE  \A calls : CallsPlaced(p, calls, around, i, started) => CallsPlaced(p, calls, other, i, started)
<1>1. \A q : AtHome(p, around, i, q) => AtHome(p, other, i, q)
  BY DEF AtHome
<1> QED
  BY <1>1 DEF CallsPlaced, CallPlaced

\* A statement that was started is not started again.
LEMMA StartedOnce ==
    ASSUME IInv, RelationsSourced, Placed, NEW s \in ToSet(symbols), s \notin Started, IsView(s),
           NEW x \in ToSet(symbols), IsOpen(program, x, Started)
    PROVE  ~IsPart(program, x, s)
<1> SUFFICES ASSUME IsPart(program, x, s) PROVE FALSE
  OBVIOUS
<1>1. IsProgram(program) /\ resolving \subseteq ToSet(symbols) /\ ToSet(named) \subseteq ToSet(symbols)
  BY DEF IInv, LinksKnown, CallsKnown
<1>2. Started \subseteq ToSet(symbols)
  BY <1>1 DEF Started
<1>3. ASSUME NEW v \in ToSet(symbols), IsView(v)
      PROVE  Home(program, v.body) = {v.body}
  <2>1. Lexically(v, global, program) /\ v.role = "VIEW" /\ v.body # NoQuery
    BY <1>3 DEF IInv, NamesKnown, NamesLexical, IsView
  <2>2. v.body \in Outermost(program)
    BY <2>1 DEF Lexically
  <2> QED
    BY <1>1, <2>2, HomeOutermost
<1>4. Home(program, x.body) = {s.body} /\ {s.body} \in Houses(program, Started)
  BY <1>3 DEF IsPart, IsOpen
<1>5. /\ s.body # program.root
      /\ \A t : Sourced(t, program) /\ t.body = s.body => t = s
  BY <1>1, OneSource DEF RelationsSourced, IsView
<1>6. {s.body} # {program.root}
  BY <1>5
<1>7. PICK v \in Started : IsView(v) /\ {s.body} = Home(program, v.body)
  BY <1>4, <1>6 DEF Houses
<1>8. v \in ToSet(symbols) /\ v.body = s.body
  BY <1>2, <1>3, <1>7
<1>9. v = s
  BY <1>5, <1>8 DEF RelationsSourced
<1> QED
  BY <1>7, <1>9

\* A read of s by a relation that is being resolved.
IsRead(p, e, s) ==
    /\ e = <<e[1], s>>
    /\ e[1].role # "TABLE" /\ e[1].body # NoQuery
    /\ s.role = "CTE" => Home(p, e[1].body) = Home(p, s.body)

LEMMA ReadFacts ==
    ASSUME IInv, Placed, Doing("read"), Task.at \in DOMAIN bound, NEW s, s = bound[Task.at]
    PROVE  /\ s \in ToSet(symbols) /\ IsOpen(program, s, Started)
           /\ \A e \in Between(s) : e[1] \in resolving /\ IsRead(program, e, s)
           /\ callers # <<>> => Between(s) # {}
<1> DEFINE o == Task.at
           name == program.query[o[1]].sources[o[2]].name
<1>1. IsProgram(program) /\ IsSequence(callers)
  BY DEF IInv, CallsKnown
<1>2. o[1] \in DOMAIN program.query
  BY TaskFacts DEF KnownCall
<1>3. s \in ToSet(symbols) /\ Means(program, o, global, s)
  BY DEF IInv, NamesKnown, NamesLexical
<1>4. AtHome(program, callers, Len(callers), o[1])
  <2>1. CallPlaced(program, Task, callers, Len(callers), Started) /\ Task.do = "read"
    BY TaskPlaced
  <2> QED
    BY <2>1 DEF CallPlaced, Concerns
<1>5. \A other \in DOMAIN global : global[other].role # "CTE"
  BY DEF Placed, NamesPlaced
<1> HIDE DEF o
<1>6. s.role = "CTE" => Home(program, s.body) = Home(program, o[1])
  <2>1. CASE Having(program, o[1], name) = {}
    <3>1. name \in DOMAIN global /\ s = global[name]
      BY <1>3, <2>1 DEF Means
    <3> QED
      BY <1>5, <3>1
  <2>2. CASE Having(program, o[1], name) # {}
    <3>1. StandsFor(program, Nearest(program, o[1], name), name, s)
      BY <1>3, <2>2 DEF Means
    <3> HIDE DEF name
    <3> QED
      BY <1>1, <1>2, <3>1, HomeRead
  <2> QED
    BY <2>1, <2>2
<1>7. IsOpen(program, s, Started)
  BY <1>4, <1>6, HomeOpen DEF IsOpen
<1>8. CASE callers = <<>>
  BY <1>3, <1>7, <1>8 DEF Between
<1>9. CASE callers # <<>>
  <2> DEFINE n == Len(callers)
             top == callers[n].symbol
  <2>1. n \in Nat \ {0} /\ DOMAIN callers = 1..n /\ Last(callers) = callers[n]
    BY <1>1, <1>9, FrontFacts
  <2>2. n \in DOMAIN callers /\ n # 0
    BY <2>1
  <2>3. top.role # "TABLE" /\ top \in resolving
    BY <2>2 DEF Placed, StackPlaced, IInv, LinksKnown
  <2>4. top.body # NoQuery /\ Home(program, o[1]) = Home(program, top.body)
    BY <1>4, <2>2 DEF AtHome
  <2>5. Between(s) = {<<top, s>>}
    BY <1>9, <2>1 DEF Between
  <2> HIDE DEF top
  <2>6. IsRead(program, <<top, s>>, s)
    BY <1>6, <2>3, <2>4 DEF IsRead
  <2> QED
    BY <1>3, <1>7, <2>3, <2>5, <2>6
<1> QED
  BY <1>8, <1>9

LEMMA EdgeRead ==
    ASSUME NEW p, NEW s, NEW new, \A e \in new : IsRead(p, e, s), NEW more, s \in more, \A e \in new : e[1] \in more
    PROVE  new \subseteq more \X more /\ \A e \in new : EdgePlaced(p, e, more)
<1>1. ASSUME NEW e \in new
      PROVE  e \in more \X more /\ EdgePlaced(p, e, more)
  <2>1. e = <<e[1], s>> /\ e[1] \in more /\ IsRead(p, e, s)
    BY DEF IsRead
  <2>2. e[2] = s
    BY <2>1
  <2>3. EdgePlaced(p, e, more)
    BY <2>1, <2>2 DEF EdgePlaced, IsRead
  <2> QED
    BY <2>1, <2>3
<1> QED
  BY <1>1

\* A relation is started: what is lowered inside it is at home in it, and what
\* is being resolved is not a part of it.
LEMMA StartPlaced ==
    ASSUME IInv, RelationsSourced, Placed, agenda # <<>>, NEW s \in ToSet(symbols), s \notin Started,
           s.role # "TABLE", IsOpen(program, s, Started),
           NEW tasks, Fit(tasks, program, callers, Len(callers), Started),
           callers' = Append(callers, [symbol |-> s, rest |-> tasks \o Tail(agenda)]),
           agenda' = IF s.body = NoQuery THEN <<>> ELSE <<Lower(s.body)>>,
           NEW more, Started \subseteq more
    PROVE  AllPlaced(program, callers', agenda', more) /\ StackPlaced(program, callers', more)
<1> DEFINE n == Len(callers)
           rest == tasks \o Tail(agenda)
           entry == [symbol |-> s, rest |-> rest]
<1>1. /\ IsSequence(callers) /\ IsSequence(agenda)
      /\ \A i \in DOMAIN callers : callers[i].symbol \in ToSet(symbols)
  BY DEF IInv, CallsKnown, KnownCalls
<1>2. entry.symbol = s /\ entry.rest = rest
  OBVIOUS
<1>3. AllPlaced(program, callers, rest, Started) /\ StackPlaced(program, callers, Started)
  BY <1>1, PlacedThen DEF Placed, Fit
<1> HIDE DEF rest
<1>4. callers' = Append(callers, entry)
  BY DEF rest
<1> HIDE DEF entry
<1>5. /\ n \in Nat /\ Len(callers') = n + 1
      /\ DOMAIN callers' = 1..(n + 1) /\ DOMAIN callers = 1..n
      /\ \A i \in 1..n : callers'[i] = callers[i]
      /\ callers'[n + 1] = entry
  BY <1>1, <1>4, AppendFacts
<1> HIDE DEF n
<1>6. \A i \in 1..(n + 1) : i \in 1..n \/ i = n + 1
  BY <1>5
<1>7. n + 1 # 0 /\ (n = 0 \/ n \in 1..n) /\ \A i \in 1..n : i - 1 = 0 \/ i - 1 \in 1..n
  BY <1>5
<1>8. \A i, j \in 1..(n + 1) : i < j => i \in 1..n
  BY <1>5
<1>9. CallsPlaced(program, agenda', callers', n + 1, more)
  <2>1. CASE s.body = NoQuery
    BY <2>1, FreePlaced
  <2>2. CASE s.body # NoQuery
    <3>1. AtHome(program, callers', n + 1, s.body)
      BY <1>2, <1>5, <1>7, <2>2 DEF AtHome
    <3>2. CallPlaced(program, Lower(s.body), callers', n + 1, more)
      BY <3>1, HomeCalls
    <3> QED
      BY <2>2, <3>2, PlacedOne
  <2> QED
    BY <2>1, <2>2
<1>10. ASSUME NEW i \in DOMAIN callers'
       PROVE  CallsPlaced(program, callers'[i].rest, callers', i - 1, more)
  <2>1. CASE i \in 1..n
    <3>1. callers'[i] = callers[i] /\ i \in DOMAIN callers
      BY <1>5, <2>1
    <3>2. CallsPlaced(program, callers[i].rest, callers, i - 1, more)
      BY <1>3, <3>1, MoreStarted DEF AllPlaced
    <3>3. i - 1 = 0 \/ callers[i - 1].symbol = callers'[i - 1].symbol
      BY <1>5, <1>7, <2>1
    <3>4. CallsPlaced(program, callers[i].rest, callers', i - 1, more)
      BY <3>2, <3>3, AroundStays
    <3> QED
      BY <3>1, <3>4
  <2>2. CASE i = n + 1
    <3>1. callers'[i].rest = rest /\ i - 1 = n
      BY <1>2, <1>5, <2>2
    <3>2. CallsPlaced(program, rest, callers, n, more)
      BY <1>3, MoreStarted DEF AllPlaced, n
    <3>3. n = 0 \/ callers[n].symbol = callers'[n].symbol
      BY <1>5, <1>7
    <3>4. CallsPlaced(program, rest, callers', n, more)
      BY <3>2, <3>3, AroundStays
    <3> QED
      BY <3>1, <3>4
  <2> QED
    BY <1>5, <1>6, <2>1, <2>2
<1>11. AllPlaced(program, callers', agenda', more)
  BY <1>5, <1>9, <1>10 DEF AllPlaced
<1>12. StackPlaced(program, callers, more) /\ IsOpen(program, s, more)
  BY <1>3, MoreStarted
<1>13. \A i \in DOMAIN callers' : callers'[i].symbol.role # "TABLE" /\ IsOpen(program, callers'[i].symbol, more)
  BY <1>2, <1>5, <1>6, <1>12 DEF StackPlaced
<1>14. ASSUME NEW i \in DOMAIN callers', NEW j \in DOMAIN callers', i < j
       PROVE  ~IsPart(program, callers'[i].symbol, callers'[j].symbol)
  <2>1. i \in DOMAIN callers /\ callers'[i] = callers[i]
    BY <1>5, <1>8, <1>14
  <2>2. CASE j \in 1..n
    BY <1>5, <1>12, <1>14, <2>1, <2>2 DEF StackPlaced
  <2>3. CASE j = n + 1
    <3>1. callers'[j].symbol = s
      BY <1>2, <1>5, <2>3
    <3>2. callers[i].symbol \in ToSet(symbols) /\ IsOpen(program, callers[i].symbol, Started)
      BY <1>1, <1>3, <2>1 DEF StackPlaced
    <3>3. IsView(s) => ~IsPart(program, callers[i].symbol, s)
      BY <3>2, StartedOnce
    <3> QED
      BY <2>1, <3>1, <3>3 DEF IsPart
  <2> QED
    BY <1>5, <1>6, <2>2, <2>3
<1>15. StackPlaced(program, callers', more)
  BY <1>13, <1>14 DEF StackPlaced
<1> QED
  BY <1>11, <1>15

\* What linking leaves alone that the invariant is about.
Linking == UNCHANGED <<program, symbols, global, targets, references, pending>>

LEMMA LinkedPlaced ==
    ASSUME Placed, Linking, Started \subseteq Started',
           AllPlaced(program, callers', agenda', Started'), StackPlaced(program, callers', Started'),
           ReadsPlaced(program, kept' \cup cut', named', Started'), CutsReported(cut', cycles')
    PROVE  Placed'
<1>1. NamesPlaced(program, ToSet(symbols), global, targets)'
  BY DEF Placed, Linking
<1>2. ReferencesPlaced(program, references, pending, Started')
  BY MoreStarted DEF Placed
<1>3. ReferencesPlaced(program, references, pending, Started)'
  BY <1>2 DEF Linking
<1> QED
  BY <1>1, <1>3 DEF Placed, Linking

LEMMA ResolvePlaced ==
    ASSUME IInv, RelationsSourced, Placed, Linking, agenda # <<>>,
           NEW s \in ToSet(symbols), s \notin resolving, IsOpen(program, s, Started),
           NEW tasks, Fit(tasks, program, callers, Len(callers), Started), ResolveThen(s, tasks),
           NEW new, kept' = kept \cup new, \A e \in new : e[1] \in resolving /\ IsRead(program, e, s),
           UNCHANGED <<cut, cycles>>
    PROVE  Placed'
<1>1. /\ IsSequence(callers) /\ IsSequence(agenda) /\ IsSequence(named)
      /\ resolving \cap ToSet(named) = {}
  BY DEF IInv, CallsKnown, KnownCalls, LinksKnown
<1>2. /\ AllPlaced(program, callers, agenda, Started) /\ StackPlaced(program, callers, Started)
      /\ ReadsPlaced(program, kept \cup cut, named, Started) /\ CutsReported(cut, cycles)
  BY DEF Placed
<1>3. AllPlaced(program, callers, tasks \o Tail(agenda), Started)
  BY <1>1, <1>2, PlacedThen DEF Fit
<1>4. ASSUME NEW more, Started \cup {s} \subseteq more
      PROVE  ReadsPlaced(program, kept' \cup cut', named, more)
  <2>1. \A e \in new : e[1] \in more /\ e[1] \notin ToSet(named) /\ IsRead(program, e, s)
    BY <1>1, <1>4 DEF Started
  <2>2. new \subseteq more \X more /\ \A e \in new : EdgePlaced(program, e, more)
    BY <1>4, <2>1, EdgeRead
  <2>3. Started \subseteq more /\ ToSet(named) \subseteq Started
    BY <1>4 DEF Started
  <2>4. ReadsPlaced(program, (kept \cup cut) \cup new, named, more)
    BY <1>1, <1>2, <2>1, <2>2, <2>3, ReadsAdded
  <2>5. kept' \cup cut' = (kept \cup cut) \cup new
    OBVIOUS
  <2> QED
    BY <2>4, <2>5
<1>5. CutsReported(cut', cycles')
  BY <1>2
<1>6. CASE s \in ToSet(named)
  <2>1. agenda' = tasks \o Tail(agenda) /\ UNCHANGED <<callers, named, resolving>>
    BY <1>6 DEF ResolveThen, Then
  <2>2. Started' = Started /\ Started \cup {s} \subseteq Started'
    BY <1>6, <2>1 DEF Started
  <2>3. ReadsPlaced(program, kept' \cup cut', named', Started')
    BY <1>4, <2>1, <2>2
  <2> QED
    BY <1>2, <1>3, <1>5, <2>1, <2>2, <2>3, LinkedPlaced
<1>7. CASE s \notin ToSet(named) /\ s.role = "TABLE"
  <2>1. /\ agenda' = tasks \o Tail(agenda) /\ UNCHANGED <<callers, resolving>>
        /\ named' = Append(named, s)
    BY <1>7 DEF ResolveThen, Open, Then, Name
  <2>2. ToSet(named') = ToSet(named) \cup {s}
    BY <1>1, <2>1, AppendFacts
  <2>3. Started' = Started \cup {s}
    BY <2>1, <2>2 DEF Started
  <2>4. ReadsPlaced(program, kept' \cup cut', named, Started')
    BY <1>4, <2>3
  <2>5. \A x : ~IsPart(program, x, s)
    BY <1>7 DEF IsPart, IsView
  <2>6. ReadsPlaced(program, kept' \cup cut', named', Started')
    BY <1>1, <1>7, <2>1, <2>4, <2>5, ReadsNamed
  <2>7. Started \subseteq Started'
    BY <2>3
  <2>8. AllPlaced(program, callers, tasks \o Tail(agenda), Started') /\ StackPlaced(program, callers, Started')
    BY <1>2, <1>3, <2>7, MoreStarted
  <2> QED
    BY <1>5, <2>1, <2>6, <2>7, <2>8, LinkedPlaced
<1>8. CASE s \notin ToSet(named) /\ s.role # "TABLE"
  <2>1. /\ resolving' = resolving \cup {s} /\ named' = named
        /\ callers' = Append(callers, [symbol |-> s, rest |-> tasks \o Tail(agenda)])
        /\ agenda' = IF s.body = NoQuery THEN <<>> ELSE <<Lower(s.body)>>
    BY <1>8 DEF ResolveThen, Open
  <2>2. Started' = Started \cup {s} /\ s \notin Started
    BY <1>8, <2>1 DEF Started
  <2>3. Started \subseteq Started'
    BY <2>2
  <2>4. ReadsPlaced(program, kept' \cup cut', named', Started')
    BY <1>4, <2>1, <2>2
  <2>5. AllPlaced(program, callers', agenda', Started') /\ StackPlaced(program, callers', Started')
    BY <1>8, <2>1, <2>2, <2>3, StartPlaced
  <2> QED
    BY <1>5, <2>3, <2>4, <2>5, LinkedPlaced
<1> QED
  BY <1>6, <1>7, <1>8

\* A read that is cut is of a relation that is being resolved, in a relation;
\* a view is reported.
LEMMA CutPlaced ==
    ASSUME IInv, Placed, Linking, agenda # <<>>, NEW s \in resolving, callers # <<>>,
           NEW tasks, Fit(tasks, program, callers, Len(callers), Started), Then(tasks),
           NEW new, new # {}, cut' = cut \cup new, \A e \in new : e[1] \in resolving /\ IsRead(program, e, s),
           cycles' = IF s.role = "VIEW" THEN cycles \cup {s} ELSE cycles,
           UNCHANGED <<callers, named, resolving, kept>>
    PROVE  Placed'
<1>1. /\ IsSequence(agenda) /\ IsSequence(named)
      /\ resolving \cap ToSet(named) = {}
  BY DEF IInv, CallsKnown, KnownCalls, LinksKnown
<1>2. Started' = Started
  BY DEF Started
<1>3. AllPlaced(program, callers', agenda', Started') /\ StackPlaced(program, callers', Started')
  BY <1>1, <1>2, PlacedThen DEF Placed, Fit, Then
<1>4. ReadsPlaced(program, kept' \cup cut', named', Started')
  <2>1. s \in Started /\ ToSet(named) \subseteq Started
        /\ \A e \in new : e[1] \in Started /\ e[1] \notin ToSet(named) /\ IsRead(program, e, s)
    BY <1>1 DEF Started
  <2>2. new \subseteq Started \X Started /\ \A e \in new : EdgePlaced(program, e, Started)
    BY <2>1, EdgeRead
  <2>3. ReadsPlaced(program, (kept \cup cut) \cup new, named, Started)
    BY <1>1, <2>1, <2>2, ReadsAdded DEF Placed
  <2>4. kept' \cup cut' = (kept \cup cut) \cup new
    OBVIOUS
  <2> QED
    BY <1>2, <2>3, <2>4
<1>5. CutsReported(cut', cycles')
  <2>1. \A e \in new : e[2] = s
    <3>1. ASSUME NEW e \in new PROVE e[2] = s
      <4>1. e = <<e[1], s>>
        BY DEF IsRead
      <4> QED
        BY <4>1
    <3> QED
      BY <3>1
  <2>2. \E e \in new : e[2] = s
    BY <2>1
  <2>3. CutsReported(cut, cycles)
    BY DEF Placed
  <2> QED
    BY <2>1, <2>2, <2>3 DEF CutsReported
<1> QED
  BY <1>2, <1>3, <1>4, <1>5, LinkedPlaced

LEMMA ReadPlaced == IInv /\ RelationsSourced /\ Placed /\ ReadSource => Placed'
<1> SUFFICES ASSUME IInv, RelationsSourced, Placed, ReadSource PROVE Placed'
  OBVIOUS
<1> DEFINE o == Task.at
           source == Source(o)
           s == bound[o]
           join == IF source.joined = NoMarker THEN <<>> ELSE <<[do |-> "join", marker |-> source.joined]>>
           lower == IF source.kind = "subquery" THEN <<Lower(source.body)>> ELSE <<>>
           fit(calls) == Fit(calls, program, callers, Len(callers), Started)
<1>1. Doing("read") /\ Linking /\ IsProgram(program)
  BY DEF ReadSource, Linking, IInv, binding, marking
<1>2. agenda # <<>> /\ o[1] \in DOMAIN program.query /\ program.query[o[1]].kind = "select"
      /\ o[2] \in DOMAIN program.query[o[1]].sources
  BY <1>1, TaskFacts DEF KnownCall
<1>3. fit(join)
  <2>1. IsFree([do |-> "join", marker |-> source.joined])
    BY DEF IsFree
  <2> HIDE DEF source
  <2> QED
    BY <2>1, FitFew, FreePlaced
<1>4. fit(lower)
  <2>1. AtHome(program, callers, Len(callers), o[1])
    <3>1. CallPlaced(program, Task, callers, Len(callers), Started) /\ Task.do = "read"
      BY <1>1, TaskPlaced
    <3> QED
      BY <3>1 DEF CallPlaced, Concerns
  <2>2. source.kind = "subquery" => Home(program, source.body) = Home(program, o[1])
    BY <1>1, <1>2, HomeInside DEF Source, Node
  <2> HIDE DEF source
  <2> QED
    BY <2>1, <2>2, HomeCalls, FitFew
<1>5. \/ Then(lower \o join) /\ UNCHANGED linking
      \/ o \in DOMAIN bound /\ ReadRelation(o, s, join)
      \/ agenda' = agenda /\ UNCHANGED linking
  BY DEF ReadSource, Crash
<1>6. /\ o \in DOMAIN bound => /\ s \in ToSet(symbols) /\ IsOpen(program, s, Started)
                               /\ \A e \in Between(s) : e[1] \in resolving /\ IsRead(program, e, s)
                               /\ callers # <<>> => Between(s) # {}
  BY <1>1, ReadFacts
<1> HIDE DEF source, join, lower, s
<1>7. CASE Then(lower \o join) /\ UNCHANGED linking
  <2> DEFINE tasks == lower \o join
  <2>1. fit(tasks) /\ Then(tasks)
    BY <1>3, <1>4, <1>7, FitFew
  <2> HIDE DEF tasks
  <2> QED
    BY <1>1, <1>2, <1>7, <2>1, SameStep DEF Then, Fit, Linking
<1>8. CASE agenda' = agenda /\ UNCHANGED linking
  BY <1>1, <1>8, StillStep DEF Linking
<1>9. CASE o \in DOMAIN bound /\ ReadRelation(o, s, join)
  <2>1. CASE s \in resolving
    <3>1. /\ cut' = cut \cup Between(s) /\ cycles' = (IF s.role = "VIEW" THEN cycles \cup {s} ELSE cycles)
          /\ Then(join) /\ UNCHANGED <<callers, named, resolving, kept>>
      BY <1>9, <2>1 DEF ReadRelation
    <3>2. callers # <<>>
      <4>1. resolving = {callers[i].symbol : i \in DOMAIN callers}
        BY DEF IInv, LinksKnown
      <4> QED
        BY <2>1, <4>1
    <3>3. Between(s) # {} /\ \A e \in Between(s) : e[1] \in resolving /\ IsRead(program, e, s)
      BY <1>6, <1>9, <3>2
    <3> QED
      BY <1>1, <1>2, <1>3, <2>1, <3>1, <3>2, <3>3, CutPlaced
  <2>2. CASE s \notin resolving
    <3>1. kept' = kept \cup Between(s) /\ ResolveThen(s, join) /\ UNCHANGED <<cut, cycles>>
      BY <1>9, <2>2 DEF ReadRelation
    <3> QED
      BY <1>1, <1>2, <1>3, <1>6, <1>9, <2>2, <3>1, ResolvePlaced
  <2> QED
    BY <2>1, <2>2
<1> QED
  BY <1>5, <1>7, <1>8, <1>9

LEMMA ResolveSymbolPlaced == IInv /\ RelationsSourced /\ Placed /\ ResolveSymbol => Placed'
<1> SUFFICES ASSUME IInv, RelationsSourced, Placed, ResolveSymbol PROVE Placed'
  OBVIOUS
<1> DEFINE s == Task.symbol
<1>1. Doing("resolve") /\ ResolveThen(s, <<>>) /\ Linking /\ UNCHANGED <<kept, cut, cycles>>
  BY DEF ResolveSymbol, Linking, binding, marking
<1>2. agenda # <<>> /\ callers = <<>> /\ s \in ToSet(symbols)
  <2>1. agenda # <<>> /\ callers = <<>>
    BY <1>1, TaskFacts DEF LoweringCalls
  <2>2. s \in ToSet(symbols)
    BY <1>1, SymbolCall
  <2> QED
    BY <2>1, <2>2
<1>3. s \notin resolving
  <2>1. resolving = {callers[i].symbol : i \in DOMAIN callers}
    BY DEF IInv, LinksKnown
  <2> QED
    BY <1>2, <2>1
<1>4. IsOpen(program, s, Started)
  <2>1. CallPlaced(program, Task, callers, Len(callers), Started) /\ Task.do = "resolve"
    BY <1>1, TaskPlaced
  <2> QED
    BY <2>1 DEF CallPlaced, Opens
<1>5. Fit(<<>>, program, callers, Len(callers), Started)
  BY FitFew
<1>6. kept' = kept \cup {}
  BY <1>1
<1> HIDE DEF s
<1> QED
  BY <1>1, <1>2, <1>3, <1>4, <1>5, <1>6, ResolvePlaced

LEMMA NamePlaced == IInv /\ Placed /\ NameRelation => Placed'
<1> SUFFICES ASSUME IInv, Placed, NameRelation PROVE Placed'
  OBVIOUS
<1> DEFINE n == Len(callers)
           s == callers[n].symbol
<1>1. /\ IsSequence(callers) /\ IsSequence(named)
      /\ resolving \cap ToSet(named) = {}
      /\ resolving = {callers[i].symbol : i \in DOMAIN callers}
      /\ \A i, j \in DOMAIN callers : callers[i].symbol = callers[j].symbol => i = j
  BY DEF IInv, CallsKnown, LinksKnown
<1>2. /\ callers # <<>> /\ agenda' = Last(callers).rest /\ callers' = Front(callers)
      /\ named' = Append(named, Last(callers).symbol) /\ resolving' = resolving \ {Last(callers).symbol}
      /\ UNCHANGED <<kept, cut, cycles>> /\ Linking
  BY DEF NameRelation, Name, Resolved, Linking, binding, marking
<1>3. /\ IsSequence(callers') /\ n \in Nat \ {0} /\ Len(callers') = n - 1
      /\ DOMAIN callers = 1..n /\ DOMAIN callers' = 1..(n - 1)
      /\ \A i \in 1..(n - 1) : callers'[i] = callers[i]
      /\ Last(callers) = callers[n]
  BY <1>1, <1>2, FrontFacts
<1> HIDE DEF n
<1>4. /\ n \in 1..n /\ \A i \in 1..(n - 1) : i \in 1..n /\ i < n
      /\ (n - 1 = 0 \/ n - 1 \in 1..(n - 1))
      /\ \A i \in 1..(n - 1) : i - 1 = 0 \/ i - 1 \in 1..(n - 1)
      /\ \A i \in 1..n : i # n => i < n
  BY <1>3
<1>5. agenda' = callers[n].rest /\ named' = Append(named, s) /\ resolving' = resolving \ {s}
  BY <1>2, <1>3
<1>6. n \in DOMAIN callers /\ s \in resolving /\ s \notin ToSet(named)
  BY <1>1, <1>3, <1>4
<1>7. Started' = Started
  <2>1. ToSet(named') = ToSet(named) \cup {s}
    BY <1>1, <1>5, AppendFacts
  <2> HIDE DEF s
  <2> QED
    BY <1>5, <1>6, <2>1 DEF Started
<1>8. /\ AllPlaced(program, callers, agenda, Started) /\ StackPlaced(program, callers, Started)
      /\ ReadsPlaced(program, kept \cup cut, named, Started) /\ CutsReported(cut, cycles)
  BY DEF Placed
<1>9. AllPlaced(program, callers', agenda', Started)
  <2>1. CallsPlaced(program, agenda', callers, n - 1, Started)
    BY <1>5, <1>6, <1>8 DEF AllPlaced
  <2>2. n - 1 = 0 \/ callers[n - 1].symbol = callers'[n - 1].symbol
    BY <1>3, <1>4
  <2>3. CallsPlaced(program, agenda', callers', n - 1, Started)
    BY <2>1, <2>2, AroundStays
  <2>4. ASSUME NEW i \in DOMAIN callers'
        PROVE  CallsPlaced(program, callers'[i].rest, callers', i - 1, Started)
    <3>1. callers'[i] = callers[i] /\ i \in DOMAIN callers
      BY <1>3, <1>4
    <3>2. CallsPlaced(program, callers[i].rest, callers, i - 1, Started)
      BY <1>8, <3>1 DEF AllPlaced
    <3>3. i - 1 = 0 \/ callers[i - 1].symbol = callers'[i - 1].symbol
      BY <1>3, <1>4
    <3>4. CallsPlaced(program, callers[i].rest, callers', i - 1, Started)
      BY <3>2, <3>3, AroundStays
    <3> QED
      BY <3>1, <3>4
  <2> QED
    BY <1>3, <2>3, <2>4 DEF AllPlaced
<1>10. StackPlaced(program, callers', Started)
  BY <1>3, <1>4, <1>8 DEF StackPlaced
<1>11. ReadsPlaced(program, kept \cup cut, named', Started)
  <2>1. ASSUME NEW e \in kept \cup cut, IsPart(program, e[2], s)
        PROVE  e[2] \in ToSet(named)
    <3>1. e[2] \in Started
      BY <1>8 DEF ReadsPlaced, EdgePlaced
    <3>2. ASSUME e[2] \in resolving PROVE FALSE
      <4>1. PICK j \in DOMAIN callers : e[2] = callers[j].symbol
        BY <1>1, <3>2
      <4>2. e[2] # s
        BY <2>1 DEF IsPart, IsView
      <4>3. j < n
        BY <1>3, <1>4, <4>1, <4>2
      <4>4. ~IsPart(program, callers[j].symbol, callers[n].symbol)
        BY <1>6, <1>8, <4>1, <4>3 DEF StackPlaced
      <4> QED
        BY <2>1, <4>1, <4>4
    <3> QED
      BY <3>1, <3>2 DEF Started
  <2> HIDE DEF s
  <2> QED
    BY <1>1, <1>5, <1>6, <1>8, <2>1, ReadsNamed
<1>12. /\ AllPlaced(program, callers', agenda', Started') /\ StackPlaced(program, callers', Started')
       /\ ReadsPlaced(program, kept' \cup cut', named', Started') /\ CutsReported(cut', cycles')
       /\ Started \subseteq Started'
  BY <1>2, <1>7, <1>8, <1>9, <1>10, <1>11
<1> QED
  BY <1>2, <1>12, LinkedPlaced

LEMMA SettlePlaced == IInv /\ Placed /\ Settle => Placed'
<1> SUFFICES ASSUME IInv, Placed, Settle PROVE Placed'
  OBVIOUS
<1>1. /\ IsSequence(named) /\ resolving = {callers[i].symbol : i \in DOMAIN callers}
  BY DEF IInv, LinksKnown
<1>2. Doing("settle") /\ Linking /\ UNCHANGED <<callers, kept, cut, cycles, resolving>>
  BY DEF Settle, Linking, binding, marking
<1>3. agenda # <<>> /\ callers = <<>>
  BY <1>2, TaskFacts DEF LoweringCalls
<1>4. \/ Then(<<>>) /\ UNCHANGED linking
      \/ agenda' = agenda /\ \E s : s \notin ToSet(named) /\ named' = Append(named, s)
  BY DEF Settle, Name, ToSet, linking
<1>5. CASE Then(<<>>) /\ UNCHANGED linking
  BY <1>2, <1>3, <1>5, SameStep, FitFew DEF Then, Fit, Linking
<1>6. CASE agenda' = agenda /\ \E s : s \notin ToSet(named) /\ named' = Append(named, s)
  <2>1. PICK s : s \notin ToSet(named) /\ named' = Append(named, s)
    BY <1>6
  <2>2. ToSet(named') = ToSet(named) \cup {s}
    BY <1>1, <2>1, AppendFacts
  <2>3. Started \subseteq Started' /\ Started = ToSet(named)
    BY <1>1, <1>2, <1>3, <2>2 DEF Started
  <2>4. ReadsPlaced(program, kept \cup cut, named, Started) /\ CutsReported(cut, cycles)
    BY DEF Placed
  <2>5. \A e \in kept \cup cut : e[2] \in ToSet(named)
    BY <2>3, <2>4 DEF ReadsPlaced, EdgePlaced
  <2>6. ReadsPlaced(program, kept \cup cut, named', Started)
    BY <1>1, <2>1, <2>4, <2>5, ReadsNamed
  <2>7. ReadsPlaced(program, kept' \cup cut', named', Started')
    BY <1>2, <2>3, <2>6, MoreStarted
  <2>8. AllPlaced(program, callers', agenda', Started') /\ StackPlaced(program, callers', Started')
    BY <1>2, <1>6, <2>3, MoreStarted DEF Placed
  <2>9. CutsReported(cut', cycles')
    BY <1>2, <2>4
  <2> QED
    BY <1>2, <2>3, <2>7, <2>8, <2>9, LinkedPlaced
<1> QED
  BY <1>4, <1>5, <1>6

LEMMA PlacedKept == IInv /\ RelationsSourced /\ Placed /\ [Next]_vars => Placed'
<1> SUFFICES ASSUME IInv, RelationsSourced, Placed, [Next]_vars PROVE Placed'
  OBVIOUS
<1>1. CASE Idling
  BY <1>1, IdlingPlaced
<1>2. CASE Naming
  BY <1>2, DeclarePlaced, BindPlaced, TargetPlaced, DiscoverPlaced DEF Naming
<1>3. CASE DiscoverConstraintsOf \/ DiscoverReference
  BY <1>3, ConstraintsPlaced
<1>4. CASE LowerQuery \/ FilterRows \/ FinishQuery \/ RegisterMarker
  BY <1>4, LowerPlaced, FilterPlaced, FinishPlaced, RegisterPlaced
<1>5. CASE LinkConstraints \/ LinkReference \/ LinkMarkers
  BY <1>5, LinkPlaced, LinkMarkersPlaced
<1>6. CASE ReadSource \/ ResolveSymbol \/ NameRelation \/ Settle
  BY <1>6, ReadPlaced, ResolveSymbolPlaced, NamePlaced, SettlePlaced
<1>7. CASE UNCHANGED vars
  <2>1. UNCHANGED <<program, linking, agenda, symbols, global, targets, references, pending>>
    BY <1>7 DEF vars, binding, marking
  <2> QED
    BY <2>1, StillStep
<1> QED
  BY <1>1, <1>2, <1>3, <1>4, <1>5, <1>6, <1>7 DEF Next, Idling, Naming

LEMMA PlacedInvariant == Spec => [](IInv /\ RelationsSourced /\ Placed)
<1> DEFINE Inv == IInv /\ RelationsSourced /\ Placed
<1>1. Init => Inv
  BY InitInv, SourcedInit, PlacedInit
<1>2. Inv /\ [Next]_vars => Inv'
  BY NextInv, SourcedKept, PlacedKept
<1> QED
  BY <1>1, <1>2, PTL DEF Spec

-----------------------------------------------------------------------------
(* What follows of the reads of a linked program.                           *)

\* A view is at home in itself, and two views are not at home in one place.
LEMMA ViewsApart ==
    ASSUME IInv, RelationsSourced, NEW v \in ToSet(symbols), IsView(v), NEW w \in ToSet(symbols), IsView(w),
           Home(program, v.body) = Home(program, w.body)
    PROVE  v = w
<1>1. IsProgram(program)
  BY DEF IInv
<1>2. ASSUME NEW x \in ToSet(symbols), IsView(x)
      PROVE  Home(program, x.body) = {x.body}
  <2>1. Lexically(x, global, program) /\ x.role = "VIEW" /\ x.body # NoQuery
    BY <1>2 DEF IInv, NamesKnown, NamesLexical, IsView
  <2>2. x.body \in Outermost(program)
    BY <2>1 DEF Lexically
  <2> QED
    BY <1>1, <2>2, HomeOutermost
<1>3. v.body = w.body
  BY <1>2
<1>4. \A t : Sourced(t, program) /\ t.body = w.body => t = w
  BY <1>1, OneSource DEF RelationsSourced, IsView
<1> QED
  BY <1>3, <1>4 DEF RelationsSourced

\* What is reported is on a cycle: a read that was cut leads back.
LEMMA ReportedCycle ==
    ASSUME IInv, Placed, LinkedProgram!CutsOnCycles, NEW s \in cycles
    PROVE  Leads(s, s, kept \cup cut)
<1> DEFINE pairs == kept \cup cut
           known == ToSet(symbols)
<1>1. PICK e \in cut : e[2] = s
  BY DEF Placed, CutsReported
<1>2. Started \subseteq known
  BY DEF Started, IInv, LinksKnown, CallsKnown
<1>3. e \in Started \X Started
  BY DEF Placed, ReadsPlaced
<1>4. e = <<e[1], s>> /\ e[1] \in known /\ s \in known
  BY <1>1, <1>2, <1>3
<1> DEFINE t == e[1]
<1>5. <<t, s>> \in cut /\ <<t, s>> \in pairs
  BY <1>4
<1>6. PICK path \in Seq(known) :
         path # <<>> /\ path[1] = s /\ path[Len(path)] = t /\ LinkedProgram!IsPath(path)
  BY <1>4, <1>5 DEF LinkedProgram!CutsOnCycles
<1>7. Len(path) \in Nat /\ Len(path) >= 1
  BY <1>6
<1>8. \A i \in 1..(Len(path) - 1) : <<path[i], path[i + 1]>> \in pairs
  BY <1>6 DEF LinkedProgram!IsPath
<1> HIDE DEF pairs, known, t
<1> DEFINE S == {i \in 1..Len(path) : ~(path[i] = s \/ Leads(s, path[i], pairs))}
<1>9. S = {}
  <2> SUFFICES ASSUME S # {} PROVE FALSE
    OBVIOUS
  <2>1. S \subseteq Nat
    BY <1>7
  <2>2. PICK i \in S : \A j \in S : i <= j
    <3> HIDE DEF S
    <3> QED
      BY <2>1, LeastNumber
  <2>3. i \in 1..Len(path) /\ path[i] # s /\ ~Leads(s, path[i], pairs)
    OBVIOUS
  <2>4. i # 1
    BY <1>6, <2>3
  <2>5. i - 1 \in 1..(Len(path) - 1) /\ i - 1 \in 1..Len(path) /\ ~(i <= i - 1) /\ (i - 1) + 1 = i
    BY <1>7, <2>3, <2>4
  <2>6. i - 1 \notin S
    BY <2>2, <2>5
  <2>7. path[i - 1] = s \/ Leads(s, path[i - 1], pairs)
    BY <2>5, <2>6
  <2>8. Leads(path[i - 1], path[i], pairs)
    BY <1>8, <2>5, LeadsPair
  <2> QED
    BY <2>3, <2>7, <2>8, LeadsFurther
<1>10. t = s \/ Leads(s, t, pairs)
  BY <1>6, <1>7, <1>9
<1>11. Leads(t, s, pairs)
  BY <1>5, LeadsPair
<1>12. Leads(s, s, pairs)
  BY <1>10, <1>11, LeadsFurther
<1> QED
  BY <1>12 DEF pairs

\* The relations a view leads to that lead back to it.
Cycle(s, pairs) == {x \in Ends(pairs) : Leads(s, x, pairs) /\ Leads(x, s, pairs)}

LEMMA CycleFacts ==
    ASSUME NEW pairs, pairs \subseteq Ends(pairs) \X Ends(pairs), NEW s, Leads(s, s, pairs)
    PROVE  /\ s \in Cycle(s, pairs)
           /\ \A x, y \in Cycle(s, pairs) : Leads(x, y, pairs)
           /\ \A x \in Cycle(s, pairs) : \E y \in Cycle(s, pairs) : <<y, x>> \in pairs
           /\ \A x \in Cycle(s, pairs) : \E y : <<x, y>> \in pairs
           /\ \A x, y : y \in Cycle(s, pairs) /\ <<x, y>> \in pairs /\ Leads(s, x, pairs) => x \in Cycle(s, pairs)
<1>1. s \in Cycle(s, pairs)
  BY DEF Cycle, Leads
<1>2. ASSUME NEW x \in Cycle(s, pairs), NEW y \in Cycle(s, pairs)
      PROVE  Leads(x, y, pairs)
  <2>1. Leads(x, s, pairs) /\ Leads(s, y, pairs)
    BY DEF Cycle
  <2> QED
    BY <2>1, LeadsFurther
<1>3. ASSUME NEW x, NEW y \in Cycle(s, pairs), <<x, y>> \in pairs, Leads(s, x, pairs)
      PROVE  x \in Cycle(s, pairs)
  <2>1. Leads(x, y, pairs) /\ Leads(y, s, pairs)
    BY <1>3, LeadsPair DEF Cycle
  <2>2. Leads(x, s, pairs)
    BY <2>1, LeadsFurther
  <2> QED
    BY <1>3, <2>2 DEF Cycle, Leads
<1>4. ASSUME NEW x \in Cycle(s, pairs)
      PROVE  \E y \in Cycle(s, pairs) : <<y, x>> \in pairs
  <2>1. PICK y : <<y, x>> \in pairs /\ Leads(x, y, pairs)
    BY <1>2, LeadsBack
  <2>2. Leads(s, x, pairs)
    BY DEF Cycle
  <2>3. Leads(s, y, pairs)
    BY <2>1, <2>2, LeadsFurther
  <2> QED
    BY <1>3, <2>1, <2>3
<1>5. ASSUME NEW x \in Cycle(s, pairs)
      PROVE  \E y : <<x, y>> \in pairs
  <2> SUFFICES ASSUME \A y : <<x, y>> \notin pairs PROVE FALSE
    OBVIOUS
  <2>1. Leads(x, x, pairs)
    BY <1>2
  <2> DEFINE good == {}
  <2>2. \A z : z \notin good
    OBVIOUS
  <2>3. \A y : <<x, y>> \in pairs => y \in good
    OBVIOUS
  <2> HIDE DEF good
  <2>4. ASSUME NEW u, NEW v, Leads(x, u, pairs), u \in good, <<u, v>> \in pairs
        PROVE  v \in good
    BY <2>2, <2>4
  <2>5. x \in good
    BY <2>1, <2>3, <2>4, LeadsWithin
  <2> QED
    BY <2>2, <2>5
<1> QED
  BY <1>1, <1>2, <1>3, <1>4, <1>5

\* A cycle through a view that has a CTE has the view the CTE is written in:
\* readers of a CTE are at home with it, back to a view.
LEMMA CycleHome ==
    ASSUME NEW p, NEW pairs, pairs \subseteq Ends(pairs) \X Ends(pairs), NEW started,
           \A e \in pairs : EdgePlaced(p, e, started) /\ e[1].role \in {"TABLE", "VIEW", "CTE"},
           NEW s, s.role = "VIEW", Leads(s, s, pairs), NEW t \in Cycle(s, pairs), t.role = "CTE"
    PROVE  \E w \in Cycle(s, pairs) : IsPart(p, t, w)
<1> SUFFICES ASSUME \A w \in Cycle(s, pairs) : ~IsPart(p, t, w) PROVE FALSE
  OBVIOUS
<1> DEFINE bad == {x \in Cycle(s, pairs) : x.role = "CTE" /\ Home(p, x.body) = Home(p, t.body)}
           good == Ends(pairs) \ bad
<1>1. ASSUME NEW x, NEW y \in bad, <<x, y>> \in pairs, x \in Cycle(s, pairs)
      PROVE  x \in bad
  <2> DEFINE e == <<x, y>>
  <2>1. EdgePlaced(p, e, started) /\ e[1] = x /\ e[2] = y /\ x.role \in {"TABLE", "VIEW", "CTE"}
    <3>1. e \in pairs /\ e[1] = x /\ e[2] = y
      BY <1>1
    <3> HIDE DEF e
    <3> QED
      BY <3>1
  <2>2. y.role = "CTE" /\ Home(p, y.body) = Home(p, t.body)
    OBVIOUS
  <2> HIDE DEF e
  <2>3. x.role # "TABLE" /\ x.body # NoQuery /\ Home(p, x.body) = Home(p, t.body)
    BY <2>1, <2>2 DEF EdgePlaced
  <2>4. x.role # "VIEW"
    BY <1>1, <2>3 DEF IsPart, IsView
  <2> QED
    BY <1>1, <2>1, <2>3, <2>4
<1>2. s \in Cycle(s, pairs) /\ s \notin bad
  BY CycleFacts
<1>3. \A x, y : <<x, y>> \in pairs => y \in Ends(pairs)
  BY DEF Ends
<1>4. bad \subseteq Cycle(s, pairs) /\ \A x : x \in good <=> x \in Ends(pairs) /\ x \notin bad
  OBVIOUS
<1>5. t \in bad
  OBVIOUS
<1> HIDE DEF bad, good
<1>6. \A y : <<s, y>> \in pairs => y \in good
  BY <1>1, <1>2, <1>3, <1>4
<1>7. ASSUME NEW x, NEW y, Leads(s, x, pairs), x \in good, <<x, y>> \in pairs
      PROVE  y \in good
  <2>1. y \in bad => x \in Cycle(s, pairs)
    BY <1>4, <1>7, CycleFacts
  <2> QED
    BY <1>1, <1>3, <1>4, <1>7, <2>1
<1>8. Leads(s, t, pairs)
  BY DEF Cycle
<1>9. t \in good
  BY <1>6, <1>7, <1>8, LeadsWithin
<1> QED
  BY <1>4, <1>5, <1>9

\* A CTE on the cycle was named before the view it is written in: from that
\* view on, what is read of its CTEs was.
LEMMA PartBefore ==
    ASSUME IInv, RelationsSourced, Placed, NEW pairs, pairs = kept \cup cut, pairs \subseteq Ends(pairs) \X Ends(pairs),
           Started = ToSet(named), NEW w \in ToSet(named), NEW t, Leads(w, t, pairs), IsPart(program, t, w)
    PROVE  NamedBefore(t, w, named)
<1> DEFINE good == {x \in Ends(pairs) : IsPart(program, x, w) => NamedBefore(x, w, named)}
<1>1. ReadsPlaced(program, pairs, named, Started)
  BY DEF Placed
<1>2. \A x, y : <<x, y>> \in pairs => y \in Ends(pairs)
  BY DEF Ends
<1>3. ASSUME NEW x, NEW y, <<x, y>> \in pairs, IsPart(program, y, w), x = w \/ NamedBefore(x, w, named)
      PROVE  NamedBefore(y, w, named)
  <2> DEFINE e == <<x, y>>
  <2>1. e \in pairs /\ e[1] = x /\ e[2] = y
    BY <1>3
  <2> HIDE DEF e
  <2> QED
    BY <1>1, <1>3, <2>1 DEF ReadsPlaced
<1>4. \A x : x \in good <=> x \in Ends(pairs) /\ (IsPart(program, x, w) => NamedBefore(x, w, named))
  OBVIOUS
<1> HIDE DEF good
<1>5. \A y : <<w, y>> \in pairs => y \in good
  BY <1>2, <1>3, <1>4
<1>6. ASSUME NEW x, NEW y, x \in good, <<x, y>> \in pairs
      PROVE  y \in good
  <2> SUFFICES ASSUME IsPart(program, y, w) PROVE NamedBefore(y, w, named)
    BY <1>2, <1>4, <1>6
  <2> DEFINE e == <<x, y>>
  <2>1. e \in pairs /\ e[1] = x /\ e[2] = y
    BY <1>6
  <2> HIDE DEF e
  <2>2. EdgePlaced(program, e, Started)
    BY <1>1, <2>1 DEF ReadsPlaced
  <2>3. y.role = "CTE" /\ IsView(w) /\ Home(program, y.body) = Home(program, w.body)
    BY DEF IsPart
  <2>4. /\ x \in ToSet(named) /\ x.role # "TABLE" /\ x.body # NoQuery
        /\ Home(program, x.body) = Home(program, w.body)
    BY <2>1, <2>2, <2>3 DEF EdgePlaced
  <2>5. ToSet(named) \subseteq ToSet(symbols) /\ \A v \in ToSet(symbols) : v.role \in {"TABLE", "VIEW", "CTE"}
    BY DEF IInv, LinksKnown, Placed, NamesPlaced
  <2>6. CASE x.role = "CTE"
    <3>1. IsPart(program, x, w)
      BY <2>3, <2>4, <2>6 DEF IsPart
    <3>2. NamedBefore(x, w, named)
      BY <1>4, <1>6, <3>1
    <3> QED
      BY <1>3, <1>6, <3>2
  <2>7. CASE x.role = "VIEW"
    <3>1. x = w
      BY <2>3, <2>4, <2>5, <2>7, ViewsApart DEF IsView
    <3> QED
      BY <1>3, <1>6, <3>1
  <2> QED
    BY <2>4, <2>5, <2>6, <2>7
<1>7. t \in good
  BY <1>5, <1>6, LeadsWithin
<1> QED
  BY <1>4, <1>7

\* The last relation of the cycle to be named is a view that was reported: a
\* relation of the cycle read it before it was named, and a CTE is not the last.
LEMMA CycleReported ==
    ASSUME IInv, RelationsSourced, Placed, LinkedProgram!LoweredOnce, LinkedProgram!Acyclic, Ended,
           NEW s \in ToSet(symbols), s.role = "VIEW", Leads(s, s, kept \cup cut)
    PROVE  \E t \in cycles : Leads(s, t, kept \cup cut) /\ Leads(t, s, kept \cup cut)
<1> DEFINE pairs == kept \cup cut
           cycle == Cycle(s, pairs)
           n == Len(named)
<1>1. /\ IsSequence(named) /\ resolving = {callers[i].symbol : i \in DOMAIN callers}
      /\ ToSet(named) \subseteq ToSet(symbols)
  BY DEF IInv, LinksKnown
<1>2. Started = ToSet(named)
  BY <1>1 DEF Ended, Started
<1>3. ReadsPlaced(program, pairs, named, Started) /\ \A x \in ToSet(symbols) : x.role \in {"TABLE", "VIEW", "CTE"}
  BY DEF Placed, NamesPlaced
<1> HIDE DEF pairs
<1>4. pairs \subseteq Started \X Started /\ \A e \in pairs : EdgePlaced(program, e, Started)
  BY <1>3 DEF ReadsPlaced
<1>5. pairs \subseteq Ends(pairs) \X Ends(pairs) /\ Ends(pairs) \subseteq Started
  <2>1. \A e \in pairs : e = <<e[1], e[2]>> /\ e[1] \in Started /\ e[2] \in Started
    BY <1>4
  <2> QED
    BY <2>1 DEF Ends
<1>6. Leads(s, s, pairs)
  BY DEF pairs
<1>7. /\ s \in cycle
      /\ \A x, y \in cycle : Leads(x, y, pairs)
      /\ \A x \in cycle : \E y \in cycle : <<y, x>> \in pairs
      /\ \A x \in cycle : \E y : <<x, y>> \in pairs
  BY <1>5, <1>6, CycleFacts
<1>8. cycle \subseteq ToSet(named)
  BY <1>2, <1>5 DEF Cycle
<1> HIDE DEF cycle
<1>9. /\ n \in Nat /\ DOMAIN named = 1..n
      /\ \A i, j \in 1..n : named[i] = named[j] => i = j
      /\ \A x \in ToSet(named) : \E i \in 1..n : x = named[i]
  BY <1>1, SequenceFacts DEF LinkedProgram!LoweredOnce
<1> HIDE DEF n
<1>10. PICK i \in 1..n : named[i] \in cycle /\ \A j \in 1..n : named[j] \in cycle => j <= i
  <2> DEFINE S == {i \in 1..n : named[i] \in cycle}
  <2>1. S \subseteq 1..n /\ S # {}
    BY <1>7, <1>8, <1>9
  <2>2. \E i \in S : \A j \in S : j <= i
    <3> HIDE DEF S
    <3> QED
      BY <1>9, <2>1, LastPosition
  <2> QED
    BY <2>2
<1> DEFINE t == named[i]
<1>11. t \in cycle /\ t \in ToSet(named) /\ t \in ToSet(symbols)
  BY <1>1, <1>8, <1>10
<1>12. PICK y \in cycle : <<y, t>> \in pairs
  BY <1>7, <1>11
<1>13. <<y, t>> \in cut
  <2> SUFFICES ASSUME <<y, t>> \in kept PROVE FALSE
    BY <1>12 DEF pairs
  <2>1. PICK k \in 1..n : y = named[k]
    BY <1>8, <1>9
  <2>2. PICK j \in 1..(k - 1) : named[j] = t
    BY <1>9, <1>11, <2>1 DEF LinkedProgram!Acyclic
  <2>3. j \in 1..n /\ j < k
    BY <1>9
  <2>4. j = i
    BY <1>9, <2>2, <2>3
  <2>5. k <= i
    BY <1>10, <2>1
  <2> QED
    BY <1>9, <2>3, <2>4, <2>5
<1>14. t.role # "TABLE"
  <2>1. PICK z : <<t, z>> \in pairs
    BY <1>7, <1>11
  <2> DEFINE e == <<t, z>>
  <2>2. e \in pairs /\ e[1] = t
    BY <2>1
  <2> HIDE DEF e, t
  <2> QED
    BY <1>4, <2>2 DEF EdgePlaced
<1>15. t.role # "CTE"
  <2> SUFFICES ASSUME t.role = "CTE" PROVE FALSE
    OBVIOUS
  <2> HIDE DEF t
  <2>1. \A e \in pairs : EdgePlaced(program, e, Started) /\ e[1].role \in {"TABLE", "VIEW", "CTE"}
    BY <1>1, <1>2, <1>3, <1>4 DEF EdgePlaced
  <2>2. PICK w \in cycle : IsPart(program, t, w)
    BY <1>5, <1>6, <1>11, <2>1, CycleHome DEF cycle
  <2>3. w \in ToSet(named) /\ Leads(w, t, pairs)
    BY <1>7, <1>8, <1>11
  <2>4. NamedBefore(t, w, named)
    BY <1>2, <1>5, <2>2, <2>3, PartBefore DEF pairs
  <2>5. PICK j, k \in 1..n : named[j] = t /\ named[k] = w /\ j < k
    BY <1>9, <2>4 DEF NamedBefore
  <2>6. j = i
    BY <1>9, <2>5 DEF t
  <2>7. k <= i
    BY <1>10, <2>5
  <2> QED
    BY <1>9, <2>5, <2>6, <2>7
<1>16. t.role = "VIEW"
  BY <1>3, <1>11, <1>14, <1>15
<1>17. t \in cycles
  <2> DEFINE e == <<y, t>>
  <2>1. e \in cut /\ e[2] = t
    BY <1>13
  <2> HIDE DEF e, t
  <2> QED
    BY <1>16, <2>1 DEF Placed, CutsReported
<1>18. Leads(s, t, pairs) /\ Leads(t, s, pairs)
  BY <1>7, <1>11
<1> QED
  BY <1>17, <1>18 DEF pairs

(***************************************************************************)
(* Of every program, whatever its views read and however deep in their      *)
(* CTEs: each cycle of reads through a view has a view that was reported as *)
(* recursive, and what was reported is on a cycle.                          *)
(***************************************************************************)
THEOREM EveryCycleReported == Spec => []CyclesReported
<1>1. ASSUME IInv, RelationsSourced, Placed, LinkedProgram!LoweredOnce, LinkedProgram!Acyclic,
             LinkedProgram!CutsOnCycles
      PROVE  CyclesReported
  <2> SUFFICES ASSUME Ended
               PROVE  LET led == Connected(kept \cup cut) IN
                      /\ \A s \in cycles : <<s, s>> \in led
                      /\ \A s \in {s \in ToSet(symbols) : s.role = "VIEW"} :
                            <<s, s>> \in led => \E t \in cycles : <<s, t>> \in led /\ <<t, s>> \in led
    BY DEF CyclesReported
  <2> DEFINE led == Connected(kept \cup cut)
  <2>1. \A a, b : <<a, b>> \in led <=> Leads(a, b, kept \cup cut)
    BY ConnectedFacts
  <2> HIDE DEF led
  <2>2. \A s \in cycles : <<s, s>> \in led
    BY <1>1, <2>1, ReportedCycle
  <2>3. ASSUME NEW s \in ToSet(symbols), s.role = "VIEW", <<s, s>> \in led
        PROVE  \E t \in cycles : <<s, t>> \in led /\ <<t, s>> \in led
    <3>1. Leads(s, s, kept \cup cut)
      BY <2>1, <2>3
    <3>2. PICK t \in cycles : Leads(s, t, kept \cup cut) /\ Leads(t, s, kept \cup cut)
      BY <1>1, <2>3, <3>1, CycleReported
    <3> QED
      BY <2>1, <3>2
  <2> QED
    BY <2>2, <2>3 DEF led
<1>2. IInv /\ RelationsSourced /\ Placed /\ LinkedProgram!LoweredOnce /\ LinkedProgram!Acyclic
      /\ LinkedProgram!CutsOnCycles => CyclesReported
  BY <1>1
<1> QED
  BY <1>2, PlacedInvariant, LinkedIsAcyclic, CutsCloseCycles, PTL

=============================================================================
