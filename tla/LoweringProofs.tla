--------------------------- MODULE LoweringProofs ----------------------------
(***************************************************************************)
(* Proofs about what lowering does, for every set of syntax trees: each     *)
(* query is lowered at most once and each marker handled at most once, those*)
(* of one select in the order in which they were written; each leaves exactly*)
(* one trace, and the assertions of one select keep their order.            *)
(***************************************************************************)
EXTENDS LinkerProofs, FiniteSetTheorems

-----------------------------------------------------------------------------
(* Every query is lowered from one place.                                   *)

\* Unwrap, of a program.
Bare(p, q) == IF p.query[q].kind = "paren" THEN p.query[q].body ELSE q

\* The queries that relations and the root are lowered from.
IsCte(p, y) == \E q \in DOMAIN p.query : \E i \in DOMAIN p.query[q].with : y = p.query[q].with[i].body
IsEntry(p, y) == IsCte(p, y) \/ y \in Outermost(p)
Seated(p, y) == IsEntry(p, y) \/ \E r \in DOMAIN p.query : p.query[r].kind # "paren" /\ y \in Inlined(p.query[r])

LEMMA SeatedOnce ==
    ASSUME NEW p, IsProgram(p), NEW x \in DOMAIN p.query, NEW y \in DOMAIN p.query,
           Seated(p, x), Seated(p, y), Bare(p, x) = Bare(p, y)
    PROVE  x = y
<1> DEFINE query == p.query
<1>1. /\ \A q, r \in DOMAIN query : DirectlyWithin(query[q]) \cap DirectlyWithin(query[r]) # {} => q = r
      /\ \A q \in DOMAIN query : DirectlyWithin(query[q]) \cap Outermost(p) = {}
      /\ \A q \in DOMAIN query : \A i \in DOMAIN query[q].with : query[q].with[i].body \notin Inlined(query[q])
  BY DEF IsProgram, Places
<1>2. \A q \in DOMAIN query : /\ Inlined(query[q]) \subseteq DirectlyWithin(query[q])
                              /\ \A i \in DOMAIN query[q].with : query[q].with[i].body \in DirectlyWithin(query[q])
  BY <1>1 DEF DirectlyWithin
<1>3. \A q \in DOMAIN query : query[q].kind = "paren" => query[q].body \in Inlined(query[q])
  BY DEF Inlined
<1>5. \A z : Seated(p, z) => \/ \E q \in DOMAIN query : \E i \in DOMAIN query[q].with : z = query[q].with[i].body
                            \/ z \in Outermost(p)
                            \/ \E q \in DOMAIN query : query[q].kind # "paren" /\ z \in Inlined(query[q])
  BY DEF Seated, IsEntry, IsCte
<1>6. \A q : Bare(p, q) = IF query[q].kind = "paren" THEN query[q].body ELSE q
  BY DEF Bare
<1> HIDE DEF query
<1>7. ASSUME NEW r \in DOMAIN query, query[r].kind = "paren"
      PROVE  ~Seated(p, query[r].body)
  <2> DEFINE z == query[r].body
  <2>1. z \in Inlined(query[r]) /\ z \in DirectlyWithin(query[r])
    BY <1>2, <1>3, <1>7
  <2>2. z \notin Outermost(p)
    BY <1>1, <2>1
  <2> HIDE DEF z
  <2>3. ASSUME NEW q \in DOMAIN query, NEW i \in DOMAIN query[q].with, z = query[q].with[i].body
        PROVE  FALSE
    <3>1. q = r
      BY <1>1, <1>2, <2>1, <2>3
    <3> QED
      BY <1>1, <2>1, <2>3, <3>1
  <2>4. ASSUME NEW q \in DOMAIN query, query[q].kind # "paren", z \in Inlined(query[q])
        PROVE  FALSE
    <3>1. z \in DirectlyWithin(query[q])
      BY <1>2, <2>4
    <3>2. q = r
      BY <1>1, <2>1, <2>4, <3>1
    <3> QED
      BY <1>7, <2>4, <3>2
  <2>5. ~Seated(p, z)
    BY <1>5, <2>2, <2>3, <2>4
  <2> QED
    BY <2>5 DEF z
<1>8. x \in DOMAIN query /\ y \in DOMAIN query
  BY DEF query
<1>9. CASE query[x].kind = "paren" /\ query[y].kind = "paren"
  BY <1>1, <1>2, <1>3, <1>6, <1>8, <1>9
<1>10. CASE query[x].kind = "paren" /\ query[y].kind # "paren"
  BY <1>6, <1>7, <1>8, <1>10
<1>11. CASE query[x].kind # "paren" /\ query[y].kind = "paren"
  BY <1>6, <1>7, <1>8, <1>11
<1>12. CASE query[x].kind # "paren" /\ query[y].kind # "paren"
  BY <1>6, <1>12
<1> QED
  BY <1>9, <1>10, <1>11, <1>12

(***************************************************************************)
(* The work of lowering: a query, and a source.  What makes which.          *)
(***************************************************************************)
Sources(p) == UNION {{q} \X DOMAIN p.query[q].sources : q \in Selects(p)}
Work(p) == ({"query"} \X {q \in DOMAIN p.query : p.query[q].kind # "paren"}) \cup ({"source"} \X Sources(p))

Branches(node) ==
    IF node.kind = "setop" THEN {node.arms[1], node.arms[2]}
    ELSE IF node.kind = "select" THEN {node.where[i].body : i \in DOMAIN node.where} ELSE {}
Makes(p, j, k) ==
    \/ /\ j[1] = "query" /\ k[1] = "query"
       /\ \E y \in Branches(p.query[j[2]]) : k[2] = Bare(p, y)
    \/ j[1] = "query" /\ k[1] = "source" /\ k[2][1] = j[2]
    \/ /\ j[1] = "source" /\ k[1] = "query"
       /\ LET s == p.query[j[2][1]].sources[j[2][2]] IN s.kind = "subquery" /\ k[2] = Bare(p, s.body)

\* y is the query of the derived table i of q, and has no other place in q.
Derives(p, q, i, y) ==
    /\ y \in DOMAIN p.query /\ Seated(p, y) /\ y \in Inlined(p.query[q])
    /\ y \notin Branches(p.query[q])
    /\ \A j \in DOMAIN p.query[q].sources :
          p.query[q].sources[j].kind = "subquery" /\ p.query[q].sources[j].body = y => i = j

LEMMA SeatFacts ==
    ASSUME NEW p, IsProgram(p), NEW q \in DOMAIN p.query
    PROVE  /\ \A y \in Branches(p.query[q]) : y \in DOMAIN p.query /\ Seated(p, y) /\ y \in Inlined(p.query[q])
           /\ p.query[q].kind = "select" => \A i \in DOMAIN p.query[q].sources :
                 p.query[q].sources[i].kind = "subquery" => Derives(p, q, i, p.query[q].sources[i].body)
           /\ \A y \in DOMAIN p.query : Bare(p, y) \in DOMAIN p.query /\ p.query[Bare(p, y)].kind # "paren"
<1> DEFINE node == p.query[q]
<1>1. /\ node.kind = "setop" => IsSequence(node.arms) /\ Len(node.arms) = 2 
      /\ DirectlyWithin(node) \subseteq DOMAIN p.query
      /\ Places(node)
  BY DEF IsProgram, IsNode
<1>2. node.kind \in {"select", "setop", "paren"}
  BY TreeFacts
<1>3. Inlined(node) \subseteq DOMAIN p.query
  BY <1>1 DEF DirectlyWithin
<1>4. \A y \in Inlined(node) : node.kind # "paren" => Seated(p, y)
  BY DEF Seated
<1>5. ASSUME NEW y \in Branches(node)
      PROVE  y \in Inlined(node) /\ node.kind # "paren"
  <2> HIDE DEF node
  <2>1. CASE node.kind = "setop"
    <3>1. \A i \in 1..2 : node.arms[i] \in ToSet(node.arms)
      BY <1>1, <2>1, SequenceFacts
    <3> QED
      BY <1>5, <2>1, <3>1 DEF Branches, Inlined
  <2>2. CASE node.kind = "select"
    BY <1>5, <2>2 DEF Branches, Inlined
  <2> QED
    BY <1>2, <1>5, <2>1, <2>2 DEF Branches
<1>6. ASSUME node.kind = "select", NEW i \in DOMAIN node.sources, node.sources[i].kind = "subquery"
      PROVE  LET y == node.sources[i].body IN
             /\ y \in Inlined(node) /\ y \notin Branches(node)
             /\ \A j \in DOMAIN node.sources : node.sources[j].kind = "subquery" /\ node.sources[j].body = y => i = j
  <2> HIDE DEF node
  <2>1. node.sources[i].body \in Inlined(node)
    BY <1>6 DEF Inlined, ToSet
  <2>2. /\ \A j \in DOMAIN node.sources :
              node.sources[j].kind = "subquery" /\ node.sources[j].body = node.sources[i].body => i = j
        /\ \A j \in DOMAIN node.where : node.where[j].body # node.sources[i].body
    BY <1>1, <1>6 DEF Places
  <2>3. node.sources[i].body \notin Branches(node)
    BY <1>6, <2>2 DEF Branches
  <2> QED
    BY <2>1, <2>2, <2>3
<1>7. \A y \in DOMAIN p.query : Bare(p, y) \in DOMAIN p.query /\ p.query[Bare(p, y)].kind # "paren"
  BY TreeFacts DEF Bare
<1>8. ASSUME node.kind = "select", NEW i \in DOMAIN node.sources, node.sources[i].kind = "subquery"
      PROVE  Derives(p, q, i, node.sources[i].body)
  BY <1>3, <1>4, <1>6, <1>8 DEF Derives
<1> QED
  BY <1>3, <1>4, <1>5, <1>7, <1>8

LEMMA WorkFacts ==
    ASSUME NEW p, NEW k \in Work(p)
    PROVE  /\ k = <<k[1], k[2]>>
           /\ \/ k[1] = "query" /\ k[2] \in DOMAIN p.query /\ p.query[k[2]].kind # "paren"
              \/ /\ k[1] = "source" /\ k[2] = <<k[2][1], k[2][2]>>
                 /\ k[2][1] \in DOMAIN p.query /\ p.query[k[2][1]].kind = "select"
                 /\ k[2][2] \in DOMAIN p.query[k[2][1]].sources
<1>1. CASE k \in {"query"} \X {q \in DOMAIN p.query : p.query[q].kind # "paren"}
  BY <1>1
<1>2. CASE k \in {"source"} \X Sources(p)
  <2>1. k = <<k[1], k[2]>> /\ k[1] = "source" /\ k[2] \in Sources(p)
    BY <1>2
  <2>2. PICK q \in Selects(p) : k[2] \in {q} \X DOMAIN p.query[q].sources
    BY <2>1 DEF Sources
  <2> QED
    BY <2>1, <2>2 DEF Selects
<1> QED
  BY <1>1, <1>2 DEF Work

\* Of no work there are two makers, and an entry has none.
LEMMA OneMaker ==
    ASSUME NEW p, IsProgram(p), NEW k \in Work(p), NEW i \in Work(p), NEW j \in Work(p),
           Makes(p, i, k), Makes(p, j, k)
    PROVE  i = j
<1>1. \A x, y \in DOMAIN p.query : Seated(p, x) /\ Seated(p, y) /\ Bare(p, x) = Bare(p, y) => x = y
  BY SeatedOnce
<1>2. \A q, r \in DOMAIN p.query : \A y \in Inlined(p.query[q]) \cap Inlined(p.query[r]) : q = r
  BY DEF IsProgram, DirectlyWithin
<1>3. ASSUME NEW h \in Work(p), Makes(p, h, k), k[1] = "query"
      PROVE  \/ /\ h[1] = "query" /\ h[2] \in DOMAIN p.query
                /\ \E y \in DOMAIN p.query :
                      /\ Seated(p, y) /\ Bare(p, y) = k[2]
                      /\ y \in Inlined(p.query[h[2]]) /\ y \in Branches(p.query[h[2]])
             \/ /\ h[1] = "source" /\ h[2][1] \in DOMAIN p.query /\ h[2][2] \in DOMAIN p.query[h[2][1]].sources
                /\ p.query[h[2][1]].sources[h[2][2]].kind = "subquery"
                /\ \E y \in DOMAIN p.query : /\ y = p.query[h[2][1]].sources[h[2][2]].body
                                             /\ Bare(p, y) = k[2] /\ Derives(p, h[2][1], h[2][2], y)
  <2>1. CASE h[1] = "query"
    <3>1. h[2] \in DOMAIN p.query
      BY <2>1, WorkFacts
    <3>2. PICK y \in Branches(p.query[h[2]]) : k[2] = Bare(p, y)
      BY <1>3, <2>1 DEF Makes
    <3> QED
      BY <2>1, <3>1, <3>2, SeatFacts
  <2>2. CASE h[1] = "source"
    <3>1. h[2][1] \in DOMAIN p.query /\ p.query[h[2][1]].kind = "select" /\ h[2][2] \in DOMAIN p.query[h[2][1]].sources
      BY <2>2, WorkFacts
    <3>2. /\ p.query[h[2][1]].sources[h[2][2]].kind = "subquery"
          /\ k[2] = Bare(p, p.query[h[2][1]].sources[h[2][2]].body)
      BY <1>3, <2>2 DEF Makes
    <3>3. Derives(p, h[2][1], h[2][2], p.query[h[2][1]].sources[h[2][2]].body)
      BY <3>1, <3>2, SeatFacts
    <3>4. p.query[h[2][1]].sources[h[2][2]].body \in DOMAIN p.query
      BY <3>3 DEF Derives
    <3> QED
      BY <2>2, <3>1, <3>2, <3>3, <3>4
  <2> QED
    BY <2>1, <2>2, WorkFacts
<1>4. /\ i = <<i[1], i[2]>> /\ j = <<j[1], j[2]>>
      /\ i[1] = "source" => i[2] = <<i[2][1], i[2][2]>>
      /\ j[1] = "source" => j[2] = <<j[2][1], j[2][2]>>
      /\ k[1] \in {"query", "source"}
  BY WorkFacts
<1>5. CASE k[1] = "source"
  BY <1>4, <1>5 DEF Makes
<1>6. CASE k[1] = "query"
  <2>1. CASE i[1] = "query" /\ j[1] = "query"
    BY <1>1, <1>2, <1>3, <1>4, <1>6, <2>1
  <2>2. CASE i[1] = "query" /\ j[1] = "source"
    <3>1. PICK x \in DOMAIN p.query : /\ Seated(p, x) /\ Bare(p, x) = k[2]
                                      /\ x \in Inlined(p.query[i[2]]) /\ x \in Branches(p.query[i[2]])
      BY <1>3, <1>6, <2>2
    <3>2. PICK y \in DOMAIN p.query : /\ y = p.query[j[2][1]].sources[j[2][2]].body
                                      /\ Bare(p, y) = k[2] /\ Derives(p, j[2][1], j[2][2], y)
      BY <1>3, <1>6, <2>2
    <3>3. x = y
      BY <1>1, <3>1, <3>2 DEF Derives
    <3>4. i[2] = j[2][1]
      BY <1>2, <1>3, <1>6, <2>2, <3>1, <3>2, <3>3 DEF Derives
    <3> QED
      BY <3>1, <3>2, <3>3, <3>4 DEF Derives
  <2>3. CASE i[1] = "source" /\ j[1] = "query"
    <3>1. PICK x \in DOMAIN p.query : /\ Seated(p, x) /\ Bare(p, x) = k[2]
                                      /\ x \in Inlined(p.query[j[2]]) /\ x \in Branches(p.query[j[2]])
      BY <1>3, <1>6, <2>3
    <3>2. PICK y \in DOMAIN p.query : /\ y = p.query[i[2][1]].sources[i[2][2]].body
                                      /\ Bare(p, y) = k[2] /\ Derives(p, i[2][1], i[2][2], y)
      BY <1>3, <1>6, <2>3
    <3>3. x = y
      BY <1>1, <3>1, <3>2 DEF Derives
    <3>4. j[2] = i[2][1]
      BY <1>2, <1>3, <1>6, <2>3, <3>1, <3>2, <3>3 DEF Derives
    <3> QED
      BY <3>1, <3>2, <3>3, <3>4 DEF Derives
  <2>4. CASE i[1] = "source" /\ j[1] = "source"
    <3>1. PICK x \in DOMAIN p.query : /\ x = p.query[i[2][1]].sources[i[2][2]].body
                                      /\ Bare(p, x) = k[2] /\ Derives(p, i[2][1], i[2][2], x)
      BY <1>3, <1>6, <2>4
    <3>2. PICK y \in DOMAIN p.query : /\ y = p.query[j[2][1]].sources[j[2][2]].body
                                      /\ Bare(p, y) = k[2] /\ Derives(p, j[2][1], j[2][2], y)
      BY <1>3, <1>6, <2>4
    <3>3. /\ i[2][1] \in DOMAIN p.query /\ j[2][1] \in DOMAIN p.query
          /\ j[2][2] \in DOMAIN p.query[j[2][1]].sources
          /\ p.query[j[2][1]].sources[j[2][2]].kind = "subquery"
      BY <1>3, <1>6, <2>4
    <3>4. x = y
      BY <1>1, <3>1, <3>2 DEF Derives
    <3>5. i[2][1] = j[2][1]
      BY <1>2, <3>1, <3>2, <3>3, <3>4 DEF Derives
    <3>6. i[2][2] = j[2][2]
      BY <3>1, <3>2, <3>3, <3>4, <3>5 DEF Derives
    <3> QED
      BY <1>4, <2>4, <3>5, <3>6
  <2> QED
    BY <1>3, <1>6, <2>1, <2>2, <2>3, <2>4
<1> QED
  BY <1>4, <1>5, <1>6

LEMMA NoMaker ==
    ASSUME NEW p, IsProgram(p), NEW y \in DOMAIN p.query, IsEntry(p, y), NEW j \in Work(p)
    PROVE  ~Makes(p, j, <<"query", Bare(p, y)>>)
<1> SUFFICES ASSUME Makes(p, j, <<"query", Bare(p, y)>>)
             PROVE  FALSE
  OBVIOUS
<1>1. \E r, x \in DOMAIN p.query : Seated(p, x) /\ Bare(p, x) = Bare(p, y) /\ x \in Inlined(p.query[r])
  <2> DEFINE k == <<"query", Bare(p, y)>>
  <2>1. k[1] = "query" /\ k[2] = Bare(p, y) /\ k[1] # "source"
    OBVIOUS
  <2> HIDE DEF k
  <2>2. Makes(p, j, k)
    BY DEF k
  <2>3. CASE j[1] = "query"
    <3>1. j[2] \in DOMAIN p.query
      BY <2>3, WorkFacts
    <3>2. PICK x \in Branches(p.query[j[2]]) : k[2] = Bare(p, x)
      BY <2>1, <2>2, <2>3 DEF Makes
    <3> QED
      BY <2>1, <3>1, <3>2, SeatFacts
  <2>4. CASE j[1] = "source"
    <3>1. j[2][1] \in DOMAIN p.query /\ p.query[j[2][1]].kind = "select" /\ j[2][2] \in DOMAIN p.query[j[2][1]].sources
      BY <2>4, WorkFacts
    <3>2. /\ p.query[j[2][1]].sources[j[2][2]].kind = "subquery"
          /\ k[2] = Bare(p, p.query[j[2][1]].sources[j[2][2]].body)
      BY <2>1, <2>2, <2>4 DEF Makes
    <3>3. Derives(p, j[2][1], j[2][2], p.query[j[2][1]].sources[j[2][2]].body)
      BY <3>1, <3>2, SeatFacts
    <3> QED
      BY <2>1, <3>1, <3>2, <3>3 DEF Derives
  <2> QED
    BY <2>3, <2>4, WorkFacts
<1>2. PICK r \in DOMAIN p.query, x \in DOMAIN p.query :
         Seated(p, x) /\ Bare(p, x) = Bare(p, y) /\ x \in Inlined(p.query[r])
  BY <1>1
<1>3. x = y
  BY <1>2, SeatedOnce DEF Seated
<1>4. y \in Inlined(p.query[r]) /\ y \in DirectlyWithin(p.query[r])
  BY <1>2, <1>3 DEF DirectlyWithin
<1>5. y \notin Outermost(p)
  BY <1>4 DEF IsProgram
<1>6. PICK q \in DOMAIN p.query : \E i \in DOMAIN p.query[q].with : y = p.query[q].with[i].body
  BY <1>5 DEF IsEntry, IsCte
<1>7. y \in DirectlyWithin(p.query[q]) /\ y \notin Inlined(p.query[q])
  <2>1. Places(p.query[q])
    BY DEF IsProgram
  <2> QED
    BY <1>6, <2>1, ZenonT(30) DEF DirectlyWithin, Places
<1>8. q = r
  BY <1>4, <1>7 DEF IsProgram
<1> QED
  BY <1>4, <1>7, <1>8

-----------------------------------------------------------------------------
(* The calls of lowering are each made once, and in the order of the markers *)
(* they handle.                                                             *)

\* The places of the markers written on a select, those of its joins first.
Spots(p, q) == IF p.query[q].kind = "select" THEN {q} \X DOMAIN MarkersOn(p.query[q]) ELSE {}
AllSpots(p) == UNION {Spots(p, q) : q \in DOMAIN p.query}
MarkerAt(p, x) == MarkersOn(p.query[x[1]])[x[2]]
SpotsOf(p, m) == {x \in AllSpots(p) : MarkerAt(p, x) = m}

\* Of markers on one select, m was written before n.
Sooner(p, m, n) == \A x \in SpotsOf(p, m), y \in SpotsOf(p, n) : x[1] = y[1] => x[2] < y[2]

\* The work that a call begins, and the places whose markers it handles itself
\* or by the calls it makes for the same select.
Begins(p, t) ==
    IF t.do = "lower" THEN {<<"query", Bare(p, t.query)>>}
    ELSE IF t.do = "filter" THEN {<<"query", t.conjunct.body>>}
    ELSE IF t.do = "read" THEN {<<"source", t.at>>} ELSE {}
Due(p, t) ==
    IF t.do = "lower" THEN Spots(p, Bare(p, t.query))
    ELSE IF t.do = "filter" THEN Spots(p, t.conjunct.body)
    ELSE IF t.do = "read" THEN {t.at}
    ELSE IF t.do = "finish" THEN {x \in Spots(p, t.query) : x[2] > Len(p.query[t.query].sources)}
    ELSE IF t.do = "join" THEN SpotsOf(p, t.marker)
    ELSE IF t.do = "mark" THEN SpotsOf(p, t.marker.id) ELSE {}

Before(p, t, u) ==
    /\ Begins(p, t) \cap Begins(p, u) = {}
    /\ \A x \in Due(p, t), y \in Due(p, u) : x[1] = y[1] => x[2] < y[2]
Unrelated(p, t, u) ==
    /\ Begins(p, t) \cap Begins(p, u) = {}
    /\ \A x \in Due(p, t), y \in Due(p, u) : x[1] # y[1]
InOrder(p, calls) == \A a, b \in DOMAIN calls : a < b => Before(p, calls[a], calls[b])

\* Work is begun after what makes it, a relation's when the relation is resolved.
Made(p, k, spent, entered) ==
    /\ k \in Work(p)
    /\ \A j \in Work(p) : Makes(p, j, k) => j \in spent
    /\ \A y \in DOMAIN p.query : IsEntry(p, y) /\ y # p.root /\ k = <<"query", Bare(p, y)>> => y \in entered

\* What a call begins was not begun, and what it handles comes after what was
\* handled of the same select.
Fresh(p, t, spent, entered, done) ==
    /\ Begins(p, t) \cap spent = {}
    /\ \A k \in Begins(p, t) : Made(p, k, spent, entered)
    /\ \A x \in Due(p, t) : /\ <<"query", x[1]>> \in spent \cup Begins(p, t)
                            /\ \A y \in AllSpots(p) : y[1] = x[1] /\ MarkerAt(p, y) \in done => y[2] < x[2]
    /\ t.do = "join" => t.marker \in MarkersIn(p)
    /\ t.do = "mark" => t.marker.id \in MarkersIn(p)

Past(p, spent, entered, done) ==
    /\ \A k \in spent : Made(p, k, spent, entered)
    /\ \A y \in AllSpots(p) : MarkerAt(p, y) \in done => <<"query", y[1]>> \in spent

Orderly(p, around, calls, spent, entered, done) ==
    /\ Past(p, spent, entered, done)
    /\ InOrder(p, calls) /\ \A t \in ToSet(calls) : Fresh(p, t, spent, entered, done)
    /\ \A i \in DOMAIN around :
          /\ InOrder(p, around[i].rest)
          /\ \A t \in ToSet(around[i].rest) : /\ Fresh(p, t, spent, entered, done)
                                              /\ \A u \in ToSet(calls) : Unrelated(p, t, u)
    /\ \A i, j \in DOMAIN around : i # j =>
          \A t \in ToSet(around[i].rest), u \in ToSet(around[j].rest) : Unrelated(p, t, u)

\* A call h may make call t.
Follows(p, h, t) ==
    /\ \A k \in Begins(p, t) : k \in Work(p) /\ \E j \in Begins(p, h) : Makes(p, j, k)
    /\ Due(p, t) \subseteq Due(p, h) \/ \A x \in Due(p, t) : <<"query", x[1]>> \in Begins(p, t)
    /\ t.do = "join" => t.marker \in MarkersIn(p)
    /\ t.do = "mark" => t.marker.id \in MarkersIn(p)

LEMMA ConcatPlaces ==
    ASSUME NEW s, NEW t, IsSequence(s), IsSequence(t)
    PROVE  /\ Len(s) \in Nat /\ Len(t) \in Nat
           /\ DOMAIN s = 1..Len(s) /\ DOMAIN t = 1..Len(t) /\ DOMAIN (s \o t) = 1..(Len(s) + Len(t))
           /\ \A i \in 1..Len(s) : (s \o t)[i] = s[i]
           /\ \A i \in 1..Len(t) : (s \o t)[Len(s) + i] = t[i]
<1> DEFINE S == ToSet(s) \cup ToSet(t)
<1>1. s \in Seq(ToSet(s)) /\ t \in Seq(ToSet(t))
  BY DEF IsSequence
<1>2. s \in Seq(S) /\ t \in Seq(S)
  <2> HIDE DEF S
  <2>1. ToSet(s) \subseteq S /\ ToSet(t) \subseteq S
    BY DEF S
  <2> QED
    BY <1>1, <2>1
<1> HIDE DEF S
<1> QED
  BY <1>2

LEMMA OrderedConcat ==
    ASSUME NEW p, NEW s, NEW t, IsSequence(s), IsSequence(t), InOrder(p, s), InOrder(p, t),
           \A a \in ToSet(s), b \in ToSet(t) : Before(p, a, b)
    PROVE  InOrder(p, s \o t)
<1> DEFINE both == s \o t
<1>1. /\ Len(s) \in Nat /\ Len(t) \in Nat
      /\ DOMAIN s = 1..Len(s) /\ DOMAIN t = 1..Len(t) /\ DOMAIN both = 1..(Len(s) + Len(t))
      /\ \A i \in 1..Len(s) : both[i] = s[i]
      /\ \A i \in 1..Len(t) : both[Len(s) + i] = t[i]
  BY ConcatPlaces
<1> HIDE DEF both
<1>2. ASSUME NEW a \in DOMAIN both, NEW b \in DOMAIN both, a < b
      PROVE  Before(p, both[a], both[b])
  <2>1. CASE a \in 1..Len(s) /\ b \in 1..Len(s)
    BY <1>1, <1>2, <2>1 DEF InOrder
  <2>2. CASE a \in 1..Len(s) /\ b \notin 1..Len(s)
    <3>1. b - Len(s) \in 1..Len(t) /\ b = Len(s) + (b - Len(s))
      BY <1>1, <2>2
    <3>2. both[b] = t[b - Len(s)] /\ both[a] = s[a]
      BY <1>1, <2>2, <3>1
    <3>3. both[a] \in ToSet(s) /\ both[b] \in ToSet(t)
      BY <1>1, <2>2, <3>1, <3>2 DEF ToSet
    <3> QED
      BY <3>3
  <2>3. CASE a \notin 1..Len(s)
    <3>1. /\ a - Len(s) \in 1..Len(t) /\ a = Len(s) + (a - Len(s))
          /\ b - Len(s) \in 1..Len(t) /\ b = Len(s) + (b - Len(s))
          /\ a - Len(s) < b - Len(s)
      <4>1. \A m, n \in Nat : \A i, j \in 1..(m + n) : i < j /\ i \notin 1..m =>
               /\ i - m \in 1..n /\ i = m + (i - m) /\ j - m \in 1..n /\ j = m + (j - m)
               /\ i - m < j - m
        OBVIOUS
      <4>2. a \in 1..(Len(s) + Len(t)) /\ b \in 1..(Len(s) + Len(t)) /\ a < b /\ a \notin 1..Len(s)
        BY <1>1, <1>2, <2>3
      <4>3. Len(s) \in Nat /\ Len(t) \in Nat
        BY <1>1
      <4> QED
        BY <4>1, <4>2, <4>3
    <3>2. both[a] = t[a - Len(s)] /\ both[b] = t[b - Len(s)]
      BY <1>1, <3>1
    <3> QED
      BY <1>1, <3>1, <3>2 DEF InOrder
  <2> QED
    BY <2>1, <2>2, <2>3
<1> QED
  BY <1>2 DEF InOrder, both

LEMMA OrderedTail ==
    ASSUME NEW p, NEW s, IsSequence(s), s # <<>>, InOrder(p, s)
    PROVE  InOrder(p, Tail(s)) /\ \A u \in ToSet(Tail(s)) : Before(p, Head(s), u)
<1>1. s \in Seq(ToSet(s))
  BY DEF IsSequence
<1>2. /\ Len(s) \in Nat \ {0} /\ DOMAIN s = 1..Len(s) /\ DOMAIN Tail(s) = 1..(Len(s) - 1)
      /\ \A i \in 1..(Len(s) - 1) : Tail(s)[i] = s[i + 1]
      /\ Head(s) = s[1]
  BY <1>1
<1>3. \A i \in DOMAIN Tail(s) : i + 1 \in DOMAIN s /\ Tail(s)[i] = s[i + 1] /\ 1 < i + 1
  BY <1>2
<1>4. 1 \in DOMAIN s
  BY <1>2
<1>5. \A u \in ToSet(Tail(s)) : Before(p, Head(s), u)
  BY <1>2, <1>3, <1>4 DEF InOrder, ToSet
<1>6. \A a, b \in DOMAIN Tail(s) : a < b => a + 1 < b + 1
  BY <1>2
<1>7. InOrder(p, Tail(s))
  BY <1>3, <1>6 DEF InOrder
<1> QED
  BY <1>5, <1>7

\* What stays of work when more was begun, and more relations were resolved.
LEMMA StillMade ==
    ASSUME NEW p, NEW k, NEW spent, NEW later, spent \subseteq later,
           NEW entered, NEW more, entered \subseteq more, Made(p, k, spent, entered)
    PROVE  Made(p, k, later, more)
BY DEF Made

\* What a call makes is new, and apart from what any other call begins and handles.
LEMMA NewWork ==
    ASSUME NEW p, IsProgram(p), NEW spent, NEW entered, NEW done, Past(p, spent, entered, done),
           NEW h, Fresh(p, h, spent, entered, done), NEW t, Follows(p, h, t)
    PROVE  /\ Begins(p, t) \cap (spent \cup Begins(p, h)) = {}
           /\ Fresh(p, t, spent \cup Begins(p, h), entered, done)
<1> DEFINE later == spent \cup Begins(p, h)
<1>1. ASSUME NEW k \in Begins(p, t)
      PROVE  k \notin later /\ Made(p, k, later, entered)
  <2>1. PICK j \in Begins(p, h) : Makes(p, j, k)
    BY DEF Follows
  <2>2. j \in Work(p) /\ j \notin spent /\ k \in Work(p)
    BY <2>1 DEF Fresh, Made, Follows
  <2>3. k \notin later
    BY <2>1, <2>2 DEF Past, Fresh, Made
  <2>4. \A i \in Work(p) : Makes(p, i, k) => i \in later
    BY <2>1, <2>2, OneMaker
  <2>5. \A y \in DOMAIN p.query : IsEntry(p, y) => k # <<"query", Bare(p, y)>>
    BY <2>1, <2>2, NoMaker
  <2> QED
    BY <2>2, <2>3, <2>4, <2>5 DEF Made
<1>2. ASSUME NEW x \in Due(p, t)
      PROVE  /\ <<"query", x[1]>> \in later \cup Begins(p, t)
             /\ \A y \in AllSpots(p) : y[1] = x[1] /\ MarkerAt(p, y) \in done => y[2] < x[2]
  <2>1. CASE x \in Due(p, h)
    BY <2>1 DEF Fresh
  <2>2. CASE x \notin Due(p, h)
    <3>1. <<"query", x[1]>> \in Begins(p, t)
      BY <2>2 DEF Follows
    <3>2. <<"query", x[1]>> \notin spent
      BY <3>1, <1>1
    <3>3. \A y \in AllSpots(p) : y[1] = x[1] => MarkerAt(p, y) \notin done
      BY <3>2 DEF Past
    <3> QED
      BY <3>1, <3>3
  <2> QED
    BY <2>1, <2>2
<1>3. Begins(p, t) \cap later = {}
  BY <1>1
<1>4. (t.do = "join" => t.marker \in MarkersIn(p)) /\ (t.do = "mark" => t.marker.id \in MarkersIn(p))
  BY DEF Follows
<1>5. Fresh(p, t, later, entered, done)
  BY <1>1, <1>2, <1>3, <1>4 DEF Fresh
<1> QED
  BY <1>3, <1>5

LEMMA NewApart ==
    ASSUME NEW p, NEW spent, NEW entered, NEW done, Past(p, spent, entered, done),
           NEW h, Fresh(p, h, spent, entered, done), NEW t, Follows(p, h, t),
           Begins(p, t) \cap spent = {},
           NEW u, Fresh(p, u, spent, entered, done)
    PROVE  /\ Before(p, h, u) => Before(p, t, u)
           /\ Unrelated(p, h, u) => Unrelated(p, t, u)
<1>1. Begins(p, t) \cap Begins(p, u) = {}
  <2> SUFFICES ASSUME NEW k \in Begins(p, t), k \in Begins(p, u)
               PROVE  FALSE
    OBVIOUS
  <2>1. PICK j \in Begins(p, h) : Makes(p, j, k)
    BY DEF Follows
  <2>2. j \in Work(p) /\ j \notin spent
    BY <2>1 DEF Fresh, Made
  <2> QED
    BY <2>1, <2>2 DEF Fresh, Made
<1>2. \A x \in Due(p, t), y \in Due(p, u) : x \in Due(p, h) \/ x[1] # y[1]
  <2> SUFFICES ASSUME NEW x \in Due(p, t), NEW y \in Due(p, u), x \notin Due(p, h), x[1] = y[1]
               PROVE  FALSE
    OBVIOUS
  <2>1. <<"query", x[1]>> \in Begins(p, t)
    BY DEF Follows
  <2>2. <<"query", x[1]>> \in spent \cup Begins(p, u)
    BY DEF Fresh
  <2> QED
    BY <1>1, <2>1, <2>2
<1> QED
  BY <1>1, <1>2 DEF Before, Unrelated

\* What is left of another call when call h was made.
LEMMA OthersFresh ==
    ASSUME NEW p, NEW spent, NEW entered, NEW done, NEW more,
           NEW h, NEW u, Fresh(p, u, spent, entered, done), Before(p, h, u),
           \A y \in AllSpots(p) : MarkerAt(p, y) \in more => MarkerAt(p, y) \in done \/ y \in Due(p, h)
    PROVE  Fresh(p, u, spent \cup Begins(p, h), entered, more)
<1> DEFINE later == spent \cup Begins(p, h)
<1>1. Begins(p, u) \cap later = {}
  BY DEF Fresh, Before
<1>2. \A k \in Begins(p, u) : Made(p, k, later, entered)
  BY StillMade DEF Fresh
<1>3. ASSUME NEW x \in Due(p, u)
      PROVE  /\ <<"query", x[1]>> \in later \cup Begins(p, u)
             /\ \A y \in AllSpots(p) : y[1] = x[1] /\ MarkerAt(p, y) \in more => y[2] < x[2]
  BY <1>3 DEF Fresh, Before
<1>4. (u.do = "join" => u.marker \in MarkersIn(p)) /\ (u.do = "mark" => u.marker.id \in MarkersIn(p))
  BY DEF Fresh
<1> QED
  BY <1>1, <1>2, <1>3, <1>4 DEF Fresh

LEMMA StillPast ==
    ASSUME NEW p, NEW spent, NEW entered, NEW done, Past(p, spent, entered, done), NEW more,
           NEW h, Fresh(p, h, spent, entered, done),
           \A y \in AllSpots(p) : MarkerAt(p, y) \in more => MarkerAt(p, y) \in done \/ y \in Due(p, h)
    PROVE  Past(p, spent \cup Begins(p, h), entered, more)
<1> DEFINE later == spent \cup Begins(p, h)
<1>1. \A k \in later : Made(p, k, later, entered)
  <2>1. \A k \in later : Made(p, k, spent, entered)
    BY DEF Past, Fresh
  <2> QED
    BY <2>1, StillMade
<1>2. \A y \in AllSpots(p) : MarkerAt(p, y) \in more => <<"query", y[1]>> \in later
  BY DEF Past, Fresh
<1> QED
  BY <1>1, <1>2 DEF Past

\* The next call is made, and makes others; if it handles a marker itself, it
\* makes none.
LEMMA Proceed ==
    ASSUME NEW p, IsProgram(p), NEW around, NEW calls, IsSequence(calls), calls # <<>>,
           NEW spent, NEW entered, NEW done, Orderly(p, around, calls, spent, entered, done),
           NEW tasks, IsSequence(tasks), InOrder(p, tasks),
           \A t \in ToSet(tasks) : Follows(p, Head(calls), t),
           NEW more, more = done \/ tasks = <<>>,
           \A y \in AllSpots(p) : MarkerAt(p, y) \in more => MarkerAt(p, y) \in done \/ y \in Due(p, Head(calls))
    PROVE  Orderly(p, around, tasks \o Tail(calls), spent \cup Begins(p, Head(calls)), entered, more)
<1> DEFINE h == Head(calls)
           rest == Tail(calls)
           later == spent \cup Begins(p, h)
           old(u) == Fresh(p, u, spent, entered, done)
           new(u) == Fresh(p, u, later, entered, more)
<1>1. h \in ToSet(calls) /\ ToSet(rest) \subseteq ToSet(calls) /\ IsSequence(rest)
  BY TailFacts
<1>2. Past(p, spent, entered, done) /\ InOrder(p, calls) /\ \A u \in ToSet(calls) : old(u)
  BY DEF Orderly
<1>3. InOrder(p, rest) /\ \A u \in ToSet(rest) : Before(p, h, u)
  BY <1>2, OrderedTail
<1>4. ToSet(tasks \o rest) = ToSet(tasks) \cup ToSet(rest)
  BY <1>1, ConcatFacts
<1>5. \A t \in ToSet(tasks) : Follows(p, h, t)
  OBVIOUS
<1>6. ASSUME NEW t \in ToSet(tasks)
      PROVE  new(t) /\ Begins(p, t) \cap spent = {}
  <2>1. more = done
    BY EmptyFacts
  <2> QED
    BY <1>1, <1>2, <1>5, <2>1, NewWork
<1>7. \A u : old(u) /\ Before(p, h, u) => new(u)
  BY OthersFresh
<1>8. \A u : Unrelated(p, h, u) => Before(p, h, u)
  BY DEF Unrelated, Before
<1>9. ASSUME NEW t \in ToSet(tasks), NEW u, old(u)
      PROVE  (Before(p, h, u) => Before(p, t, u)) /\ (Unrelated(p, h, u) => Unrelated(p, t, u))
  BY <1>1, <1>2, <1>5, <1>6, <1>9, NewApart
<1>10. Past(p, later, entered, more)
  BY <1>1, <1>2, StillPast
<1>11. InOrder(p, tasks \o rest) /\ \A u \in ToSet(tasks \o rest) : new(u)
  <2>1. \A u \in ToSet(rest) : old(u) /\ new(u) /\ Before(p, h, u)
    BY <1>1, <1>2, <1>3, <1>7
  <2>2. \A t \in ToSet(tasks), u \in ToSet(rest) : Before(p, t, u)
    BY <1>9, <2>1
  <2> HIDE DEF rest, old, new
  <2> QED
    BY <1>1, <1>3, <1>4, <1>6, <2>1, <2>2, OrderedConcat
<1>12. ASSUME NEW i \in DOMAIN around
       PROVE  /\ InOrder(p, around[i].rest)
              /\ \A t \in ToSet(around[i].rest) : /\ new(t)
                                                  /\ \A u \in ToSet(tasks \o rest) : Unrelated(p, t, u)
  <2>1. /\ InOrder(p, around[i].rest)
        /\ \A t \in ToSet(around[i].rest) : old(t) /\ \A u \in ToSet(calls) : Unrelated(p, t, u)
    BY DEF Orderly
  <2>2. \A t, u : Unrelated(p, t, u) <=> Unrelated(p, u, t)
    BY DEF Unrelated
  <2>3. ASSUME NEW t \in ToSet(around[i].rest)
        PROVE  old(t) /\ Unrelated(p, h, t) /\ \A u \in ToSet(rest) : Unrelated(p, t, u)
    BY <1>1, <2>1, <2>2
  <2> HIDE DEF old, new, rest, h
  <2>4. ASSUME NEW t \in ToSet(around[i].rest)
        PROVE  new(t) /\ \A u \in ToSet(tasks \o rest) : Unrelated(p, t, u)
    BY <1>4, <1>7, <1>8, <1>9, <2>2, <2>3
  <2> QED
    BY <2>1, <2>4
<1>13. \A i, j \in DOMAIN around : i # j =>
          \A t \in ToSet(around[i].rest), u \in ToSet(around[j].rest) : Unrelated(p, t, u)
  BY DEF Orderly
<1>14. Orderly(p, around, tasks \o rest, later, entered, more)
  <2> HIDE DEF rest, later
  <2> QED
    BY <1>10, <1>11, <1>12, <1>13 DEF Orderly
<1> QED
  BY <1>14

\* Another relation is resolved or named.
LEMMA Enter ==
    ASSUME NEW p, NEW around, NEW calls, NEW spent, NEW entered, NEW done,
           Orderly(p, around, calls, spent, entered, done), NEW more, entered \subseteq more
    PROVE  Orderly(p, around, calls, spent, more, done)
<1>1. \A k : Made(p, k, spent, entered) => Made(p, k, spent, more)
  BY StillMade
<1>2. \A t : Fresh(p, t, spent, entered, done) => Fresh(p, t, spent, more, done)
  BY <1>1 DEF Fresh
<1>3. Past(p, spent, more, done)
  BY <1>1 DEF Orderly, Past
<1> QED
  BY <1>2, <1>3 DEF Orderly

\* A call takes the place of another that begins and handles the same.
LEMMA Restate ==
    ASSUME NEW p, NEW around, NEW calls, IsSequence(calls), calls # <<>>,
           NEW spent, NEW entered, NEW done, Orderly(p, around, calls, spent, entered, done),
           NEW t, Begins(p, t) = Begins(p, Head(calls)), Due(p, t) = Due(p, Head(calls)),
           t.do \notin {"join", "mark"}
    PROVE  Orderly(p, around, <<t>> \o Tail(calls), spent, entered, done)
<1> DEFINE h == Head(calls)
           rest == Tail(calls)
           new == <<t>> \o rest
           old(u) == Fresh(p, u, spent, entered, done)
<1>1. h \in ToSet(calls) /\ ToSet(rest) \subseteq ToSet(calls) /\ IsSequence(rest)
  BY TailFacts
<1>2. InOrder(p, calls) /\ \A u \in ToSet(calls) : old(u)
  BY DEF Orderly
<1>3. InOrder(p, rest) /\ \A u \in ToSet(rest) : Before(p, h, u)
  BY <1>2, OrderedTail
<1>4. IsSequence(<<t>>) /\ ToSet(<<t>>) = {t} /\ InOrder(p, <<t>>)
  BY OneFacts DEF InOrder
<1>5. ToSet(new) = {t} \cup ToSet(rest)
  BY <1>1, <1>4, ConcatFacts
<1>6. /\ \A u : Before(p, h, u) => Before(p, t, u)
      /\ \A u : Unrelated(p, u, h) => Unrelated(p, u, t)
  BY DEF Before, Unrelated
<1>7. old(t)
  <2>1. old(h)
    BY <1>1, <1>2
  <2> QED
    BY <2>1 DEF Fresh
<1> HIDE DEF h, rest, old
<1>8. InOrder(p, new)
  BY <1>1, <1>3, <1>4, <1>6, OrderedConcat
<1>9. \A u \in ToSet(new) : old(u)
  BY <1>1, <1>2, <1>5, <1>7
<1>10. \A i \in DOMAIN around :
          /\ InOrder(p, around[i].rest)
          /\ \A v \in ToSet(around[i].rest) : old(v) /\ \A u \in ToSet(calls) : Unrelated(p, v, u)
  BY DEF Orderly, old
<1>11. \A i \in DOMAIN around : \A v \in ToSet(around[i].rest) : \A u \in ToSet(new) : Unrelated(p, v, u)
  BY <1>1, <1>5, <1>6, <1>10
<1> HIDE DEF new
<1>12. Orderly(p, around, new, spent, entered, done)
  BY <1>8, <1>9, <1>10, <1>11 DEF Orderly, old
<1> QED
  BY <1>12 DEF new, rest

\* A relation was lowered: what called for it goes on.
LEMMA Return ==
    ASSUME NEW p, NEW around, IsSequence(around), around # <<>>,
           NEW calls, NEW spent, NEW entered, NEW done,
           Orderly(p, around, calls, spent, entered, done)
    PROVE  Orderly(p, Front(around), Last(around).rest, spent, entered, done)
<1>1. /\ Len(around) \in DOMAIN around /\ Last(around) = around[Len(around)]
      /\ DOMAIN Front(around) \subseteq DOMAIN around
      /\ \A i \in DOMAIN Front(around) : Front(around)[i] = around[i] /\ i # Len(around)
  <2>1. around \in Seq(ToSet(around))
    BY DEF IsSequence
  <2>2. /\ Len(around) \in Nat \ {0} /\ DOMAIN around = 1..Len(around)
        /\ Front(around) = [i \in 1..(Len(around) - 1) |-> around[i]]
    BY <2>1, FrontFacts DEF Front, SubSeq
  <2> QED
    BY <2>2 DEF Last
<1>2. \A t, u : Unrelated(p, t, u) <=> Unrelated(p, u, t)
  BY DEF Unrelated
<1> DEFINE n == Len(around)
<1>3. /\ InOrder(p, around[n].rest)
      /\ \A t \in ToSet(around[n].rest) : Fresh(p, t, spent, entered, done)
  BY <1>1 DEF Orderly
<1>4. ASSUME NEW i \in DOMAIN Front(around)
      PROVE  /\ InOrder(p, Front(around)[i].rest)
             /\ \A t \in ToSet(Front(around)[i].rest) :
                   /\ Fresh(p, t, spent, entered, done)
                   /\ \A u \in ToSet(around[n].rest) : Unrelated(p, t, u)
  BY <1>1 DEF Orderly
<1>5. ASSUME NEW i \in DOMAIN Front(around), NEW j \in DOMAIN Front(around), i # j
      PROVE  \A t \in ToSet(Front(around)[i].rest), u \in ToSet(Front(around)[j].rest) : Unrelated(p, t, u)
  BY <1>1, <1>5 DEF Orderly
<1> HIDE DEF n
<1>6. Past(p, spent, entered, done)
  BY DEF Orderly
<1>7. Orderly(p, Front(around), around[n].rest, spent, entered, done)
  BY <1>3, <1>4, <1>5, <1>6 DEF Orderly
<1> QED
  BY <1>1, <1>7 DEF n

\* Only the query of a relation is called for when it is resolved.
IsBody(p, inner, entered) ==
    \/ inner = <<>>
    \/ \E y \in DOMAIN p.query : y \notin entered /\ IsEntry(p, y) /\ y # p.root /\ inner = <<Lower(y)>>

\* A relation is resolved, by calls of its own.
LEMMA CallIn ==
    ASSUME NEW p, IsProgram(p), NEW around, IsSequence(around), NEW calls, NEW spent, NEW entered, NEW done,
           Orderly(p, around, calls, spent, entered, done), NEW s, NEW inner,
           IsBody(p, inner, entered), NEW more, more = entered \cup {s.body},
           \A y \in DOMAIN p.query : inner = <<Lower(y)>> => y = s.body
    PROVE  Orderly(p, Append(around, [symbol |-> s, rest |-> calls]), inner, spent, more, done)
<1> DEFINE entry == [symbol |-> s, rest |-> calls]
           later == Append(around, entry)
<1>1. /\ DOMAIN later = 1..(Len(around) + 1) /\ Len(around) \in Nat /\ DOMAIN around = 1..Len(around)
      /\ \A i \in 1..Len(around) : later[i] = around[i]
      /\ later[Len(around) + 1].rest = calls
  <2>1. around \in Seq(ToSet(around))
    BY DEF IsSequence
  <2>2. around \in Seq(ToSet(around) \cup {entry})
    <3> HIDE DEF entry
    <3> QED
      BY <2>1
  <2>3. /\ DOMAIN later = 1..(Len(around) + 1) /\ Len(around) \in Nat /\ DOMAIN around = 1..Len(around)
        /\ \A i \in 1..Len(around) : later[i] = around[i]
        /\ later[Len(around) + 1] = entry
    <3> HIDE DEF entry
    <3> QED
      BY <2>2
  <2> QED
    BY <2>3
<1>2. Orderly(p, around, calls, spent, more, done)
  BY Enter
<1>3. /\ InOrder(p, inner)
      /\ \A t \in ToSet(inner) : /\ Fresh(p, t, spent, more, done)
                                 /\ \A u : Fresh(p, u, spent, entered, done) => Unrelated(p, u, t)
  <2>1. CASE inner = <<>>
    BY <2>1, EmptyFacts DEF InOrder
  <2>2. ASSUME NEW y \in DOMAIN p.query, y \notin entered, IsEntry(p, y), y # p.root, inner = <<Lower(y)>>
        PROVE  <1>3!:
    <3> DEFINE t == Lower(y)
               k == <<"query", Bare(p, y)>>
    <3>1. Begins(p, t) = {k} /\ Due(p, t) = Spots(p, Bare(p, y)) /\ t.do \notin {"join", "mark"}
      BY DEF Begins, Due, Lower
    <3>2. k \in Work(p) /\ k[1] = "query" /\ k[2] = Bare(p, y)
      BY SeatFacts DEF Work
    <3>3. y = s.body
      BY <2>2
    <3>4. \A z \in DOMAIN p.query : IsEntry(p, z) /\ <<"query", Bare(p, z)>> = k => z = y
      <4>1. ASSUME NEW z \in DOMAIN p.query, IsEntry(p, z), <<"query", Bare(p, z)>> = k
            PROVE  Bare(p, z) = Bare(p, y)
        BY <4>1
      <4> HIDE DEF k
      <4> QED
        BY <2>2, <4>1, SeatedOnce DEF Seated
    <3>5. \A j \in Work(p) : ~Makes(p, j, k)
      BY <2>2, NoMaker
    <3>6. ~Made(p, k, spent, entered)
      BY <2>2, <3>4 DEF Made
    <3>7. k \notin spent
      BY <3>6 DEF Orderly, Past
    <3>8. Made(p, k, spent, more)
      BY <3>2, <3>3, <3>4, <3>5 DEF Made
    <3>9. \A x \in Due(p, t) : x[1] = Bare(p, y) /\ <<"query", x[1]>> = k
      BY <3>1 DEF Spots
    <3>10. \A z \in AllSpots(p) : z[1] = Bare(p, y) => MarkerAt(p, z) \notin done
      BY <3>7 DEF Orderly, Past
    <3> HIDE DEF t, k
    <3>11. Fresh(p, t, spent, more, done)
      BY <3>1, <3>7, <3>8, <3>9, <3>10 DEF Fresh
    <3>12. ASSUME NEW u, Fresh(p, u, spent, entered, done)
           PROVE  Unrelated(p, u, t)
      <4>1. k \notin Begins(p, u)
        BY <3>6, <3>12 DEF Fresh
      <4>2. \A x \in Due(p, u) : <<"query", x[1]>> \in spent \cup Begins(p, u)
        BY <3>12 DEF Fresh
      <4>3. \A x \in Due(p, u), z \in Due(p, t) : x[1] # z[1]
        BY <3>7, <3>9, <4>1, <4>2
      <4> QED
        BY <3>1, <4>1, <4>3 DEF Unrelated
    <3>13. ToSet(inner) = {t} /\ InOrder(p, inner)
      BY <2>2, OneFacts DEF InOrder, t
    <3> QED
      BY <3>11, <3>12, <3>13
  <2> QED
    BY <2>1, <2>2 DEF IsBody
<1>4. ASSUME NEW i \in DOMAIN later
      PROVE  /\ InOrder(p, later[i].rest)
             /\ \A t \in ToSet(later[i].rest) : /\ Fresh(p, t, spent, more, done)
                                                /\ \A u \in ToSet(inner) : Unrelated(p, t, u)
  <2>1. ASSUME NEW c, InOrder(p, c),
               \A t \in ToSet(c) : Fresh(p, t, spent, entered, done) /\ Fresh(p, t, spent, more, done)
        PROVE  /\ InOrder(p, c)
               /\ \A t \in ToSet(c) : /\ Fresh(p, t, spent, more, done)
                                      /\ \A u \in ToSet(inner) : Unrelated(p, t, u)
    BY <1>3, <2>1
  <2>2. CASE i \in DOMAIN around
    BY <1>1, <1>2, <2>1, <2>2 DEF Orderly
  <2>3. CASE i = Len(around) + 1
    BY <1>1, <1>2, <2>1, <2>3 DEF Orderly
  <2> HIDE DEF later
  <2>4. i \in DOMAIN around \/ i = Len(around) + 1
    BY <1>1
  <2> QED
    BY <2>2, <2>3, <2>4
<1>5. ASSUME NEW i \in DOMAIN later, NEW j \in DOMAIN later, i # j
      PROVE  \A t \in ToSet(later[i].rest), u \in ToSet(later[j].rest) : Unrelated(p, t, u)
  <2> HIDE DEF later
  <2>1. \A t, u : Unrelated(p, t, u) <=> Unrelated(p, u, t)
    BY DEF Unrelated
  <2>2. (i \in DOMAIN around \/ i = Len(around) + 1) /\ (j \in DOMAIN around \/ j = Len(around) + 1)
    BY <1>1
  <2>3. CASE i \in DOMAIN around /\ j \in DOMAIN around
    BY <1>1, <1>5, <2>3 DEF Orderly
  <2>4. CASE i \in DOMAIN around /\ j = Len(around) + 1
    BY <1>1, <2>4 DEF Orderly
  <2>5. CASE i = Len(around) + 1 /\ j \in DOMAIN around
    BY <1>1, <2>1, <2>5 DEF Orderly
  <2> QED
    BY <1>5, <2>2, <2>3, <2>4, <2>5
<1>6. Past(p, spent, more, done)
  BY <1>2 DEF Orderly
<1> HIDE DEF later
<1>7. Orderly(p, later, inner, spent, more, done)
  BY <1>3, <1>4, <1>5, <1>6 DEF Orderly
<1> QED
  BY <1>7 DEF later

-----------------------------------------------------------------------------
(* The calls that the methods make.                                         *)

\* A marker is written in one place.
LEMMA MarkerFacts ==
    ASSUME NEW p, IsProgram(p), NEW q \in DOMAIN p.query, p.query[q].kind = "select"
    PROVE  /\ Len(p.query[q].sources) \in Nat /\ DOMAIN p.query[q].sources = 1..Len(p.query[q].sources)
           /\ Len(p.query[q].markers) \in Nat /\ DOMAIN p.query[q].markers = 1..Len(p.query[q].markers)
           /\ DOMAIN MarkersOn(p.query[q]) = 1..(Len(p.query[q].sources) + Len(p.query[q].markers))
           /\ \A i \in 1..Len(p.query[q].sources) : MarkersOn(p.query[q])[i] = p.query[q].sources[i].joined
           /\ \A i \in 1..Len(p.query[q].markers) :
                 MarkersOn(p.query[q])[Len(p.query[q].sources) + i] = p.query[q].markers[i].id
<1> DEFINE node == p.query[q]
           joins == [i \in DOMAIN node.sources |-> node.sources[i].joined]
           ids == Ids(node.markers)
<1>1. IsSequence(node.sources) /\ IsSequence(node.markers)
  BY TreeFacts
<1>2. ids = [i \in DOMAIN node.markers |-> node.markers[i].id]
  BY DEF Ids
<1>3. MarkersOn(node) = joins \o ids
  BY DEF MarkersOn
<1> HIDE DEF node
<1>4. /\ Len(node.sources) \in Nat /\ DOMAIN node.sources = 1..Len(node.sources)
      /\ Len(node.markers) \in Nat /\ DOMAIN node.markers = 1..Len(node.markers)
  BY <1>1, SequenceFacts
<1>5. /\ IsSequence(joins) /\ Len(joins) = Len(node.sources)
      /\ \A i \in 1..Len(node.sources) : joins[i] = node.sources[i].joined
  BY <1>1, <1>4, EachFacts
<1>6. /\ IsSequence(ids) /\ Len(ids) = Len(node.markers)
      /\ \A i \in 1..Len(node.markers) : ids[i] = node.markers[i].id
  BY <1>1, <1>2, <1>4, EachFacts
<1> HIDE DEF joins, ids
<1>7. /\ DOMAIN (joins \o ids) = 1..(Len(joins) + Len(ids))
      /\ \A i \in 1..Len(joins) : (joins \o ids)[i] = joins[i]
      /\ \A i \in 1..Len(ids) : (joins \o ids)[Len(joins) + i] = ids[i]
  <2>1. IsSequence(joins) /\ IsSequence(ids)
    BY <1>5, <1>6
  <2> HIDE DEF node
  <2> QED
    BY <2>1, ConcatPlaces
<1>8. /\ Len(node.sources) \in Nat /\ DOMAIN node.sources = 1..Len(node.sources)
      /\ Len(node.markers) \in Nat /\ DOMAIN node.markers = 1..Len(node.markers)
      /\ DOMAIN MarkersOn(node) = 1..(Len(node.sources) + Len(node.markers))
      /\ \A i \in 1..Len(node.sources) : MarkersOn(node)[i] = node.sources[i].joined
      /\ \A i \in 1..Len(node.markers) : MarkersOn(node)[Len(node.sources) + i] = node.markers[i].id
  BY <1>3, <1>4, <1>5, <1>6, <1>7
<1> QED
  BY <1>8 DEF node

LEMMA JoinFacts ==
    ASSUME NEW p, IsProgram(p), NEW q \in DOMAIN p.query, p.query[q].kind = "select"
    PROVE  /\ Len(p.query[q].sources) \in Nat /\ DOMAIN p.query[q].sources = 1..Len(p.query[q].sources)
           /\ DOMAIN MarkersOn(p.query[q]) \subseteq Nat
           /\ \A i \in DOMAIN p.query[q].sources :
                 i \in DOMAIN MarkersOn(p.query[q]) /\ MarkersOn(p.query[q])[i] = p.query[q].sources[i].joined
<1> DEFINE a == Len(p.query[q].sources)
           b == Len(p.query[q].markers)
<1>1. /\ a \in Nat /\ b \in Nat /\ DOMAIN p.query[q].sources = 1..a
      /\ DOMAIN MarkersOn(p.query[q]) = 1..(a + b)
      /\ \A i \in 1..a : MarkersOn(p.query[q])[i] = p.query[q].sources[i].joined
  BY MarkerFacts
<1> HIDE DEF a, b
<1>2. 1..a \subseteq 1..(a + b) /\ 1..(a + b) \subseteq Nat
  BY <1>1
<1>3. /\ DOMAIN MarkersOn(p.query[q]) \subseteq Nat
      /\ \A i \in DOMAIN p.query[q].sources :
             i \in DOMAIN MarkersOn(p.query[q]) /\ MarkersOn(p.query[q])[i] = p.query[q].sources[i].joined
  BY <1>1, <1>2
<1> QED
  BY <1>1, <1>3 DEF a

LEMMA OnePlace ==
    ASSUME NEW p, IsProgram(p), NEW q \in DOMAIN p.query, p.query[q].kind = "select",
           NEW i \in DOMAIN MarkersOn(p.query[q]), MarkersOn(p.query[q])[i] # NoMarker
    PROVE  /\ SpotsOf(p, MarkersOn(p.query[q])[i]) = {<<q, i>>}
           /\ MarkersOn(p.query[q])[i] \in MarkersIn(p)
<1> DEFINE m == MarkersOn(p.query[q])[i]
<1>1. <<q, i>> \in AllSpots(p) /\ MarkerAt(p, <<q, i>>) = m
  <2>1. <<q, i>> \in Spots(p, q)
    BY DEF Spots
  <2> QED
    BY <2>1 DEF AllSpots, MarkerAt
<1>2. ASSUME NEW x \in AllSpots(p), MarkerAt(p, x) = m
      PROVE  x = <<q, i>>
  <2>1. PICK r \in DOMAIN p.query : x \in Spots(p, r)
    BY DEF AllSpots
  <2>2. p.query[r].kind = "select" /\ x \in {r} \X DOMAIN MarkersOn(p.query[r])
    BY <2>1 DEF Spots
  <2>3. x = <<r, x[2]>> /\ x[2] \in DOMAIN MarkersOn(p.query[r])
    BY <2>2
  <2>4. MarkersOn(p.query[r])[x[2]] = m
    BY <1>2, <2>3 DEF MarkerAt
  <2>5. r \in Selects(p) /\ q \in Selects(p)
    BY <2>2 DEF Selects
  <2>6. \A v, w \in Selects(p) :
          \A j \in DOMAIN MarkersOn(p.query[v]), k \in DOMAIN MarkersOn(p.query[w]) :
             MarkersOn(p.query[v])[j] = MarkersOn(p.query[w])[k]
             => MarkersOn(p.query[v])[j] = NoMarker \/ (v = w /\ j = k)
    BY DEF IsProgram
  <2>7. r = q /\ x[2] = i
    BY <2>3, <2>4, <2>5, <2>6 DEF m
  <2> QED
    BY <2>3, <2>7
<1>3. m \in MarkersIn(p)
  <2>1. q \in Selects(p) /\ m \in ToSet(MarkersOn(p.query[q])) /\ m # NoMarker
    BY DEF Selects, ToSet
  <2> HIDE DEF m
  <2> QED
    BY <2>1 DEF MarkersIn
<1> HIDE DEF m
<1>4. SpotsOf(p, m) = {<<q, i>>}
  BY <1>1, <1>2 DEF SpotsOf
<1> QED
  BY <1>3, <1>4 DEF m

LEMMA HasPlace ==
    ASSUME NEW p, NEW m \in MarkersIn(p)
    PROVE  m # NoMarker /\ \E x \in SpotsOf(p, m) : x \in AllSpots(p) /\ MarkerAt(p, x) = m
<1>1. PICK q \in Selects(p) : m \in ToSet(MarkersOn(p.query[q]))
  BY DEF MarkersIn
<1>2. PICK i \in DOMAIN MarkersOn(p.query[q]) : m = MarkersOn(p.query[q])[i]
  BY <1>1 DEF ToSet
<1>3. <<q, i>> \in Spots(p, q) /\ q \in DOMAIN p.query
  BY <1>1 DEF Spots, Selects
<1>4. <<q, i>> \in AllSpots(p) /\ MarkerAt(p, <<q, i>>) = m
  BY <1>2, <1>3 DEF AllSpots, MarkerAt
<1>5. m # NoMarker
  BY DEF MarkersIn
<1>6. <<q, i>> \in SpotsOf(p, m)
  BY <1>4 DEF SpotsOf
<1> QED
  BY <1>4, <1>5, <1>6

\* Calls that lower nothing.
IsQuiet(calls) == \A t \in ToSet(calls) : t.do \notin LoweringCalls

LEMMA QuietFacts ==
    ASSUME NEW p, NEW t, t.do \notin LoweringCalls
    PROVE  Begins(p, t) = {} /\ Due(p, t) = {}
BY DEF Begins, Due, LoweringCalls

LEMMA QuietProceed ==
    ASSUME NEW p, IsProgram(p), NEW around, NEW calls, IsSequence(calls), calls # <<>>,
           NEW spent, NEW entered, NEW done, Orderly(p, around, calls, spent, entered, done),
           Head(calls).do \notin LoweringCalls, NEW tasks, IsSequence(tasks), IsQuiet(tasks)
    PROVE  Orderly(p, around, tasks \o Tail(calls), spent, entered, done)
<1>1. \A t \in ToSet(tasks) : Begins(p, t) = {} /\ Due(p, t) = {} /\ t.do \notin {"join", "mark"}
  BY QuietFacts DEF IsQuiet, LoweringCalls
<1>2. \A t \in ToSet(tasks) : Follows(p, Head(calls), t)
  BY <1>1 DEF Follows
<1>3. InOrder(p, tasks)
  BY <1>1 DEF InOrder, Before, ToSet
<1>4. Orderly(p, around, tasks \o Tail(calls), spent \cup Begins(p, Head(calls)), entered, done)
  BY <1>2, <1>3, Proceed
<1>5. spent \cup Begins(p, Head(calls)) = spent
  BY QuietFacts
<1> QED
  BY <1>4, <1>5

\* A marker is handled, for the first time.
Handles(t) == IF t.do = "join" THEN t.marker ELSE t.marker.id

LEMMA HandleProceed ==
    ASSUME NEW p, IsProgram(p), NEW around, NEW calls, IsSequence(calls), calls # <<>>,
           NEW spent, NEW entered, NEW done, Orderly(p, around, calls, spent, entered, done),
           Head(calls).do \in {"join", "mark"}
    PROVE  /\ Handles(Head(calls)) \in MarkersIn(p) \ done
           /\ \A n \in done : Sooner(p, n, Handles(Head(calls)))
           /\ Orderly(p, around, <<>> \o Tail(calls), spent, entered, done \cup {Handles(Head(calls))})
<1> DEFINE h == Head(calls)
           m == Handles(h)
<1>1. h \in ToSet(calls) /\ Fresh(p, h, spent, entered, done)
  BY TailFacts DEF Orderly
<1>2. Due(p, h) = SpotsOf(p, m) /\ Begins(p, h) = {} /\ m \in MarkersIn(p)
  BY <1>1 DEF Due, Begins, Handles, Fresh
<1> HIDE DEF h, m
<1>3. PICK x \in SpotsOf(p, m) : x \in AllSpots(p) /\ MarkerAt(p, x) = m
  BY <1>2, HasPlace
<1>4. m \notin done
  <2>1. x[2] \in Nat
    <3>1. PICK q \in DOMAIN p.query : x \in Spots(p, q)
      BY <1>3 DEF AllSpots
    <3>2. p.query[q].kind = "select" /\ x[2] \in DOMAIN MarkersOn(p.query[q])
      BY <3>1 DEF Spots
    <3>3. /\ Len(p.query[q].sources) \in Nat /\ Len(p.query[q].markers) \in Nat
          /\ x[2] \in 1..(Len(p.query[q].sources) + Len(p.query[q].markers))
      BY <3>2, MarkerFacts
    <3> QED
      BY <3>3
  <2>2. MarkerAt(p, x) \in done => x[2] < x[2]
    BY <1>1, <1>2, <1>3 DEF Fresh
  <2> QED
    BY <1>3, <2>1, <2>2
<1>5. \A y \in AllSpots(p) : MarkerAt(p, y) \in done \cup {m} => MarkerAt(p, y) \in done \/ y \in Due(p, h)
  BY <1>2 DEF SpotsOf
<1>6. IsSequence(<<>>) /\ InOrder(p, <<>>) /\ \A t \in ToSet(<<>>) : Follows(p, h, t)
  BY EmptyFacts DEF InOrder
<1>7. Orderly(p, around, <<>> \o Tail(calls), spent \cup Begins(p, h), entered, done \cup {m})
  BY <1>5, <1>6, Proceed DEF h
<1>8. spent \cup Begins(p, h) = spent
  BY <1>2
<1>9. \A n \in done : Sooner(p, n, m)
  BY <1>1, <1>2 DEF Fresh, Sooner, SpotsOf
<1> QED
  BY <1>2, <1>4, <1>7, <1>8, <1>9 DEF h, m

\* What lowering a query of program p calls.
Reads(p, q) == [i \in DOMAIN p.query[q].sources |-> Read(q, i)]
Filter(c) == [do |-> "filter", conjunct |-> c]
Filters(p, q) == [i \in DOMAIN p.query[q].where |-> Filter(p.query[q].where[i])]
Finish(q) == [do |-> "finish", query |-> q]
Marks(p, q) == [i \in DOMAIN p.query[q].markers |-> Mark("mark", q, p.query[q].markers[i])]

LEMMA CallFacts ==
    ASSUME NEW p, NEW q
    PROVE  /\ \A i : /\ Begins(p, Read(q, i)) = {<<"source", <<q, i>>>>} /\ Due(p, Read(q, i)) = {<<q, i>>}
                     /\ Read(q, i).do \in LoweringCalls \ {"join", "mark"}
           /\ \A c : /\ Begins(p, Filter(c)) = {<<"query", c.body>>} /\ Due(p, Filter(c)) = Spots(p, c.body)
                     /\ Filter(c).do \in LoweringCalls \ {"join", "mark"}
           /\ /\ Begins(p, Finish(q)) = {} /\ Finish(q).do \in LoweringCalls \ {"join", "mark"}
              /\ Due(p, Finish(q)) = {x \in Spots(p, q) : x[2] > Len(p.query[q].sources)}
           /\ /\ Begins(p, Lower(q)) = {<<"query", Bare(p, q)>>} /\ Due(p, Lower(q)) = Spots(p, Bare(p, q))
              /\ Lower(q).do \in LoweringCalls \ {"join", "mark"}
<1>1. \A i : Read(q, i).do = "read" /\ Read(q, i).at = <<q, i>>
  BY DEF Read
<1>2. \A c : Filter(c).do = "filter" /\ Filter(c).conjunct.body = c.body
  BY DEF Filter
<1>3. Finish(q).do = "finish" /\ Finish(q).query = q
  BY DEF Finish
<1>4. Lower(q).do = "lower" /\ Lower(q).query = q
  BY DEF Lower
<1> QED
  BY <1>1, <1>2, <1>3, <1>4 DEF Begins, Due, LoweringCalls

LEMMA ReadsFacts ==
    ASSUME NEW p, IsProgram(p), NEW q \in DOMAIN p.query, p.query[q].kind = "select",
           NEW h, <<"query", q>> \in Begins(p, h), Spots(p, q) \subseteq Due(p, h)
    PROVE  /\ IsSequence(Reads(p, q)) /\ InOrder(p, Reads(p, q))
           /\ \A t \in ToSet(Reads(p, q)) : /\ Follows(p, h, t) /\ t.do \in LoweringCalls
                                            /\ \E i \in 1..Len(p.query[q].sources) : t = Read(q, i)
<1> DEFINE n == Len(p.query[q].sources)
<1>1. n \in Nat /\ DOMAIN p.query[q].sources = 1..n /\ 1..n \subseteq DOMAIN MarkersOn(p.query[q])
  <2> DEFINE m == Len(p.query[q].markers)
  <2>1. n \in Nat /\ m \in Nat /\ DOMAIN p.query[q].sources = 1..n /\ DOMAIN MarkersOn(p.query[q]) = 1..(n + m)
    BY MarkerFacts
  <2> HIDE DEF n, m
  <2>2. 1..n \subseteq 1..(n + m)
    BY <2>1
  <2> QED
    BY <2>1, <2>2
<1>2. IsSequence(p.query[q].sources)
  BY TreeFacts
<1>3. Reads(p, q) = [i \in 1..n |-> Read(q, i)]
  BY <1>1 DEF Reads
<1>4. IsSequence(Reads(p, q)) /\ DOMAIN Reads(p, q) = 1..n /\ \A i \in 1..n : Reads(p, q)[i] = Read(q, i)
  <2> DEFINE f == Reads(p, q)
  <2>1. f = [i \in 1..n |-> f[i]] /\ DOMAIN f = 1..n /\ \A i \in 1..n : f[i] = Read(q, i)
    BY <1>3
  <2> HIDE DEF f, n
  <2>2. IsSequence(f)
    BY <1>1, <2>1, Listed1
  <2> QED
    BY <2>1, <2>2 DEF f
<1>5. \A i, j \in 1..n : i < j => Before(p, Read(q, i), Read(q, j))
  <2>1. ASSUME NEW i \in 1..n, NEW j \in 1..n, i < j
        PROVE  Before(p, Read(q, i), Read(q, j))
    <3>1. i # j
      BY <1>1, <2>1
    <3>2. {<<"source", <<q, i>>>>} \cap {<<"source", <<q, j>>>>} = {}
      BY <3>1
    <3>3. \A x \in {<<q, i>>}, y \in {<<q, j>>} : x[2] < y[2]
      BY <2>1
    <3> QED
      BY <3>2, <3>3, CallFacts DEF Before
  <2> QED
    BY <2>1
<1>6. InOrder(p, Reads(p, q))
  BY <1>4, <1>5 DEF InOrder
<1>7. ASSUME NEW i \in 1..n
      PROVE  Follows(p, h, Read(q, i))
  <2> DEFINE k == <<"source", <<q, i>>>>
  <2>1. k \in Work(p)
    <3>1. q \in Selects(p) /\ <<q, i>> \in {q} \X DOMAIN p.query[q].sources
      BY <1>1 DEF Selects
    <3>2. <<q, i>> \in Sources(p)
      BY <3>1 DEF Sources
    <3> QED
      BY <3>2 DEF Work
  <2>2. Makes(p, <<"query", q>>, k)
    BY DEF Makes
  <2>3. <<q, i>> \in Spots(p, q)
    BY <1>1 DEF Spots
  <2> HIDE DEF k
  <2>4. Begins(p, Read(q, i)) = {k} /\ Due(p, Read(q, i)) = {<<q, i>>} /\ Read(q, i).do \notin {"join", "mark"}
    BY CallFacts DEF k
  <2> QED
    BY <2>1, <2>2, <2>3, <2>4 DEF Follows
<1>8. \A t \in ToSet(Reads(p, q)) : \E i \in 1..n : t = Read(q, i)
  BY <1>4, SequenceFacts DEF ToSet
<1> HIDE DEF n
<1>9. \A t \in ToSet(Reads(p, q)) : Follows(p, h, t) /\ t.do \in LoweringCalls
  BY <1>7, <1>8, CallFacts
<1> QED
  BY <1>4, <1>6, <1>8, <1>9 DEF n

\* A query that a call makes is another one than its own.
LEMMA BranchFacts ==
    ASSUME NEW p, IsProgram(p), NEW spent, NEW entered, NEW done, NEW h, Fresh(p, h, spent, entered, done),
           NEW q \in DOMAIN p.query, Begins(p, h) = {<<"query", q>>}, NEW y \in Branches(p.query[q])
    PROVE  /\ y \in DOMAIN p.query /\ Seated(p, y) /\ Bare(p, y) # q
           /\ Follows(p, h, Lower(y)) /\ \A c : c.body = y /\ Bare(p, y) = y => Follows(p, h, Filter(c))
<1> DEFINE k == <<"query", q>>
           j == <<"query", Bare(p, y)>>
<1>1. y \in DOMAIN p.query /\ Seated(p, y) /\ Bare(p, y) \in DOMAIN p.query /\ p.query[Bare(p, y)].kind # "paren"
  BY SeatFacts
<1>2. Makes(p, k, j)
  BY DEF Makes
<1>3. j \in Work(p)
  BY <1>1 DEF Work
<1>4. Bare(p, y) # q
  <2> SUFFICES ASSUME Bare(p, y) = q PROVE FALSE
    OBVIOUS
  <2>1. j = k
    OBVIOUS
  <2> HIDE DEF j, k
  <2> QED
    BY <1>2, <1>3, <2>1 DEF Fresh, Made, k
<1>5. \A x \in Spots(p, Bare(p, y)) : <<"query", x[1]>> = j
  BY DEF Spots
<1> HIDE DEF j, k
<1>6. Follows(p, h, Lower(y))
  <2>1. Begins(p, Lower(y)) = {j} /\ Due(p, Lower(y)) = Spots(p, Bare(p, y)) /\ Lower(y).do \notin {"join", "mark"}
    BY CallFacts DEF j
  <2> QED
    BY <1>2, <1>3, <1>5, <2>1 DEF Follows, k
<1>7. ASSUME NEW c, c.body = y, Bare(p, y) = y
      PROVE  Follows(p, h, Filter(c))
  <2>1. Begins(p, Filter(c)) = {j} /\ Due(p, Filter(c)) = Spots(p, Bare(p, y)) /\ Filter(c).do \notin {"join", "mark"}
    BY <1>7, CallFacts DEF j
  <2> QED
    BY <1>2, <1>3, <1>5, <2>1 DEF Follows, k
<1> QED
  BY <1>1, <1>4, <1>6, <1>7

LEMMA FiltersFacts ==
    ASSUME NEW p, IsProgram(p), NEW spent, NEW entered, NEW done, NEW h, Fresh(p, h, spent, entered, done),
           NEW q \in DOMAIN p.query, p.query[q].kind = "select", Begins(p, h) = {<<"query", q>>}
    PROVE  /\ IsSequence(Filters(p, q)) /\ InOrder(p, Filters(p, q))
           /\ \A t \in ToSet(Filters(p, q)) :
                 /\ Follows(p, h, t) /\ t.do \in LoweringCalls
                 /\ Begins(p, t) \cap {<<"query", q>>} = {} /\ \A k \in Begins(p, t) : k[1] = "query"
                 /\ \A x \in Due(p, t) : x[1] # q
<1> DEFINE where == p.query[q].where
<1>1. /\ IsSequence(where) /\ \A i \in DOMAIN where : p.query[where[i].body].kind = "select"
      /\ \A i, j \in DOMAIN where : where[i].body = where[j].body => i = j
  <2>1. Places(p.query[q])
    BY DEF IsProgram
  <2> QED
    BY <2>1, TreeFacts, SMTT(30) DEF Places
<1>2. \A i \in DOMAIN where : where[i].body \in Branches(p.query[q])
  BY DEF Branches
<1>3. Filters(p, q) = [i \in DOMAIN where |-> Filter(where[i])]
  BY DEF Filters
<1> HIDE DEF where
<1>4. Len(where) \in Nat /\ DOMAIN where = 1..Len(where)
  BY <1>1, SequenceFacts
<1>5. /\ IsSequence(Filters(p, q)) /\ DOMAIN Filters(p, q) = DOMAIN where
      /\ \A i \in DOMAIN where : Filters(p, q)[i] = Filter(where[i])
  BY <1>3, <1>4, Listed1
<1>6. ASSUME NEW i \in DOMAIN where
      PROVE  /\ Follows(p, h, Filter(where[i]))
             /\ Begins(p, Filter(where[i])) = {<<"query", where[i].body>>} /\ where[i].body # q
             /\ \A x \in Due(p, Filter(where[i])) : x[1] = where[i].body
  <2>1. Bare(p, where[i].body) = where[i].body
    BY <1>1 DEF Bare
  <2>2. Follows(p, h, Filter(where[i])) /\ where[i].body # q
    BY <1>2, <2>1, BranchFacts
  <2>3. Begins(p, Filter(where[i])) = {<<"query", where[i].body>>} /\ Due(p, Filter(where[i])) = Spots(p, where[i].body)
    BY CallFacts
  <2>4. \A x \in Spots(p, where[i].body) : x[1] = where[i].body
    BY DEF Spots
  <2> QED
    BY <2>2, <2>3, <2>4
<1>7. ASSUME NEW i \in DOMAIN where, NEW j \in DOMAIN where, i < j
      PROVE  Before(p, Filter(where[i]), Filter(where[j]))
  <2>1. where[i].body # where[j].body
    BY <1>1, <1>4, <1>7
  <2> QED
    BY <1>6, <2>1 DEF Before
<1>8. InOrder(p, Filters(p, q))
  BY <1>5, <1>7 DEF InOrder
<1>9. ASSUME NEW i \in DOMAIN where
      PROVE  LET t == Filter(where[i]) IN
             /\ Begins(p, t) \cap {<<"query", q>>} = {} /\ \A k \in Begins(p, t) : k[1] = "query"
             /\ \A x \in Due(p, t) : x[1] # q
             /\ t.do \in LoweringCalls
  BY <1>6, CallFacts
<1>10. \A t \in ToSet(Filters(p, q)) : \E i \in DOMAIN where : t = Filter(where[i])
  BY <1>5 DEF ToSet
<1> QED
  BY <1>5, <1>6, <1>8, <1>9, <1>10

\* Calls that may come in the place of h, and are in order.
MayCome(p, h, tasks) ==
    IsSequence(tasks) /\ InOrder(p, tasks) /\ IsLowering(tasks) /\ \A t \in ToSet(tasks) : Follows(p, h, t)

LEMMA PairFacts == ASSUME NEW a, NEW b PROVE <<a>> \o <<b>> = <<a, b>>
<1>1. <<a>> \in Seq({a, b}) /\ <<b>> \in Seq({a, b}) /\ <<a, b>> \in Seq({a, b})
  OBVIOUS
<1>2. /\ Len(<<a>>) = 1 /\ Len(<<b>>) = 1 /\ <<a>>[1] = a /\ <<b>>[1] = b
      /\ Len(<<a, b>>) = 2 /\ <<a, b>>[1] = a /\ <<a, b>>[2] = b
  OBVIOUS
<1> DEFINE s == <<a>>
           t == <<b>>
           u == <<a, b>>
<1> HIDE DEF s, t, u
<1>3. s \o t \in Seq({a, b}) /\ Len(s \o t) = 2 /\ (s \o t)[1] = a /\ (s \o t)[2] = b
  BY <1>1, <1>2 DEF s, t
<1>4. u \in Seq({a, b}) /\ Len(u) = 2 /\ u[1] = a /\ u[2] = b
  BY <1>1, <1>2 DEF u
<1>5. s \o t = u
  <2> DEFINE v == s \o t
  <2>1. v \in Seq({a, b}) /\ Len(v) = 2 /\ v[1] = a /\ v[2] = b
    BY <1>3
  <2> HIDE DEF v
  <2>2. v = [i \in 1..2 |-> v[i]] /\ u = [i \in 1..2 |-> u[i]]
    BY <1>4, <2>1
  <2>3. \A i \in 1..2 : v[i] = u[i]
    BY <1>4, <2>1
  <2>4. v = u
    BY <2>2, <2>3
  <2> QED
    BY <2>4 DEF v
<1> QED
  BY <1>5 DEF s, t, u

LEMMA NoneCome == ASSUME NEW p, NEW h PROVE MayCome(p, h, <<>>)
BY EmptyFacts DEF MayCome, InOrder, IsLowering

LEMMA OneComes == ASSUME NEW p, NEW h, NEW t, Follows(p, h, t), t.do \in LoweringCalls PROVE MayCome(p, h, <<t>>)
<1>1. IsSequence(<<t>>) /\ ToSet(<<t>>) = {t}
  BY OneFacts
<1>2. InOrder(p, <<t>>)
  BY DEF InOrder
<1> QED
  BY <1>1, <1>2 DEF MayCome, IsLowering

LEMMA MoreCome ==
    ASSUME NEW p, NEW h, NEW s, MayCome(p, h, s), NEW t, MayCome(p, h, t),
           \A a \in ToSet(s), b \in ToSet(t) : Before(p, a, b)
    PROVE  MayCome(p, h, s \o t) /\ ToSet(s \o t) = ToSet(s) \cup ToSet(t)
<1>1. IsSequence(s \o t) /\ ToSet(s \o t) = ToSet(s) \cup ToSet(t)
  BY ConcatFacts DEF MayCome
<1>2. InOrder(p, s \o t)
  BY OrderedConcat DEF MayCome
<1> QED
  BY <1>1, <1>2 DEF MayCome, IsLowering

\* The calls that lowering query q makes.
Plan(p, q, tasks) ==
    \/ /\ p.query[q].kind = "setop"
       /\ tasks = <<Lower(p.query[q].arms[1]), Lower(p.query[q].arms[2])>> \o <<Finish(q)>>
    \/ p.query[q].kind = "select" /\ tasks = <<Finish(q)>>
    \/ /\ p.query[q].kind = "select"
       /\ \E filters \in {<<>>, Filters(p, q)} : tasks = (Reads(p, q) \o filters) \o <<Finish(q)>>

LEMMA PlanFacts ==
    ASSUME NEW p, IsProgram(p), NEW spent, NEW entered, NEW done, NEW h, Fresh(p, h, spent, entered, done),
           NEW q \in DOMAIN p.query, Begins(p, h) = {<<"query", q>>}, Due(p, h) = Spots(p, q),
           NEW tasks, Plan(p, q, tasks)
    PROVE  MayCome(p, h, tasks)
<1> DEFINE n == Len(p.query[q].sources)
<1>1. /\ Begins(p, Finish(q)) = {} /\ Finish(q).do \in LoweringCalls \ {"join", "mark"}
      /\ Due(p, Finish(q)) = {x \in Spots(p, q) : x[2] > n}
  BY CallFacts
<1>2. Follows(p, h, Finish(q))
  BY <1>1 DEF Follows
<1>3. MayCome(p, h, <<Finish(q)>>) /\ ToSet(<<Finish(q)>>) = {Finish(q)}
  BY <1>1, <1>2, OneComes, OneFacts
<1>4. CASE p.query[q].kind = "setop"
  <2> DEFINE a == p.query[q].arms[1]
             b == p.query[q].arms[2]
  <2>1. a # b
    <3>1. Places(p.query[q])
      BY DEF IsProgram
    <3> QED
      BY <3>1, <1>4 DEF Places
  <2>2. a \in Branches(p.query[q]) /\ b \in Branches(p.query[q])
    BY <1>4 DEF Branches
  <2>3. \A y \in {a, b} : y \in DOMAIN p.query /\ Seated(p, y) /\ Follows(p, h, Lower(y))
    BY <2>2, BranchFacts
  <2>4. tasks = <<Lower(a), Lower(b)>> \o <<Finish(q)>>
    BY <1>4 DEF Plan
  <2>5. Spots(p, q) = {}
    BY <1>4 DEF Spots
  <2> HIDE DEF a, b
  <2>6. Bare(p, a) # Bare(p, b)
    BY <2>1, <2>3, SeatedOnce
  <2>7. Before(p, Lower(a), Lower(b))
    <3>1. \A y : /\ Begins(p, Lower(y)) = {<<"query", Bare(p, y)>>}
                 /\ Due(p, Lower(y)) = Spots(p, Bare(p, y))
      BY CallFacts
    <3>2. \A r : \A x \in Spots(p, r) : x[1] = r
      BY DEF Spots
    <3> QED
      BY <2>6, <3>1, <3>2 DEF Before
  <2>8. \A y : Before(p, Lower(y), Finish(q))
    BY <1>1, <2>5 DEF Before
  <2>9. MayCome(p, h, <<Lower(a)>> \o <<Lower(b)>>) /\ ToSet(<<Lower(a)>> \o <<Lower(b)>>) = {Lower(a), Lower(b)}
    <3>1. \A y \in {a, b} : MayCome(p, h, <<Lower(y)>>) /\ ToSet(<<Lower(y)>>) = {Lower(y)}
      BY <2>3, CallFacts, OneComes, OneFacts
    <3> QED
      BY <2>7, <3>1, MoreCome
  <2> DEFINE arms == <<Lower(a)>> \o <<Lower(b)>>
  <2>10. arms = <<Lower(a), Lower(b)>>
    BY PairFacts
  <2>11. tasks = arms \o <<Finish(q)>>
    BY <2>4, <2>10
  <2>12. MayCome(p, h, arms) /\ \A t \in ToSet(arms) : t = Lower(a) \/ t = Lower(b)
    BY <2>9
  <2> HIDE DEF arms
  <2>13. \A s \in ToSet(arms), t \in ToSet(<<Finish(q)>>) : Before(p, s, t)
    BY <1>3, <2>8, <2>12
  <2> QED
    BY <1>3, <2>11, <2>12, <2>13, MoreCome
<1>5. CASE p.query[q].kind = "select" /\ tasks = <<Finish(q)>>
  BY <1>3, <1>5
<1>6. ASSUME p.query[q].kind = "select", NEW filters \in {<<>>, Filters(p, q)},
             tasks = (Reads(p, q) \o filters) \o <<Finish(q)>>
      PROVE  MayCome(p, h, tasks)
  <2>1. n \in Nat
    BY <1>6, JoinFacts
  <2>2. /\ MayCome(p, h, Reads(p, q))
        /\ \A t \in ToSet(Reads(p, q)) : \E i \in 1..n : t = Read(q, i)
    <3>1. <<"query", q>> \in Begins(p, h) /\ Spots(p, q) \subseteq Due(p, h)
      OBVIOUS
    <3> QED
      BY <1>6, <3>1, ReadsFacts DEF MayCome, IsLowering
  <2> HIDE DEF n
  <2>3. \A t \in ToSet(Reads(p, q)) : /\ \A k \in Begins(p, t) : k[1] = "source"
                                      /\ \A x \in Due(p, t) : x[1] = q /\ x[2] \in 1..n
    <3>1. \A i \in 1..n : /\ Begins(p, Read(q, i)) = {<<"source", <<q, i>>>>}
                          /\ Due(p, Read(q, i)) = {<<q, i>>}
      BY CallFacts
    <3>2. \A i \in 1..n : /\ \A k \in Begins(p, Read(q, i)) : k[1] = "source"
                          /\ \A x \in Due(p, Read(q, i)) : x[1] = q /\ x[2] \in 1..n
      BY <3>1
    <3> QED
      BY <2>2, <3>2
  <2>4. /\ MayCome(p, h, filters)
        /\ \A t \in ToSet(filters) : /\ \A k \in Begins(p, t) : k[1] = "query"
                                     /\ \A x \in Due(p, t) : x[1] # q
    <3>1. CASE filters = <<>>
      BY <3>1, NoneCome, EmptyFacts
    <3>2. CASE filters = Filters(p, q)
      BY <1>6, <3>2, FiltersFacts DEF MayCome, IsLowering
    <3> QED
      BY <1>6, <3>1, <3>2
  <2>5. \A a \in ToSet(Reads(p, q)), b \in ToSet(filters) : Before(p, a, b)
    <3>1. \A a \in ToSet(Reads(p, q)), b \in ToSet(filters) : \A k \in Begins(p, a) : k \notin Begins(p, b)
      BY <2>3, <2>4
    <3> QED
      BY <2>3, <2>4, <3>1 DEF Before
  <2>6. \A x \in Due(p, Finish(q)) : x[1] = q /\ x[2] > n
    BY <1>1 DEF Spots, n
  <2>7. \A a \in ToSet(Reads(p, q)) : Before(p, a, Finish(q))
    <3>1. \A x, y : x[2] \in 1..n /\ y[2] \in Nat /\ y[2] > n => x[2] < y[2]
      BY <2>1
    <3>2. \A y \in Due(p, Finish(q)) : y[2] \in Nat
      <4>1. \A y \in Spots(p, q) : y[2] \in DOMAIN MarkersOn(p.query[q])
        BY DEF Spots
      <4>2. DOMAIN MarkersOn(p.query[q]) \subseteq Nat
        BY <1>6, JoinFacts
      <4> QED
        BY <1>1, <4>1, <4>2
    <3> QED
      BY <1>1, <2>3, <2>6, <3>1, <3>2 DEF Before
  <2>8. \A a \in ToSet(filters) : Before(p, a, Finish(q))
    BY <1>1, <2>4, <2>6 DEF Before
  <2>9. MayCome(p, h, Reads(p, q) \o filters)
        /\ ToSet(Reads(p, q) \o filters) = ToSet(Reads(p, q)) \cup ToSet(filters)
    BY <2>2, <2>4, <2>5, MoreCome
  <2> QED
    BY <1>3, <1>6, <2>7, <2>8, <2>9, MoreCome
<1> QED
  BY <1>4, <1>5, <1>6 DEF Plan

\* The calls that reading a source makes: its query, then its join.
Join(m) == [do |-> "join", marker |-> m]
Joining(s) == IF s.joined = NoMarker THEN <<>> ELSE <<Join(s.joined)>>
Deriving(s) == IF s.kind = "subquery" THEN <<Lower(s.body)>> ELSE <<>>

LEMMA ReadingFacts ==
    ASSUME NEW p, IsProgram(p), NEW spent, NEW entered, NEW done, Past(p, spent, entered, done),
           NEW h, Fresh(p, h, spent, entered, done),
           NEW q \in DOMAIN p.query, p.query[q].kind = "select", NEW i \in DOMAIN p.query[q].sources,
           Begins(p, h) = {<<"source", <<q, i>>>>}, Due(p, h) = {<<q, i>>}
    PROVE  LET s == p.query[q].sources[i] IN MayCome(p, h, Joining(s)) /\ MayCome(p, h, Deriving(s) \o Joining(s))
<1> DEFINE s == p.query[q].sources[i]
           m == s.joined
<1>1. /\ MarkersOn(p.query[q])[i] = m /\ i \in DOMAIN MarkersOn(p.query[q])
  BY JoinFacts
<1>2. m # NoMarker => SpotsOf(p, m) = {<<q, i>>} /\ m \in MarkersIn(p)
  BY <1>1, OnePlace
<1>3. /\ Begins(p, Join(m)) = {} /\ Due(p, Join(m)) = SpotsOf(p, m)
      /\ Join(m).do = "join" /\ Join(m).marker = m /\ "join" \in LoweringCalls
  BY DEF Begins, Due, Join, LoweringCalls
<1>4. Joining(s) = IF m = NoMarker THEN <<>> ELSE <<Join(m)>>
  BY DEF Joining
<1>5. <<"query", q>> \in spent
  <2>1. \A x \in Due(p, h) : <<"query", x[1]>> \in spent \cup Begins(p, h)
    BY DEF Fresh
  <2>2. <<"query", q>> \in spent \cup {<<"source", <<q, i>>>>}
    BY <2>1
  <2>3. <<"query", q>> # <<"source", <<q, i>>>>
    OBVIOUS
  <2> QED
    BY <2>2, <2>3
<1>6. ASSUME s.kind = "subquery"
      PROVE  /\ Follows(p, h, Lower(s.body))
             /\ m # NoMarker => Before(p, Lower(s.body), Join(m))
  <2> DEFINE y == s.body
             k == <<"query", Bare(p, y)>>
  <2>1. Derives(p, q, i, y)
    BY <1>6, SeatFacts
  <2>2. y \in DOMAIN p.query /\ Bare(p, y) \in DOMAIN p.query /\ p.query[Bare(p, y)].kind # "paren"
    BY <2>1, SeatFacts DEF Derives
  <2>3. k \in Work(p)
    BY <2>2 DEF Work
  <2>4. Makes(p, <<"source", <<q, i>>>>, k)
    BY <1>6 DEF Makes
  <2>5. /\ Begins(p, Lower(y)) = {k} /\ Due(p, Lower(y)) = Spots(p, Bare(p, y))
        /\ Lower(y).do \notin {"join", "mark"}
    BY CallFacts
  <2>6. \A x \in Spots(p, Bare(p, y)) : x[1] = Bare(p, y) /\ <<"query", x[1]>> = k
    BY DEF Spots
  <2>7. Follows(p, h, Lower(y))
    <3> HIDE DEF k, y
    <3> QED
      BY <2>3, <2>4, <2>5, <2>6 DEF Follows
  <2>8. Bare(p, y) # q
    <3>1. k \notin spent
      BY <2>5, <2>7, NewWork
    <3> QED
      BY <1>5, <3>1
  <2>9. m # NoMarker => Before(p, Lower(y), Join(m))
    <3> HIDE DEF k, y, m
    <3> QED
      BY <1>2, <1>3, <2>5, <2>6, <2>8 DEF Before
  <2> QED
    BY <2>7, <2>9
<1> HIDE DEF m
<1>7. m # NoMarker => Follows(p, h, Join(m))
  BY <1>2, <1>3 DEF Follows
<1>8. /\ MayCome(p, h, Joining(s)) /\ (m = NoMarker => ToSet(Joining(s)) = {})
      /\ (m # NoMarker => ToSet(Joining(s)) = {Join(m)})
  <2>1. Join(m).do \in LoweringCalls
    BY <1>3
  <2>2. CASE m = NoMarker
    <3>1. Joining(s) = <<>>
      BY <1>4, <2>2
    <3> QED
      BY <2>2, <3>1, NoneCome, EmptyFacts
  <2>3. CASE m # NoMarker
    <3>1. Joining(s) = <<Join(m)>>
      BY <1>4, <2>3
    <3>2. MayCome(p, h, <<Join(m)>>)
      BY <1>7, <2>1, <2>3, OneComes
    <3> QED
      BY <2>3, <3>1, <3>2, OneFacts
  <2> QED
    BY <2>2, <2>3
<1>9. /\ MayCome(p, h, Deriving(s))
      /\ \A a \in ToSet(Deriving(s)), b \in ToSet(Joining(s)) : Before(p, a, b)
  <2>1. CASE s.kind = "subquery"
    <3>1. Deriving(s) = <<Lower(s.body)>>
      BY <2>1 DEF Deriving
    <3> QED
      <4>1. Lower(s.body).do \in LoweringCalls
        BY CallFacts
      <4>2. MayCome(p, h, <<Lower(s.body)>>) /\ ToSet(<<Lower(s.body)>>) = {Lower(s.body)}
        BY <1>6, <2>1, <4>1, OneComes, OneFacts
      <4> QED
        BY <1>6, <1>8, <2>1, <3>1, <4>2
  <2>2. CASE s.kind # "subquery"
    <3>1. Deriving(s) = <<>>
      BY <2>2 DEF Deriving
    <3> QED
      BY <3>1, NoneCome, EmptyFacts
  <2> QED
    BY <2>1, <2>2
<1> QED
  BY <1>8, <1>9, MoreCome

\* The markers of a select, one after the other.
LEMMA MarksFacts ==
    ASSUME NEW p, IsProgram(p), NEW q \in DOMAIN p.query, p.query[q].kind = "select",
           NEW h, Due(p, h) = {x \in Spots(p, q) : x[2] > Len(p.query[q].sources)}
    PROVE  MayCome(p, h, Marks(p, q))
<1> DEFINE markers == p.query[q].markers
           n == Len(p.query[q].sources)
           mark(i) == Mark("mark", q, markers[i])
<1>1. /\ n \in Nat /\ Len(markers) \in Nat /\ DOMAIN markers = 1..Len(markers)
      /\ DOMAIN MarkersOn(p.query[q]) = 1..(n + Len(markers))
      /\ \A i \in 1..Len(markers) : MarkersOn(p.query[q])[n + i] = markers[i].id
  BY MarkerFacts, ZenonT(30)
<1>2. \A i \in DOMAIN markers : markers[i].id # NoMarker
  <2>1. NoMarker \notin ToSet(Ids(markers))
    BY DEF IsProgram, Selects
  <2> HIDE DEF markers
  <2> QED
    BY <2>1 DEF ToSet, Ids
<1>3. Marks(p, q) = [i \in DOMAIN markers |-> mark(i)]
  BY DEF Marks
<1>4. \A i : mark(i).do = "mark" /\ mark(i).marker = markers[i]
  BY DEF Mark
<1> HIDE DEF markers, mark, n
<1>5. ASSUME NEW i \in 1..Len(markers)
      PROVE  /\ Begins(p, mark(i)) = {} /\ Due(p, mark(i)) = {<<q, n + i>>}
             /\ <<q, n + i>> \in Due(p, h) /\ markers[i].id \in MarkersIn(p)
  <2>1. n + i \in DOMAIN MarkersOn(p.query[q]) /\ n + i > n
    <3>1. \A u, v \in Nat : \A j \in 1..v : u + j \in 1..(u + v) /\ u + j > u
      OBVIOUS
    <3> QED
      BY <1>1, <3>1
  <2>2. MarkersOn(p.query[q])[n + i] = markers[i].id /\ markers[i].id # NoMarker
    BY <1>1, <1>2
  <2>3. SpotsOf(p, markers[i].id) = {<<q, n + i>>} /\ markers[i].id \in MarkersIn(p)
    BY <2>1, <2>2, OnePlace
  <2>4. Begins(p, mark(i)) = {} /\ Due(p, mark(i)) = SpotsOf(p, markers[i].id)
    BY <1>4 DEF Begins, Due
  <2>5. <<q, n + i>> \in Spots(p, q)
    BY <2>1 DEF Spots
  <2> QED
    BY <2>1, <2>3, <2>4, <2>5 DEF n
<1>6. \A i \in 1..Len(markers) : Follows(p, h, mark(i))
  BY <1>4, <1>5 DEF Follows
<1>7. /\ IsSequence(Marks(p, q)) /\ DOMAIN Marks(p, q) = 1..Len(markers)
      /\ \A i \in 1..Len(markers) : Marks(p, q)[i] = mark(i)
  BY <1>1, <1>3, Listed1
<1>8. ASSUME NEW i \in 1..Len(markers), NEW j \in 1..Len(markers), i < j
      PROVE  Before(p, mark(i), mark(j))
  <2>1. n + i < n + j
    BY <1>1, <1>8
  <2>2. \A x \in {<<q, n + i>>}, y \in {<<q, n + j>>} : x[2] < y[2]
    BY <2>1
  <2> QED
    BY <1>5, <2>2 DEF Before
<1>9. /\ InOrder(p, Marks(p, q)) /\ IsLowering(Marks(p, q))
      /\ \A t \in ToSet(Marks(p, q)) : Follows(p, h, t)
  BY <1>4, <1>6, <1>7, <1>8 DEF InOrder, ToSet, IsLowering, LoweringCalls
<1> QED
  BY <1>7, <1>9 DEF MayCome

-----------------------------------------------------------------------------
(* Where a symbol comes from.                                               *)

FromWith(s, p) == \E q \in DOMAIN p.query : \E i \in DOMAIN p.query[q].with : s = Cte(p.query[q].with[i])
FromStatement(s, p) ==
    \E i \in DOMAIN p.statements :
        s = Symbol(p.statements[i].name, p.statements[i].kind, p.statements[i].body, p.statements[i].columns, TRUE)
Sourced(s, p) == s.name \in Names(p) /\ (s.body # NoQuery => FromWith(s, p) \/ FromStatement(s, p))

\* No two symbols have the same query, and no call lowers it but when its
\* symbol is resolved.
LEMMA OneSource ==
    ASSUME NEW p, IsProgram(p), NEW s, Sourced(s, p), s.body # NoQuery
    PROVE  /\ s.body \in DOMAIN p.query /\ IsEntry(p, s.body) /\ s.body # p.root
           /\ \A t : Sourced(t, p) /\ t.body = s.body => t = s
<1>1. /\ \A q, r \in DOMAIN p.query : DirectlyWithin(p.query[q]) \cap DirectlyWithin(p.query[r]) # {} => q = r
      /\ \A q \in DOMAIN p.query : DirectlyWithin(p.query[q]) \cap Outermost(p) = {}
      /\ \A q \in DOMAIN p.query : \A i, j \in DOMAIN p.query[q].with :
            p.query[q].with[i].body = p.query[q].with[j].body => i = j
      /\ \A i \in DOMAIN p.statements : p.statements[i].body # NoQuery =>
            /\ p.statements[i].body # p.root
            /\ \A j \in DOMAIN p.statements : p.statements[i].body = p.statements[j].body => i = j
  BY DEF IsProgram, Places
<1>2. \A q \in DOMAIN p.query : \A i \in DOMAIN p.query[q].with :
         p.query[q].with[i].body \in DirectlyWithin(p.query[q]) /\ p.query[q].with[i].body \in DOMAIN p.query
  <2>1. \A node : \A i \in DOMAIN node.with : node.with[i].body \in DirectlyWithin(node)
    BY DEF DirectlyWithin
  <2> QED
    BY <2>1, TreeFacts
<1>3. /\ \A i \in DOMAIN p.statements : p.statements[i].body # NoQuery => p.statements[i].body \in Outermost(p)
      /\ p.root # NoQuery => p.root \in Outermost(p)
      /\ Outermost(p) \subseteq DOMAIN p.query
  <2>1. \A i \in DOMAIN p.statements : p.statements[i].body \in {t.body : t \in ToSet(p.statements)}
    BY DEF ToSet
  <2> QED
    BY <2>1 DEF Outermost, IsProgram
<1>4. ASSUME NEW t, Sourced(t, p), t.body # NoQuery
      PROVE
         \/ \E q \in DOMAIN p.query : \E i \in DOMAIN p.query[q].with :
               t = Cte(p.query[q].with[i]) /\ t.body = p.query[q].with[i].body
         \/ \E i \in DOMAIN p.statements :
               /\ t.body = p.statements[i].body
               /\ t = Symbol(p.statements[i].name, p.statements[i].kind, p.statements[i].body, p.statements[i].columns, TRUE)
  <2>1. \A entry : Cte(entry).body = entry.body
    BY DEF Cte, Symbol
  <2>2. \A a, b, c, d, e : Symbol(a, b, c, d, e).body = c
    BY DEF Symbol
  <2>5. FromWith(t, p) \/ FromStatement(t, p)
    BY <1>4 DEF Sourced
  <2>6. CASE FromWith(t, p)
    <3>1. PICK q \in DOMAIN p.query : \E i \in DOMAIN p.query[q].with : t = Cte(p.query[q].with[i])
      BY <2>6 DEF FromWith
    <3>2. PICK i \in DOMAIN p.query[q].with : t = Cte(p.query[q].with[i])
      BY <3>1
    <3>3. t.body = p.query[q].with[i].body
      BY <2>1, <3>2
    <3> QED
      BY <3>2, <3>3
  <2>7. CASE FromStatement(t, p)
    <3>1. PICK i \in DOMAIN p.statements :
             t = Symbol(p.statements[i].name, p.statements[i].kind, p.statements[i].body, p.statements[i].columns, TRUE)
      BY <2>7 DEF FromStatement
    <3>2. t.body = p.statements[i].body
      BY <3>1 DEF Symbol
    <3> QED
      BY <3>1, <3>2
  <2> QED
    BY <2>5, <2>6, <2>7
<1>5. CASE \E q \in DOMAIN p.query : \E i \in DOMAIN p.query[q].with :
              s = Cte(p.query[q].with[i]) /\ s.body = p.query[q].with[i].body
  <2>0. PICK q \in DOMAIN p.query : \E i \in DOMAIN p.query[q].with :
              s = Cte(p.query[q].with[i]) /\ s.body = p.query[q].with[i].body
    BY <1>5
  <2>1. PICK i \in DOMAIN p.query[q].with : s = Cte(p.query[q].with[i]) /\ s.body = p.query[q].with[i].body
    BY <2>0
  <2>2. s.body \in DirectlyWithin(p.query[q]) /\ s.body \in DOMAIN p.query /\ s.body \notin Outermost(p)
    BY <1>1, <1>2, <2>1
  <2>3. IsEntry(p, s.body) /\ s.body # p.root
    BY <1>3, <2>1, <2>2 DEF IsEntry, IsCte
  <2>4. ASSUME NEW t, Sourced(t, p), t.body = s.body
        PROVE  t = s
    <3>0. PICK r \in DOMAIN p.query : \E j \in DOMAIN p.query[r].with :
                t = Cte(p.query[r].with[j]) /\ t.body = p.query[r].with[j].body
      BY <1>3, <1>4, <2>2, <2>4
    <3>1. PICK j \in DOMAIN p.query[r].with : t = Cte(p.query[r].with[j]) /\ t.body = p.query[r].with[j].body
      BY <3>0
    <3>2. r = q
      BY <1>1, <1>2, <2>2, <2>4, <3>1
    <3>3. i = j
      BY <1>1, <2>1, <2>4, <3>1, <3>2
    <3> QED
      BY <2>1, <3>1, <3>2, <3>3
  <2> QED
    BY <2>2, <2>3, <2>4
<1>6. CASE \E i \in DOMAIN p.statements :
              /\ s.body = p.statements[i].body
              /\ s = Symbol(p.statements[i].name, p.statements[i].kind, p.statements[i].body, p.statements[i].columns, TRUE)
  <2>1. PICK i \in DOMAIN p.statements :
              /\ s.body = p.statements[i].body
              /\ s = Symbol(p.statements[i].name, p.statements[i].kind, p.statements[i].body, p.statements[i].columns, TRUE)
    BY <1>6
  <2>2. s.body \in Outermost(p) /\ s.body \in DOMAIN p.query /\ s.body # p.root
    BY <1>1, <1>3, <2>1
  <2>3. ASSUME NEW t, Sourced(t, p), t.body = s.body
        PROVE  t = s
    <3>1. \A q \in DOMAIN p.query : \A j \in DOMAIN p.query[q].with : s.body # p.query[q].with[j].body
      BY <1>1, <1>2, <2>2
    <3>2. PICK j \in DOMAIN p.statements :
              /\ t.body = p.statements[j].body
              /\ t = Symbol(p.statements[j].name, p.statements[j].kind, p.statements[j].body, p.statements[j].columns, TRUE)
      BY <1>4, <2>3, <3>1
    <3>3. i = j
      BY <1>1, <2>1, <2>3, <3>2
    <3> QED
      BY <2>1, <3>2, <3>3
  <2> QED
    BY <2>2, <2>3 DEF IsEntry
<1> QED
  BY <1>4, <1>5, <1>6

RelationsSourced == \A s \in ToSet(symbols) : Sourced(s, program)

Discovering == DeclareStatement \/ DiscoverQuery \/ BindSource \/ FindTarget

LEMMA MeetSourced ==
    ASSUME IInv, RelationsSourced, program' = program, NEW q \in DOMAIN scopes, NEW name \in Names(program),
           NEW columns, Meet(SymbolFor(name, scopes[q]), columns)
    PROVE  RelationsSourced'
<1> DEFINE s == SymbolFor(name, scopes[q])
<1>1. s \in ToSet(symbols) \/ s = Undeclared(name)
  BY SymbolFacts
<1>2. Undeclared(name).name = name /\ Undeclared(name).body = NoQuery
  BY DEF Undeclared, Symbol
<1> HIDE DEF s
<1>3. Sourced(s, program)
  BY <1>1, <1>2 DEF RelationsSourced, Sourced
<1>4. Meet(s, columns)
  BY DEF s
<1>5. symbols' = symbols \/ symbols' = Append(symbols, s)
  BY <1>4 DEF Meet
<1>6. IsSequence(symbols)
  BY DEF IInv, NamesKnown
<1>7. ToSet(symbols') \subseteq ToSet(symbols) \cup {s}
  BY <1>5, <1>6, AppendFacts
<1> QED
  BY <1>3, <1>7 DEF RelationsSourced

LEMMA SourcedInit == Init => RelationsSourced
BY EmptyFacts DEF Init, RelationsSourced

LEMMA SourcedKept == IInv /\ RelationsSourced /\ [Next]_vars => RelationsSourced'
<1> SUFFICES ASSUME IInv, RelationsSourced, [Next]_vars PROVE RelationsSourced'
  OBVIOUS
<1>1. IsSequence(symbols) /\ IsProgram(program)
  BY DEF IInv, NamesKnown
<1>2. CASE DeclareStatement
  <2> DEFINE s == Task.statement
             symbol == Symbol(s.name, s.kind, s.body, s.columns, TRUE)
  <2>1. s \in ToSet(program.statements) /\ program' = program
    BY <1>2, StatementCall DEF DeclareStatement
  <2>2. symbols' = symbols \/ symbols' = Append(symbols, symbol)
    BY <1>2 DEF DeclareStatement, Declare, Amend
  <2>3. Sourced(symbol, program)
    <3>1. PICK i \in DOMAIN program.statements : s = program.statements[i]
      BY <2>1 DEF ToSet
    <3>2. symbol.name = s.name
      BY DEF Symbol
    <3> HIDE DEF s
    <3> QED
      BY <3>1, <3>2, NamesWritten DEF Sourced, FromStatement
  <2> HIDE DEF symbol
  <2>4. ToSet(symbols') \subseteq ToSet(symbols) \cup {symbol}
    BY <1>1, <2>2, AppendFacts
  <2> QED
    BY <2>1, <2>3, <2>4 DEF RelationsSourced
<1>3. CASE DiscoverQuery
  <2> DEFINE q == Task.query
             ctes == [i \in DOMAIN Node(q).with |-> Cte(Node(q).with[i])]
  <2>1. q \in DOMAIN program.query /\ program' = program
    BY <1>3, DiscoverCall DEF DiscoverQuery
  <2>2. symbols' = symbols \/ symbols' = symbols \o ctes
    BY <1>3 DEF DiscoverQuery
  <2>3. IsSequence(ctes) /\ \A t \in ToSet(ctes) : \E i \in DOMAIN Node(q).with : t = Cte(Node(q).with[i])
    <3>1. IsSequence(Node(q).with)
      BY <1>1, <2>1, TreeFacts DEF Node
    <3>2. ctes = [i \in DOMAIN Node(q).with |-> ctes[i]]
      OBVIOUS
    <3>3. IsSequence(ctes)
      BY <3>1, <3>2, EachFacts
    <3> QED
      BY <3>3 DEF ToSet
  <2>4. \A i \in DOMAIN Node(q).with : Sourced(Cte(Node(q).with[i]), program)
    <3>1. \A entry : Cte(entry).name = entry.name
      BY DEF Cte, Symbol
    <3> HIDE DEF q
    <3> QED
      BY <2>1, <3>1, NamesWritten DEF Sourced, FromWith, Node
  <2> HIDE DEF ctes, q
  <2>5. ToSet(symbols') \subseteq ToSet(symbols) \cup ToSet(ctes)
    BY <1>1, <2>2, <2>3, ConcatFacts
  <2> QED
    BY <2>1, <2>3, <2>4, <2>5 DEF RelationsSourced
<1>4. CASE BindSource
  <2> DEFINE o == Task.at
  <2>1. /\ o[1] \in DOMAIN program.query /\ program.query[o[1]].kind = "select"
        /\ o[2] \in DOMAIN program.query[o[1]].sources /\ o[1] \in DOMAIN scopes /\ program' = program
    BY <1>4, BindCall DEF BindSource
  <2>2. symbols' = symbols \/ Meet(SymbolFor(Source(o).name, scopes[o[1]]), {})
    BY <1>4 DEF BindSource
  <2> HIDE DEF o
  <2>3. Source(o).name \in Names(program)
    BY <2>1, NamesWritten DEF Source, Node
  <2> QED
    BY <2>1, <2>2, <2>3, MeetSourced DEF RelationsSourced
<1>5. CASE FindTarget
  <2> DEFINE m == Task.marker
             q == Task.query
  <2>1. q \in DOMAIN scopes /\ program' = program /\ m.references \in Names(program)
    BY <1>5, ScopedCall, TaskFacts DEF FindTarget, KnownCall
  <2>2. symbols' = symbols \/ \E columns : Meet(SymbolFor(m.references, scopes[q]), columns)
    BY <1>5 DEF FindTarget
  <2> HIDE DEF m, q
  <2> QED
    BY <2>1, <2>2, MeetSourced DEF RelationsSourced
<1>6. CASE UNCHANGED <<program, symbols>>
  BY <1>6 DEF RelationsSourced
<1>7. [Next]_vars /\ ~Discovering => UNCHANGED <<program, symbols>>
  <2>1. ASSUME \/ DiscoverViews \/ DiscoverView \/ RequireColumns \/ DiscoverConstraints \/ DiscoverConstraintsOf
               \/ DiscoverReference \/ Propagate \/ LowerQuery \/ ReadSource \/ FilterRows \/ ResolveSymbol
               \/ NameRelation \/ AssertJoin \/ FinishQuery \/ RegisterMarker
        PROVE  UNCHANGED <<program, symbols>>
    BY <2>1 DEF DiscoverViews, DiscoverView, RequireColumns, DiscoverConstraints, DiscoverConstraintsOf,
                DiscoverReference, Propagate, LowerQuery, ReadSource, FilterRows, ResolveSymbol, NameRelation,
                AssertJoin, FinishQuery, RegisterMarker, binding
  <2>2. ASSUME \/ LinkConstraints \/ LinkReference \/ ConstrainReference \/ LinkMarkers \/ StateReference
               \/ PlaceAssertion \/ ReportUnanalyzed \/ Settle
        PROVE  UNCHANGED <<program, symbols>>
    BY <2>2 DEF LinkConstraints, LinkReference, ConstrainReference, LinkMarkers, StateReference,
                PlaceAssertion, ReportUnanalyzed, Settle, binding
  <2>3. UNCHANGED vars => UNCHANGED <<program, symbols>>
    BY DEF vars, binding
  <2> QED
    BY <2>1, <2>2, <2>3 DEF Next, Discovering
<1> QED
  BY <1>2, <1>3, <1>4, <1>5, <1>6, <1>7 DEF Discovering

-----------------------------------------------------------------------------
(* The steps that lower nothing: declarations, discovery, linking.          *)

EarlyCalls == {"declare", "views", "view", "discover", "bind", "require", "target", "constraints",
               "constraints of", "constraint", "propagate", "links", "link", "constrain", "resolve"}
IsEarly(calls) == IsSequence(calls) /\ \A t \in ToSet(calls) : t.do \in EarlyCalls

LEMMA EarlyEach ==
    ASSUME NEW s, IsSequence(s), NEW f, f = [i \in DOMAIN s |-> f[i]], \A i \in DOMAIN s : f[i].do \in EarlyCalls
    PROVE  IsEarly(f)
BY EachFacts, SequenceFacts DEF IsEarly

LEMMA EarlyFew ==
    /\ IsEarly(<<>>)
    /\ \A t : t.do \in EarlyCalls => IsEarly(<<t>>)
    /\ \A s, t : IsEarly(s) /\ IsEarly(t) => IsEarly(s \o t)
BY EmptyFacts, OneFacts, ConcatFacts DEF IsEarly

LEMMA EarlyWithin ==
    ASSUME NEW q \in DOMAIN program.query, IsProgram(program), NEW scope, NEW outer
    PROVE  IsEarly(Within(q, scope, outer))
<1> DEFINE node == Node(q)
<1>1. /\ \A i : Bind(q, i).do \in EarlyCalls
      /\ \A m : Mark("target", q, m).do \in EarlyCalls
      /\ \A r, s : Discover(r, s).do \in EarlyCalls
      /\ Require(q).do \in EarlyCalls
  BY DEF Bind, Mark, Discover, Require, EarlyCalls
<1>2. /\ node.kind \in {"select", "setop", "paren"} /\ IsSequence(node.with)
      /\ node.kind = "select" => IsSequence(node.sources) /\ IsSequence(node.where) /\ IsSequence(node.markers)
  BY TreeFacts DEF Node
<1> HIDE DEF node
<1>3. CASE node.kind = "paren"
  BY <1>3, EarlyFew DEF Within, node
<1>4. CASE node.kind = "setop"
  <2> DEFINE arms == [i \in 1..2 |-> Discover(node.arms[i], scope)]
  <2>1. arms = [i \in 1..2 |-> arms[i]] /\ \A i \in 1..2 : arms[i].do \in EarlyCalls
    BY <1>1
  <2> HIDE DEF arms
  <2>2. IsSequence(arms) /\ DOMAIN arms = 1..2
    BY <2>1, Listed1
  <2>3. IsEarly(arms)
    BY <2>1, <2>2 DEF IsEarly, ToSet
  <2> QED
    BY <1>4, <2>3 DEF Within, arms, node
<1>5. CASE node.kind = "select"
  <2> DEFINE binds == [i \in DOMAIN node.sources |-> Bind(q, i)]
             finds == [i \in DOMAIN node.markers |-> Mark("target", q, node.markers[i])]
             looks == [i \in DOMAIN node.where |-> Discover(node.where[i].body, scope)]
             bodies == Bodies(q, scope, outer)
  <2>1. IsEarly(binds)
    BY <1>1, <1>2, <1>5, EarlyEach
  <2>2. IsEarly(finds)
    BY <1>1, <1>2, <1>5, EarlyEach
  <2>3. IsEarly(looks)
    BY <1>1, <1>2, <1>5, EarlyEach
  <2>4. IsEarly(bodies)
    <3>1. bodies = [i \in DOMAIN node.with |-> Discover(node.with[i].body, scope)]
      BY DEF Bodies, node
    <3>2. bodies = [i \in DOMAIN node.with |-> bodies[i]] /\ \A i \in DOMAIN node.with : bodies[i].do \in EarlyCalls
      BY <1>1, <3>1
    <3> HIDE DEF bodies
    <3> QED
      BY <1>2, <3>2, EarlyEach
  <2>5. Within(q, scope, outer) = binds \o <<Require(q)>> \o finds \o looks \o bodies
    BY <1>5 DEF Within, node
  <2> HIDE DEF binds, finds, looks, bodies
  <2>6. IsEarly(<<Require(q)>>)
    BY <1>1, EarlyFew
  <2>7. IsEarly(binds \o <<Require(q)>>)
    BY <2>1, <2>6, EarlyFew
  <2>8. IsEarly(binds \o <<Require(q)>> \o finds)
    BY <2>2, <2>7, EarlyFew
  <2>9. IsEarly(binds \o <<Require(q)>> \o finds \o looks)
    BY <2>3, <2>8, EarlyFew
  <2> QED
    BY <2>4, <2>5, <2>9, EarlyFew
<1> QED
  BY <1>2, <1>3, <1>4, <1>5

\* The next call is replaced by calls of its own, or made again.
Replaced == agenda' = agenda \/ \E tasks : IsEarly(tasks) /\ agenda' = tasks \o Tail(agenda)

LEMMA ReplacedBy ==
    ASSUME NEW tasks, IsEarly(tasks), Then(tasks)
    PROVE  Replaced
BY DEF Then, Replaced

Preparing == DeclareStatement \/ DiscoverViews \/ DiscoverView \/ DiscoverQuery \/ BindSource \/ RequireColumns
             \/ FindTarget \/ DiscoverConstraints \/ DiscoverConstraintsOf \/ DiscoverReference \/ Propagate
             \/ LinkConstraints \/ LinkReference \/ ConstrainReference

\* What is reported is about names; nothing is reported of a marker.
AboutNames(found, p) == \A d \in found : d[2] \in Names(p)

Reported == \E found : AboutNames(found, program) /\ Report(found)

LEMMA Reports ==
    /\ \A p : AboutNames({}, p)
    /\ \A p : \A name \in Names(p) : \A what : AboutNames({<<what, name>>}, p)
    /\ \A p : \A name \in Names(p) : \A S : AboutNames({<<what, name>> : what \in S}, p)
    /\ \A p : \A s : s.name \in Names(p) => AboutNames(Refusals(s), p)
    /\ \A found : AboutNames(found, program) /\ Report(found) => Reported
    /\ UNCHANGED diagnostics => Reported
<1>1. /\ \A p : AboutNames({}, p)
      /\ \A p : \A name \in Names(p) : \A what : AboutNames({<<what, name>>}, p)
      /\ \A p : \A name \in Names(p) : \A S : AboutNames({<<what, name>> : what \in S}, p)
  BY DEF AboutNames
<1>2. \A s : Refusals(s) = {} \/ \E what : Refusals(s) = {<<what, s.name>>}
  <2> TAKE s
  <2>1. \/ Refusals(s) = {} \/ Refusals(s) = {<<"unsupported", s.name>>}
        \/ Refusals(s) = {<<"constraint without table", s.name>>}
    BY DEF Refusals
  <2> QED
    BY <2>1
<1>3. ASSUME NEW p, NEW s, s.name \in Names(p)
      PROVE  AboutNames(Refusals(s), p)
  BY <1>1, <1>2, <1>3
<1>4. UNCHANGED diagnostics => Report({})
  BY DEF Report
<1> QED
  BY <1>1, <1>3, <1>4 DEF Reported

LEMMA PreparingFacts ==
    ASSUME IInv, RelationsSourced, Preparing
    PROVE  /\ ~crashed /\ agenda # <<>> /\ Head(agenda).do \in EarlyCalls /\ callers = <<>>
           /\ UNCHANGED <<program, linking, marking>>
           /\ Reported
           /\ crashed' => agenda' = agenda
           /\ Replaced
<1>1. /\ IsProgram(program) /\ IsSequence(symbols) /\ IsSequence(references)
      /\ \A s \in DOMAIN constraints : IsSequence(constraints[s])
      /\ \A s \in ToSet(symbols) : s.declared => s \in DOMAIN constraints
  BY DEF IInv, NamesKnown, ReferencesKnown
<1>2. ASSUME NEW what \in EarlyCalls, Doing(what)
      PROVE  ~crashed /\ agenda # <<>> /\ Head(agenda).do \in EarlyCalls /\ callers = <<>>
  BY <1>2, TaskFacts DEF Doing, Task, EarlyCalls, LoweringCalls
<1>3. UNCHANGED diagnostics => Reported
  BY Reports
<1>4. CASE DeclareStatement
  <2> DEFINE s == Task.statement
  <2>1. Doing("declare") /\ Then(<<>>) /\ UNCHANGED <<program, linking, marking, crashed>>
    BY <1>4 DEF DeclareStatement
  <2>2. s.name \in Names(program)
    <3>1. s \in ToSet(program.statements)
      BY <2>1, StatementCall
    <3> QED
      BY <3>1 DEF Names
  <2>3. \/ UNCHANGED diagnostics \/ Report({<<"duplicate", s.name>>}) \/ Report(Refusals(s))
        \/ Report({}) \/ Report({<<"unsupported", s.name>>})
    BY <1>4 DEF DeclareStatement, Declare, Amend
  <2> HIDE DEF s
  <2>4. Reported
    BY <2>2, <2>3, Reports
  <2> QED
    BY <1>2, <2>1, <2>4, EarlyFew, ReplacedBy DEF EarlyCalls
<1>5. CASE ConstrainReference
  <2> DEFINE r == Task.reference
  <2>1. Doing("constrain") /\ Then(<<>>) /\ UNCHANGED <<program, linking, marking, crashed>>
    BY <1>5 DEF ConstrainReference
  <2>2. r.table.name \in Names(program)
    <3>1. r.table \in ToSet(symbols)
      BY <2>1, ReferenceCall
    <3> QED
      BY <3>1 DEF RelationsSourced, Sourced
  <2>3. \E problems : Report({<<what, r.table.name>> : what \in problems \ {"unknown key"}})
    BY <1>5 DEF ConstrainReference
  <2>4. Reported
    <3> HIDE DEF r
    <3> QED
      BY <2>2, <2>3, Reports
  <2> QED
    BY <1>2, <2>1, <2>4, EarlyFew, ReplacedBy DEF EarlyCalls
<1>6. CASE RequireColumns
  <2>1. Doing("require") /\ Then(<<>>) /\ UNCHANGED <<program, linking, marking, crashed, diagnostics>>
    BY <1>6 DEF RequireColumns
  <2> QED
    BY <1>2, <1>3, <2>1, EarlyFew, ReplacedBy DEF EarlyCalls
<1>7. CASE FindTarget
  <2>1. Doing("target") /\ Then(<<>>) /\ UNCHANGED <<program, linking, marking, crashed, diagnostics>>
    BY <1>7 DEF FindTarget
  <2> QED
    BY <1>2, <1>3, <2>1, EarlyFew, ReplacedBy DEF EarlyCalls
<1>8. CASE DiscoverReference
  <2>1. Doing("constraint") /\ Then(<<>>) /\ UNCHANGED <<program, linking, marking, crashed, diagnostics>>
    BY <1>8 DEF DiscoverReference
  <2> QED
    BY <1>2, <1>3, <2>1, EarlyFew, ReplacedBy DEF EarlyCalls
<1>9. CASE DiscoverViews
  <2> DEFINE tasks == [i \in DOMAIN symbols |-> About("view", symbols[i])]
  <2>1. Doing("views") /\ Then(tasks) /\ UNCHANGED <<program, linking, marking, crashed, diagnostics>>
    BY <1>9 DEF DiscoverViews
  <2>2. IsEarly(tasks)
    <3>1. \A i \in DOMAIN symbols : tasks[i].do \in EarlyCalls
      BY DEF About, EarlyCalls
    <3> QED
      BY <1>1, <3>1, EarlyEach
  <2> HIDE DEF tasks
  <2> QED
    BY <1>2, <1>3, <2>1, <2>2, ReplacedBy DEF EarlyCalls
<1>10. CASE DiscoverView
  <2> DEFINE s == Task.symbol
             tasks == IF s.role = "VIEW" /\ s.body # NoQuery THEN <<Discover(s.body, NoEntry)>> ELSE <<>>
  <2>1. Doing("view") /\ Then(tasks) /\ UNCHANGED <<program, linking, marking, crashed, diagnostics>>
    BY <1>10 DEF DiscoverView
  <2>2. IsEarly(tasks)
    <3>1. Discover(s.body, NoEntry).do \in EarlyCalls
      BY DEF Discover, EarlyCalls
    <3> QED
      BY <3>1, EarlyFew
  <2> HIDE DEF tasks
  <2> QED
    BY <1>2, <1>3, <2>1, <2>2, ReplacedBy DEF EarlyCalls
<1>11. CASE DiscoverQuery
  <2> DEFINE q == Task.query
             scope == Visible(Node(q).with, Task.scope)
  <2>1. Doing("discover") /\ UNCHANGED <<program, linking, marking, crashed, diagnostics>>
    BY <1>11 DEF DiscoverQuery
  <2>2. Then(<<>>) \/ Then(Within(q, scope, Task.scope))
    BY <1>11 DEF DiscoverQuery
  <2>3. q \in DOMAIN program.query
    BY <2>1, DiscoverCall
  <2> HIDE DEF q, scope
  <2>4. IsEarly(Within(q, scope, Task.scope)) /\ IsEarly(<<>>)
    BY <1>1, <2>3, EarlyWithin, EarlyFew
  <2>5. Replaced
    BY <2>2, <2>4, ReplacedBy
  <2> QED
    BY <1>2, <1>3, <2>1, <2>5 DEF EarlyCalls
<1>12. CASE BindSource
  <2> DEFINE source == Source(Task.at)
             tasks == IF source.kind = "subquery" THEN <<Discover(source.body, scopes[Task.at[1]])>> ELSE <<>>
  <2>1. Doing("bind") /\ Then(tasks) /\ UNCHANGED <<program, linking, marking, crashed, diagnostics>>
    BY <1>12 DEF BindSource
  <2>2. IsEarly(tasks)
    <3>1. Discover(source.body, scopes[Task.at[1]]).do \in EarlyCalls
      BY DEF Discover, EarlyCalls
    <3> QED
      BY <3>1, EarlyFew
  <2> HIDE DEF tasks
  <2> QED
    BY <1>2, <1>3, <2>1, <2>2, ReplacedBy DEF EarlyCalls
<1>13. CASE DiscoverConstraints
  <2> DEFINE tasks == [i \in DOMAIN symbols |-> About("constraints of", symbols[i])]
  <2>1. Doing("constraints") /\ Then(tasks) /\ UNCHANGED <<program, linking, marking, crashed, diagnostics>>
    BY <1>13 DEF DiscoverConstraints
  <2>2. IsEarly(tasks)
    <3>1. \A i \in DOMAIN symbols : tasks[i].do \in EarlyCalls
      BY DEF About, EarlyCalls
    <3> QED
      BY <1>1, <3>1, EarlyEach
  <2> HIDE DEF tasks
  <2> QED
    BY <1>2, <1>3, <2>1, <2>2, ReplacedBy DEF EarlyCalls
<1>14. CASE DiscoverConstraintsOf
  <2> DEFINE s == Task.symbol
             task(i) == [do |-> "constraint", symbol |-> s, constraint |-> ConstraintsOf(s)[i]]
             tasks == [i \in DOMAIN ConstraintsOf(s) |-> task(i)]
  <2>1. Doing("constraints of") /\ Then(tasks) /\ UNCHANGED <<program, linking, marking, crashed, diagnostics>>
    BY <1>14 DEF DiscoverConstraintsOf
  <2>2. IsSequence(ConstraintsOf(s))
    BY <1>1, <2>1, SymbolCall, EmptyFacts DEF ConstraintsOf
  <2>3. IsEarly(tasks)
    <3>1. \A i \in DOMAIN ConstraintsOf(s) : tasks[i].do \in EarlyCalls
      BY DEF EarlyCalls
    <3> QED
      BY <2>2, <3>1, EarlyEach
  <2> HIDE DEF tasks
  <2> QED
    BY <1>2, <1>3, <2>1, <2>3, ReplacedBy DEF EarlyCalls
<1>15. CASE Propagate
  <2>1. Doing("propagate") /\ UNCHANGED <<program, linking, marking, diagnostics>>
    BY <1>15 DEF Propagate
  <2>2. (Then(<<>>) /\ crashed' = crashed) \/ agenda' = agenda
    BY <1>15 DEF Propagate, Crash
  <2>3. Replaced
    BY <2>2, EarlyFew, ReplacedBy DEF Replaced
  <2>4. crashed' => agenda' = agenda
    <3>1. Doing("propagate") => ~crashed
      BY DEF Doing
    <3> QED
      BY <2>1, <2>2, <3>1
  <2> QED
    BY <1>2, <1>3, <2>1, <2>3, <2>4 DEF EarlyCalls
<1>16. CASE LinkConstraints
  <2> DEFINE tasks == [i \in DOMAIN references |-> Reference("link", references[i])]
  <2>1. Doing("links") /\ Then(tasks) /\ UNCHANGED <<program, linking, marking, crashed, diagnostics>>
    BY <1>16 DEF LinkConstraints
  <2>2. IsEarly(tasks)
    <3>1. \A i \in DOMAIN references : tasks[i].do \in EarlyCalls
      BY DEF Reference, EarlyCalls
    <3> QED
      BY <1>1, <3>1, EarlyEach
  <2> HIDE DEF tasks
  <2> QED
    BY <1>2, <1>3, <2>1, <2>2, ReplacedBy DEF EarlyCalls
<1>17. CASE LinkReference
  <2> DEFINE r == Task.reference
             tasks == <<Resolve(r.table), Resolve(r.target), Reference("constrain", r)>>
  <2>1. Doing("link") /\ Then(tasks) /\ UNCHANGED <<program, linking, marking, crashed, diagnostics>>
    BY <1>17 DEF LinkReference
  <2>2. IsEarly(tasks)
    <3>1. \A s : Resolve(s).do \in EarlyCalls /\ Reference("constrain", r).do \in EarlyCalls
      BY DEF Resolve, About, Reference, EarlyCalls
    <3>2. tasks = <<Resolve(r.table)>> \o (<<Resolve(r.target)>> \o <<Reference("constrain", r)>>)
      OBVIOUS
    <3> HIDE DEF tasks
    <3>3. IsEarly(<<Resolve(r.target)>> \o <<Reference("constrain", r)>>)
      BY <3>1, EarlyFew
    <3> QED
      BY <3>1, <3>2, <3>3, EarlyFew
  <2> HIDE DEF tasks
  <2> QED
    BY <1>2, <1>3, <2>1, <2>2, ReplacedBy DEF EarlyCalls
<1> QED
  BY <1>4, <1>5, <1>6, <1>7, <1>8, <1>9, <1>10, <1>11, <1>12, <1>13, <1>14, <1>15, <1>16, <1>17 DEF Preparing

-----------------------------------------------------------------------------
(* The calls of a state are in order, whatever was lowered until then.      *)

\* The stages of linking that calls begin; every call but these is plain.
Stage(t) ==
    IF t.do = "refer" THEN 1 ELSE IF t.do = "references" THEN 2 ELSE IF t.do = "place" THEN 3
    ELSE IF t.do = "report" THEN 4 ELSE IF t.do = "settle" THEN 5 ELSE 0
IsPlain(calls) == IsSequence(calls) /\ \A t \in ToSet(calls) : Stage(t) = 0

LEMMA PlainCalls == \A t : t.do \in EarlyCalls \cup LoweringCalls => Stage(t) = 0
BY DEF Stage, EarlyCalls, LoweringCalls

LEMMA PlainFacts ==
    /\ \A calls : IsEarly(calls) => IsPlain(calls)
    /\ \A p, h, calls : MayCome(p, h, calls) => IsPlain(calls)
    /\ IsPlain(<<>>)
BY PlainCalls, EmptyFacts DEF IsEarly, MayCome, IsLowering, IsPlain

\* The next call, a plain one, is replaced by plain ones, or waits for a
\* relation to be resolved first; or the relation that was resolved is named.
Stepped ==
    \/ NameRelation
    \/ /\ agenda # <<>> /\ Stage(Head(agenda)) = 0
       /\ \/ agenda' = agenda /\ callers' = callers
          \/ \E tasks : /\ IsPlain(tasks)
                       /\ \/ agenda' = tasks \o Tail(agenda) /\ callers' = callers
                          \/ \E s : callers' = Append(callers, [symbol |-> s, rest |-> tasks \o Tail(agenda)])

\* The queries whose relations were resolved or are being resolved.
Entered == {s.body : s \in ToSet(named) \cup resolving}
Sequenced ==
    IF crashed THEN agenda # <<>> ELSE \E spent : Orderly(program, callers, agenda, spent, Entered, handled)

LEMMA EarlyIsQuiet == \A calls : IsEarly(calls) => IsSequence(calls) /\ IsQuiet(calls)
BY DEF IsEarly, IsQuiet, EarlyCalls, LoweringCalls

\* Quiet calls are in order with any others.
LEMMA QuietAround ==
    ASSUME NEW p, NEW s, IsSequence(s), InOrder(p, s), NEW t, IsSequence(t), IsQuiet(t)
    PROVE  /\ InOrder(p, s \o t) /\ InOrder(p, t \o s) /\ InOrder(p, t)
           /\ ToSet(s \o t) = ToSet(s) \cup ToSet(t) /\ ToSet(t \o s) = ToSet(s) \cup ToSet(t)
           /\ IsSequence(s \o t) /\ IsSequence(t \o s)
<1>1. \A u \in ToSet(t) : Begins(p, u) = {} /\ Due(p, u) = {}
  BY QuietFacts DEF IsQuiet
<1>2. \A u \in ToSet(t) : \A v : Before(p, u, v) /\ Before(p, v, u)
  BY <1>1 DEF Before
<1>3. InOrder(p, t)
  BY <1>2 DEF InOrder, ToSet
<1> QED
  BY <1>2, <1>3, OrderedConcat, ConcatFacts

\* Of the first calls, only one lowers anything.
Opening(p, calls) ==
    IsSequence(calls) /\ InOrder(p, calls) /\ \A t \in ToSet(calls) : t.do \notin LoweringCalls \/ (t = Lower(p.root) /\ p.root # NoQuery)

LEMMA OpeningFacts ==
    ASSUME NEW p, NEW s, Opening(p, s), NEW t, IsSequence(t), IsQuiet(t)
    PROVE  Opening(p, s \o t) /\ Opening(p, t \o s)
<1>1. IsSequence(s) /\ InOrder(p, s)
  BY DEF Opening
<1> QED
  BY <1>1, QuietAround DEF Opening, IsQuiet

\* The calls of a program: before lowering, the root query, then links.
Rooted(p) == IF p.root = NoQuery THEN <<>> ELSE <<Lower(p.root)>>
Closing == <<Call("references"), Call("place"), Call("report"), Call("settle")>>

LEMMA Associative ==
    ASSUME NEW r, NEW s, NEW t, IsSequence(r), IsSequence(s), IsSequence(t)
    PROVE  r \o (s \o t) = (r \o s) \o t
<1> DEFINE S == ToSet(r) \cup ToSet(s) \cup ToSet(t)
<1>1. r \in Seq(S) /\ s \in Seq(S) /\ t \in Seq(S)
  <2> HIDE DEF S
  <2>1. ToSet(r) \subseteq S /\ ToSet(s) \subseteq S /\ ToSet(t) \subseteq S
    BY DEF S
  <2> QED
    BY <2>1 DEF IsSequence
<1> HIDE DEF S
<1> QED
  BY <1>1

LEMMA ClosingFacts ==
    /\ IsSequence(Closing) /\ Closing # <<>> /\ DOMAIN Closing = 1..4
    /\ ToSet(Closing) = {Call("references"), Call("place"), Call("report"), Call("settle")}
    /\ Closing[1] = Call("references") /\ Closing[2] = Call("place")
    /\ Closing[3] = Call("report") /\ Closing[4] = Call("settle")
    /\ \A t \in ToSet(Closing) : t.do \in {"references", "place", "report", "settle"}
<1>1. /\ Closing \in Seq({Call("references"), Call("place"), Call("report"), Call("settle")})
      /\ Closing # <<>> /\ DOMAIN Closing = 1..4
      /\ Closing[1] = Call("references") /\ Closing[2] = Call("place")
      /\ Closing[3] = Call("report") /\ Closing[4] = Call("settle")
  BY DEF Closing
<1>2. IsSequence(Closing) /\ ToSet(Closing) \subseteq {Call("references"), Call("place"), Call("report"), Call("settle")}
  BY <1>1, OwnElements
<1>3. {Call("references"), Call("place"), Call("report"), Call("settle")} \subseteq ToSet(Closing)
  BY <1>1 DEF ToSet
<1>4. /\ Call("references").do = "references" /\ Call("place").do = "place"
      /\ Call("report").do = "report" /\ Call("settle").do = "settle"
  BY DEF Call
<1> QED
  BY <1>1, <1>2, <1>3, <1>4

LEMMA InitCalls ==
    ASSUME Init
    PROVE  \E before : IsEarly(before) /\ agenda = (before \o Rooted(program) \o <<Call("links")>>) \o Closing
<1>1. IsProgram(program)
  BY ProgramsAssumption DEF Init
<1> DEFINE declare == [i \in DOMAIN program.statements |-> [do |-> "declare", statement |-> program.statements[i]]]
           found == IF program.root = NoQuery THEN <<>> ELSE <<Discover(program.root, NoEntry)>>
           middle == <<Call("constraints"), Call("propagate")>>
           last == <<Call("links"), Call("references"), Call("place"), Call("report"), Call("settle")>>
           before == declare \o <<Call("views")>> \o found \o middle
<1>2. IsEarly(declare)
  <2>1. IsSequence(program.statements)
    BY <1>1, StatementFacts
  <2>2. \A i \in DOMAIN program.statements : declare[i].do \in EarlyCalls
    BY DEF EarlyCalls
  <2>3. declare = [i \in DOMAIN program.statements |-> declare[i]]
    OBVIOUS
  <2> HIDE DEF declare
  <2> QED
    BY <2>1, <2>2, <2>3, EarlyEach
<1>3. /\ IsEarly(<<Call("views")>>) /\ IsEarly(<<Call("constraints")>>) /\ IsEarly(<<Call("propagate")>>)
  <2>1. Call("views").do \in EarlyCalls /\ Call("constraints").do \in EarlyCalls /\ Call("propagate").do \in EarlyCalls
    BY DEF Call, EarlyCalls
  <2> QED
    BY <2>1, EarlyFew
<1>4. IsEarly(found)
  <2>1. Discover(program.root, NoEntry).do \in EarlyCalls
    BY DEF Discover, EarlyCalls
  <2> QED
    BY <2>1, EarlyFew
<1>5. IsEarly(middle)
  <2>1. middle = <<Call("constraints")>> \o <<Call("propagate")>>
    OBVIOUS
  <2> HIDE DEF middle
  <2> QED
    BY <1>3, <2>1, EarlyFew
<1>6. agenda = before \o Rooted(program) \o last
  BY DEF Init, Rooted
<1>7. last = <<Call("links")>> \o Closing
  BY DEF Closing
<1>8. IsEarly(before)
  <2> HIDE DEF declare, found, middle
  <2>1. IsEarly(declare \o <<Call("views")>>)
    BY <1>2, <1>3, EarlyFew
  <2>2. IsEarly(declare \o <<Call("views")>> \o found)
    BY <1>4, <2>1, EarlyFew
  <2> QED
    BY <1>5, <2>2, EarlyFew
<1>9. IsSequence(Rooted(program)) /\ IsSequence(<<Call("links")>>) /\ IsSequence(Closing)
  BY EmptyFacts, OneFacts, ClosingFacts DEF Rooted
<1> HIDE DEF before, last
<1>10. agenda = (before \o Rooted(program) \o <<Call("links")>>) \o Closing
  <2>1. IsSequence(before \o Rooted(program))
    BY <1>8, <1>9, ConcatFacts DEF IsEarly
  <2> QED
    BY <1>6, <1>7, <1>9, <2>1, Associative
<1> QED
  BY <1>8, <1>10

LEMMA InitOpens == Init => Opening(program, agenda) /\ agenda # <<>>
<1> SUFFICES ASSUME Init PROVE Opening(program, agenda) /\ agenda # <<>>
  OBVIOUS
<1>1. PICK before : IsEarly(before) /\ agenda = (before \o Rooted(program) \o <<Call("links")>>) \o Closing
  BY InitCalls
<1>2. Opening(program, Rooted(program))
  <2>1. CASE program.root = NoQuery
    <3>1. IsSequence(<<>>) /\ ToSet(<<>>) = {} /\ InOrder(program, <<>>)
      BY EmptyFacts DEF InOrder
    <3> QED
      BY <2>1, <3>1 DEF Opening, Rooted
  <2>2. CASE program.root # NoQuery
    <3> DEFINE t == Lower(program.root)
    <3>1. IsSequence(<<t>>) /\ ToSet(<<t>>) = {t} /\ InOrder(program, <<t>>)
      <4> HIDE DEF t
      <4> QED
        BY OneFacts DEF InOrder
    <3> QED
      BY <2>2, <3>1 DEF Opening, Rooted
  <2> QED
    BY <2>1, <2>2
<1>3. IsSequence(before) /\ IsQuiet(before) /\ IsSequence(<<Call("links")>>) /\ IsQuiet(<<Call("links")>>)
  <2>1. Call("links").do \in EarlyCalls
    BY DEF Call, EarlyCalls
  <2> QED
    BY <1>1, <2>1, EarlyFew, EarlyIsQuiet
<1>4. Opening(program, before \o Rooted(program) \o <<Call("links")>>)
  BY <1>2, <1>3, OpeningFacts
<1>5. IsSequence(Closing) /\ IsQuiet(Closing) /\ Closing # <<>>
  BY ClosingFacts DEF IsQuiet, LoweringCalls
<1>6. Opening(program, agenda)
  BY <1>1, <1>4, <1>5, OpeningFacts
<1>7. agenda # <<>>
  <2>1. IsSequence(before \o Rooted(program) \o <<Call("links")>>)
    BY <1>4 DEF Opening
  <2>2. ToSet(Closing) \subseteq ToSet(agenda) /\ ToSet(Closing) # {}
    BY <1>1, <1>5, <2>1, ConcatFacts, ClosingFacts
  <2> QED
    BY <2>2, EmptyFacts
<1> QED
  BY <1>6, <1>7

LEMMA SequencedInit == Init => Sequenced
<1> SUFFICES ASSUME Init PROVE Sequenced
  OBVIOUS
<1> DEFINE p == program
<1>1. IsProgram(p) /\ Opening(p, agenda) /\ agenda # <<>>
  BY ProgramsAssumption, InitOpens DEF Init
<1>2. callers = <<>> /\ handled = {} /\ named = <<>> /\ resolving = {} /\ ~crashed
  BY DEF Init
<1>3. Entered = {}
  BY <1>2, EmptyFacts DEF Entered
<1>4. DOMAIN callers = {}
  BY <1>2
<1>5. \A t : t.do \notin LoweringCalls => Fresh(p, t, {}, {}, {})
  BY QuietFacts DEF Fresh, LoweringCalls
<1>6. p.root # NoQuery => Fresh(p, Lower(p.root), {}, {}, {})
  <2> SUFFICES ASSUME p.root # NoQuery PROVE Fresh(p, Lower(p.root), {}, {}, {})
    OBVIOUS
  <2> DEFINE y == p.root
             t == Lower(y)
             k == <<"query", Bare(p, y)>>
  <2>1. y \in DOMAIN p.query /\ IsEntry(p, y)
    BY <1>1 DEF IsEntry, Outermost, IsProgram
  <2>2. Begins(p, t) = {k} /\ Due(p, t) = Spots(p, Bare(p, y)) /\ t.do \notin {"join", "mark"}
    BY CallFacts
  <2>3. k \in Work(p)
    BY <1>1, <2>1, SeatFacts DEF Work
  <2>4. \A z \in DOMAIN p.query : IsEntry(p, z) /\ <<"query", Bare(p, z)>> = k => z = y
    <3>1. ASSUME NEW z \in DOMAIN p.query, IsEntry(p, z), <<"query", Bare(p, z)>> = k
          PROVE  Bare(p, z) = Bare(p, y)
      BY <3>1
    <3> HIDE DEF k, y, p
    <3> QED
      BY <1>1, <2>1, <3>1, SeatedOnce DEF Seated
  <2>5. \A j \in Work(p) : ~Makes(p, j, k)
    BY <1>1, <2>1, NoMaker
  <2>6. Made(p, k, {}, {})
    BY <2>3, <2>4, <2>5 DEF Made
  <2>7. \A x \in Due(p, t) : <<"query", x[1]>> = k
    BY <2>2 DEF Spots
  <2> HIDE DEF t, k
  <2>8. Fresh(p, t, {}, {}, {})
    BY <2>2, <2>6, <2>7 DEF Fresh
  <2> QED
    BY <2>8 DEF t
<1>7. InOrder(p, agenda) /\ \A t \in ToSet(agenda) : Fresh(p, t, {}, {}, {})
  BY <1>1, <1>5, <1>6 DEF Opening
<1>8. Past(p, {}, {}, {})
  BY DEF Past
<1>9. Orderly(p, callers, agenda, {}, {}, {})
  BY <1>4, <1>7, <1>8 DEF Orderly
<1>10. Orderly(program, callers, agenda, {}, Entered, handled)
  BY <1>2, <1>3, <1>9
<1> QED
  BY <1>2, <1>10 DEF Sequenced

-----------------------------------------------------------------------------
(* The order is kept.                                                       *)

LEMMA StillSequenced ==
    ASSUME ~crashed', NEW spent, Orderly(program', callers', agenda', spent, Entered', handled')
    PROVE  Sequenced'
BY DEF Sequenced

\* Calls that may come in the place of the next one do.
LEMMA TurnTaken ==
    ASSUME IInv, ~crashed, agenda # <<>>, Sequenced, NEW tasks, agenda' = tasks \o Tail(agenda), ~crashed',
           \A spent : Orderly(program, callers, agenda, spent, Entered, handled) => MayCome(program, Task, tasks),
           Task.do \in LoweringCalls, UNCHANGED <<program, callers, named, resolving, handled>>
    PROVE  Sequenced' /\ Stepped
<1>1. PICK spent : Orderly(program, callers, agenda, spent, Entered, handled)
  BY DEF Sequenced
<1>2. IsProgram(program) /\ IsSequence(agenda)
  BY DEF IInv, CallsKnown, KnownCalls
<1>3. MayCome(program, Task, tasks)
  BY <1>1
<1>6. Stepped
  BY <1>3, PlainFacts, PlainCalls DEF Stepped, Task
<1>4. Orderly(program, callers, tasks \o Tail(agenda), spent \cup Begins(program, Head(agenda)), Entered, handled)
  BY <1>1, <1>2, <1>3, Proceed DEF MayCome, Task
<1>5. Entered' = Entered
  BY DEF Entered
<1> QED
  BY <1>4, <1>5, <1>6, StillSequenced

\* The next call was not made yet.
LEMMA TurnFacts ==
    ASSUME IInv, agenda # <<>>, NEW spent, Orderly(program, callers, agenda, spent, Entered, handled)
    PROVE  /\ Fresh(program, Task, spent, Entered, handled) /\ Past(program, spent, Entered, handled)
           /\ IsProgram(program)
<1>1. IsSequence(agenda) /\ IsProgram(program)
  BY DEF IInv, CallsKnown, KnownCalls
<1> QED
  BY <1>1, TailFacts DEF Orderly, Task

\* Calls that lower nothing are replaced by such calls.
LEMMA QuietTurn ==
    ASSUME IInv, ~crashed, agenda # <<>>, Sequenced, Task.do \notin LoweringCalls, ~crashed',
           NEW tasks, IsSequence(tasks), IsQuiet(tasks), agenda' = tasks \o Tail(agenda),
           UNCHANGED <<program, callers, handled>>, Entered \subseteq Entered'
    PROVE  Sequenced'
<1>1. PICK spent : Orderly(program, callers, agenda, spent, Entered, handled)
  BY DEF Sequenced
<1>2. IsProgram(program) /\ IsSequence(agenda)
  BY DEF IInv, CallsKnown, KnownCalls
<1>3. Orderly(program, callers, tasks \o Tail(agenda), spent, Entered, handled)
  BY <1>1, <1>2, QuietProceed DEF Task
<1>4. Orderly(program, callers, tasks \o Tail(agenda), spent, Entered', handled)
  BY <1>3, Enter
<1> QED
  BY <1>4, StillSequenced

\* A relation is resolved, then the calls go on.
LEMMA ResolveTurn ==
    ASSUME IInv, RelationsSourced, ~crashed', NEW s \in ToSet(symbols), s \notin resolving, NEW tasks,
           NEW spent, Orderly(program, callers, tasks \o Tail(agenda), spent, Entered, handled),
           agenda # <<>>, Stage(Head(agenda)) = 0, IsPlain(tasks), ResolveThen(s, tasks), UNCHANGED <<program, handled>>
    PROVE  Sequenced' /\ Stepped
<1> DEFINE calls == tasks \o Tail(agenda)
<1>1. /\ IsProgram(program) /\ IsSequence(callers) /\ IsSequence(named)
      /\ ToSet(named) \subseteq ToSet(symbols) /\ resolving \subseteq ToSet(symbols)
      /\ s.body \in DOMAIN program.query \cup {NoQuery}
  BY DEF IInv, CallsKnown, LinksKnown, NamesKnown
<1>2. CASE s \in ToSet(named)
  <2>1. agenda' = calls /\ UNCHANGED <<callers, named, resolving>>
    BY <1>2 DEF ResolveThen, Then
  <2>2. Entered' = Entered
    BY <2>1 DEF Entered
  <2> QED
    BY <2>1, <2>2, StillSequenced DEF Stepped
<1>3. CASE s \notin ToSet(named) /\ s.role = "TABLE"
  <2>1. agenda' = calls /\ UNCHANGED <<callers, resolving>> /\ named' = Append(named, s)
    BY <1>3 DEF ResolveThen, Open, Then, Name
  <2>2. ToSet(named) \subseteq ToSet(named')
    BY <1>1, <2>1, AppendFacts
  <2>3. Entered \subseteq Entered'
    BY <2>1, <2>2 DEF Entered
  <2>4. Orderly(program, callers, calls, spent, Entered', handled)
    BY <2>3, Enter
  <2> QED
    BY <2>1, <2>4, StillSequenced DEF Stepped
<1>4. CASE s \notin ToSet(named) /\ s.role # "TABLE"
  <2> DEFINE inner == IF s.body = NoQuery THEN <<>> ELSE <<Lower(s.body)>>
  <2>1. /\ callers' = Append(callers, [symbol |-> s, rest |-> calls]) /\ agenda' = inner
        /\ resolving' = resolving \cup {s} /\ named' = named
    BY <1>4 DEF ResolveThen, Open
  <2>2. Entered' = Entered \cup {s.body}
    BY <2>1 DEF Entered
  <2>3. s.body # NoQuery =>
           s.body \in DOMAIN program.query /\ s.body \notin Entered /\ IsEntry(program, s.body) /\ s.body # program.root
    <3> SUFFICES ASSUME s.body # NoQuery
                 PROVE  s.body \in DOMAIN program.query /\ s.body \notin Entered /\ IsEntry(program, s.body) /\ s.body # program.root
      OBVIOUS
    <3>1. /\ s.body \in DOMAIN program.query /\ IsEntry(program, s.body) /\ s.body # program.root
          /\ \A t : Sourced(t, program) /\ t.body = s.body => t = s
      BY <1>1, OneSource DEF RelationsSourced
    <3>2. \A t \in ToSet(named) \cup resolving : Sourced(t, program) /\ t # s
      BY <1>1, <1>4 DEF RelationsSourced
    <3> QED
      BY <3>1, <3>2 DEF Entered
  <2>4. IsBody(program, inner, Entered)
    BY <2>3 DEF IsBody
  <2>5. \A y \in DOMAIN program.query : inner = <<Lower(y)>> => y = s.body
    <3>1. \A y, z : <<Lower(y)>> = <<Lower(z)>> => y = z
      <4>1. \A y : Lower(y).query = y
        BY DEF Lower
      <4>2. \A t, u : <<t>> = <<u>> => t = u
        OBVIOUS
      <4> QED
        BY <4>1, <4>2
    <3>2. \A t : <<>> # <<t>>
      OBVIOUS
    <3> QED
      BY <3>1, <3>2
  <2> HIDE DEF inner, calls
  <2>6. Orderly(program, Append(callers, [symbol |-> s, rest |-> calls]), inner, spent, Entered', handled)
    BY <1>1, <2>2, <2>4, <2>5, CallIn DEF calls
  <2>7. Stepped
    BY <2>1 DEF Stepped, calls
  <2> QED
    BY <2>1, <2>6, <2>7, StillSequenced
<1> QED
  BY <1>2, <1>3, <1>4

\* The queries of a program and those of its state.
LEMMA SameCalls ==
    ASSUME NEW q
    PROVE  /\ SourceTasks(q) = Reads(program, q) /\ Unwrap(q) = Bare(program, q)
           /\ WhereTasks(q) \in {<<>>, Filters(program, q)}
           /\ Node(q) = program.query[q]
BY DEF SourceTasks, Reads, Unwrap, Bare, WhereTasks, Filters, Filter, Node

LEMMA LowerTurn == IInv /\ Sequenced /\ LowerQuery => Sequenced' /\ Stepped
<1> SUFFICES ASSUME IInv, Sequenced, LowerQuery PROVE Sequenced' /\ Stepped
  OBVIOUS
<1> DEFINE q == Unwrap(Task.query)
           finish == <<[do |-> "finish", query |-> q]>>
           tasks == CASE Node(q).kind = "setop" -> <<Lower(Node(q).arms[1]), Lower(Node(q).arms[2])>> \o finish
                      [] Node(q).kind = "select" /\ Node(q).tail = "natural" -> finish
                      [] OTHER -> SourceTasks(q) \o WhereTasks(q) \o finish
<1>1. Doing("lower") /\ Then(tasks) /\ UNCHANGED <<program, linking, handled, crashed>>
  BY DEF LowerQuery, marking
<1>2. agenda # <<>> /\ ~crashed /\ Task.do = "lower" /\ Task.query \in DOMAIN program.query
  BY <1>1, TaskFacts DEF Doing, KnownCall
<1>3. IsProgram(program) /\ q = Bare(program, Task.query)
  BY SameCalls DEF IInv
<1>4. q \in DOMAIN program.query /\ program.query[q].kind \in {"select", "setop"}
  <2>1. q \in DOMAIN program.query /\ program.query[q].kind # "paren"
    BY <1>2, <1>3, SeatFacts
  <2> QED
    BY <1>3, <2>1, TreeFacts
<1>5. Begins(program, Task) = {<<"query", q>>} /\ Due(program, Task) = Spots(program, q)
  BY <1>2, <1>3 DEF Begins, Due
<1> HIDE DEF q
<1>6. finish = <<Finish(q)>>
  BY DEF Finish
<1> HIDE DEF finish
<1>7. Plan(program, q, tasks)
  <2>1. CASE program.query[q].kind = "setop"
    BY <1>6, <2>1, SameCalls DEF Plan
  <2>2. CASE program.query[q].kind = "select"
    <3>1. tasks = finish \/ tasks = SourceTasks(q) \o WhereTasks(q) \o finish
      BY <2>2, SameCalls
    <3>2. WhereTasks(q) \in {<<>>, Filters(program, q)} /\ SourceTasks(q) = Reads(program, q)
      BY SameCalls
    <3> HIDE DEF tasks
    <3> QED
      BY <1>6, <2>2, <3>1, <3>2 DEF Plan
  <2> QED
    BY <1>4, <2>1, <2>2
<1> HIDE DEF tasks
<1>8. ASSUME NEW spent, Orderly(program, callers, agenda, spent, Entered, handled)
      PROVE  MayCome(program, Task, tasks)
  <2>1. Fresh(program, Task, spent, Entered, handled)
    BY <1>2, <1>8, TurnFacts
  <2> QED
    BY <1>3, <1>4, <1>5, <1>7, <2>1, PlanFacts
<1> QED
  BY <1>1, <1>2, <1>8, TurnTaken DEF Then, linking, LoweringCalls

LEMMA FilterTurn == IInv /\ Sequenced /\ FilterRows => Sequenced' /\ Stepped
<1> SUFFICES ASSUME IInv, Sequenced, FilterRows PROVE Sequenced' /\ Stepped
  OBVIOUS
<1> DEFINE body == Task.conjunct.body
<1>1. Doing("filter") /\ UNCHANGED <<program, linking, handled, crashed>>
  BY DEF FilterRows, marking
<1>2. /\ agenda # <<>> /\ ~crashed /\ Task.do = "filter"
      /\ body \in DOMAIN program.query /\ program.query[body].kind = "select"
  BY <1>1, TaskFacts DEF Doing, KnownCall
<1>3. Then(<<Lower(body)>>) \/ Then(SourceTasks(body)) \/ Then(<<>>)
  BY DEF FilterRows
<1>4. IsProgram(program) /\ IsSequence(agenda)
  BY DEF IInv, CallsKnown, KnownCalls
<1>5. Begins(program, Task) = {<<"query", body>>} /\ Due(program, Task) = Spots(program, body)
  BY <1>2 DEF Begins, Due
<1> HIDE DEF body
<1>6. CASE Then(<<Lower(body)>>)
  <2>1. PICK spent : Orderly(program, callers, agenda, spent, Entered, handled)
    BY <1>2 DEF Sequenced
  <2>2. Bare(program, body) = body
    BY <1>2 DEF Bare
  <2>3. /\ Begins(program, Lower(body)) = Begins(program, Head(agenda))
        /\ Due(program, Lower(body)) = Due(program, Head(agenda))
        /\ Lower(body).do \notin {"join", "mark"}
    <3>1. /\ Begins(program, Lower(body)) = {<<"query", Bare(program, body)>>}
          /\ Due(program, Lower(body)) = Spots(program, Bare(program, body))
          /\ Lower(body).do \in LoweringCalls \ {"join", "mark"}
      BY CallFacts
    <3> QED
      BY <1>5, <2>2, <3>1 DEF Task
  <2>4. Orderly(program, callers, <<Lower(body)>> \o Tail(agenda), spent, Entered, handled)
    BY <1>2, <1>4, <2>1, <2>3, Restate
  <2>5. Entered' = Entered
    BY <1>1 DEF Entered, linking
  <2>6. IsPlain(<<Lower(body)>>) /\ Stage(Task) = 0
    <3>1. Stage(Lower(body)) = 0 /\ Stage(Task) = 0
      BY <1>2, PlainCalls DEF Lower, LoweringCalls
    <3> QED
      BY <3>1, OneFacts DEF IsPlain
  <2>7. Stepped
    BY <1>1, <1>2, <1>6, <2>6 DEF Stepped, Then, linking, Task
  <2> QED
    BY <1>1, <1>2, <1>6, <2>4, <2>5, <2>7, StillSequenced DEF Then, linking
<1>7. CASE Then(SourceTasks(body))
  <2>1. MayCome(program, Task, Reads(program, body))
    <3>1. <<"query", body>> \in Begins(program, Task) /\ Spots(program, body) \subseteq Due(program, Task)
      BY <1>5
    <3> QED
      BY <1>2, <1>4, <3>1, ReadsFacts DEF MayCome, IsLowering
  <2>2. SourceTasks(body) = Reads(program, body)
    BY SameCalls
  <2> QED
    BY <1>1, <1>2, <1>7, <2>1, <2>2, TurnTaken DEF Then, linking, LoweringCalls
<1>8. CASE Then(<<>>)
  BY <1>1, <1>2, <1>8, NoneCome, TurnTaken DEF Then, linking, LoweringCalls
<1> QED
  BY <1>3, <1>6, <1>7, <1>8

LEMMA FinishTurn == IInv /\ Sequenced /\ FinishQuery => Sequenced' /\ Stepped
<1> SUFFICES ASSUME IInv, Sequenced, FinishQuery PROVE Sequenced' /\ Stepped
  OBVIOUS
<1> DEFINE q == Task.query
<1>1. Doing("finish") /\ UNCHANGED <<program, linking, handled, crashed>>
  BY DEF FinishQuery, marking
<1>2. agenda # <<>> /\ ~crashed /\ Task.do = "finish" /\ q \in DOMAIN program.query /\ IsProgram(program)
  BY <1>1, TaskFacts DEF Doing, KnownCall, IInv
<1>3. (program.query[q].kind = "select" /\ Then(Marks(program, q))) \/ Then(<<>>)
  BY DEF FinishQuery, Marks, Node
<1>4. Due(program, Task) = {x \in Spots(program, q) : x[2] > Len(program.query[q].sources)}
  BY <1>2 DEF Due
<1> HIDE DEF q
<1>5. CASE program.query[q].kind = "select" /\ Then(Marks(program, q))
  BY <1>1, <1>2, <1>4, <1>5, MarksFacts, TurnTaken DEF Then, linking, LoweringCalls
<1>6. CASE Then(<<>>)
  BY <1>1, <1>2, <1>6, NoneCome, TurnTaken DEF Then, linking, LoweringCalls
<1> QED
  BY <1>3, <1>5, <1>6

LEMMA ReadTurn == IInv /\ RelationsSourced /\ Sequenced /\ ReadSource => Sequenced' /\ (crashed' \/ Stepped)
<1> SUFFICES ASSUME IInv, RelationsSourced, Sequenced, ReadSource PROVE Sequenced' /\ (crashed' \/ Stepped)
  OBVIOUS
<1> DEFINE o == Task.at
           s == program.query[o[1]].sources[o[2]]
<1>1. Doing("read") /\ UNCHANGED <<program, handled>>
  BY DEF ReadSource, marking
<1>2. /\ agenda # <<>> /\ ~crashed /\ Task.do = "read" /\ o[1] \in DOMAIN program.query
      /\ program.query[o[1]].kind = "select" /\ o[2] \in DOMAIN program.query[o[1]].sources
      /\ IsProgram(program) /\ IsSequence(agenda)
  BY <1>1, TaskFacts DEF Doing, KnownCall, IInv, CallsKnown, KnownCalls
<1>3. \/ Then(Deriving(s) \o Joining(s)) /\ UNCHANGED <<linking, crashed>>
      \/ o \in DOMAIN bound /\ ReadRelation(o, bound[o], Joining(s)) /\ crashed' = crashed
      \/ Crash
  BY DEF ReadSource, Deriving, Joining, Join, Source, Node
<1>4. ASSUME NEW spent, Orderly(program, callers, agenda, spent, Entered, handled)
      PROVE  MayCome(program, Task, Joining(s)) /\ MayCome(program, Task, Deriving(s) \o Joining(s))
  <2>1. Fresh(program, Task, spent, Entered, handled) /\ Past(program, spent, Entered, handled)
    BY <1>2, <1>4, TurnFacts
  <2>2. Begins(program, Task) = {<<"source", o>>} /\ Due(program, Task) = {o}
    BY <1>2 DEF Begins, Due
  <2>3. o = <<o[1], o[2]>>
    <3>1. Begins(program, Task) \subseteq Work(program)
      BY <2>1 DEF Fresh, Made
    <3> DEFINE k == <<"source", o>>
    <3>2. k \in Work(program) /\ k[1] = "source" /\ k[2] = o
      BY <2>2, <3>1
    <3> HIDE DEF k, o
    <3> QED
      BY <3>2, WorkFacts
  <2> HIDE DEF o
  <2> QED
    BY <1>2, <2>1, <2>2, <2>3, ReadingFacts
<1> HIDE DEF s, o
<1>5. CASE Then(Deriving(s) \o Joining(s)) /\ UNCHANGED <<linking, crashed>>
  BY <1>1, <1>2, <1>4, <1>5, TurnTaken DEF Then, linking, LoweringCalls
<1>6. CASE Crash
  BY <1>2, <1>6 DEF Crash, Sequenced
<1>7. CASE o \in DOMAIN bound /\ ReadRelation(o, bound[o], Joining(s)) /\ crashed' = crashed
  <2> DEFINE t == bound[o]
  <2>1. t \in ToSet(symbols)
    BY <1>7 DEF IInv, NamesKnown
  <2>2. CASE t \in resolving
    <3>1. Then(Joining(s)) /\ UNCHANGED <<callers, named, resolving>>
      BY <1>7, <2>2 DEF ReadRelation
    <3> QED
      BY <1>1, <1>2, <1>4, <1>7, <3>1, TurnTaken DEF Then, LoweringCalls
  <2>3. CASE t \notin resolving
    <3>1. ResolveThen(t, Joining(s))
      BY <1>7, <2>3 DEF ReadRelation
    <3>2. PICK spent : Orderly(program, callers, agenda, spent, Entered, handled)
      BY <1>2 DEF Sequenced
    <3>3. Orderly(program, callers, Joining(s) \o Tail(agenda), spent \cup Begins(program, Head(agenda)), Entered, handled)
      BY <1>2, <1>4, <3>2, Proceed DEF MayCome, Task
    <3>4. IsPlain(Joining(s)) /\ Stage(Head(agenda)) = 0
      BY <1>2, <1>4, <3>2, PlainFacts, PlainCalls DEF Task, LoweringCalls
    <3> HIDE DEF t
    <3> QED
      BY <1>1, <1>2, <1>7, <2>1, <2>3, <3>1, <3>3, <3>4, ResolveTurn
  <2> QED
    BY <2>2, <2>3
<1> QED
  BY <1>3, <1>5, <1>6, <1>7

LEMMA ResolveSymbolTurn == IInv /\ RelationsSourced /\ Sequenced /\ ResolveSymbol => Sequenced' /\ Stepped
<1> SUFFICES ASSUME IInv, RelationsSourced, Sequenced, ResolveSymbol PROVE Sequenced' /\ Stepped
  OBVIOUS
<1>1. Doing("resolve") /\ ResolveThen(Task.symbol, <<>>) /\ UNCHANGED <<program, handled, crashed>>
  BY DEF ResolveSymbol, marking
<1>2. agenda # <<>> /\ ~crashed /\ Task.do = "resolve" /\ callers = <<>> /\ Task.symbol \in ToSet(symbols)
  BY <1>1, TaskFacts, SymbolCall DEF Doing, LoweringCalls
<1>3. Task.symbol \notin resolving /\ IsProgram(program) /\ IsSequence(agenda)
  BY <1>2 DEF IInv, LinksKnown, CallsKnown, KnownCalls
<1>4. PICK spent : Orderly(program, callers, agenda, spent, Entered, handled)
  BY <1>2 DEF Sequenced
<1>5. Orderly(program, callers, <<>> \o Tail(agenda), spent, Entered, handled)
  <2>1. Head(agenda).do \notin LoweringCalls
    BY <1>2 DEF Task, LoweringCalls
  <2>2. IsSequence(<<>>) /\ IsQuiet(<<>>)
    BY EmptyFacts DEF IsQuiet
  <2> QED
    BY <1>2, <1>3, <1>4, <2>1, <2>2, QuietProceed
<1>6. IsPlain(<<>>) /\ Stage(Head(agenda)) = 0
  BY <1>2, PlainFacts, PlainCalls DEF Task, EarlyCalls
<1> QED
  BY <1>1, <1>2, <1>3, <1>5, <1>6, ResolveTurn

LEMMA NameTurn == IInv /\ Sequenced /\ NameRelation => Sequenced'
<1> SUFFICES ASSUME IInv, Sequenced, NameRelation PROVE Sequenced'
  OBVIOUS
<1> DEFINE s == Last(callers).symbol
<1>1. /\ ~crashed /\ callers # <<>> /\ named' = Append(named, s) /\ resolving' = resolving \ {s}
      /\ agenda' = Last(callers).rest /\ callers' = Front(callers)
      /\ UNCHANGED <<program, handled, crashed>>
  BY DEF NameRelation, Name, Resolved, marking
<1>2. IsSequence(callers) /\ IsSequence(named)
  BY DEF IInv, CallsKnown, LinksKnown
<1>3. s \in resolving
  <2>1. /\ Len(callers) \in Nat \ {0} /\ DOMAIN callers = 1..Len(callers) /\ Last(callers) = callers[Len(callers)]
    BY <1>1, <1>2, FrontFacts
  <2>2. Len(callers) \in DOMAIN callers
    BY <2>1
  <2> QED
    BY <2>1, <2>2 DEF IInv, LinksKnown
<1> HIDE DEF s
<1>4. ToSet(named') \cup resolving' = ToSet(named) \cup resolving
  BY <1>1, <1>2, <1>3, AppendFacts
<1>5. Entered' = Entered
  BY <1>4 DEF Entered
<1>6. PICK spent : Orderly(program, callers, agenda, spent, Entered, handled)
  BY <1>1 DEF Sequenced
<1>7. Orderly(program, Front(callers), Last(callers).rest, spent, Entered, handled)
  BY <1>1, <1>2, <1>6, Return
<1> QED
  BY <1>1, <1>5, <1>7, StillSequenced

\* A marker that is handled was written, and is handled once.
LEMMA HandleFacts ==
    ASSUME IInv, Sequenced, NEW what \in {"join", "mark"}, Doing(what)
    PROVE  /\ Handles(Task) \in Written \ handled
           /\ \A n \in handled : Sooner(program, n, Handles(Task))
           /\ \E spent : Orderly(program, callers, <<>> \o Tail(agenda), spent, Entered, handled \cup {Handles(Task)})
<1>1. agenda # <<>> /\ ~crashed /\ Task.do = what /\ IsProgram(program) /\ IsSequence(agenda)
  BY TaskFacts DEF Doing, IInv, CallsKnown, KnownCalls
<1>2. PICK spent : Orderly(program, callers, agenda, spent, Entered, handled)
  BY <1>1 DEF Sequenced
<1> QED
  BY <1>1, <1>2, HandleProceed DEF Task, Written

LEMMA MarkTurn == IInv /\ Sequenced /\ (AssertJoin \/ RegisterMarker) => Sequenced' /\ (crashed' \/ Stepped)
<1> SUFFICES ASSUME IInv, Sequenced, AssertJoin \/ RegisterMarker PROVE Sequenced' /\ (crashed' \/ Stepped)
  OBVIOUS
<1>1. \/ Doing("join") /\ Then(<<>>) /\ crashed' = crashed
      \/ Doing("mark") /\ Then(<<>>) /\ crashed' = crashed
      \/ Doing("mark") /\ Crash
  BY DEF AssertJoin, RegisterMarker
<1>2. UNCHANGED <<program, linking>> /\ handled' = handled \cup {Handles(Task)}
  BY DEF AssertJoin, RegisterMarker, Handles, Doing
<1>3. CASE Doing("mark") /\ Crash
  BY <1>3 DEF Crash, Doing, Sequenced
<1>4. ASSUME NEW what \in {"join", "mark"}, Doing(what), Then(<<>>), crashed' = crashed
      PROVE  Sequenced' /\ Stepped
  <2>1. PICK spent : Orderly(program, callers, <<>> \o Tail(agenda), spent, Entered, handled \cup {Handles(Task)})
    BY <1>4, HandleFacts
  <2>2. Entered' = Entered /\ ~crashed' /\ callers' = callers /\ program' = program
    BY <1>2, <1>4 DEF Entered, linking, Doing
  <2>3. Stage(Head(agenda)) = 0 /\ agenda # <<>>
    BY <1>4, PlainCalls DEF Doing, Task, LoweringCalls
  <2>4. Stepped
    BY <1>4, <2>2, <2>3, PlainFacts DEF Then, Stepped
  <2> QED
    BY <1>2, <1>4, <2>1, <2>2, <2>4, StillSequenced DEF Then
<1> QED
  BY <1>1, <1>3, <1>4

\* The steps after lowering, of markers that were handled.
Concluding == LinkMarkers \/ StateReference \/ PlaceAssertion \/ ReportUnanalyzed \/ Settle

LEMMA ConcludingTurn == IInv /\ Sequenced /\ Concluding => Sequenced'
<1> SUFFICES ASSUME IInv, Sequenced, Concluding PROVE Sequenced'
  OBVIOUS
<1>1. UNCHANGED <<program, callers, resolving, handled, crashed>>
  BY DEF Concluding, LinkMarkers, StateReference, PlaceAssertion, ReportUnanalyzed, Settle, linking, marking
<1>2. \E what \in {"references", "refer", "place", "report", "settle"} : Doing(what)
  BY DEF Concluding, LinkMarkers, StateReference, PlaceAssertion, ReportUnanalyzed, Settle
<1>3. agenda # <<>> /\ ~crashed /\ Task.do \notin LoweringCalls
  BY <1>2 DEF Doing, LoweringCalls
<1>4. Entered \subseteq Entered'
  <2>1. named' = named \/ \E s, output : Name(s, output)
    BY DEF Concluding, LinkMarkers, StateReference, PlaceAssertion, ReportUnanalyzed, Settle, linking
  <2>2. IsSequence(named)
    BY DEF IInv, LinksKnown
  <2>3. ToSet(named) \subseteq ToSet(named')
    BY <2>1, <2>2, AppendFacts DEF Name
  <2> QED
    BY <1>1, <2>3 DEF Entered
<1>5. \/ agenda' = agenda
      \/ Then(<<>>)
      \/ LinkMarkers /\ \E r : Then(<<Resolve(r.target), Reference("refer", r)>> \o LinkMore)
  BY DEF Concluding, LinkMarkers, StateReference, PlaceAssertion, ReportUnanalyzed, Settle
<1>6. IsSequence(<<>>) /\ IsQuiet(<<>>)
  BY EmptyFacts DEF IsQuiet
<1>7. ASSUME NEW r
      PROVE  LET tasks == <<Resolve(r.target), Reference("refer", r)>> \o LinkMore IN IsSequence(tasks) /\ IsQuiet(tasks)
  <2> DEFINE tasks == <<Resolve(r.target), Reference("refer", r)>> \o LinkMore
  <2>1. tasks = <<Resolve(r.target)>> \o (<<Reference("refer", r)>> \o <<Call("references")>>)
    BY DEF LinkMore
  <2>2. /\ Resolve(r.target).do \notin LoweringCalls /\ Reference("refer", r).do \notin LoweringCalls
        /\ Call("references").do \notin LoweringCalls
    BY DEF Resolve, About, Reference, Call, LoweringCalls
  <2>3. \A t : t.do \notin LoweringCalls => IsSequence(<<t>>) /\ IsQuiet(<<t>>)
    BY OneFacts DEF IsQuiet
  <2>4. \A s, t : IsSequence(s) /\ IsQuiet(s) /\ IsSequence(t) /\ IsQuiet(t) => IsSequence(s \o t) /\ IsQuiet(s \o t)
    BY ConcatFacts DEF IsQuiet
  <2> HIDE DEF tasks
  <2>5. IsSequence(<<Reference("refer", r)>> \o <<Call("references")>>) /\ IsQuiet(<<Reference("refer", r)>> \o <<Call("references")>>)
    BY <2>2, <2>3, <2>4
  <2>6. IsSequence(tasks) /\ IsQuiet(tasks)
    BY <2>1, <2>2, <2>3, <2>4, <2>5
  <2> QED
    BY <2>6 DEF tasks
<1>8. CASE agenda' = agenda
  <2>1. PICK spent : Orderly(program, callers, agenda, spent, Entered, handled)
    BY <1>3 DEF Sequenced
  <2>2. Orderly(program, callers, agenda, spent, Entered', handled)
    BY <1>4, <2>1, Enter
  <2> QED
    BY <1>1, <1>3, <1>8, <2>2, StillSequenced
<1>9. ASSUME NEW tasks, IsSequence(tasks), IsQuiet(tasks), Then(tasks)
      PROVE  Sequenced'
  BY <1>1, <1>3, <1>4, <1>9, QuietTurn DEF Then
<1> QED
  BY <1>5, <1>6, <1>7, <1>8, <1>9

LEMMA PreparingTurn == IInv /\ RelationsSourced /\ Sequenced /\ Preparing => Sequenced' /\ (crashed' \/ Stepped)
<1> SUFFICES ASSUME IInv, RelationsSourced, Sequenced, Preparing PROVE Sequenced' /\ (crashed' \/ Stepped)
  OBVIOUS
<1>1. /\ ~crashed /\ agenda # <<>> /\ Head(agenda).do \in EarlyCalls
      /\ UNCHANGED <<program, linking, marking>>
      /\ (crashed' => agenda' = agenda) /\ Replaced
  BY PreparingFacts
<1>2. UNCHANGED <<program, callers, handled, named, resolving>> /\ Entered' = Entered
  BY <1>1 DEF linking, marking, Entered
<1>3. Task.do \notin LoweringCalls
  BY <1>1 DEF Task, EarlyCalls, LoweringCalls
<1>4. CASE crashed'
  BY <1>1, <1>4 DEF Sequenced
<1>5. ASSUME ~crashed', agenda' = agenda
      PROVE  Sequenced'
  <2>1. PICK spent : Orderly(program, callers, agenda, spent, Entered, handled)
    BY <1>1 DEF Sequenced
  <2>2. Orderly(program', callers', agenda', spent, Entered', handled')
    BY <1>2, <1>5, <2>1
  <2> QED
    BY <1>5, <2>2, StillSequenced
<1>6. ASSUME ~crashed', NEW tasks, IsEarly(tasks), agenda' = tasks \o Tail(agenda)
      PROVE  Sequenced'
  BY <1>1, <1>2, <1>3, <1>6, EarlyIsQuiet, QuietTurn
<1>7. Stage(Head(agenda)) = 0
  BY <1>1, PlainCalls
<1>8. ASSUME agenda' = agenda
      PROVE  Stepped
  BY <1>1, <1>2, <1>7, <1>8 DEF Stepped
<1>9. ASSUME NEW tasks, IsEarly(tasks), agenda' = tasks \o Tail(agenda)
      PROVE  Stepped
  <2>1. IsPlain(tasks)
    BY <1>9, PlainFacts
  <2> QED
    BY <1>1, <1>2, <1>7, <1>9, <2>1 DEF Stepped
<1> QED
  BY <1>1, <1>4, <1>5, <1>6, <1>8, <1>9 DEF Replaced

LEMMA SequencedKept == IInv /\ RelationsSourced /\ Sequenced /\ [Next]_vars => Sequenced'
<1> SUFFICES ASSUME IInv, RelationsSourced, Sequenced, [Next]_vars PROVE Sequenced'
  OBVIOUS
<1>1. CASE UNCHANGED vars
  <2>1. UNCHANGED <<program, callers, agenda, handled, crashed, named, resolving>>
    BY <1>1 DEF vars, linking, marking
  <2>2. Entered' = Entered
    BY <2>1 DEF Entered
  <2> QED
    BY <2>1, <2>2 DEF Sequenced
<1>2. \/ Preparing \/ LowerQuery \/ ReadSource \/ FilterRows \/ ResolveSymbol \/ NameRelation \/ FinishQuery
      \/ AssertJoin \/ RegisterMarker \/ Concluding \/ UNCHANGED vars
  BY DEF Next, Preparing, Concluding
<1> QED
  BY <1>1, <1>2, PreparingTurn, LowerTurn, ReadTurn, FilterTurn, ResolveSymbolTurn, NameTurn, FinishTurn, MarkTurn,
     ConcludingTurn

LEMMA LoweringInvariant == Spec => [](IInv /\ RelationsSourced /\ Sequenced)
<1>1. Init => IInv /\ RelationsSourced /\ Sequenced
  BY InitInv, SourcedInit, SequencedInit
<1>2. IInv /\ RelationsSourced /\ Sequenced /\ [Next]_vars => (IInv /\ RelationsSourced /\ Sequenced)'
  BY NextInv, SourcedKept, SequencedKept
<1> QED
  BY <1>1, <1>2, PTL DEF Spec

HandledOnce ==
    \A what \in {"join", "mark"} : Doing(what) =>
       /\ Handles(Task) \in Written \ handled
       /\ \A n \in handled : Sooner(program, n, Handles(Task))

(***************************************************************************)
(* A marker that is about to be handled was written and was not handled     *)
(* before, whatever views and subqueries lead to its query, and whatever    *)
(* was handled of its select was written sooner.                            *)
(***************************************************************************)
THEOREM MarkersHandledOnce == Spec => []HandledOnce
<1>1. IInv /\ RelationsSourced /\ Sequenced => HandledOnce
  BY HandleFacts DEF HandledOnce
<1> QED
  BY <1>1, LoweringInvariant, PTL

-----------------------------------------------------------------------------
(* Linking goes on in stages.                                               *)

\* The calls that are left from a stage of linking on; one may state a reference.
From(n) ==
    IF n = 2 THEN Closing ELSE IF n = 3 THEN <<Call("place"), Call("report"), Call("settle")>>
    ELSE IF n = 4 THEN <<Call("report"), Call("settle")>> ELSE IF n = 5 THEN <<Call("settle")>> ELSE <<>>
Rest(stating, n) == IF stating = <<>> THEN From(n) ELSE <<Reference("refer", Head(stating))>> \o From(n)

\* The calls around every other one are plain ones, then those of a stage.
Bottom == IF callers = <<>> THEN agenda ELSE callers[1].rest
IsStage(stating, n) == n \in 2..6 /\ (stating = <<>> \/ (n = 2 /\ \E r : stating = <<r>>))
Stands(plain, stating, n) ==
    /\ IsPlain(plain) /\ IsStage(stating, n) /\ (n > 2 => plain = <<>> /\ callers = <<>>)
    /\ Bottom = plain \o Rest(stating, n)

LEMMA FromFacts ==
    /\ \A n \in 2..6 : IsSequence(From(n))
    /\ From(6) = <<>>
    /\ \A n \in 2..5 : From(n) # <<>> /\ Tail(From(n)) = From(n + 1) /\ Stage(Head(From(n))) = n
<1>1. /\ Stage(Call("references")) = 2 /\ Stage(Call("place")) = 3
      /\ Stage(Call("report")) = 4 /\ Stage(Call("settle")) = 5
  BY DEF Call, Stage
<1> DEFINE a == Call("references")
           b == Call("place")
           c == Call("report")
           d == Call("settle")
           S == {a, b, c, d}
<1>2. From(2) = <<a, b, c, d>> /\ From(3) = <<b, c, d>> /\ From(4) = <<c, d>> /\ From(5) = <<d>> /\ From(6) = <<>>
  BY DEF From, Closing
<1>3. a \in S /\ b \in S /\ c \in S /\ d \in S
  OBVIOUS
<1> HIDE DEF a, b, c, d, S
<1>4. <<a, b, c, d>> \in Seq(S) /\ <<b, c, d>> \in Seq(S) /\ <<c, d>> \in Seq(S) /\ <<d>> \in Seq(S)
  BY <1>3
<1>5. /\ Tail(<<a, b, c, d>>) = <<b, c, d>> /\ Tail(<<b, c, d>>) = <<c, d>> /\ Tail(<<c, d>>) = <<d>>
      /\ Tail(<<d>>) = <<>>
  BY <1>3, <1>4
<1>6. /\ Head(<<a, b, c, d>>) = a /\ Head(<<b, c, d>>) = b /\ Head(<<c, d>>) = c /\ Head(<<d>>) = d
      /\ <<a, b, c, d>> # <<>> /\ <<b, c, d>> # <<>> /\ <<c, d>> # <<>> /\ <<d>> # <<>>
  BY <1>3, <1>4
<1>7. IsSequence(From(2)) /\ IsSequence(From(3)) /\ IsSequence(From(4)) /\ IsSequence(From(5)) /\ IsSequence(From(6))
  <2>1. \A s \in Seq(S) : IsSequence(s)
    BY OwnElements
  <2>2. IsSequence(<<>>)
    BY EmptyFacts
  <2> QED
    BY <1>2, <1>4, <2>1, <2>2
<1>8. \A n \in 2..6 : n = 2 \/ n = 3 \/ n = 4 \/ n = 5 \/ n = 6
  OBVIOUS
<1>9. \A n \in 2..5 : (n = 2 \/ n = 3 \/ n = 4 \/ n = 5) /\ 2 + 1 = 3 /\ 3 + 1 = 4 /\ 4 + 1 = 5 /\ 5 + 1 = 6
  OBVIOUS
<1>10. \A n \in 2..6 : IsSequence(From(n))
  BY <1>7, <1>8
<1>11. ASSUME NEW n \in 2..5
       PROVE  From(n) # <<>> /\ Tail(From(n)) = From(n + 1) /\ Stage(Head(From(n))) = n
  <2>1. CASE n = 2
    BY <1>1, <1>2, <1>5, <1>6, <1>9, <2>1 DEF a
  <2>2. CASE n = 3
    BY <1>1, <1>2, <1>5, <1>6, <1>9, <2>2 DEF b
  <2>3. CASE n = 4
    BY <1>1, <1>2, <1>5, <1>6, <1>9, <2>3 DEF c
  <2>4. CASE n = 5
    BY <1>1, <1>2, <1>5, <1>6, <1>9, <2>4 DEF d
  <2> QED
    BY <1>9, <2>1, <2>2, <2>3, <2>4
<1> QED
  BY <1>2, <1>10, <1>11

LEMMA RestFacts ==
    ASSUME NEW stating, NEW n, IsStage(stating, n)
    PROVE  /\ IsSequence(Rest(stating, n))
           /\ Rest(stating, n) = <<>> => stating = <<>> /\ n = 6
           /\ Rest(stating, n) # <<>> => Stage(Head(Rest(stating, n))) # 0
           /\ stating = <<>> => Rest(stating, n) = From(n)
           /\ stating # <<>> => /\ n = 2 /\ Rest(stating, n) # <<>>
                                /\ Head(Rest(stating, n)) = Reference("refer", Head(stating))
                                /\ Tail(Rest(stating, n)) = Closing
<1>1. n \in 2..6 /\ IsSequence(From(n)) /\ (n = 2 => From(n) = Closing)
  BY FromFacts DEF IsStage, From
<1>2. CASE stating = <<>>
  <2>1. Rest(stating, n) = From(n)
    BY <1>2 DEF Rest
  <2>2. n = 6 \/ n \in 2..5
    BY <1>1
  <2>3. \A k \in 2..5 : k # 0
    OBVIOUS
  <2> QED
    BY <1>1, <1>2, <2>1, <2>2, <2>3, FromFacts
<1>3. CASE stating # <<>>
  <2> DEFINE t == Reference("refer", Head(stating))
  <2>1. n = 2 /\ Rest(stating, n) = <<t>> \o From(n)
    BY <1>3 DEF IsStage, Rest
  <2>2. Stage(t) # 0
    BY DEF Reference, Stage
  <2> HIDE DEF t
  <2>3. IsSequence(<<t>>) /\ <<t>> # <<>> /\ Head(<<t>>) = t /\ Tail(<<t>>) = <<>>
    <3>1. <<t>> # <<>> /\ Head(<<t>>) = t /\ Tail(<<t>>) = <<>>
      OBVIOUS
    <3> QED
      BY <3>1, OneFacts
  <2>4. IsSequence(Rest(stating, n)) /\ Rest(stating, n) # <<>> /\ Head(Rest(stating, n)) = t
    <3>1. Head(<<t>> \o From(n)) = t /\ <<t>> \o From(n) # <<>>
      BY <1>1, <2>3, FirstFacts
    <3>2. IsSequence(<<t>> \o From(n))
      BY <1>1, <2>3, ConcatFacts
    <3> QED
      BY <2>1, <3>1, <3>2
  <2>5. Tail(Rest(stating, n)) = <<>> \o From(n)
    <3>1. Tail(<<t>> \o From(n)) = Tail(<<t>>) \o From(n)
      BY <1>1, <2>3, FirstFacts
    <3> QED
      BY <2>1, <2>3, <3>1
  <2>6. <<>> \o From(n) = From(n)
    BY <1>1, FirstFacts, EmptyFacts
  <2> QED
    BY <1>1, <1>3, <2>1, <2>2, <2>4, <2>5, <2>6 DEF t
<1> QED
  BY <1>2, <1>3

LEMMA StagesInit == Init => \E plain : Stands(plain, <<>>, 2)
<1> SUFFICES ASSUME Init PROVE \E plain : Stands(plain, <<>>, 2)
  OBVIOUS
<1>1. PICK before : IsEarly(before) /\ agenda = (before \o Rooted(program) \o <<Call("links")>>) \o Closing
  BY InitCalls
<1> DEFINE plain == before \o Rooted(program) \o <<Call("links")>>
<1>2. IsPlain(before)
  BY <1>1, PlainFacts
<1>3. IsPlain(Rooted(program))
  <2>1. Stage(Lower(program.root)) = 0
    BY DEF Lower, Stage
  <2> QED
    BY <2>1, EmptyFacts, OneFacts DEF Rooted, IsPlain
<1>4. IsPlain(<<Call("links")>>)
  <2>1. Stage(Call("links")) = 0
    BY DEF Call, Stage
  <2> QED
    BY <2>1, OneFacts DEF IsPlain
<1>5. \A s, t : IsPlain(s) /\ IsPlain(t) => IsPlain(s \o t)
  BY ConcatFacts DEF IsPlain
<1>6. IsPlain(plain)
  BY <1>2, <1>3, <1>4, <1>5
<1> HIDE DEF plain
<1>7. IsStage(<<>>, 2) /\ Rest(<<>>, 2) = Closing /\ ~(2 > 2)
  BY DEF IsStage, Rest, From
<1>8. Bottom = plain \o Closing
  BY <1>1 DEF Bottom, Init, plain
<1>9. Stands(plain, <<>>, 2)
  BY <1>6, <1>7, <1>8 DEF Stands
<1> QED
  BY <1>9

\* A plain call is made in a stage that goes on.
LEMMA PlainTurn ==
    ASSUME IInv, ~crashed, NEW plain, NEW stating, NEW n, Stands(plain, stating, n), Stepped
    PROVE  n = 2 /\ \E more : Stands(more, stating, n)'
<1>1. /\ IsSequence(agenda) /\ IsSequence(callers)
      /\ \A i \in DOMAIN callers : IsSequence(callers[i].rest)
  BY DEF IInv, CallsKnown, KnownCalls
<1>2. IsStage(stating, n) /\ IsPlain(plain) /\ IsSequence(plain) /\ IsSequence(Rest(stating, n)) /\ n \in 2..6
  BY RestFacts DEF Stands, IsPlain, IsStage
<1>3. CASE NameRelation
  <2>1. callers # <<>> /\ agenda' = Last(callers).rest /\ callers' = Front(callers)
    BY <1>3 DEF NameRelation
  <2>2. n = 2
    BY <1>2, <2>1 DEF Stands
  <2>3. callers \in Seq(ToSet(callers)) /\ Len(callers) \in Nat \ {0}
    BY <1>1, <2>1 DEF IsSequence
  <2>4. CASE Len(callers) = 1
    <3>1. callers' = <<>> /\ agenda' = callers[1].rest
      BY <2>1, <2>3, <2>4 DEF Front, Last
    <3> QED
      BY <2>1, <2>2, <3>1 DEF Stands, Bottom
  <2>5. CASE Len(callers) # 1
    <3>1. callers' # <<>> /\ callers'[1] = callers[1]
      <4>1. /\ DOMAIN Front(callers) = 1..(Len(callers) - 1)
            /\ \A i \in 1..(Len(callers) - 1) : Front(callers)[i] = callers[i]
        BY <1>1, <2>1, FrontFacts
      <4>2. 1 \in 1..(Len(callers) - 1)
        <5>1. \A k \in Nat \ {0} : k # 1 => 1 \in 1..(k - 1)
          OBVIOUS
        <5> QED
          BY <2>3, <2>5, <5>1
      <4>3. 1 \notin DOMAIN <<>>
        OBVIOUS
      <4> QED
        <5>1. Front(callers)[1] = callers[1] /\ Front(callers) # <<>>
          BY <4>1, <4>2, <4>3
        <5> QED
          BY <2>1, <5>1
    <3> QED
      BY <2>1, <2>2, <3>1 DEF Stands, Bottom
  <2> QED
    BY <2>4, <2>5
<1>4. ASSUME agenda # <<>>, Stage(Head(agenda)) = 0
      PROVE  n = 2 /\ (callers = <<>> => plain # <<>> /\ Tail(agenda) = Tail(plain) \o Rest(stating, n))
  <2>1. CASE callers # <<>>
    BY <1>2, <2>1 DEF Stands
  <2>2. CASE callers = <<>>
    <3>1. agenda = plain \o Rest(stating, n)
      BY <2>2 DEF Stands, Bottom
    <3>2. plain # <<>>
      <4>1. ASSUME plain = <<>> PROVE agenda = Rest(stating, n)
        BY <1>2, <3>1, <4>1, FirstFacts
      <4> QED
        BY <1>2, <1>4, <4>1, RestFacts
    <3>3. Tail(agenda) = Tail(plain) \o Rest(stating, n)
      BY <1>2, <3>1, <3>2, FirstFacts
    <3>4. n = 2
      BY <1>2, <3>2 DEF Stands
    <3> QED
      BY <3>2, <3>3, <3>4
  <2> QED
    BY <2>1, <2>2
<1>5. CASE agenda # <<>> /\ Stage(Head(agenda)) = 0 /\ agenda' = agenda /\ callers' = callers
  BY <1>4, <1>5 DEF Stands, Bottom
<1>6. ASSUME agenda # <<>>, Stage(Head(agenda)) = 0, callers # <<>>,
             callers' = callers \/ \E x : callers' = Append(callers, x)
      PROVE  n = 2 /\ \E more : Stands(more, stating, n)'
  <2>1. callers' # <<>> /\ callers'[1] = callers[1]
    <3>1. \A x : Append(callers, x) # <<>> /\ Append(callers, x)[1] = callers[1]
      <4>1. Len(callers) \in Nat /\ Len(callers) # 0
        BY <1>1, <1>6 DEF IsSequence
      <4>2. 1 \in 1..Len(callers)
        BY <4>1
      <4> QED
        BY <1>1, <4>2, AppendFacts
    <3> QED
      BY <1>6, <3>1
  <2>2. n = 2
    BY <1>4, <1>6
  <2>3. Stands(plain, stating, n)'
    BY <1>6, <2>1, <2>2 DEF Stands, Bottom
  <2> QED
    BY <2>2, <2>3
<1>7. ASSUME agenda # <<>>, Stage(Head(agenda)) = 0, callers = <<>>, NEW tasks, IsPlain(tasks),
             \/ agenda' = tasks \o Tail(agenda) /\ callers' = callers
             \/ \E s : callers' = Append(callers, [symbol |-> s, rest |-> tasks \o Tail(agenda)])
      PROVE  n = 2 /\ \E more : Stands(more, stating, n)'
  <2>1. n = 2 /\ plain # <<>> /\ Tail(agenda) = Tail(plain) \o Rest(stating, n)
    BY <1>4, <1>7
  <2>2. IsSequence(Tail(plain)) /\ ToSet(Tail(plain)) \subseteq ToSet(plain) /\ IsSequence(tasks)
    BY <1>2, <1>7, <2>1, TailFacts DEF IsPlain
  <2>3. tasks \o Tail(agenda) = (tasks \o Tail(plain)) \o Rest(stating, n)
    <3>1. tasks \o (Tail(plain) \o Rest(stating, n)) = (tasks \o Tail(plain)) \o Rest(stating, n)
      <4> DEFINE s == Tail(plain)
                 t == Rest(stating, n)
      <4>1. IsSequence(s) /\ IsSequence(t)
        BY <1>2, <2>2
      <4> HIDE DEF s, t
      <4>2. tasks \o (s \o t) = (tasks \o s) \o t
        BY <2>2, <4>1, Associative
      <4> QED
        BY <4>2 DEF s, t
    <3> QED
      BY <2>1, <3>1
  <2>4. IsPlain(tasks \o Tail(plain))
    BY <1>2, <1>7, <2>2, ConcatFacts DEF IsPlain
  <2>5. Bottom' = tasks \o Tail(agenda)
    <3>1. ASSUME NEW s PROVE LET around == Append(<<>>, [symbol |-> s, rest |-> tasks \o Tail(agenda)]) IN
                             around # <<>> /\ around[1].rest = tasks \o Tail(agenda)
      OBVIOUS
    <3> QED
      BY <1>7, <3>1 DEF Bottom
  <2>6. Stands(tasks \o Tail(plain), stating, n)'
    BY <1>2, <2>1, <2>3, <2>4, <2>5 DEF Stands
  <2> QED
    BY <2>1, <2>6
<1> QED
  BY <1>3, <1>5, <1>6, <1>7 DEF Stepped

\* Of a stage, its own call is made last.
LEMMA StageTurn ==
    ASSUME IInv, NEW plain, NEW stating, NEW n, Stands(plain, stating, n), agenda # <<>>, Stage(Head(agenda)) # 0
    PROVE  /\ plain = <<>> /\ callers = <<>>
           /\ stating = <<>> => n \in 2..5 /\ Stage(Head(agenda)) = n /\ Tail(agenda) = From(n + 1)
           /\ stating # <<>> => n = 2 /\ Head(agenda) = Reference("refer", Head(stating)) /\ Tail(agenda) = Closing
<1>1. IsStage(stating, n) /\ IsPlain(plain) /\ IsSequence(plain) /\ IsSequence(Rest(stating, n)) /\ n \in 2..6
  BY RestFacts DEF Stands, IsPlain, IsStage
<1>2. IsSequence(agenda) /\ (callers # <<>> => Head(agenda).do \in LoweringCalls)
  BY TailFacts DEF IInv, CallsKnown, KnownCalls, IsLowering
<1>3. callers = <<>>
  BY <1>2, PlainCalls
<1>4. agenda = plain \o Rest(stating, n)
  BY <1>3 DEF Stands, Bottom
<1>5. plain = <<>>
  <2>1. ASSUME plain # <<>> PROVE FALSE
    <3>1. Head(agenda) = Head(plain) /\ Head(plain) \in ToSet(plain)
      BY <1>1, <1>4, <2>1, FirstFacts, TailFacts
    <3> QED
      BY <1>1, <3>1 DEF IsPlain
  <2> QED
    BY <2>1
<1>6. agenda = Rest(stating, n)
  BY <1>1, <1>4, <1>5, FirstFacts
<1>7. CASE stating = <<>>
  <2>1. agenda = From(n)
    BY <1>1, <1>6, <1>7, RestFacts
  <2>2. n \in 2..5
    <3>1. n = 6 \/ n \in 2..5
      BY <1>1
    <3> QED
      BY <2>1, <3>1, FromFacts
  <2> QED
    BY <1>3, <1>5, <1>7, <2>1, <2>2, FromFacts
<1>8. CASE stating # <<>>
  BY <1>1, <1>3, <1>5, <1>6, <1>8, RestFacts
<1> QED
  BY <1>7, <1>8

\* The conversion ends after its last stage.
LEMMA StagesEnd ==
    ASSUME NEW plain, NEW stating, NEW n, Stands(plain, stating, n), Ended
    PROVE  stating = <<>> /\ n = 6
<1>1. IsStage(stating, n) /\ IsSequence(plain) /\ IsSequence(Rest(stating, n))
  BY RestFacts DEF Stands, IsPlain
<1>2. plain \o Rest(stating, n) = <<>>
  BY DEF Stands, Bottom, Ended
<1>3. plain = <<>>
  BY <1>1, <1>2, FirstFacts
<1>4. Rest(stating, n) = <<>>
  BY <1>1, <1>2, <1>3, FirstFacts
<1> QED
  BY <1>1, <1>4, RestFacts

-----------------------------------------------------------------------------
(* The order of assertions, made and owed.                                  *)

\* An assertion that is owed has a position among those that were made, and
\* those that are owed come in the order of their positions.
Positioned(p, said, r) ==
    /\ r.position \in 0..Len(said)
    /\ \A i \in DOMAIN said : /\ i <= r.position => Sooner(p, said[i], r.marker.id)
                              /\ i > r.position => Sooner(p, r.marker.id, said[i])
Lined(p, said, line) ==
    /\ IsSequence(said) /\ IsSequence(line)
    /\ \A i, j \in DOMAIN said : i < j => Sooner(p, said[i], said[j])
    /\ \A i, j \in DOMAIN line : i < j => /\ line[i].position <= line[j].position
                                          /\ Sooner(p, line[i].marker.id, line[j].marker.id)
    /\ \A i \in DOMAIN line : Positioned(p, said, line[i])

\* No marker was written sooner than itself.
LEMMA NotSooner ==
    ASSUME NEW p, IsProgram(p), NEW m \in MarkersIn(p)
    PROVE  ~Sooner(p, m, m)
<1>1. PICK x \in SpotsOf(p, m) : x \in AllSpots(p) /\ MarkerAt(p, x) = m
  BY HasPlace
<1>2. PICK q \in DOMAIN p.query : x \in Spots(p, q)
  BY <1>1 DEF AllSpots
<1>3. p.query[q].kind = "select" /\ x[2] \in DOMAIN MarkersOn(p.query[q])
  BY <1>2 DEF Spots
<1>4. /\ Len(p.query[q].sources) \in Nat /\ Len(p.query[q].markers) \in Nat
      /\ x[2] \in 1..(Len(p.query[q].sources) + Len(p.query[q].markers))
  BY <1>3, MarkerFacts
<1>5. x[2] \in Nat
  BY <1>4
<1> QED
  BY <1>1, <1>5 DEF Sooner

\* A marker that comes after all of these is asserted, or owed.
LEMMA SayLast ==
    ASSUME NEW p, NEW said, NEW line, Lined(p, said, line), NEW m,
           \A i \in DOMAIN said : Sooner(p, said[i], m),
           \A i \in DOMAIN line : Sooner(p, line[i].marker.id, m)
    PROVE  Lined(p, Append(said, m), line)
<1> DEFINE more == Append(said, m)
           n == Len(said)
<1>1. /\ IsSequence(more) /\ Len(more) = n + 1 /\ n \in Nat /\ DOMAIN more = 1..(n + 1) /\ DOMAIN said = 1..n
      /\ (\A i \in 1..n : more[i] = said[i]) /\ more[n + 1] = m
  BY AppendFacts DEF Lined
<1>2. IsSequence(line) /\ \A i \in DOMAIN line : line[i].position \in 0..n
  BY DEF Lined, Positioned
<1> HIDE DEF more, n
<1>3. \A i \in DOMAIN more : i \in DOMAIN said \/ i = n + 1
  BY <1>1
<1>4. \A i, j \in DOMAIN more : i < j => i \in DOMAIN said
  BY <1>1
<1>5. \A i, j \in DOMAIN more : i < j => Sooner(p, more[i], more[j])
  BY <1>1, <1>3, <1>4 DEF Lined
<1>6. ASSUME NEW k \in DOMAIN line
      PROVE  Positioned(p, more, line[k])
  <2>1. line[k].position \in 0..n /\ Positioned(p, said, line[k])
    BY <1>2 DEF Lined
  <2>2. line[k].position \in 0..Len(more) /\ ~(n + 1 <= line[k].position)
    BY <1>1, <2>1
  <2>3. \A i \in DOMAIN said : /\ i <= line[k].position => Sooner(p, said[i], line[k].marker.id)
                               /\ i > line[k].position => Sooner(p, line[k].marker.id, said[i])
    BY <2>1 DEF Positioned
  <2> QED
    BY <1>1, <1>3, <2>2, <2>3 DEF Positioned
<1> QED
  BY <1>1, <1>2, <1>5, <1>6 DEF Lined, more

LEMMA OweLast ==
    ASSUME NEW p, NEW said, NEW line, Lined(p, said, line), NEW r, r.position = Len(said),
           \A i \in DOMAIN said : Sooner(p, said[i], r.marker.id),
           \A i \in DOMAIN line : Sooner(p, line[i].marker.id, r.marker.id)
    PROVE  Lined(p, said, Append(line, r))
<1> DEFINE more == Append(line, r)
           n == Len(line)
<1>1. /\ IsSequence(more) /\ n \in Nat /\ DOMAIN more = 1..(n + 1) /\ DOMAIN line = 1..n
      /\ (\A i \in 1..n : more[i] = line[i]) /\ more[n + 1] = r
  BY AppendFacts DEF Lined
<1>2. IsSequence(said) /\ Len(said) \in Nat /\ DOMAIN said = 1..Len(said)
  BY SequenceFacts DEF Lined
<1>3. Positioned(p, said, r)
  BY <1>2 DEF Positioned
<1>4. \A i \in DOMAIN line : line[i].position <= r.position
  <2>1. \A i \in DOMAIN line : line[i].position \in 0..Len(said)
    BY DEF Lined, Positioned
  <2> QED
    BY <1>2, <2>1
<1> HIDE DEF more, n
<1>5. \A i, j \in DOMAIN more : i < j => i \in DOMAIN line /\ (j \in DOMAIN line \/ j = n + 1)
  BY <1>1
<1>6. ASSUME NEW i \in DOMAIN more, NEW j \in DOMAIN more, i < j
      PROVE  more[i].position <= more[j].position /\ Sooner(p, more[i].marker.id, more[j].marker.id)
  <2>1. i \in DOMAIN line /\ more[i] = line[i]
    BY <1>1, <1>5, <1>6
  <2>2. CASE j \in DOMAIN line
    BY <1>1, <1>6, <2>1, <2>2 DEF Lined
  <2>3. CASE j = n + 1
    BY <1>1, <1>4, <2>1, <2>3
  <2> QED
    BY <1>5, <1>6, <2>2, <2>3
<1>7. \A i \in DOMAIN more : Positioned(p, said, more[i])
  <2>1. \A i \in DOMAIN more : i \in DOMAIN line \/ i = n + 1
    BY <1>1
  <2> QED
    BY <1>1, <1>3, <2>1 DEF Lined
<1>8. \A i, j \in DOMAIN said : i < j => Sooner(p, said[i], said[j])
  BY DEF Lined
<1> QED
  BY <1>1, <1>2, <1>6, <1>7, <1>8 DEF Lined, more

\* Some of those that are owed stay in line.
LEMMA StayLined ==
    ASSUME NEW p, NEW said, NEW line, Lined(p, said, line), NEW some, IsSequence(some), NEW at,
           \A i \in DOMAIN some : at[i] \in DOMAIN line /\ some[i] = line[at[i]],
           \A i, j \in DOMAIN some : i < j => at[i] < at[j]
    PROVE  Lined(p, said, some)
<1>1. \A i, j \in DOMAIN some : i < j => /\ some[i].position <= some[j].position
                                          /\ Sooner(p, some[i].marker.id, some[j].marker.id)
  BY DEF Lined
<1>2. \A i \in DOMAIN some : Positioned(p, said, some[i])
  BY DEF Lined
<1> QED
  BY <1>1, <1>2 DEF Lined

\* A line has r besides the others, somewhere.
OneMore(line, r, others) ==
    \E k \in DOMAIN line : line[k] = r /\ \A x \in ToSet(others) : \E i \in DOMAIN line : i # k /\ line[i] = x

LEMMA Dropped ==
    ASSUME NEW p, NEW said, NEW a, NEW r, NEW b, IsSequence(a), IsSequence(b), Lined(p, said, a \o (<<r>> \o b))
    PROVE  /\ Lined(p, said, a \o b)
           /\ ToSet(a \o (<<r>> \o b)) = ToSet(a \o b) \cup {r}
           /\ OneMore(a \o (<<r>> \o b), r, a \o b)
<1> DEFINE line == a \o (<<r>> \o b)
           some == a \o b
           n == Len(a)
           at == [i \in DOMAIN some |-> IF i <= n THEN i ELSE i + 1]
<1>1. IsSequence(<<r>>) /\ ToSet(<<r>>) = {r} /\ Len(<<r>>) = 1 /\ <<r>>[1] = r
  <2>1. Len(<<r>>) = 1 /\ <<r>>[1] = r
    OBVIOUS
  <2> QED
    BY <2>1, OneFacts
<1>2. /\ IsSequence(<<r>> \o b) /\ Len(b) \in Nat /\ DOMAIN (<<r>> \o b) = 1..(1 + Len(b))
      /\ (<<r>> \o b)[1] = r /\ \A i \in 1..Len(b) : (<<r>> \o b)[1 + i] = b[i]
  <2>1. /\ Len(b) \in Nat /\ DOMAIN (<<r>> \o b) = 1..(Len(<<r>>) + Len(b))
        /\ (\A i \in 1..Len(<<r>>) : (<<r>> \o b)[i] = <<r>>[i])
        /\ \A i \in 1..Len(b) : (<<r>> \o b)[Len(<<r>>) + i] = b[i]
    BY <1>1, ConcatPlaces
  <2>2. IsSequence(<<r>> \o b)
    BY <1>1, ConcatFacts
  <2>3. 1 \in 1..1
    OBVIOUS
  <2> QED
    BY <1>1, <2>1, <2>2, <2>3
<1>3. Len(<<r>> \o b) = 1 + Len(b)
  <2>1. <<r>> \o b \in Seq(ToSet(<<r>> \o b))
    BY <1>2 DEF IsSequence
  <2>2. Len(<<r>> \o b) \in Nat /\ DOMAIN (<<r>> \o b) = 1..Len(<<r>> \o b)
    BY <2>1
  <2>3. \A k, l \in Nat : 1..k = 1..l => k = l
    <3>1. \A k, l \in Nat : k < l => l \in 1..l /\ l \notin 1..k
      OBVIOUS
    <3>2. \A k, l \in Nat : k < l \/ l < k \/ k = l
      OBVIOUS
    <3> QED
      BY <3>1, <3>2
  <2> QED
    BY <1>2, <2>2, <2>3
<1>4. /\ IsSequence(line) /\ n \in Nat /\ DOMAIN line = 1..(n + (1 + Len(b)))
      /\ (\A i \in 1..n : line[i] = a[i]) /\ \A i \in 1..(1 + Len(b)) : line[n + i] = (<<r>> \o b)[i]
  BY <1>2, <1>3, ConcatPlaces, ConcatFacts
<1>5. /\ IsSequence(some) /\ DOMAIN some = 1..(n + Len(b))
      /\ (\A i \in 1..n : some[i] = a[i]) /\ \A i \in 1..Len(b) : some[n + i] = b[i]
  BY ConcatPlaces, ConcatFacts
<1>6. ToSet(line) = ToSet(some) \cup {r}
  <2>1. ToSet(line) = ToSet(a) \cup (ToSet(<<r>>) \cup ToSet(b))
    BY <1>1, <1>2, ConcatFacts
  <2>2. ToSet(some) = ToSet(a) \cup ToSet(b)
    BY ConcatFacts
  <2> QED
    BY <1>1, <2>1, <2>2
<1> HIDE DEF line, some, n
<1>7. ASSUME NEW i \in DOMAIN some
      PROVE  /\ at[i] \in DOMAIN line /\ at[i] # n + 1 /\ some[i] = line[at[i]]
  <2>1. i \in 1..(n + Len(b))
    BY <1>5
  <2>2. CASE i <= n
    <3>1. at[i] = i /\ i \in 1..n /\ i \in 1..(n + (1 + Len(b))) /\ i # n + 1
      BY <1>2, <1>4, <2>1, <2>2
    <3> QED
      BY <1>4, <1>5, <3>1
  <2>3. CASE ~(i <= n)
    <3>1. at[i] = i + 1
      BY <2>3
    <3> DEFINE j == i - n
    <3>2. /\ j \in 1..Len(b) /\ 1 + j \in 1..(1 + Len(b)) /\ n + j = i /\ n + (1 + j) = i + 1
          /\ i + 1 \in 1..(n + (1 + Len(b))) /\ i + 1 # n + 1
      BY <1>2, <1>4, <2>1, <2>3, SMTT(30)
    <3> HIDE DEF j
    <3>3. some[n + j] = b[j] /\ line[n + (1 + j)] = (<<r>> \o b)[1 + j] /\ (<<r>> \o b)[1 + j] = b[j]
      BY <1>2, <1>4, <1>5, <3>2
    <3> QED
      BY <1>4, <3>1, <3>2, <3>3
  <2> QED
    BY <2>2, <2>3
<1>8. ASSUME NEW i \in DOMAIN some, NEW j \in DOMAIN some, i < j
      PROVE  at[i] < at[j]
  BY <1>2, <1>4, <1>5, <1>8
<1> HIDE DEF at
<1>9. Lined(p, said, line)
  BY DEF line
<1>10. Lined(p, said, some)
  <2>1. \A i \in DOMAIN some : at[i] \in DOMAIN line /\ some[i] = line[at[i]]
    BY <1>7
  <2>2. \A i, j \in DOMAIN some : i < j => at[i] < at[j]
    BY <1>8
  <2> QED
    <3>1. IsSequence(some)
      BY <1>5
    <3> QED
      BY <3>1, <1>9, <2>1, <2>2, StayLined
<1>11. n + 1 \in DOMAIN line /\ line[n + 1] = r
  <2>1. 1 \in 1..(1 + Len(b)) /\ n + 1 \in 1..(n + (1 + Len(b)))
    BY <1>2, <1>4
  <2> QED
    BY <1>2, <1>4, <2>1
<1>12. \A x \in ToSet(some) : \E i \in DOMAIN line : i # n + 1 /\ line[i] = x
  BY <1>7 DEF ToSet
<1>13. OneMore(line, r, some)
  BY <1>11, <1>12 DEF OneMore
<1> QED
  BY <1>6, <1>10, <1>13 DEF line, some

LEMMA RemoveLast ==
    ASSUME NEW s, IsSequence(s), s # <<>>
    PROVE  RemoveAt(s, Len(s)) = Front(s)
<1>1. s \in Seq(ToSet(s)) /\ Len(s) \in Nat /\ Len(s) # 0
  BY DEF IsSequence
<1>2. SubSeq(s, 1, Len(s) - 1) \in Seq(ToSet(s))
  BY <1>1
<1>3. SubSeq(s, Len(s) + 1, Len(s)) = <<>>
  BY <1>1
<1>4. SubSeq(s, 1, Len(s) - 1) \o <<>> = SubSeq(s, 1, Len(s) - 1)
  BY <1>2
<1> QED
  BY <1>3, <1>4 DEF RemoveAt, Front

LEMMA InsertEntries ==
    ASSUME NEW s, IsSequence(s), NEW k \in 0..Len(s), NEW x
    PROVE  /\ IsSequence(InsertAt(s, k + 1, x)) /\ Len(InsertAt(s, k + 1, x)) = Len(s) + 1 /\ Len(s) \in Nat
           /\ DOMAIN s = 1..Len(s) /\ DOMAIN InsertAt(s, k + 1, x) = 1..(Len(s) + 1)
           /\ \A i \in 1..k : InsertAt(s, k + 1, x)[i] = s[i]
           /\ InsertAt(s, k + 1, x)[k + 1] = x
           /\ \A i \in (k + 1)..Len(s) : InsertAt(s, k + 1, x)[i + 1] = s[i]
           /\ ToSet(InsertAt(s, k + 1, x)) = ToSet(s) \cup {x}
<1> DEFINE more == InsertAt(s, k + 1, x)
           before == SubSeq(s, 1, k)
           after == SubSeq(s, k + 1, Len(s))
           rest == <<x>> \o after
<1>1. s \in Seq(ToSet(s)) /\ Len(s) \in Nat /\ DOMAIN s = 1..Len(s)
  BY SequenceFacts DEF IsSequence
<1>2. IsSequence(more) /\ Len(more) = Len(s) + 1
  BY InsertFacts
<1>3. k \in Nat /\ k <= Len(s) /\ (k + 1) - 1 = k /\ Len(s) - k \in Nat
  BY <1>1
<1>4. before \in Seq(ToSet(s)) /\ Len(before) = k /\ \A i \in 1..k : before[i] = s[i]
  BY <1>1, <1>3
<1>5. after \in Seq(ToSet(s)) /\ Len(after) = Len(s) - k /\ \A i \in 1..(Len(s) - k) : after[i] = s[k + i]
  <2>1. after \in Seq(ToSet(s)) /\ Len(after) = Len(s) - k
    <3>1. after \in Seq(ToSet(s))
      BY <1>1, <1>3
    <3>2. Len(SubSeq(s, k + 1, Len(s))) = IF k + 1 <= Len(s) THEN Len(s) - (k + 1) + 1 ELSE 0
      BY <1>1, <1>3
    <3>3. \A n, j \in Nat : j <= n => (IF j + 1 <= n THEN n - (j + 1) + 1 ELSE 0) = n - j
      OBVIOUS
    <3> QED
      BY <1>1, <1>3, <3>1, <3>2, <3>3
  <2>2. ASSUME NEW i \in 1..(Len(s) - k) PROVE after[i] = s[k + i]
    <3>1. (k + 1) + i - 1 = k + i
      BY <1>3
    <3>2. after[i] = s[(k + 1) + i - 1]
      BY <1>1, <1>3
    <3> QED
      BY <3>1, <3>2
  <2> QED
    BY <2>1, <2>2
<1>6. IsSequence(before) /\ IsSequence(after) /\ IsSequence(<<x>>) /\ Len(<<x>>) = 1 /\ <<x>>[1] = x
  <2>1. Len(<<x>>) = 1 /\ <<x>>[1] = x
    OBVIOUS
  <2> QED
    BY <1>4, <1>5, <2>1, OwnElements, OneFacts
<1>7. more = (before \o <<x>>) \o after
  BY <1>3 DEF InsertAt
<1> HIDE DEF before, after, more
<1>8. more = before \o rest
  BY <1>6, <1>7, Associative
<1>9. /\ DOMAIN rest = 1..(1 + Len(after)) /\ rest[1] = x /\ (\A i \in 1..Len(after) : rest[1 + i] = after[i])
      /\ IsSequence(rest)
  <2>1. /\ DOMAIN rest = 1..(Len(<<x>>) + Len(after)) /\ (\A i \in 1..Len(<<x>>) : rest[i] = <<x>>[i])
        /\ \A i \in 1..Len(after) : rest[Len(<<x>>) + i] = after[i]
    BY <1>6, ConcatPlaces
  <2>2. 1 \in 1..1
    OBVIOUS
  <2> QED
    BY <1>6, <2>1, <2>2, ConcatFacts
<1> HIDE DEF rest
<1>10. /\ (\A i \in 1..Len(before) : more[i] = before[i]) /\ \A i \in 1..Len(rest) : more[Len(before) + i] = rest[i]
       /\ Len(rest) \in Nat /\ DOMAIN rest = 1..Len(rest) /\ DOMAIN more = 1..(Len(before) + Len(rest))
  BY <1>6, <1>8, <1>9, ConcatPlaces
<1>11. DOMAIN more = 1..(Len(s) + 1)
  BY <1>2, SequenceFacts
<1>12. \A i \in 1..k : more[i] = s[i]
  BY <1>4, <1>10
<1>13. more[k + 1] = x
  <2>1. 1 \in DOMAIN rest
    BY <1>3, <1>5, <1>9
  <2> QED
    BY <1>4, <1>9, <1>10, <2>1
<1>14. ASSUME NEW i \in (k + 1)..Len(s)
       PROVE  more[i + 1] = s[i]
  <2> DEFINE j == i - k
  <2>1. j \in 1..Len(after) /\ k + j = i /\ k + (1 + j) = i + 1 /\ 1 + j \in 1..(1 + Len(after))
    BY <1>1, <1>3, <1>5
  <2> HIDE DEF j
  <2>2. more[k + (1 + j)] = rest[1 + j] /\ rest[1 + j] = after[j] /\ after[j] = s[k + j]
    BY <1>4, <1>5, <1>9, <1>10, <2>1
  <2> QED
    BY <2>1, <2>2
<1>15. ToSet(more) = ToSet(s) \cup {x}
  <2>1. ASSUME NEW i \in DOMAIN more PROVE more[i] \in ToSet(s) \cup {x}
    <3>1. i \in 1..k \/ i = k + 1 \/ (i - 1 \in (k + 1)..Len(s) /\ (i - 1) + 1 = i)
      BY <1>1, <1>3, <1>11
    <3>2. \A j \in 1..k : j \in DOMAIN s
      BY <1>1, <1>3
    <3>3. \A j \in (k + 1)..Len(s) : j \in DOMAIN s
      BY <1>1, <1>3
    <3> QED
      BY <1>12, <1>13, <1>14, <3>1, <3>2, <3>3 DEF ToSet
  <2>2. ASSUME NEW i \in DOMAIN s PROVE s[i] \in ToSet(more)
    <3>1. (i \in 1..k /\ i \in DOMAIN more) \/ (i \in (k + 1)..Len(s) /\ i + 1 \in DOMAIN more)
      BY <1>1, <1>3, <1>11
    <3> QED
      BY <1>12, <1>14, <3>1 DEF ToSet
  <2>3. k + 1 \in DOMAIN more
    BY <1>1, <1>3, <1>11
  <2> QED
    BY <1>13, <2>1, <2>2, <2>3 DEF ToSet
<1> QED
  BY <1>1, <1>2, <1>11, <1>12, <1>13, <1>14, <1>15 DEF more

\* The last that is owed is inserted at its position.
LEMMA Inserted ==
    ASSUME NEW p, NEW said, NEW line, Lined(p, said, line), line # <<>>
    PROVE  /\ Last(line).position \in 0..Len(said)
           /\ Lined(p, InsertAt(said, Last(line).position + 1, Last(line).marker.id), Front(line))
<1> DEFINE r == Last(line)
           k == r.position
           x == r.marker.id
           more == InsertAt(said, k + 1, x)
           rest == Front(line)
           n == Len(line)
<1>1. /\ IsSequence(rest) /\ n \in Nat \ {0} /\ DOMAIN line = 1..n /\ DOMAIN rest = 1..(n - 1)
      /\ (\A i \in 1..(n - 1) : rest[i] = line[i]) /\ r = line[n]
  BY FrontFacts DEF Lined
<1>2. n \in DOMAIN line /\ \A i \in DOMAIN rest : i \in DOMAIN line /\ i < n /\ rest[i] = line[i]
  BY <1>1
<1>3. Positioned(p, said, r)
  BY <1>1, <1>2 DEF Lined
<1>4. k \in 0..Len(said) /\ Len(said) \in Nat /\ k \in Nat /\ k <= Len(said)
  BY <1>3, SequenceFacts DEF Positioned, Lined
<1>5. \A i \in DOMAIN rest : /\ rest[i].position <= k /\ Sooner(p, rest[i].marker.id, x)
                             /\ Positioned(p, said, rest[i])
  BY <1>1, <1>2 DEF Lined
<1>6. \A i \in DOMAIN said : (i <= k => Sooner(p, said[i], x)) /\ (i > k => Sooner(p, x, said[i]))
  BY <1>3 DEF Positioned
<1>7. \A i, j \in DOMAIN said : i < j => Sooner(p, said[i], said[j])
  BY DEF Lined
<1>8. \A i, j \in DOMAIN rest : i < j => rest[i].position <= rest[j].position /\ Sooner(p, rest[i].marker.id, rest[j].marker.id)
  BY <1>2 DEF Lined
<1> HIDE DEF rest, r
<1>9. /\ IsSequence(more) /\ Len(more) = Len(said) + 1 /\ DOMAIN said = 1..Len(said)
      /\ DOMAIN more = 1..(Len(said) + 1)
      /\ (\A i \in 1..k : more[i] = said[i]) /\ more[k + 1] = x
      /\ \A i \in (k + 1)..Len(said) : more[i + 1] = said[i]
  <2>1. IsSequence(said)
    BY DEF Lined
  <2> HIDE DEF k, x
  <2> QED
    BY <1>4, <2>1, InsertEntries
<1> HIDE DEF k, x, more, n
\* An entry is an old one, before or after the new one, which is at k + 1.
<1> DEFINE Old(i) == IF i <= k THEN i ELSE i - 1
<1>10. ASSUME NEW i \in DOMAIN more, i # k + 1
       PROVE  /\ Old(i) \in DOMAIN said /\ more[i] = said[Old(i)]
              /\ (i <= k => Old(i) <= k) /\ (~(i <= k) => Old(i) > k /\ i > k + 1)
  <2>1. i \in 1..(Len(said) + 1)
    BY <1>9
  <2>2. CASE i <= k
    <3>1. i \in 1..k /\ i \in 1..Len(said)
      BY <1>4, <2>1, <2>2
    <3> QED
      BY <1>9, <2>2, <3>1
  <2>3. CASE ~(i <= k)
    <3>1. i - 1 \in (k + 1)..Len(said) /\ i - 1 \in 1..Len(said) /\ (i - 1) + 1 = i /\ i - 1 > k /\ i > k + 1
      BY <1>4, <1>10, <2>1, <2>3
    <3> QED
      BY <1>9, <2>3, <3>1
  <2> QED
    BY <2>2, <2>3
<1>11. ASSUME NEW i \in DOMAIN more, NEW j \in DOMAIN more, i < j
       PROVE  Sooner(p, more[i], more[j])
  <2>1. i \in Nat /\ j \in Nat
    BY <1>4, <1>9
  <2>2. CASE i = k + 1
    <3>1. j # k + 1 /\ ~(j <= k)
      BY <1>4, <1>11, <2>1, <2>2
    <3> QED
      BY <1>6, <1>9, <1>10, <2>2, <3>1
  <2>3. CASE j = k + 1
    <3>1. i # k + 1 /\ i <= k
      BY <1>4, <1>11, <2>1, <2>3
    <3> QED
      BY <1>6, <1>9, <1>10, <2>3, <3>1
  <2>4. CASE i # k + 1 /\ j # k + 1
    <3>1. Old(i) < Old(j)
      BY <1>4, <1>11, <2>1, <2>4
    <3>2. Old(i) \in DOMAIN said /\ Old(j) \in DOMAIN said /\ more[i] = said[Old(i)] /\ more[j] = said[Old(j)]
      BY <1>10, <2>4
    <3> HIDE DEF Old
    <3> QED
      BY <1>7, <3>1, <3>2
  <2> QED
    BY <2>2, <2>3, <2>4
<1>12. ASSUME NEW m \in DOMAIN rest
       PROVE  Positioned(p, more, rest[m])
  <2> DEFINE at == rest[m].position
             y == rest[m].marker.id
  <2>1. /\ at \in 0..Len(said) /\ at <= k /\ Sooner(p, y, x)
        /\ \A i \in DOMAIN said : (i <= at => Sooner(p, said[i], y)) /\ (i > at => Sooner(p, y, said[i]))
    BY <1>5 DEF Positioned
  <2> HIDE DEF at, y
  <2>2. at \in 0..Len(more) /\ at \in Nat
    BY <1>4, <1>9, <2>1
  <2>3. ASSUME NEW i \in DOMAIN more
        PROVE  (i <= at => Sooner(p, more[i], y)) /\ (i > at => Sooner(p, y, more[i]))
    <3>1. i \in Nat
      BY <1>4, <1>9
    <3>2. CASE i = k + 1
      <4>1. ~(i <= at)
        BY <1>4, <2>1, <2>2, <3>2
      <4> QED
        BY <1>9, <2>1, <3>2, <4>1
    <3>3. CASE i # k + 1
      <4>1. /\ Old(i) \in DOMAIN said /\ more[i] = said[Old(i)]
            /\ (i <= k => Old(i) <= k) /\ (~(i <= k) => Old(i) > k /\ i > k + 1)
        BY <1>10, <3>3
      <4>2. Old(i) = i \/ Old(i) = i - 1
        OBVIOUS
      <4>3. i <= at => Old(i) <= at
        BY <1>4, <2>2, <3>1, <4>2
      <4>4. i > at => Old(i) > at
        <5>1. CASE i <= k
          BY <5>1
        <5>2. CASE ~(i <= k)
          <6>1. Old(i) > k /\ Old(i) = i - 1
            BY <4>1, <5>2
          <6> HIDE DEF Old
          <6> QED
            BY <1>4, <2>1, <2>2, <3>1, <6>1
        <5> QED
          BY <5>1, <5>2
      <4> HIDE DEF Old
      <4> QED
        BY <2>1, <4>1, <4>3, <4>4
    <3> QED
      BY <3>2, <3>3
  <2> QED
    BY <2>2, <2>3 DEF Positioned, at, y
<1>13. Lined(p, more, rest)
  BY <1>1, <1>8, <1>9, <1>11, <1>12 DEF Lined
<1> QED
  BY <1>4, <1>13 DEF k, x, more, r, rest

-----------------------------------------------------------------------------
(* The traces of the markers that were handled.                             *)

IdsOf(line) == {r.marker.id : r \in ToSet(line)}
Noted(p, found) == {m \in MarkersIn(p) : \E d \in found : d[2] = m}

\* Those asserted, declared, owed and noted are apart, and no other was handled.
Apart(said, declared, owed, noted, whole) ==
    /\ said \cup declared \cup owed \cup noted = whole
    /\ said \cap declared = {} /\ (said \cup declared) \cap owed = {}
    /\ (said \cup declared \cup owed) \cap noted = {}
Traces(p, said, declared, line, found, whole) ==
    /\ Apart(ToSet(said), ToSet(declared), IdsOf(line), Noted(p, found), whole)
    /\ whole \subseteq MarkersIn(p)
    /\ IsSequence(declared) /\ \A i, j \in DOMAIN declared : declared[i] = declared[j] => i = j
    /\ \A d, e \in found : d[2] = e[2] /\ d[2] \in MarkersIn(p) => d = e

LEMMA TraceSaid ==
    ASSUME NEW p, NEW said, NEW declared, NEW line, NEW found, NEW whole, Traces(p, said, declared, line, found, whole),
           NEW m \in MarkersIn(p) \ whole, NEW more, ToSet(more) = ToSet(said) \cup {m}
    PROVE  Traces(p, more, declared, line, found, whole \cup {m})
BY DEF Traces, Apart

LEMMA TraceDeclared ==
    ASSUME NEW p, NEW said, NEW declared, NEW line, NEW found, NEW whole, Traces(p, said, declared, line, found, whole),
           NEW m \in MarkersIn(p) \ whole
    PROVE  Traces(p, said, Append(declared, m), line, found, whole \cup {m})
<1> DEFINE more == Append(declared, m)
           n == Len(declared)
<1>1. /\ IsSequence(more) /\ ToSet(more) = ToSet(declared) \cup {m} /\ n \in Nat
      /\ DOMAIN more = 1..(n + 1) /\ DOMAIN declared = 1..n
      /\ (\A i \in 1..n : more[i] = declared[i]) /\ more[n + 1] = m
  BY AppendFacts DEF Traces
<1> HIDE DEF more, n
<1>2. m \notin ToSet(declared)
  BY DEF Traces, Apart
<1>3. ASSUME NEW i \in DOMAIN more, NEW j \in DOMAIN more, more[i] = more[j]
      PROVE  i = j
  <2>1. /\ (i \in DOMAIN declared /\ more[i] = declared[i] /\ more[i] # m) \/ i = n + 1
        /\ (j \in DOMAIN declared /\ more[j] = declared[j] /\ more[j] # m) \/ j = n + 1
    <3>1. \A k \in DOMAIN more : k \in DOMAIN declared \/ k = n + 1
      BY <1>1
    <3>2. \A k \in DOMAIN declared : more[k] = declared[k] /\ more[k] # m
      BY <1>1, <1>2 DEF ToSet
    <3> QED
      BY <3>1, <3>2
  <2> QED
    BY <1>1, <1>3, <2>1 DEF Traces
<1>4. Apart(ToSet(said), ToSet(more), IdsOf(line), Noted(p, found), whole \cup {m})
  BY <1>1 DEF Traces, Apart
<1> QED
  BY <1>1, <1>3, <1>4 DEF Traces, more

LEMMA TraceOwed ==
    ASSUME NEW p, NEW said, NEW declared, NEW line, NEW found, NEW whole, Traces(p, said, declared, line, found, whole),
           NEW more, IsSequence(line), NEW r, ToSet(more) = ToSet(line) \cup {r}, r.marker.id \in MarkersIn(p) \ whole
    PROVE  Traces(p, said, declared, more, found, whole \cup {r.marker.id})
<1>1. IdsOf(more) = IdsOf(line) \cup {r.marker.id}
  BY DEF IdsOf
<1> QED
  BY <1>1 DEF Traces, Apart

LEMMA TraceNoted ==
    ASSUME NEW p, NEW said, NEW declared, NEW line, NEW found, NEW whole, Traces(p, said, declared, line, found, whole),
           NEW m \in MarkersIn(p) \ whole, NEW what
    PROVE  Traces(p, said, declared, line, found \cup {<<what, m>>}, whole \cup {m})
<1>1. <<what, m>>[2] = m
  OBVIOUS
<1>2. Noted(p, found \cup {<<what, m>>}) = Noted(p, found) \cup {m}
  BY <1>1 DEF Noted
<1>3. \A d \in found : d[2] # m
  BY DEF Traces, Apart, Noted
<1>4. \A d, e \in found \cup {<<what, m>>} : d[2] = e[2] /\ d[2] \in MarkersIn(p) => d = e
  BY <1>1, <1>3 DEF Traces
<1> QED
  BY <1>2, <1>4 DEF Traces, Apart

\* What is reported of names leaves no trace of a marker.
LEMMA TraceNames ==
    ASSUME NEW p, IsProgram(p), NEW said, NEW declared, NEW line, NEW found, NEW whole,
           Traces(p, said, declared, line, found, whole), NEW more, AboutNames(more, p)
    PROVE  Traces(p, said, declared, line, found \cup more, whole)
<1>1. \A d \in more : d[2] \notin MarkersIn(p)
  BY DEF AboutNames, IsProgram
<1>2. Noted(p, found \cup more) = Noted(p, found)
  BY <1>1 DEF Noted
<1>3. \A d, e \in found \cup more : d[2] = e[2] /\ d[2] \in MarkersIn(p) => d = e
  BY <1>1 DEF Traces
<1> QED
  BY <1>2, <1>3 DEF Traces

\* One that is not owed any more has no trace, until it has another one.
LEMMA TraceLost ==
    ASSUME NEW p, NEW said, NEW declared, NEW line, NEW found, NEW whole, Traces(p, said, declared, line, found, whole),
           NEW x \in IdsOf(line), NEW rest, IdsOf(rest) = IdsOf(line) \ {x}
    PROVE  /\ Traces(p, said, declared, rest, found, whole \ {x})
           /\ x \in MarkersIn(p) \ (whole \ {x}) /\ (whole \ {x}) \cup {x} = whole
<1>1. Apart(ToSet(said), ToSet(declared), IdsOf(rest), Noted(p, found), whole \ {x})
  BY DEF Traces, Apart
<1>2. x \in whole /\ whole \subseteq MarkersIn(p)
  BY DEF Traces, Apart
<1> QED
  BY <1>1, <1>2 DEF Traces

\* In the end all others are noted.
LEMMA TraceRest ==
    ASSUME NEW p, NEW said, NEW declared, NEW line, NEW found, NEW whole, Traces(p, said, declared, line, found, whole)
    PROVE  Traces(p, said, declared, line, found \cup {<<"unanalyzed", m>> : m \in MarkersIn(p) \ whole}, MarkersIn(p))
<1> DEFINE rest == {<<"unanalyzed", m>> : m \in MarkersIn(p) \ whole}
<1>1. \A d \in rest : d[2] \in MarkersIn(p) \ whole /\ d = <<"unanalyzed", d[2]>>
  OBVIOUS
<1>2. \A m \in MarkersIn(p) \ whole : <<"unanalyzed", m>> \in rest /\ <<"unanalyzed", m>>[2] = m
  OBVIOUS
<1> HIDE DEF rest
<1>3. Noted(p, found \cup rest) = Noted(p, found) \cup (MarkersIn(p) \ whole)
  BY <1>1, <1>2 DEF Noted
<1>4. whole \subseteq MarkersIn(p) /\ Noted(p, found) \subseteq whole
  BY DEF Traces, Apart
<1>5. \A d \in found : d[2] \in MarkersIn(p) => d[2] \in whole
  BY <1>4 DEF Noted
<1>6. \A d, e \in found \cup rest : d[2] = e[2] /\ d[2] \in MarkersIn(p) => d = e
  BY <1>1, <1>5 DEF Traces
<1>7. Apart(ToSet(said), ToSet(declared), IdsOf(line), Noted(p, found \cup rest), MarkersIn(p))
  BY <1>3, <1>4 DEF Traces, Apart
<1> QED
  BY <1>6, <1>7 DEF Traces, rest

\* One trace is one assertion, one declaration or one diagnostic.
LEMMA Once ==
    ASSUME NEW s, IsSequence(s), \A i, j \in DOMAIN s : s[i] = s[j] => i = j, NEW m
    PROVE  Times(m, s) = IF m \in ToSet(s) THEN 1 ELSE 0
<1>1. CASE m \in ToSet(s)
  <2>1. PICK i \in DOMAIN s : s[i] = m
    BY <1>1 DEF ToSet
  <2>2. {j \in DOMAIN s : s[j] = m} = {i}
    BY <2>1
  <2> QED
    BY <1>1, <2>2, FS_Singleton DEF Times
<1>2. CASE m \notin ToSet(s)
  <2>1. {j \in DOMAIN s : s[j] = m} = {}
    BY <1>2 DEF ToSet
  <2> QED
    BY <1>2, <2>1, FS_EmptySet DEF Times
<1> QED
  BY <1>1, <1>2

-----------------------------------------------------------------------------
(* Every marker that was handled leaves one trace.                          *)

\* The assertions that are owed: to be inserted, being stated, to be stated.
Line(stating) == placed \o (stating \o pending)
Whole(n) == IF n > 4 THEN Written ELSE handled
Tracing(stating, n) ==
    /\ Lined(program, assertions, Line(stating)) /\ handled \subseteq Written
    /\ Traces(program, assertions, declarations, Line(stating), diagnostics, Whole(n))
    /\ (n > 2 => pending = <<>>) /\ (n > 3 => placed = <<>>)
Traced == ~crashed => \E plain, stating, n : Stands(plain, stating, n) /\ Tracing(stating, n)

LEMMA LineFacts ==
    ASSUME IInv, NEW plain, NEW stating, NEW n, Stands(plain, stating, n)
    PROVE  /\ IsSequence(placed) /\ IsSequence(stating) /\ IsSequence(pending) /\ IsSequence(stating \o pending)
           /\ IsSequence(Line(stating)) /\ IsSequence(assertions) /\ IsProgram(program) /\ n \in 2..6
           /\ IsStage(stating, n)
<1>1. /\ IsSequence(placed) /\ IsSequence(pending) /\ IsSequence(assertions) /\ IsProgram(program)
      /\ IsStage(stating, n)
  BY DEF IInv, PositionsKnown, Stands
<1>2. IsSequence(stating)
  BY <1>1, EmptyFacts, OneFacts DEF IsStage
<1> QED
  BY <1>1, <1>2, ConcatFacts DEF IsStage, Line

LEMMA AppendedLast ==
    ASSUME NEW s, NEW t, NEW u, NEW r, IsSequence(s), IsSequence(t), IsSequence(u)
    PROVE  s \o (t \o Append(u, r)) = Append(s \o (t \o u), r)
<1>1. \A v : IsSequence(v) => Append(v, r) = v \o <<r>>
  <2> SUFFICES ASSUME NEW v, IsSequence(v) PROVE Append(v, r) = v \o <<r>>
    OBVIOUS
  <2> DEFINE S == ToSet(v) \cup {r}
  <2>1. v \in Seq(S) /\ r \in S
    <3> HIDE DEF S
    <3>1. ToSet(v) \subseteq S /\ r \in S
      BY DEF S
    <3> QED
      BY <3>1 DEF IsSequence
  <2> HIDE DEF S
  <2> QED
    BY <2>1
<1>2. IsSequence(<<r>>) /\ IsSequence(t \o u) /\ IsSequence(s \o (t \o u))
  BY OneFacts, ConcatFacts
<1>3. t \o (u \o <<r>>) = (t \o u) \o <<r>>
  BY <1>2, Associative
<1>4. s \o ((t \o u) \o <<r>>) = (s \o (t \o u)) \o <<r>>
  <2> DEFINE v == t \o u
  <2>1. IsSequence(v)
    BY <1>2
  <2> HIDE DEF v
  <2>2. s \o (v \o <<r>>) = (s \o v) \o <<r>>
    BY <1>2, <2>1, Associative, SMTT(30)
  <2> QED
    BY <2>2 DEF v
<1> QED
  BY <1>1, <1>2, <1>3, <1>4

LEMMA AppendedFirst ==
    ASSUME NEW s, NEW u, NEW r, IsSequence(s), IsSequence(u)
    PROVE  Append(s, r) \o u = s \o (<<r>> \o u)
<1>1. Append(s, r) = s \o <<r>>
  <2> DEFINE S == ToSet(s) \cup {r}
  <2>1. s \in Seq(S) /\ r \in S
    <3> HIDE DEF S
    <3>1. ToSet(s) \subseteq S /\ r \in S
      BY DEF S
    <3> QED
      BY <3>1 DEF IsSequence
  <2> HIDE DEF S
  <2> QED
    BY <2>1
<1>2. IsSequence(<<r>>)
  BY OneFacts
<1> QED
  BY <1>1, <1>2, Associative

LEMMA TracedInit == Init => Traced
<1> SUFFICES ASSUME Init PROVE Traced
  OBVIOUS
<1>1. PICK plain : Stands(plain, <<>>, 2)
  BY StagesInit
<1>2. Line(<<>>) = <<>>
  <2>1. <<>> \o (<<>> \o <<>>) = <<>>
    BY EmptyFacts, FirstFacts
  <2> QED
    BY <2>1 DEF Init, Line
<1>3. Lined(program, <<>>, <<>>)
  <2>1. DOMAIN <<>> = {}
    OBVIOUS
  <2> QED
    BY <2>1, EmptyFacts DEF Lined
<1>4. Traces(program, <<>>, <<>>, <<>>, {}, {})
  <2>1. DOMAIN <<>> = {} /\ IsSequence(<<>>) /\ ToSet(<<>>) = {}
    BY EmptyFacts
  <2>2. Noted(program, {}) = {} /\ IdsOf(<<>>) = {}
    BY <2>1 DEF Noted, IdsOf
  <2> QED
    BY <2>1, <2>2 DEF Traces, Apart
<1>5. Whole(2) = {} /\ handled = {} /\ ~(2 > 2) /\ ~(2 > 3)
  BY DEF Whole, Init
<1>6. assertions = <<>> /\ declarations = <<>> /\ diagnostics = {}
  BY DEF Init
<1>7. Tracing(<<>>, 2)
  BY <1>2, <1>3, <1>4, <1>5, <1>6 DEF Tracing
<1> QED
  BY <1>1, <1>7 DEF Traced

\* Steps that handle no marker.
LEMMA PlainTraced ==
    ASSUME IInv, ~crashed, Traced, Stepped, UNCHANGED <<program, marking>>, Reported
    PROVE  Traced'
<1>1. PICK plain, stating, n : Stands(plain, stating, n) /\ Tracing(stating, n)
  BY DEF Traced
<1>2. n = 2 /\ \E more : Stands(more, stating, n)'
  BY <1>1, PlainTurn
<1>3. PICK found : AboutNames(found, program) /\ diagnostics' = diagnostics \cup found
  BY DEF Reported, Report
<1>4. /\ UNCHANGED <<program, assertions, declarations, pending, placed, handled>>
      /\ Line(stating)' = Line(stating) /\ Whole(n)' = Whole(n)
  BY DEF marking, Line, Whole, Written
<1>5. Traces(program, assertions, declarations, Line(stating), diagnostics \cup found, Whole(n))
  BY <1>1, <1>3, TraceNames, LineFacts DEF Tracing
<1>6. Tracing(stating, n)'
  BY <1>1, <1>3, <1>4, <1>5 DEF Tracing, Written
<1> QED
  BY <1>2, <1>6 DEF Traced

\* A marker is handled: it is asserted, declared, owed or reported.
LEMMA MarkTraced ==
    ASSUME IInv, Sequenced, Traced, Stepped, NEW what \in {"join", "mark"}, Doing(what), NEW m, m = Handles(Task),
           UNCHANGED <<program, placed>>, handled' = handled \cup {m},
           \/ assertions' = Append(assertions, m) /\ UNCHANGED <<declarations, pending, diagnostics>>
           \/ declarations' = Append(declarations, m) /\ UNCHANGED <<assertions, pending, diagnostics>>
           \/ /\ \E r : pending' = Append(pending, r) /\ r.marker.id = m /\ r.position = Len(assertions)
              /\ UNCHANGED <<assertions, declarations, diagnostics>>
           \/ /\ \E problem : diagnostics' = diagnostics \cup {<<problem, m>>}
              /\ UNCHANGED <<assertions, declarations, pending>>
    PROVE  Traced'
<1>1. ~crashed
  BY DEF Doing
<1>2. PICK plain, stating, n : Stands(plain, stating, n) /\ Tracing(stating, n)
  BY <1>1 DEF Traced
<1>3. n = 2 /\ \E more : Stands(more, stating, n)'
  BY <1>1, <1>2, PlainTurn
<1>4. /\ IsSequence(placed) /\ IsSequence(stating) /\ IsSequence(pending) /\ IsSequence(assertions)
      /\ IsSequence(Line(stating)) /\ IsProgram(program)
  BY <1>2, LineFacts
<1>5. m \in Written \ handled /\ \A k \in handled : Sooner(program, k, m)
  BY HandleFacts
<1>6. Whole(n) = handled /\ Whole(n)' = handled \cup {m} /\ ~(n > 2) /\ ~(n > 3) /\ Written' = Written
  BY <1>3 DEF Whole, Written
<1>7. /\ Lined(program, assertions, Line(stating)) /\ handled \subseteq Written
      /\ Traces(program, assertions, declarations, Line(stating), diagnostics, handled)
  BY <1>2, <1>6 DEF Tracing
<1>8. /\ \A i \in DOMAIN assertions : Sooner(program, assertions[i], m)
      /\ \A i \in DOMAIN Line(stating) : Sooner(program, Line(stating)[i].marker.id, m)
  <2>1. \A i \in DOMAIN assertions : assertions[i] \in handled
    BY <1>7 DEF Traces, Apart, ToSet
  <2>2. \A i \in DOMAIN Line(stating) : Line(stating)[i].marker.id \in handled
    <3>1. IdsOf(Line(stating)) \subseteq handled
      BY <1>7 DEF Traces, Apart
    <3>2. \A i \in DOMAIN Line(stating) : Line(stating)[i] \in ToSet(Line(stating))
      BY DEF ToSet
    <3> QED
      BY <3>1, <3>2 DEF IdsOf
  <2> QED
    BY <1>5, <2>1, <2>2
<1>9. m \in MarkersIn(program) \ handled
  BY <1>5 DEF Written
<1>10. handled' \subseteq Written'
  BY <1>5, <1>6, <1>7
<1>11. ASSUME NEW said, said = assertions', NEW declared, declared = declarations',
              NEW line, line = Line(stating)', NEW found, found = diagnostics',
              Lined(program, said, line), Traces(program, said, declared, line, found, handled \cup {m})
       PROVE  Traced'
  <2>1. Tracing(stating, n)'
    BY <1>6, <1>10, <1>11 DEF Tracing
  <2> QED
    BY <1>3, <2>1 DEF Traced
<1>12. pending' = pending => Line(stating)' = Line(stating)
  BY DEF Line
<1>13. CASE assertions' = Append(assertions, m) /\ UNCHANGED <<declarations, pending, diagnostics>>
  <2>1. Lined(program, Append(assertions, m), Line(stating))
    BY <1>7, <1>8, SayLast
  <2>2. ToSet(Append(assertions, m)) = ToSet(assertions) \cup {m}
    BY <1>4, AppendFacts
  <2>3. Traces(program, Append(assertions, m), declarations, Line(stating), diagnostics, handled \cup {m})
    BY <1>7, <1>9, <2>2, TraceSaid
  <2> QED
    BY <1>11, <1>12, <1>13, <2>1, <2>3
<1>14. CASE declarations' = Append(declarations, m) /\ UNCHANGED <<assertions, pending, diagnostics>>
  <2>1. Traces(program, assertions, Append(declarations, m), Line(stating), diagnostics, handled \cup {m})
    BY <1>7, <1>9, TraceDeclared
  <2> QED
    BY <1>7, <1>11, <1>12, <1>14, <2>1
<1>15. ASSUME NEW r, pending' = Append(pending, r), r.marker.id = m, r.position = Len(assertions),
              UNCHANGED <<assertions, declarations, diagnostics>>
       PROVE  Traced'
  <2> DEFINE line == placed \o (stating \o Append(pending, r))
  <2>1. line = Append(Line(stating), r) /\ ToSet(line) = ToSet(Line(stating)) \cup {r}
    <3>1. line = Append(placed \o (stating \o pending), r)
      <4>1. placed \o (stating \o Append(pending, r)) = Append(placed \o (stating \o pending), r)
        BY <1>4, AppendedLast, SMTT(30)
      <4> QED
        BY <4>1
    <3>2. line = Append(Line(stating), r)
      BY <3>1 DEF Line
    <3>3. ToSet(Append(Line(stating), r)) = ToSet(Line(stating)) \cup {r}
      BY <1>4, AppendFacts
    <3> QED
      BY <3>2, <3>3
  <2>2. Line(stating)' = line
    BY <1>15 DEF Line
  <2> HIDE DEF line
  <2>3. Lined(program, assertions, Append(Line(stating), r))
    BY <1>7, <1>8, <1>15, OweLast
  <2>4. Traces(program, assertions, declarations, line, diagnostics, handled \cup {r.marker.id})
    BY <1>4, <1>7, <1>9, <1>15, <2>1, TraceOwed, ZenonT(30)
  <2> QED
    BY <1>11, <1>15, <2>1, <2>2, <2>3, <2>4
<1>16. ASSUME NEW problem, diagnostics' = diagnostics \cup {<<problem, m>>},
              UNCHANGED <<assertions, declarations, pending>>
       PROVE  Traced'
  <2>1. Traces(program, assertions, declarations, Line(stating), diagnostics \cup {<<problem, m>>}, handled \cup {m})
    BY <1>7, <1>9, TraceNoted
  <2> QED
    BY <1>7, <1>11, <1>12, <1>16, <2>1
<1> QED
  BY <1>13, <1>14, <1>15, <1>16

\* The markers that are owed differ.
LEMMA DropTraced ==
    ASSUME NEW p, IsProgram(p), NEW said, NEW declared, NEW found, NEW whole, NEW a, NEW r, NEW b,
           IsSequence(a), IsSequence(b), Lined(p, said, a \o (<<r>> \o b)),
           Traces(p, said, declared, a \o (<<r>> \o b), found, whole)
    PROVE  /\ Lined(p, said, a \o b)
           /\ r.marker.id \in IdsOf(a \o (<<r>> \o b)) /\ IdsOf(a \o b) = IdsOf(a \o (<<r>> \o b)) \ {r.marker.id}
<1> DEFINE line == a \o (<<r>> \o b)
           rest == a \o b
<1>1. Lined(p, said, rest) /\ ToSet(line) = ToSet(rest) \cup {r}
  BY Dropped
<1>2. PICK k \in DOMAIN line : line[k] = r /\ \A x \in ToSet(rest) : \E i \in DOMAIN line : i # k /\ line[i] = x
  <2>1. OneMore(line, r, rest)
    BY Dropped
  <2> HIDE DEF line, rest
  <2> QED
    BY <2>1 DEF OneMore
<1>3. IsSequence(line) /\ DOMAIN line = 1..Len(line) /\ Len(line) \in Nat
  BY SequenceFacts DEF Lined
<1>4. \A i, j \in DOMAIN line : i < j => Sooner(p, line[i].marker.id, line[j].marker.id)
  BY DEF Lined
<1>5. IdsOf(line) \subseteq MarkersIn(p)
  BY DEF Traces, Apart
<1> HIDE DEF line, rest
<1>6. r.marker.id \in IdsOf(line) /\ IdsOf(line) = IdsOf(rest) \cup {r.marker.id}
  BY <1>1 DEF IdsOf
<1>7. ASSUME NEW x \in ToSet(rest)
      PROVE  x.marker.id # r.marker.id
  <2>1. PICK i \in DOMAIN line : i # k /\ line[i] = x
    BY <1>2
  <2>2. i < k \/ k < i
    BY <1>3, <2>1
  <2>3. Sooner(p, x.marker.id, r.marker.id) \/ Sooner(p, r.marker.id, x.marker.id)
    BY <1>2, <1>4, <2>1, <2>2
  <2>4. ~Sooner(p, r.marker.id, r.marker.id)
    BY <1>5, <1>6, NotSooner
  <2> QED
    BY <2>3, <2>4
<1>8. IdsOf(rest) = IdsOf(line) \ {r.marker.id}
  BY <1>6, <1>7 DEF IdsOf
<1> QED
  BY <1>1, <1>6, <1>8 DEF line, rest

\* What is to be shown of a step of a stage.
LEMMA StageTraced ==
    ASSUME NEW plain, NEW stating, NEW n, IsPlain(plain), IsStage(stating, n), n > 2 => plain = <<>>, callers' = <<>>,
           agenda' = plain \o Rest(stating, n), UNCHANGED <<program, handled>>,
           Lined(program, assertions', placed' \o (stating \o pending')), handled \subseteq Written,
           Traces(program, assertions', declarations', placed' \o (stating \o pending'), diagnostics', Whole(n)),
           n > 2 => pending' = <<>>, n > 3 => placed' = <<>>
    PROVE  Traced'
<1>1. Stands(plain, stating, n)'
  BY DEF Stands, Bottom
<1>2. Tracing(stating, n)'
  BY DEF Tracing, Line, Whole, Written
<1> QED
  BY <1>1, <1>2 DEF Traced

LEMMA EmptyPlain == IsPlain(<<>>)
BY PlainFacts

LEMMA LinkTraced == IInv /\ Traced /\ LinkMarkers => Traced'
<1> SUFFICES ASSUME IInv, Traced, LinkMarkers PROVE Traced'
  OBVIOUS
<1>1. /\ ~crashed /\ agenda # <<>> /\ Head(agenda).do = "references"
      /\ UNCHANGED <<program, callers, assertions, declarations, placed, handled, diagnostics>>
  BY DEF LinkMarkers, Doing, Task, linking
<1>2. PICK plain, stating, n : Stands(plain, stating, n) /\ Tracing(stating, n)
  BY <1>1 DEF Traced
<1>3. Stage(Head(agenda)) = 2
  BY <1>1 DEF Stage
<1>4. stating = <<>> /\ n = 2 /\ callers = <<>> /\ Tail(agenda) = From(3)
  <2>1. Reference("refer", Head(stating)).do # "references"
    BY DEF Reference
  <2>2. 2 + 1 = 3 /\ 2 # 0
    OBVIOUS
  <2> QED
    BY <1>1, <1>2, <1>3, <2>1, <2>2, StageTurn
<1>5. /\ IsSequence(placed) /\ IsSequence(pending) /\ Line(<<>>) = placed \o pending
  <2>1. IsSequence(placed) /\ IsSequence(pending)
    BY <1>2, LineFacts
  <2>2. <<>> \o pending = pending
    BY <2>1, EmptyFacts, FirstFacts
  <2> QED
    BY <2>1, <2>2 DEF Line
<1>6. /\ Lined(program, assertions, placed \o pending) /\ handled \subseteq Written
      /\ Traces(program, assertions, declarations, placed \o pending, diagnostics, handled)
  <2>1. Whole(2) = handled
    BY DEF Whole
  <2>2. Tracing(<<>>, 2)
    BY <1>2, <1>4
  <2> QED
    BY <1>5, <2>1, <2>2 DEF Tracing
<1>7. CASE pending = <<>>
  <2>1. agenda' = <<>> \o Tail(agenda) /\ pending' = <<>>
    BY <1>7 DEF LinkMarkers, Then
  <2>2. agenda' = <<>> \o Rest(<<>>, 3)
    BY <1>4, <2>1 DEF Rest
  <2>3. IsStage(<<>>, 3) /\ Whole(3) = handled /\ ~(3 > 3)
    BY DEF IsStage, Whole
  <2>4. placed' \o (<<>> \o pending') = placed \o pending
    BY <1>1, <1>7, <2>1, FirstFacts, EmptyFacts
  <2> QED
    BY <1>1, <1>4, <1>6, <2>1, <2>2, <2>3, <2>4, EmptyPlain, StageTraced
<1>8. CASE pending # <<>>
  <2> DEFINE first == Head(pending)
             task == Resolve(first.target)
             refer == Reference("refer", first)
             again == Call("references")
             others == From(3)
  <2>1. pending' = Tail(pending) /\ agenda' = (<<task, refer>> \o <<again>>) \o others
    BY <1>4, <1>8 DEF LinkMarkers, Then, LinkMore
  <2>2. Closing = <<again>> \o others
    <3>1. /\ From(2) = Closing /\ From(2) # <<>> /\ Tail(From(2)) = others /\ IsSequence(From(2))
      <4>1. 2 \in 2..5 /\ 2 \in 2..6 /\ 2 + 1 = 3
        OBVIOUS
      <4>2. From(2) = Closing
        BY DEF From
      <4> QED
        BY <4>1, <4>2, FromFacts
    <3>2. Head(Closing) = again
      BY ClosingFacts
    <3>3. \A s : IsSequence(s) /\ s # <<>> => s = <<Head(s)>> \o Tail(s)
      BY DEF IsSequence
    <3> HIDE DEF others, again
    <3> QED
      BY <3>1, <3>2, <3>3
  <2>3. agenda' = <<task>> \o Rest(<<first>>, 2)
    <3>1. IsSequence(others)
      <4>1. 3 \in 2..6
        OBVIOUS
      <4> QED
        BY <4>1, FromFacts
    <3>2. Rest(<<first>>, 2) = <<refer>> \o (<<again>> \o others)
      <4>1. <<first>> # <<>> /\ Head(<<first>>) = first
        OBVIOUS
      <4>2. From(2) = Closing
        BY DEF From
      <4> HIDE DEF first, again, others
      <4> QED
        BY <2>2, <4>1, <4>2 DEF Rest
    <3> HIDE DEF task, refer, again, others, first
    <3>3. (<<task, refer>> \o <<again>>) \o others = <<task>> \o (<<refer>> \o (<<again>> \o others))
      <4>1. <<task, refer>> = <<task>> \o <<refer>>
        BY PairFacts
      <4>2. IsSequence(<<task>>) /\ IsSequence(<<refer>>) /\ IsSequence(<<again>>)
        BY OneFacts
      <4>3. IsSequence(<<again>> \o others)
        BY <3>1, <4>2, ConcatFacts
      <4>4. IsSequence(<<task>> \o <<refer>>)
        BY <4>2, ConcatFacts
      <4>5. ((<<task>> \o <<refer>>) \o <<again>>) \o others = (<<task>> \o <<refer>>) \o (<<again>> \o others)
        BY <3>1, <4>2, <4>4, Associative
      <4>6. (<<task>> \o <<refer>>) \o (<<again>> \o others) = <<task>> \o (<<refer>> \o (<<again>> \o others))
        <5> DEFINE rest == <<again>> \o others
        <5>1. IsSequence(rest)
          BY <4>3
        <5> HIDE DEF rest
        <5>2. (<<task>> \o <<refer>>) \o rest = <<task>> \o (<<refer>> \o rest)
          BY <4>2, <5>1, Associative
        <5> QED
          BY <5>2 DEF rest
      <4> QED
        BY <4>1, <4>5, <4>6
    <3> QED
      BY <2>1, <3>2, <3>3
  <2>4. IsPlain(<<task>>)
    <3>1. Stage(task) = 0
      BY DEF Resolve, About, Stage
    <3> HIDE DEF task
    <3> QED
      BY <3>1, OneFacts DEF IsPlain
  <2>5. IsStage(<<first>>, 2) /\ Whole(2) = handled /\ ~(2 > 2) /\ ~(2 > 3)
    BY DEF IsStage, Whole
  <2>6. placed' \o (<<first>> \o pending') = placed \o pending
    <3>1. \A s : IsSequence(s) /\ s # <<>> => s = <<Head(s)>> \o Tail(s)
      BY DEF IsSequence
    <3>2. pending = <<first>> \o pending'
      BY <1>5, <1>8, <2>1, <3>1
    <3> HIDE DEF first
    <3> QED
      BY <1>1, <3>2
  <2> HIDE DEF first, task
  <2> QED
    BY <1>1, <1>4, <1>6, <2>3, <2>4, <2>5, <2>6, StageTraced
<1> QED
  BY <1>7, <1>8

LEMMA StateTraced == IInv /\ Traced /\ StateReference => Traced'
<1> SUFFICES ASSUME IInv, Traced, StateReference PROVE Traced'
  OBVIOUS
<1> DEFINE r == Task.reference
           m == r.marker.id
           a == placed
           b == pending
<1>1. /\ ~crashed /\ agenda # <<>> /\ Head(agenda).do = "refer" /\ agenda' = <<>> \o Tail(agenda)
      /\ UNCHANGED <<program, callers, assertions, pending, handled>>
      /\ \/ placed' = Append(placed, r) /\ UNCHANGED <<declarations, diagnostics>>
         \/ placed' = placed /\ declarations' = Append(declarations, m) /\ diagnostics' = diagnostics
         \/ placed' = placed /\ declarations' = declarations
            /\ diagnostics' = diagnostics \cup {<<"unknown referenced column", m>>}
  <2>1. /\ ~crashed /\ agenda # <<>> /\ Head(agenda).do = "refer" /\ agenda' = <<>> \o Tail(agenda)
        /\ UNCHANGED <<program, callers, assertions, pending, handled>>
    BY DEF StateReference, Doing, Task, linking, Then
  <2>2. diagnostics \cup {} = diagnostics
    OBVIOUS
  <2>3. \/ placed' = Append(placed, r) /\ UNCHANGED <<declarations, diagnostics>>
        \/ placed' = placed /\ declarations' = Append(declarations, m) /\ diagnostics' = diagnostics
        \/ placed' = placed /\ declarations' = declarations
            /\ diagnostics' = diagnostics \cup {<<"unknown referenced column", m>>}
    BY <2>2 DEF StateReference, Report
  <2> QED
    BY <2>1, <2>3
<1>2. PICK plain, stating, n : Stands(plain, stating, n) /\ Tracing(stating, n)
  BY <1>1 DEF Traced
<1>3. Stage(Head(agenda)) = 1
  BY <1>1 DEF Stage
<1>4. stating = <<r>> /\ n = 2 /\ callers = <<>> /\ Tail(agenda) = Closing
  <2>1. stating # <<>>
    <3>1. 1 # 0 /\ 1 \notin 2..5
      OBVIOUS
    <3> QED
      BY <1>1, <1>2, <1>3, <3>1, StageTurn
  <2>2. n = 2 /\ Head(agenda) = Reference("refer", Head(stating)) /\ Tail(agenda) = Closing /\ callers = <<>>
    <3>1. Stage(Head(agenda)) # 0
      BY <1>3
    <3>2. callers = <<>>
      BY <1>1, <1>2, <3>1, StageTurn
    <3>3. stating # <<>> => n = 2 /\ Head(agenda) = Reference("refer", Head(stating)) /\ Tail(agenda) = Closing
      BY <1>1, <1>2, <3>1, StageTurn
    <3> QED
      BY <2>1, <3>2, <3>3
  <2>3. r = Head(stating)
    BY <2>2 DEF Reference, Task
  <2>4. PICK s : stating = <<s>>
    BY <1>2, <2>1 DEF Stands, IsStage
  <2>5. Head(<<s>>) = s
    OBVIOUS
  <2> QED
    BY <2>2, <2>3, <2>4, <2>5
<1> HIDE DEF r
<1>5. IsSequence(a) /\ IsSequence(b) /\ IsProgram(program) /\ Line(<<r>>) = a \o (<<r>> \o b)
  BY <1>2, LineFacts DEF Line
<1>6. /\ Lined(program, assertions, a \o (<<r>> \o b)) /\ handled \subseteq Written
      /\ Traces(program, assertions, declarations, a \o (<<r>> \o b), diagnostics, handled)
  <2>1. Whole(2) = handled
    BY DEF Whole
  <2>2. Tracing(<<r>>, 2)
    BY <1>2, <1>4
  <2> QED
    BY <1>5, <2>1, <2>2 DEF Tracing
<1>7. /\ IsStage(<<>>, 2) /\ Whole(2) = handled /\ ~(2 > 2) /\ ~(2 > 3)
      /\ callers' = <<>> /\ agenda' = <<>> \o Rest(<<>>, 2)
  <2>1. IsStage(<<>>, 2) /\ Whole(2) = handled /\ ~(2 > 2) /\ ~(2 > 3) /\ Rest(<<>>, 2) = Closing
    BY DEF IsStage, Whole, Rest, From
  <2> QED
    BY <1>1, <1>4, <2>1
<1>8. <<>> \o b = b
  BY <1>5, EmptyFacts, FirstFacts
<1>9. CASE placed' = Append(placed, r) /\ UNCHANGED <<declarations, diagnostics>>
  <2>1. placed' \o (<<>> \o pending') = a \o (<<r>> \o b)
    <3>1. IsSequence(a) /\ IsSequence(b)
      BY <1>5, EmptyFacts
    <3>2. Append(a, r) \o b = a \o (<<r>> \o b)
      BY <3>1, AppendedFirst, SMTT(30)
    <3> QED
      BY <1>1, <1>8, <1>9, <3>2
  <2> QED
    BY <1>1, <1>6, <1>7, <1>9, <2>1, EmptyPlain, StageTraced
<1>10. ASSUME placed' = placed
       PROVE  /\ placed' \o (<<>> \o pending') = a \o b /\ Lined(program, assertions, a \o b)
              /\ Traces(program, assertions, declarations, a \o b, diagnostics, handled \ {m})
              /\ m \in MarkersIn(program) \ (handled \ {m}) /\ (handled \ {m}) \cup {m} = handled
  <2>1. placed' \o (<<>> \o pending') = a \o b
    BY <1>1, <1>8, <1>10
  <2> DEFINE line == a \o (<<r>> \o b)
             rest == a \o b
  <2>2. Lined(program, assertions, rest) /\ m \in IdsOf(line) /\ IdsOf(rest) = IdsOf(line) \ {m}
    BY <1>5, <1>6, DropTraced
  <2>3. Traces(program, assertions, declarations, line, diagnostics, handled)
    BY <1>6
  <2> HIDE DEF m, line, rest
  <2>4. /\ Traces(program, assertions, declarations, rest, diagnostics, handled \ {m})
        /\ m \in MarkersIn(program) \ (handled \ {m}) /\ (handled \ {m}) \cup {m} = handled
    BY <2>2, <2>3, TraceLost
  <2> QED
    BY <2>1, <2>2, <2>4 DEF rest
<1> HIDE DEF m
<1>11. CASE placed' = placed /\ declarations' = Append(declarations, m) /\ diagnostics' = diagnostics
  <2>1. Traces(program, assertions, Append(declarations, m), a \o b, diagnostics, (handled \ {m}) \cup {m})
    BY <1>10, <1>11, TraceDeclared
  <2> QED
    BY <1>1, <1>6, <1>7, <1>10, <1>11, <2>1, EmptyPlain, StageTraced
<1>12. CASE placed' = placed /\ declarations' = declarations
            /\ diagnostics' = diagnostics \cup {<<"unknown referenced column", m>>}
  <2>1. Traces(program, assertions, declarations, a \o b, diagnostics \cup {<<"unknown referenced column", m>>},
               (handled \ {m}) \cup {m})
    BY <1>10, <1>12, TraceNoted
  <2> QED
    BY <1>1, <1>6, <1>7, <1>10, <1>12, <2>1, EmptyPlain, StageTraced
<1> QED
  BY <1>1, <1>9, <1>11, <1>12 DEF m

\* The call of a stage without a reference that is stated.
LEMMA StageFacts ==
    ASSUME IInv, NEW plain, NEW stating, NEW n, Stands(plain, stating, n), agenda # <<>>,
           NEW k \in 3..5, Stage(Head(agenda)) = k
    PROVE  stating = <<>> /\ n = k /\ callers = <<>> /\ agenda = <<>> \o Rest(<<>>, k) /\ Tail(agenda) = From(k + 1)
<1>1. Stage(Head(agenda)) # 0 /\ Stage(Head(agenda)) # 1
  OBVIOUS
<1>2. /\ plain = <<>> /\ callers = <<>>
      /\ stating = <<>> => n \in 2..5 /\ Stage(Head(agenda)) = n /\ Tail(agenda) = From(n + 1)
      /\ stating # <<>> => n = 2 /\ Head(agenda) = Reference("refer", Head(stating)) /\ Tail(agenda) = Closing
  BY <1>1, StageTurn
<1>3. Stage(Reference("refer", Head(stating))) = 1
  BY DEF Stage, Reference
<1>4. stating = <<>>
  BY <1>1, <1>2, <1>3
<1>5. agenda = <<>> \o Rest(<<>>, k)
  BY <1>2, <1>4 DEF Stands, Bottom
<1> QED
  BY <1>2, <1>4, <1>5

LEMMA StageLine ==
    ASSUME IInv, NEW plain, NEW n, Stands(plain, <<>>, n), Tracing(<<>>, n), n > 2
    PROVE  /\ IsSequence(placed) /\ pending = <<>> /\ placed \o (<<>> \o <<>>) = placed
           /\ Lined(program, assertions, placed) /\ handled \subseteq Written
           /\ Traces(program, assertions, declarations, placed, diagnostics, Whole(n)) /\ IsProgram(program)
<1>1. IsSequence(placed) /\ IsProgram(program)
  BY LineFacts
<1>2. pending = <<>>
  BY DEF Tracing
<1>3. placed \o (<<>> \o <<>>) = placed
  <2>1. <<>> \o <<>> = <<>>
    BY EmptyFacts, FirstFacts
  <2>2. placed \in Seq(ToSet(placed))
    BY <1>1 DEF IsSequence
  <2>3. placed \o <<>> = placed
    BY <2>2
  <2> QED
    BY <2>1, <2>3
<1>4. Line(<<>>) = placed
  BY <1>2, <1>3 DEF Line
<1> QED
  BY <1>1, <1>2, <1>3, <1>4 DEF Tracing

LEMMA PlaceTraced == IInv /\ Traced /\ PlaceAssertion => Traced'
<1> SUFFICES ASSUME IInv, Traced, PlaceAssertion PROVE Traced'
  OBVIOUS
<1>1. /\ ~crashed /\ agenda # <<>> /\ Head(agenda).do = "place"
      /\ UNCHANGED <<program, callers, declarations, pending, handled, diagnostics>>
  BY DEF PlaceAssertion, Doing, Task, linking
<1>2. PICK plain, stating, n : Stands(plain, stating, n) /\ Tracing(stating, n)
  BY <1>1 DEF Traced
<1>3. Stage(Head(agenda)) = 3 /\ 3 \in 3..5 /\ 3 + 1 = 4 /\ 3 > 2
  BY <1>1 DEF Stage
<1>4. stating = <<>> /\ n = 3 /\ callers = <<>> /\ agenda = <<>> \o Rest(<<>>, 3) /\ Tail(agenda) = From(4)
  BY <1>1, <1>2, <1>3, StageFacts
<1>5. Stands(plain, <<>>, 3) /\ Tracing(<<>>, 3) /\ Whole(3) = handled /\ Whole(4) = handled
  BY <1>2, <1>4 DEF Whole
<1>6. /\ IsSequence(placed) /\ pending = <<>> /\ placed \o (<<>> \o <<>>) = placed
      /\ Lined(program, assertions, placed) /\ handled \subseteq Written
      /\ Traces(program, assertions, declarations, placed, diagnostics, handled) /\ IsProgram(program)
  BY <1>3, <1>5, StageLine
<1>7. CASE placed = <<>>
  <2>1. agenda' = <<>> \o Tail(agenda) /\ assertions' = assertions /\ placed' = placed
    BY <1>7 DEF PlaceAssertion, Then
  <2>2. Rest(<<>>, 4) = From(4) /\ IsStage(<<>>, 4)
    BY DEF Rest, IsStage
  <2> QED
    BY <1>1, <1>4, <1>5, <1>6, <1>7, <2>1, <2>2, EmptyPlain, StageTraced
<1>8. CASE placed # <<>>
  <2> DEFINE r == Last(placed)
             x == r.marker.id
             said == InsertAt(assertions, r.position + 1, x)
             rest == Front(placed)
  <2>1. agenda' = agenda /\ assertions' = said /\ placed' = rest
    <3>1. placed[Len(placed)] = Last(placed) /\ RemoveAt(placed, Len(placed)) = rest
      BY <1>6, <1>8, FrontFacts, RemoveLast
    <3> QED
      BY <1>8, <3>1 DEF PlaceAssertion, LastPlaced
  <2>2. r.position \in 0..Len(assertions) /\ Lined(program, said, rest)
    BY <1>6, <1>8, Inserted
  <2>3. /\ IsSequence(rest) /\ DOMAIN placed = 1..Len(placed) /\ DOMAIN rest = 1..(Len(placed) - 1)
        /\ Len(placed) \in Nat \ {0}
        /\ (\A i \in 1..(Len(placed) - 1) : rest[i] = placed[i]) /\ r = placed[Len(placed)]
        /\ ToSet(placed) = ToSet(rest) \cup {r}
    BY <1>6, <1>8, FrontFacts
  <2>4. ToSet(said) = ToSet(assertions) \cup {x}
    <3>1. IsSequence(assertions)
      BY <1>6 DEF Lined
    <3> DEFINE k == r.position
    <3>2. k \in 0..Len(assertions)
      BY <2>2
    <3> HIDE DEF k, x
    <3>3. ToSet(InsertAt(assertions, k + 1, x)) = ToSet(assertions) \cup {x}
      BY <3>1, <3>2, InsertEntries
    <3> QED
      BY <3>3 DEF k
  <2> HIDE DEF r, rest, said
  <2>5. x \in IdsOf(placed) /\ IdsOf(placed) = IdsOf(rest) \cup {x}
    BY <2>3 DEF IdsOf
  <2>6. ASSUME NEW y \in ToSet(rest)
        PROVE  y.marker.id # x
    <3>1. PICK i \in DOMAIN rest : y = rest[i]
      BY DEF ToSet
    <3>2. i \in DOMAIN placed /\ Len(placed) \in DOMAIN placed /\ i < Len(placed) /\ y = placed[i]
      BY <2>3, <3>1
    <3>3. Sooner(program, y.marker.id, x)
      BY <1>6, <2>3, <3>2 DEF Lined
    <3>4. x \in MarkersIn(program)
      BY <1>6, <2>5 DEF Traces, Apart
    <3> QED
      BY <1>6, <3>3, <3>4, NotSooner
  <2> HIDE DEF x
  <2>7. IdsOf(rest) = IdsOf(placed) \ {x}
    BY <2>5, <2>6 DEF IdsOf
  <2>8. /\ Traces(program, assertions, declarations, rest, diagnostics, handled \ {x})
        /\ x \in MarkersIn(program) \ (handled \ {x}) /\ (handled \ {x}) \cup {x} = handled
    <3>1. Traces(program, assertions, declarations, placed, diagnostics, handled)
      BY <1>6
    <3>2. x \in IdsOf(placed)
      BY <2>5
    <3>3. /\ Traces(program, assertions, declarations, rest, diagnostics, handled \ {x})
          /\ x \in MarkersIn(program) \ (handled \ {x}) /\ (handled \ {x}) \cup {x} = handled
      BY <2>7, <3>1, <3>2, TraceLost
    <3> QED
      BY <3>3
  <2>9. Traces(program, said, declarations, rest, diagnostics, (handled \ {x}) \cup {x})
    BY <2>4, <2>8, TraceSaid
  <2>10. IsStage(<<>>, 3) /\ ~(3 > 3)
    BY DEF IsStage
  <2>11. rest \o (<<>> \o <<>>) = rest
    <3>1. <<>> \o <<>> = <<>>
      BY EmptyFacts, FirstFacts
    <3>2. rest \in Seq(ToSet(rest))
      BY <2>3 DEF IsSequence
    <3>3. rest \o <<>> = rest
      BY <3>2
    <3> QED
      BY <3>1, <3>3
  <2> QED
    BY <1>1, <1>4, <1>5, <1>6, <2>1, <2>2, <2>8, <2>9, <2>10, <2>11, EmptyPlain, StageTraced
<1> QED
  BY <1>7, <1>8

LEMMA ReportTraced == IInv /\ Traced /\ ReportUnanalyzed => Traced'
<1> SUFFICES ASSUME IInv, Traced, ReportUnanalyzed PROVE Traced'
  OBVIOUS
<1>1. /\ ~crashed /\ agenda # <<>> /\ Head(agenda).do = "report" /\ agenda' = <<>> \o Tail(agenda)
      /\ UNCHANGED <<program, callers, assertions, declarations, pending, placed, handled>>
      /\ diagnostics' = diagnostics \cup {<<"unanalyzed", m>> : m \in MarkersIn(program) \ handled}
  BY DEF ReportUnanalyzed, Doing, Task, linking, marking, Then, Report, Unhandled, Written
<1>2. PICK plain, stating, n : Stands(plain, stating, n) /\ Tracing(stating, n)
  BY <1>1 DEF Traced
<1>3. Stage(Head(agenda)) = 4 /\ 4 \in 3..5 /\ 4 + 1 = 5 /\ 4 > 2 /\ 4 > 3
  BY <1>1 DEF Stage
<1>4. stating = <<>> /\ n = 4 /\ callers = <<>> /\ Tail(agenda) = From(5)
  BY <1>1, <1>2, <1>3, StageFacts
<1>5. Stands(plain, <<>>, 4) /\ Tracing(<<>>, 4) /\ Whole(4) = handled /\ Whole(5) = MarkersIn(program)
  BY <1>2, <1>4 DEF Whole, Written
<1>6. /\ IsSequence(placed) /\ pending = <<>> /\ placed \o (<<>> \o <<>>) = placed
      /\ Lined(program, assertions, placed) /\ handled \subseteq Written
      /\ Traces(program, assertions, declarations, placed, diagnostics, handled) /\ placed = <<>>
  <2>1. placed = <<>>
    BY <1>3, <1>5 DEF Tracing
  <2> QED
    BY <1>3, <1>5, <2>1, StageLine
<1>7. Traces(program, assertions, declarations, placed, diagnostics', MarkersIn(program))
  BY <1>1, <1>6, TraceRest
<1>8. Rest(<<>>, 5) = From(5) /\ IsStage(<<>>, 5)
  BY DEF Rest, IsStage
<1> QED
  BY <1>1, <1>4, <1>5, <1>6, <1>7, <1>8, EmptyPlain, StageTraced

LEMMA SettleTraced == IInv /\ Traced /\ Settle => Traced'
<1> SUFFICES ASSUME IInv, Traced, Settle PROVE Traced'
  OBVIOUS
<1>1. /\ ~crashed /\ agenda # <<>> /\ Head(agenda).do = "settle" /\ (agenda' = agenda \/ agenda' = <<>> \o Tail(agenda))
      /\ UNCHANGED <<program, callers, assertions, declarations, pending, placed, handled, diagnostics>>
  BY DEF Settle, Doing, Task, marking, Then
<1>2. PICK plain, stating, n : Stands(plain, stating, n) /\ Tracing(stating, n)
  BY <1>1 DEF Traced
<1>3. Stage(Head(agenda)) = 5 /\ 5 \in 3..5 /\ 5 + 1 = 6 /\ 5 > 2 /\ 5 > 3
  BY <1>1 DEF Stage
<1>4. stating = <<>> /\ n = 5 /\ callers = <<>> /\ agenda = <<>> \o Rest(<<>>, 5) /\ Tail(agenda) = From(6)
  BY <1>1, <1>2, <1>3, StageFacts
<1>5. Stands(plain, <<>>, 5) /\ Tracing(<<>>, 5) /\ Whole(5) = Written /\ Whole(6) = Written
  BY <1>2, <1>4 DEF Whole
<1>6. /\ IsSequence(placed) /\ pending = <<>> /\ placed \o (<<>> \o <<>>) = placed
      /\ Lined(program, assertions, placed) /\ handled \subseteq Written
      /\ Traces(program, assertions, declarations, placed, diagnostics, Written) /\ placed = <<>>
  <2>1. placed = <<>>
    BY <1>3, <1>5 DEF Tracing
  <2> QED
    BY <1>3, <1>5, <2>1, StageLine
<1>7. Rest(<<>>, 6) = From(6) /\ IsStage(<<>>, 6) /\ IsStage(<<>>, 5)
  BY DEF Rest, IsStage
<1>8. CASE agenda' = agenda
  BY <1>1, <1>4, <1>5, <1>6, <1>7, <1>8, EmptyPlain, StageTraced
<1>9. CASE agenda' = <<>> \o Tail(agenda)
  BY <1>1, <1>4, <1>5, <1>6, <1>7, <1>9, EmptyPlain, StageTraced
<1> QED
  BY <1>1, <1>8, <1>9

LEMMA HandlingTraced == IInv /\ Sequenced /\ Traced /\ (AssertJoin \/ RegisterMarker) => Traced'
<1> SUFFICES ASSUME IInv, Sequenced, Traced, AssertJoin \/ RegisterMarker PROVE Traced'
  OBVIOUS
<1>1. CASE crashed'
  BY <1>1 DEF Traced
<1>2. CASE ~crashed' /\ AssertJoin
  <2>1. Stepped
    BY <1>2, MarkTurn
  <2>2. /\ Doing("join") /\ Handles(Task) = Task.marker /\ assertions' = Append(assertions, Task.marker)
        /\ UNCHANGED <<declarations, pending, diagnostics, program, placed>> /\ handled' = handled \cup {Task.marker}
    BY <1>2 DEF AssertJoin, Handles, Doing
  <2> QED
    BY <2>1, <2>2, MarkTraced
<1>3. CASE ~crashed' /\ RegisterMarker
  <2> DEFINE m == Handles(Task)
  <2>1. Stepped
    BY <1>3, MarkTurn
  <2>2. Doing("mark") /\ m = Task.marker.id /\ UNCHANGED <<program, placed>> /\ handled' = handled \cup {m}
    BY <1>3 DEF RegisterMarker, Handles, Doing
  <2>3. \/ assertions' = Append(assertions, m) /\ UNCHANGED <<declarations, pending, diagnostics>>
        \/ declarations' = Append(declarations, m) /\ UNCHANGED <<assertions, pending, diagnostics>>
        \/ /\ \E r : pending' = Append(pending, r) /\ r.marker.id = m /\ r.position = Len(assertions)
           /\ UNCHANGED <<assertions, declarations, diagnostics>>
        \/ /\ \E problem : diagnostics' = diagnostics \cup {<<problem, m>>}
           /\ UNCHANGED <<assertions, declarations, pending>>
    <3> DEFINE output == results[Task.query]
               owed == [marker |-> Task.marker, target |-> targets[Task.marker.id], position |-> Len(assertions)]
    <3>1. \/ /\ Report({<<IF output.complete THEN "unknown" ELSE "unresolved", Task.marker.id>>})
             /\ UNCHANGED <<assertions, declarations, pending>>
          \/ /\ assertions' = IF Task.marker.asserted THEN Append(assertions, Task.marker.id) ELSE assertions
             /\ declarations' = IF Task.marker.asserted THEN declarations ELSE Append(declarations, Task.marker.id)
             /\ UNCHANGED <<pending, diagnostics>>
          \/ pending' = Append(pending, owed) /\ UNCHANGED <<assertions, declarations, diagnostics>>
      BY <1>3 DEF RegisterMarker, Crash
    <3>2. owed.marker.id = Task.marker.id /\ owed.position = Len(assertions)
      OBVIOUS
    <3> HIDE DEF owed, output
    <3>3. CASE /\ Report({<<IF output.complete THEN "unknown" ELSE "unresolved", Task.marker.id>>})
               /\ UNCHANGED <<assertions, declarations, pending>>
      BY <2>2, <3>3 DEF Report
    <3>4. CASE /\ assertions' = IF Task.marker.asserted THEN Append(assertions, Task.marker.id) ELSE assertions
               /\ declarations' = IF Task.marker.asserted THEN declarations ELSE Append(declarations, Task.marker.id)
               /\ UNCHANGED <<pending, diagnostics>>
      BY <2>2, <3>4
    <3>5. CASE pending' = Append(pending, owed) /\ UNCHANGED <<assertions, declarations, diagnostics>>
      BY <2>2, <3>2, <3>5
    <3> QED
      BY <3>1, <3>3, <3>4, <3>5
  <2> HIDE DEF m
  <2>4. m = Handles(Task)
    BY DEF m
  <2> QED
    BY <2>1, <2>2, <2>3, <2>4, MarkTraced
<1> QED
  BY <1>1, <1>2, <1>3

LEMMA TracedKept == IInv /\ RelationsSourced /\ Sequenced /\ Traced /\ [Next]_vars => Traced'
<1> SUFFICES ASSUME IInv, RelationsSourced, Sequenced, Traced, [Next]_vars PROVE Traced'
  OBVIOUS
<1>1. CASE UNCHANGED vars
  <2>1. /\ UNCHANGED <<program, callers, agenda, handled, crashed, assertions, declarations, pending, placed, diagnostics>>
    BY <1>1 DEF vars, linking, marking
  <2>2. \A plain, stating, n : Stands(plain, stating, n)' = Stands(plain, stating, n)
    BY <2>1 DEF Stands, Bottom
  <2>3. \A stating, n : Tracing(stating, n)' = Tracing(stating, n)
    BY <2>1 DEF Tracing, Line, Whole, Written
  <2> QED
    BY <2>1, <2>2, <2>3 DEF Traced
<1>2. CASE Preparing
  <2>1. ~crashed /\ UNCHANGED <<program, marking>> /\ Reported
    BY <1>2, PreparingFacts
  <2>2. crashed' \/ Stepped
    BY <1>2, PreparingTurn
  <2>3. CASE crashed'
    BY <2>3 DEF Traced
  <2>4. CASE Stepped
    BY <2>1, <2>4, PlainTraced
  <2> QED
    BY <2>2, <2>3, <2>4
<1>3. CASE LowerQuery \/ ReadSource \/ FilterRows \/ ResolveSymbol \/ NameRelation \/ FinishQuery
  <2>1. UNCHANGED <<program, marking, diagnostics>> /\ ~crashed
    BY <1>3 DEF LowerQuery, ReadSource, FilterRows, ResolveSymbol, NameRelation, FinishQuery, Doing
  <2>2. Reported
    <3>1. diagnostics' = diagnostics \cup {} /\ AboutNames({}, program)
      BY <2>1, Reports
    <3> QED
      BY <3>1 DEF Reported, Report
  <2>3. crashed' \/ Stepped
    <3>1. NameRelation => Stepped
      BY DEF Stepped
    <3> QED
      BY <1>3, <3>1, LowerTurn, ReadTurn, FilterTurn, ResolveSymbolTurn, FinishTurn
  <2>4. CASE crashed'
    BY <2>4 DEF Traced
  <2>5. CASE Stepped
    BY <2>1, <2>2, <2>5, PlainTraced
  <2> QED
    BY <2>3, <2>4, <2>5
<1>4. \/ Preparing \/ LowerQuery \/ ReadSource \/ FilterRows \/ ResolveSymbol \/ NameRelation \/ FinishQuery
      \/ AssertJoin \/ RegisterMarker \/ LinkMarkers \/ StateReference \/ PlaceAssertion \/ ReportUnanalyzed \/ Settle
      \/ UNCHANGED vars
  BY DEF Next, Preparing
<1> QED
  BY <1>1, <1>2, <1>3, <1>4, HandlingTraced, LinkTraced, StateTraced, PlaceTraced, ReportTraced, SettleTraced

-----------------------------------------------------------------------------
\* What the proofs of this module rest on.
MInv == IInv /\ RelationsSourced /\ Sequenced /\ Traced

LEMMA MarkersInvariant == Spec => []MInv
<1>1. Init => Traced
  BY TracedInit
<1>2. IInv /\ RelationsSourced /\ Sequenced /\ Traced /\ [Next]_vars => Traced'
  BY TracedKept
<1>3. MInv <=> IInv /\ RelationsSourced /\ Sequenced /\ Traced
  BY DEF MInv
<1> QED
  BY <1>1, <1>2, <1>3, LoweringInvariant, PTL DEF Spec

\* At the end, every marker that was written has its trace.
LEMMA EndFacts ==
    ASSUME MInv, Ended
    PROVE  /\ IsProgram(program) /\ IsSequence(assertions) /\ Lined(program, assertions, <<>>)
           /\ Traces(program, assertions, declarations, <<>>, diagnostics, Written)
<1>1. ~crashed /\ IInv
  BY DEF MInv, Sequenced, Ended
<1>2. PICK plain, stating, n : Stands(plain, stating, n) /\ Tracing(stating, n)
  BY <1>1 DEF MInv, Traced
<1>3. stating = <<>> /\ n = 6 /\ 6 > 2 /\ 6 > 3
  BY <1>2, StagesEnd
<1>4. Stands(plain, <<>>, 6) /\ Tracing(<<>>, 6) /\ placed = <<>> /\ Whole(6) = Written
  BY <1>2, <1>3 DEF Tracing, Whole
<1> QED
  BY <1>1, <1>3, <1>4, StageLine DEF Lined

(***************************************************************************)
(* Every marker that was written, in a query that was lowered or in one     *)
(* that was not, is one assertion, one declaration or the subject of one    *)
(* diagnostic when the conversion ends.                                     *)
(***************************************************************************)
THEOREM EveryMarkerAccounted == Spec => []Accounted
<1>1. MInv => Accounted
  <2> SUFFICES ASSUME MInv, Ended, NEW m \in Written
               PROVE  Times(m, assertions) + Times(m, declarations)
                          + Cardinality({d \in diagnostics : d[2] = m}) = 1
    BY DEF Accounted
  <2>1. /\ IsProgram(program) /\ IsSequence(assertions) /\ Lined(program, assertions, <<>>)
        /\ Traces(program, assertions, declarations, <<>>, diagnostics, Written)
    BY EndFacts
  <2>2. IdsOf(<<>>) = {}
    BY EmptyFacts DEF IdsOf
  <2>3. /\ ToSet(assertions) \cup ToSet(declarations) \cup Noted(program, diagnostics) = Written
        /\ ToSet(assertions) \cap ToSet(declarations) = {}
        /\ (ToSet(assertions) \cup ToSet(declarations)) \cap Noted(program, diagnostics) = {}
    BY <2>1, <2>2 DEF Traces, Apart
  <2>4. \A i, j \in DOMAIN assertions : assertions[i] = assertions[j] => i = j
    <3> SUFFICES ASSUME NEW i \in DOMAIN assertions, NEW j \in DOMAIN assertions, assertions[i] = assertions[j], i # j
                 PROVE  FALSE
      OBVIOUS
    <3>1. i < j \/ j < i
      BY <2>1, SequenceFacts
    <3>2. Sooner(program, assertions[i], assertions[i])
      BY <2>1, <3>1 DEF Lined
    <3>3. assertions[i] \in MarkersIn(program)
      BY <2>3 DEF ToSet, Written
    <3> QED
      BY <2>1, <3>2, <3>3, NotSooner
  <2>5. Times(m, assertions) = IF m \in ToSet(assertions) THEN 1 ELSE 0
    BY <2>1, <2>4, Once
  <2>6. Times(m, declarations) = IF m \in ToSet(declarations) THEN 1 ELSE 0
    BY <2>1, Once DEF Traces
  <2>7. Cardinality({d \in diagnostics : d[2] = m}) = IF m \in Noted(program, diagnostics) THEN 1 ELSE 0
    <3>1. m \in MarkersIn(program)
      BY DEF Written
    <3>2. CASE m \in Noted(program, diagnostics)
      <4>1. PICK d \in diagnostics : d[2] = m
        BY <3>2 DEF Noted
      <4>2. {e \in diagnostics : e[2] = m} = {d}
        BY <2>1, <3>1, <4>1 DEF Traces
      <4> QED
        BY <3>2, <4>2, FS_Singleton
    <3>3. CASE m \notin Noted(program, diagnostics)
      <4>1. {e \in diagnostics : e[2] = m} = {}
        BY <3>1, <3>3 DEF Noted
      <4> QED
        BY <3>3, <4>1, FS_EmptySet
    <3> QED
      BY <3>2, <3>3
  <2>8. \/ m \in ToSet(assertions) /\ m \notin ToSet(declarations) /\ m \notin Noted(program, diagnostics)
        \/ m \notin ToSet(assertions) /\ m \in ToSet(declarations) /\ m \notin Noted(program, diagnostics)
        \/ m \notin ToSet(assertions) /\ m \notin ToSet(declarations) /\ m \in Noted(program, diagnostics)
    BY <2>3
  <2>9. 1 + 0 + 0 = 1 /\ 0 + 1 + 0 = 1 /\ 0 + 0 + 1 = 1
    OBVIOUS
  <2> QED
    BY <2>5, <2>6, <2>7, <2>8, <2>9
<1> QED
  BY <1>1, MarkersInvariant, PTL

(***************************************************************************)
(* The assertions of one select come in the order in which its markers were *)
(* written, those of foreign keys, stated last, at their positions too.     *)
(***************************************************************************)
THEOREM AssertionsKeepOrder == Spec => []OrderKept
<1>1. MInv => OrderKept
  <2> SUFFICES ASSUME MInv, Ended, NEW q \in Selects(program),
                      NEW i \in DOMAIN assertions, NEW j \in DOMAIN assertions,
                      NEW k \in DOMAIN MarkersOn(Node(q)), NEW l \in DOMAIN MarkersOn(Node(q)),
                      assertions[i] = MarkersOn(Node(q))[k], assertions[j] = MarkersOn(Node(q))[l], k < l, ~(i < j)
               PROVE  FALSE
    BY DEF OrderKept
  <2>1. /\ IsProgram(program) /\ IsSequence(assertions) /\ Lined(program, assertions, <<>>)
        /\ Traces(program, assertions, declarations, <<>>, diagnostics, Written)
    BY EndFacts
  <2>2. q \in DOMAIN program.query /\ program.query[q].kind = "select" /\ Node(q) = program.query[q]
    BY DEF Selects, Node
  <2> DEFINE written == MarkersOn(program.query[q])
  <2>3. k \in DOMAIN written /\ l \in DOMAIN written /\ assertions[i] = written[k] /\ assertions[j] = written[l]
    BY <2>2
  <2>4. assertions[i] \in MarkersIn(program) /\ assertions[j] \in MarkersIn(program)
    BY <2>1 DEF Traces, Apart, ToSet, Written
  <2>5. written[k] # NoMarker /\ written[l] # NoMarker
    BY <2>3, <2>4 DEF MarkersIn
  <2>6. SpotsOf(program, written[k]) = {<<q, k>>} /\ SpotsOf(program, written[l]) = {<<q, l>>}
    <3>1. IsProgram(program) /\ q \in DOMAIN program.query /\ program.query[q].kind = "select"
      BY <2>1, <2>2
    <3>2. \A n \in DOMAIN MarkersOn(program.query[q]) :
             MarkersOn(program.query[q])[n] # NoMarker => SpotsOf(program, MarkersOn(program.query[q])[n]) = {<<q, n>>}
      BY <3>1, OnePlace
    <3> QED
      BY <2>3, <2>5, <3>2
  <2>7. k \in Nat /\ l \in Nat
    <3>1. /\ Len(program.query[q].sources) \in Nat /\ Len(program.query[q].markers) \in Nat
          /\ k \in 1..(Len(program.query[q].sources) + Len(program.query[q].markers))
          /\ l \in 1..(Len(program.query[q].sources) + Len(program.query[q].markers))
      BY <2>1, <2>2, <2>3, MarkerFacts
    <3> QED
      BY <3>1
  <2>8. i = j \/ j < i
    BY <2>1, SequenceFacts
  <2>9. CASE i = j
    <3>1. <<q, k>> = <<q, l>>
      BY <2>3, <2>6, <2>9
    <3> QED
      BY <2>7, <3>1
  <2>10. CASE j < i
    <3>1. Sooner(program, written[l], written[k])
      BY <2>1, <2>3, <2>10 DEF Lined
    <3>2. <<q, l>>[1] = <<q, k>>[1] => <<q, l>>[2] < <<q, k>>[2]
      BY <2>6, <3>1 DEF Sooner
    <3> QED
      BY <2>7, <3>2
  <2> QED
    BY <2>8, <2>9, <2>10
<1> QED
  BY <1>1, MarkersInvariant, PTL

=============================================================================
