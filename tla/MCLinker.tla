------------------------------ MODULE MCLinker ------------------------------
(***************************************************************************)
(* Programs for the linker: two views v and w and a table t, declared or    *)
(* not, a root select with CTEs c and e, and one derived table.             *)
(***************************************************************************)
EXTENDS Linker

From(name) == Named(name, NoMarker)
View(name) == Statement("VIEW", name, {}, <<>>, name)
TableT(stated) == Statement("TABLE", "t", {"a"}, stated, NoQuery)

Star(sources, markers) == [Select(sources, "star", {}) EXCEPT !.markers = markers]
Listed(sources, markers) == [Select(sources, "listed", {"a", "b"}) EXCEPT !.markers = markers]
Ctes(names) == [i \in DOMAIN names |-> [name |-> names[i], body |-> names[i]]]

PrimaryKey(columns) == Constraint("key", columns)
Unique(id, column) == Marker(id, TRUE, {column}, NoName, {})
Declared(id, column) == Marker(id, FALSE, {column}, NoName, {})
ForeignKey(id, asserted, name, column) == Marker(id, asserted, {"a"}, name, {column})

\* A program holds the queries that are written in it.
Grown(query, found) == found \cup UNION {DirectlyWithin(query[q]) : q \in found}
Parsed(statements, root, query) ==
    LET start == ({s.body : s \in ToSet(statements)} \cup {root}) \ {NoQuery}
        written == Grown(query, Grown(query, Grown(query, start)))
    IN  [statements |-> statements, root |-> root, query |-> Restrict(query, written)]

-----------------------------------------------------------------------------
(* Views that read each other, themselves, a table, or a derived table d;   *)
(* CTEs c and e of the root select, of which c may name e before it is      *)
(* written; a view t that hides behind the name of a CTE.                   *)

Marked(id) == <<Unique(id, "b")>>

ViewBodies(name, id) ==
    {Star(<<From(source)>>, Marked(id)) : source \in {"t", "v", "w", "c"}}
    \cup {Star(<<Derived("d")>>, Marked(id)), Listed(<<From("w"), From("v")>>, <<>>)}

CteBodies == {Star(<<From(source)>>, Marked("c1")) : source \in {"c", "e", "v"}}
             \cup {Listed(<<From("e"), From("w")>>, <<>>)}

RootSources == {<<From("c")>>, <<From("v"), From("e")>>, <<From("w")>>}

RecursivePrograms ==
    {Parsed(statements \o <<View("v"), View("w")>>, "root",
            [v |-> v, w |-> w, c |-> c, d |-> Star(<<From(d)>>, <<>>), e |-> Star(<<From("t")>>, <<>>),
             root |-> [Star(sources, Marked("r1")) EXCEPT !.with = Ctes(<<"c", "e">>)]]) :
        statements \in {<<>>, <<TableT(<<>>)>>},
        v \in ViewBodies("v", "v1"), w \in ViewBodies("w", "w1") \ {Star(<<Derived("d")>>, Marked("w1"))},
        c \in CteBodies, d \in {"t", "w"}, sources \in RootSources}

-----------------------------------------------------------------------------
(* A WITH inside another one: the CTE i of the derived table d, which is in *)
(* the body of e, has the name of an outer CTE, of its own reader or of the *)
(* view v, and v may name an outer CTE that it cannot see.                  *)

ShadowingPrograms ==
    {Parsed(<<View("v")>>, "root",
            [v |-> Star(<<From(outside)>>, Marked("v1")), c |-> Star(<<From(first)>>, Marked("c1")),
             e |-> Star(<<Derived("d")>>, Marked("e1")), i |-> Star(<<From(innermost)>>, Marked("i1")),
             d |-> [Star(<<From(inner)>>, Marked("d1")) EXCEPT !.with = <<[name |-> hidden, body |-> "i"]>>],
             root |-> [Listed(sources, <<>>) EXCEPT !.with = Ctes(<<"c", "e">>)]]) :
        outside \in {"t", "c"}, first \in {"c", "e", "v"}, hidden \in {"c", "e", "v"},
        inner \in {"c", "e", "v"}, innermost \in {"c", "e", "v", "t"},
        sources \in {<<From("c")>>, <<From("e"), From("v")>>}}

-----------------------------------------------------------------------------
(* Markers in every place one can be written.  The foreign keys reference   *)
(* views whose own markers reference other views, a CTE, a table, a column  *)
(* that is not there.                                                       *)

Columns == {
    <<ForeignKey("f1", TRUE, "v", "a"), Unique("u1", "a"), ForeignKey("f2", TRUE, "w", "b")>>,
    <<Unique("u1", "b"), ForeignKey("f1", TRUE, "w", "x"), ForeignKey("f2", TRUE, "t", "k"), Declared("n1", "a")>>,
    <<ForeignKey("f1", FALSE, "c", "a"), ForeignKey("f2", TRUE, "t", "a"), ForeignKey("f3", TRUE, "w", "a"),
      Unique("u1", "z")>>}

Joined == <<From("t"), Named("u", "j1")>>

Roots(markers) ==
    {Star(<<From("t")>>, markers), Star(<<Function>>, markers), Listed(Joined, markers),
     Star(<<Derived("d")>>, markers), Select(Joined, "natural", {"a", "b"})}
    \cup {[Listed(Joined, markers) EXCEPT !.where = <<[kind |-> kind, body |-> "d"]>>, !.tail = tail] :
             kind \in {"in", "exists"}, tail \in {"listed", "opaque"}}

Inner == {Listed(<<From("t"), Named("w", "j2")>>, <<Unique("d1", "a"), ForeignKey("d2", TRUE, "w", "a")>>),
          Star(<<From("v")>>, <<ForeignKey("d2", TRUE, "v", "b")>>)}

ViewMarkers == {
    [v |-> <<Unique("v1", "a"), ForeignKey("v2", TRUE, "w", "a")>>, w |-> <<ForeignKey("w1", TRUE, "v", "a")>>],
    [v |-> <<>>, w |-> <<ForeignKey("w1", FALSE, "t", "a"), Unique("w2", "b")>>]}

MarkerPrograms ==
    {Parsed(statements \o <<View("v"), View("w")>>, "root",
            [v |-> Listed(<<From("t")>>, viewMarkers.v), w |-> Star(sources, viewMarkers.w),
             c |-> Listed(<<From("t")>>, <<Unique("c1", "a")>>), d |-> inner,
             root |-> [root EXCEPT !.with = Ctes(<<"c">>)]]) :
        statements \in {<<>>, <<TableT(<<PrimaryKey(<<"a">>), References(<<"a">>, "u", <<"k">>)>>)>>},
        sources \in {<<From("t")>>, <<From("v")>>},
        viewMarkers \in ViewMarkers, inner \in Inner, root \in UNION {Roots(m) : m \in Columns}}

-----------------------------------------------------------------------------
(* Statements that amend or repeat a declaration, a root select that is a   *)
(* set operation or missing, and markers in bodies that are never lowered.  *)

OfU(kind, stated, supported) ==
    [Statement(kind, "u", {}, stated, NoQuery) EXCEPT !.supported = supported]
TableU == Statement("TABLE", "u", {"a", "b"}, <<>>, NoQuery)
TableAs(name, body) == Statement("TABLE", name, {}, <<>>, body)

StatementLists ==
    {<<TableT(<<References(<<"a">>, "u", <<>>)>>), first, second, third>> :
        first \in {TableU, OfU("ALTER", <<PrimaryKey(<<"a">>)>>, TRUE), Statement("VIEW", "u", {}, <<>>, "first"),
                   Statement("SCHEMA", "s", {}, <<>>, NoQuery)},
        second \in {OfU("ALTER", <<PrimaryKey(<<"a">>)>>, TRUE), OfU("INDEX", <<>>, FALSE), TableAs("u", "second")},
        third \in {OfU("ALTER", <<References(<<"b", "c">>, "t", <<"a">>)>>, FALSE),
                   OfU("ALTER", <<References(<<"b">>, "t", <<"a">>)>>, TRUE),
                   OfU("INDEX", <<Constraint("unique", <<"b">>)>>, TRUE), TableAs("s", "third"),
                   Statement("OTHER", "f", {}, <<>>, NoQuery)}}

StatementPrograms ==
    {Parsed(statements, root,
            [root |-> SetOp(<<>>, <<"left", "right">>), left |-> Star(<<From("t")>>, <<Unique("l1", column)>>),
             right |-> Listed(<<From("u")>>, <<ForeignKey("r1", TRUE, "t", column)>>),
             first |-> Listed(<<From("t")>>, <<ForeignKey("f1", TRUE, "u", "a")>>),
             second |-> Listed(<<From("t")>>, <<Unique("s1", "a")>>),
             third |-> Listed(<<From("t")>>, <<ForeignKey("t1", TRUE, "u", "b")>>)]) :
        statements \in StatementLists, root \in {"root", NoQuery}, column \in {"a", "b"}}

-----------------------------------------------------------------------------
(* Queries whose sources are never discovered: a CTE of a set operation, an *)
(* arm in parentheses, the body of CREATE TABLE AS.                         *)

UndiscoveredPrograms ==
    {Parsed(<<>>, "root",
            [root |-> SetOp(Ctes(<<"c">>), <<"left", "right">>), c |-> Star(<<From("t")>>, <<>>),
             left |-> Listed(<<From("c")>>, <<>>), right |-> Listed(<<From("t")>>, <<>>)]),
     Parsed(<<>>, "root",
            [root |-> SetOp(<<>>, <<"left", "right">>), left |-> Paren("l"),
             l |-> Listed(<<From("t")>>, <<>>), right |-> Listed(<<From("t")>>, <<>>)]),
     Parsed(<<>>, "root",
            [root |-> SetOp(Ctes(<<"c">>), <<"left", "right">>), left |-> Listed(<<From("c")>>, <<>>),
             right |-> Listed(<<From("t")>>, <<>>),
             c |-> Listed(<<Function>>, <<ForeignKey("f1", TRUE, "t", "a")>>)]),
     Parsed(<<>>, "root",
            [root |-> SetOp(<<>>, <<"left", "right">>), left |-> Paren("l"),
             l |-> Star(<<Function>>, Marked("l1")), right |-> Star(<<Function>>, Marked("r1"))]),
     Parsed(<<TableAs("s", "body")>>, "root",
            [body |-> Star(<<From("t")>>, <<>>),
             root |-> [Listed(<<From("s")>>, <<>>) EXCEPT !.needs = {<<1, "a">>}]])}

LinkedPrograms ==
    RecursivePrograms \cup ShadowingPrograms \cup MarkerPrograms \cup StatementPrograms \cup UndiscoveredPrograms
=============================================================================
