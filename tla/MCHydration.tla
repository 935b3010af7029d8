---------------------------- MODULE MCHydration ----------------------------
(***************************************************************************)
(* A catalog of one table and one view in the main schema, and a table and  *)
(* a view in another one, whose names shadow each other: t and s.t, v and   *)
(* s.v.  The views read each other, themselves, or a table.                 *)
(***************************************************************************)
EXTENDS Hydration

Db == <<"db">>
InMain(table) == <<Db, Main, <<table>>>>
InS(table) == <<Db, <<"s">>, <<table>>>>

MCPaths == {InMain("t"), InMain("v"), InS("t"), InS("v")}
MCSessionPath == << << <<"temp">>, Main >>, <<Db, Main>> >>

TableT == Table({"id", "x"}, {{"id"}}, {ForeignKey(<<"x">>, Identity(InS("t")), <<"id">>)})
TableS == Table({"id"}, {{"id"}}, {})
OtherTable == Table({"x"}, {{"x"}}, {})
Torn == Table({"x"}, {{"id"}}, {})

ReadsT == View({<<"t">>}, TRUE)
ReadsBoth == View({<<"t">>, <<"s", "t">>}, TRUE)
ReadsV == View({<<"v">>}, TRUE)
ReadsMainV == View({<<"main", "v">>}, TRUE)
Unparsable == View({}, FALSE)
NoTable == View({}, TRUE)

MCCatalogs ==
    {[path \in MCPaths |->
        CASE path = InMain("t") -> t [] path = InS("t") -> s
          [] path = InMain("v") -> v [] path = InS("v") -> w] :
        t \in {TableT, Torn}, s \in {TableS, Absent},
        v \in {ReadsT, ReadsBoth, View({<<"s", "v">>}, TRUE), Unparsable},
        w \in {ReadsT, ReadsV, ReadsMainV, NoTable}}

\* What a change may leave at a path.
MCEntries == {OtherTable, ReadsV, Absent}

Reading(names, declared) == [reads |-> names, declares |-> declared]
MCPrograms ==
    {Reading({<<"t">>, <<"v">>}, {}),
     Reading({<<"v">>, <<"s", "v">>}, {}),
     Reading({<<"main", "v">>, <<"v">>, <<"t">>}, {<<"t">>}),
     Reading({<<"s", "v">>}, {Identity(InMain("t"))})}
=============================================================================
