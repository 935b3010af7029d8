------------------------------- MODULE Linker -------------------------------
(***************************************************************************)
(* ir/convert.py: IrParser.parse.  The statements are declared, the names   *)
(* of every query are bound to symbols, columns nobody declared are         *)
(* required of the relations they are read from, and then every query that  *)
(* is reached is lowered, each relation once, the markers written on it     *)
(* becoming assertions, declarations or diagnostics.                        *)
(*                                                                         *)
(* The methods call each other; the agenda holds the calls still to make,   *)
(* the innermost first, and a step makes the first one: it does what the    *)
(* method does itself and puts the calls it makes in its place.  The call   *)
(* of _resolve_symbol starts an agenda of its own, which ends when the      *)
(* relation is named; `callers` holds what the calls around it still do.    *)
(***************************************************************************)
EXTENDS Naturals, SequencesExt

CONSTANTS
    Programs,  \* the programs parsed: [statements, root, query]
    NoQuery,   \* no root select, or a relation without a body
    NoName,    \* of a marker that references nothing
    NoMarker   \* of a join nothing is asserted of

(***************************************************************************)
(* A program.  query maps the id of every query node to                     *)
(*   select: the CTEs of its WITH, its sources, what its tail is ("star",   *)
(*     "listed", "opaque" for clauses that are not lowered, "natural" for a *)
(*     NATURAL JOIN), the output names it lists, the <<source, column>>     *)
(*     pairs it needs, its WHERE conjuncts that hold a subquery, its column *)
(*     markers;                                                             *)
(*   setop: the CTEs of its WITH and its two arms;                          *)
(*   paren: a query in parentheses, however many.                           *)
(* A source is a table (by name), a subquery or anything else, with the     *)
(* marker of its join; an occurrence <<query, i>> is the i-th source.       *)
(***************************************************************************)
Named(name, joined) == [kind |-> "table", name |-> name, body |-> NoQuery, joined |-> joined]
Derived(body) == [kind |-> "subquery", name |-> NoName, body |-> body, joined |-> NoMarker]
Function == [kind |-> "function", name |-> NoName, body |-> NoQuery, joined |-> NoMarker]

Select(sources, tail, items) ==
    [kind |-> "select", with |-> <<>>, sources |-> sources, tail |-> tail,
     items |-> items, needs |-> {}, where |-> <<>>, markers |-> <<>>]
SetOp(with, arms) == [kind |-> "setop", with |-> with, arms |-> arms]
Paren(body) == [kind |-> "paren", with |-> <<>>, body |-> body]

\* A column marker; only a foreign key references columns of a relation.
Marker(id, asserted, columns, references, referenced) ==
    [id |-> id, asserted |-> asserted, columns |-> columns,
     references |-> references, referenced |-> referenced]

\* CREATE and ALTER statements.  A constraint is a primary key, is unique, or
\* references a relation by its name.
Statement(kind, name, columns, constraints, body) ==
    [kind |-> kind, name |-> name, columns |-> columns, constraints |-> constraints,
     body |-> body, supported |-> TRUE]
Constraint(kind, columns) == [kind |-> kind, columns |-> columns, target |-> NoName, referenced |-> <<>>]
References(columns, target, referenced) ==
    [kind |-> "references", columns |-> columns, target |-> target, referenced |-> referenced]

Inlined(node) ==
    CASE node.kind = "paren"  -> {node.body}
      [] node.kind = "setop"  -> ToSet(node.arms)
      [] node.kind = "select" -> {node.where[i].body : i \in DOMAIN node.where}
                                 \cup {s.body : s \in {s \in ToSet(node.sources) : s.kind = "subquery"}}
DirectlyWithin(node) == {node.with[i].body : i \in DOMAIN node.with} \cup Inlined(node)

\* The markers written on a select, those of its joins first, and of a program.
Ids(markers) == [i \in DOMAIN markers |-> markers[i].id]
MarkersOn(node) == [i \in DOMAIN node.sources |-> node.sources[i].joined] \o Ids(node.markers)
Selects(p) == {q \in DOMAIN p.query : p.query[q].kind = "select"}
MarkersIn(p) == (UNION {ToSet(MarkersOn(p.query[q])) : q \in Selects(p)}) \ {NoMarker}
NamesIn(node) ==
    {c.name : c \in ToSet(node.with)}
    \cup IF node.kind = "select"
         THEN {s.name : s \in ToSet(node.sources)} \cup {m.references : m \in ToSet(node.markers)} ELSE {}
Names(p) == {s.name : s \in ToSet(p.statements)} \cup UNION {NamesIn(p.query[q]) : q \in DOMAIN p.query}

(***************************************************************************)
(* A syntax tree: a query is written in one place, of another query or of   *)
(* one statement; so is a marker, which is not a name.                      *)
(***************************************************************************)
IsSequence(s) == s \in Seq(ToSet(s))
IsNode(node) ==
    /\ node.kind \in {"select", "setop", "paren"} /\ IsSequence(node.with)
    /\ node.kind = "select" => IsSequence(node.sources) /\ IsSequence(node.where) /\ IsSequence(node.markers)
    /\ node.kind = "select" => \A s \in ToSet(node.sources) : s.kind \in {"table", "subquery", "function"}
    /\ node.kind = "setop" => IsSequence(node.arms) /\ Len(node.arms) = 2
Places(node) ==
    /\ \A i, j \in DOMAIN node.with : node.with[i].body = node.with[j].body => i = j
    /\ \A i \in DOMAIN node.with : node.with[i].body \notin Inlined(node)
    /\ node.kind = "setop" => node.arms[1] # node.arms[2]
    /\ node.kind = "select" => LET derived == {i \in DOMAIN node.sources : node.sources[i].kind = "subquery"} IN
          /\ \A i, j \in DOMAIN node.where : node.where[i].body = node.where[j].body => i = j
          /\ \A i, j \in derived : node.sources[i].body = node.sources[j].body => i = j
          /\ \A i \in DOMAIN node.where, j \in derived : node.where[i].body # node.sources[j].body
Outermost(p) == ({s.body : s \in ToSet(p.statements)} \cup {p.root}) \ {NoQuery}
IsProgram(p) ==
    LET within == [q \in DOMAIN p.query |-> DirectlyWithin(p.query[q])]
        kind(q) == p.query[q].kind
    IN
    /\ IsSequence(p.statements) /\ \A s \in ToSet(p.statements) : IsSequence(s.constraints)
    /\ \A q \in DOMAIN p.query :
          /\ IsNode(p.query[q])
          /\ kind(q) = "paren" => kind(p.query[q].body) # "paren"
          /\ kind(q) = "select" => \A c \in ToSet(p.query[q].where) : kind(c.body) = "select"
    /\ NoQuery \notin DOMAIN p.query
    /\ Outermost(p) \cup UNION {within[q] : q \in DOMAIN p.query} \subseteq DOMAIN p.query
    /\ \A q \in DOMAIN p.query : within[q] \cap Outermost(p) = {}
    /\ \A q, r \in DOMAIN p.query : within[q] \cap within[r] # {} => q = r
    /\ \A q \in DOMAIN p.query : Places(p.query[q])
    /\ \A i \in DOMAIN p.statements : p.statements[i].body # NoQuery =>
          /\ p.statements[i].body # p.root
          /\ \A j \in DOMAIN p.statements : p.statements[i].body = p.statements[j].body => i = j
    /\ \A q, r \in Selects(p) :
          \A i \in DOMAIN MarkersOn(p.query[q]), j \in DOMAIN MarkersOn(p.query[r]) :
             MarkersOn(p.query[q])[i] = MarkersOn(p.query[r])[j]
             => MarkersOn(p.query[q])[i] = NoMarker \/ (q = r /\ i = j)
    /\ \A q \in Selects(p) : NoMarker \notin ToSet(Ids(p.query[q].markers))
    /\ MarkersIn(p) \cap Names(p) = {}

ASSUME ProgramsAssumption == \A p \in Programs : IsProgram(p)

\* A symbol; an undeclared table is one that nothing declares.
Symbol(name, role, body, columns, declared) ==
    [name |-> name, role |-> role, body |-> body, columns |-> columns, declared |-> declared]
Undeclared(name) == Symbol(name, "TABLE", NoQuery, {}, FALSE)
IsUndeclared(s) == s.role = "TABLE" /\ ~s.declared
Cte(entry) == Symbol(entry.name, "CTE", entry.body, {}, FALSE)

VARIABLES
    program,
    agenda,        \* the calls to make, the next one first
    callers,       \* [symbol, rest]: the relations being resolved, outermost
                   \* first, and the calls to make after each
    symbols,       \* _symbols
    global,        \* _global_symbols: name -> symbol
    constraints,   \* symbol -> the constraints of its table
    scopes,        \* _query_scopes: query -> (name -> symbol)
    bound,         \* _table_symbols: occurrence -> symbol
    required,      \* symbol.required_columns
    asked,         \* _source_required: occurrence -> columns
    targets,       \* _marker_targets: marker -> symbol
    references,    \* _constraint_references
    named,         \* _named_relations, in the order they were made
    outputs,       \* symbol -> [columns, complete]
    results,       \* query -> [columns, complete], once lowered
    reads,         \* occurrence -> how it was read: "named" or "recursive"
    kept, cut,     \* history: the <<reader, read>> pairs of named relations
    resolving,     \* _resolving
    cycles,        \* _reported_cycles
    assertions, declarations, diagnostics, knowledge,
    pending,       \* _marker_references: [marker, target, position]
    placed,        \* assertions of foreign keys, to insert at their positions
    handled,       \* _handled_column_markers and _handled_joins
    crashed        \* KeyError: a source nobody discovered

binding == <<symbols, global, scopes, bound, targets>>
asking == <<required, asked>>
linking == <<callers, named, outputs, reads, kept, cut, resolving, cycles>>
marking == <<assertions, declarations, pending, placed, handled>>
vars == <<program, agenda, binding, asking, constraints, references, linking,
          results, marking, diagnostics, knowledge, crashed>>

NoEntry == [x \in {} |-> x]
With(f, x, value) == [y \in DOMAIN f \cup {x} |-> IF y = x THEN value ELSE f[y]]

Task == Head(agenda)
Doing(what) == ~crashed /\ agenda # <<>> /\ Task.do = what
Ended == agenda = <<>> /\ callers = <<>>
\* The step's own calls come before the rest.
Then(tasks) == agenda' = tasks \o Tail(agenda)
Report(found) == diagnostics' = diagnostics \cup found

Node(q) == program.query[q]
Source(o) == Node(o[1]).sources[o[2]]
IsSelect(q) == q # NoQuery /\ Node(q).kind = "select"
\* _unwrap_query
Unwrap(q) == IF Node(q).kind = "paren" THEN Node(q).body ELSE q

Bind(q, i) == [do |-> "bind", at |-> <<q, i>>]
Require(q) == [do |-> "require", query |-> q]
Discover(q, scope) == [do |-> "discover", query |-> q, scope |-> scope]
Lower(q) == [do |-> "lower", query |-> q]
Read(q, i) == [do |-> "read", at |-> <<q, i>>]
About(what, s) == [do |-> what, symbol |-> s]
Resolve(s) == About("resolve", s)
Mark(what, q, marker) == [do |-> what, query |-> q, marker |-> marker]
Reference(what, r) == [do |-> what, reference |-> r]
Call(what) == [do |-> what]
-----------------------------------------------------------------------------
(***************************************************************************)
(* Declarations: _declare, _declare_index, _alter.                          *)
(***************************************************************************)
Created(name) == name \in DOMAIN global /\ global[name].role = "TABLE" /\ global[name].declared

\* What is wrong with an index or an ALTER TABLE; the two check in another order.
Refusals(s) ==
    IF ~s.supported /\ (s.kind = "ALTER" \/ Created(s.name)) THEN {<<"unsupported", s.name>>}
    ELSE IF ~Created(s.name) THEN {<<"constraint without table", s.name>>} ELSE {}

Declare(s) ==
    IF s.name \in DOMAIN global
    THEN Report({<<"duplicate", s.name>>}) /\ UNCHANGED <<symbols, global, constraints, required>>
    ELSE LET symbol == Symbol(s.name, s.kind, s.body, s.columns, TRUE) IN
         /\ symbols' = Append(symbols, symbol)
         /\ global' = With(global, s.name, symbol)
         /\ constraints' = With(constraints, symbol, s.constraints)
         /\ required' = With(required, symbol, {})
         /\ UNCHANGED diagnostics

Amend(s) ==
    /\ Report(Refusals(s))
    /\ constraints' = IF Refusals(s) # {} THEN constraints
                      ELSE [constraints EXCEPT ![global[s.name]] = @ \o s.constraints]
    /\ UNCHANGED <<symbols, global, required>>

DeclareStatement ==
    /\ Doing("declare")
    /\ LET s == Task.statement IN
       \/ s.kind \in {"TABLE", "VIEW"} /\ Declare(s)
       \/ s.kind \in {"INDEX", "ALTER"} /\ Amend(s)
       \/ /\ s.kind \in {"SCHEMA", "OTHER"}
          /\ Report(IF s.kind = "SCHEMA" THEN {} ELSE {<<"unsupported", s.name>>})
          /\ UNCHANGED <<symbols, global, constraints, required>>
    /\ Then(<<>>)
    /\ UNCHANGED <<program, scopes, bound, targets, asked, references, linking,
                   results, marking, knowledge, crashed>>
-----------------------------------------------------------------------------
(***************************************************************************)
(* Discovery: _discover_query and what it calls.  The CTEs of a WITH are in *)
(* scope of the whole query, of each other and of themselves; the query     *)
(* binds its sources in order, then says which columns it needs of them,    *)
(* then looks into its WHERE and at last into the bodies of its CTEs.       *)
(***************************************************************************)
DiscoverViews ==
    /\ Doing("views")
    /\ Then([i \in DOMAIN symbols |-> About("view", symbols[i])])
    /\ UNCHANGED <<program, binding, asking, constraints, references, linking,
                   results, marking, diagnostics, knowledge, crashed>>

DiscoverView ==
    /\ Doing("view")
    /\ LET s == Task.symbol IN
       Then(IF s.role = "VIEW" /\ s.body # NoQuery THEN <<Discover(s.body, NoEntry)>> ELSE <<>>)
    /\ UNCHANGED <<program, binding, asking, constraints, references, linking,
                   results, marking, diagnostics, knowledge, crashed>>

\* Mutation: the bodies of CTEs see what the query itself saw from outside.
BodiesOutside(q, scope, outer) ==
    [i \in DOMAIN Node(q).with |-> Discover(Node(q).with[i].body, outer)]

\* Mutation: the body of the last CTE is not discovered.
BodiesButLast(q, scope, outer) ==
    [i \in 1..(Len(Node(q).with) - 1) |-> Discover(Node(q).with[i].body, scope)]

Bodies(q, scope, outer) ==
    [i \in DOMAIN Node(q).with |-> Discover(Node(q).with[i].body, scope)]

Within(q, scope, outer) ==
    LET node == Node(q) IN
    CASE node.kind = "paren" -> <<>>
      [] node.kind = "setop" -> [i \in 1..2 |-> Discover(node.arms[i], scope)]
      [] node.kind = "select" ->
            [i \in DOMAIN node.sources |-> Bind(q, i)] \o <<Require(q)>>
            \o [i \in DOMAIN node.markers |-> Mark("target", q, node.markers[i])]
            \o [i \in DOMAIN node.where |-> Discover(node.where[i].body, scope)]
            \o Bodies(q, scope, outer)

CteNames(with) == {with[i].name : i \in DOMAIN with}

\* What is in scope of a WITH: of two CTEs with one name, the last.
Visible(with, outer) ==
    LET last(name) == CHOOSE i \in DOMAIN with :
                        /\ with[i].name = name
                        /\ \A j \in DOMAIN with : with[j].name = name => j <= i
    IN  [name \in DOMAIN outer \cup CteNames(with) |->
           IF name \in CteNames(with) THEN Cte(with[last(name)]) ELSE outer[name]]

DiscoverQuery ==
    /\ Doing("discover")
    /\ LET q == Task.query
           ctes == [i \in DOMAIN Node(q).with |-> Cte(Node(q).with[i])]
           scope == Visible(Node(q).with, Task.scope)
       IN  IF q \in DOMAIN scopes
           THEN Then(<<>>) /\ UNCHANGED <<scopes, symbols, required>>
           ELSE /\ scopes' = With(scopes, q, scope)
                /\ symbols' = symbols \o ctes
                /\ required' = [s \in DOMAIN required \cup ToSet(ctes) |->
                                  IF s \in DOMAIN required THEN required[s] ELSE {}]
                /\ Then(Within(q, scope, Task.scope))
    /\ UNCHANGED <<program, global, bound, targets, asked, constraints, references,
                   linking, results, marking, diagnostics, knowledge, crashed>>

\* _symbol_for_name: a name nothing declares is an undeclared table.
SymbolFor(name, scope) ==
    IF name \in DOMAIN scope THEN scope[name]
    ELSE IF name \in DOMAIN global THEN global[name] ELSE Undeclared(name)

\* What is new of symbol s, of which `columns` are required besides.
Meet(s, columns) ==
    /\ IF s \in ToSet(symbols) THEN UNCHANGED <<symbols, global>>
       ELSE symbols' = Append(symbols, s) /\ global' = With(global, s.name, s)
    /\ required' = With(required, s, columns \cup IF s \in DOMAIN required THEN required[s] ELSE {})

BindSource ==
    /\ Doing("bind")
    /\ LET o == Task.at
           source == Source(o)
           symbol == SymbolFor(source.name, scopes[o[1]])
       IN  /\ asked' = With(asked, o, {})
           /\ IF source.kind = "table"
              THEN Meet(symbol, {}) /\ bound' = With(bound, o, symbol)
              ELSE UNCHANGED <<symbols, global, required, bound>>
           /\ Then(IF source.kind = "subquery" THEN <<Discover(source.body, scopes[o[1]])>> ELSE <<>>)
    /\ UNCHANGED <<program, scopes, targets, constraints, references, linking,
                   results, marking, diagnostics, knowledge, crashed>>

\* SELECT * from one source: what it is asked for, its source is asked for.
Sole(q) == IF IsSelect(q) /\ Node(q).tail = "star" /\ Len(Node(q).sources) = 1
           THEN {<<q, 1>>} ELSE {}

MarkedColumns(q) == UNION {m.columns : m \in ToSet(Node(q).markers)}

\* _require, of <<occurrence, column>> pairs.
Ask(pairs) ==
    /\ asked' = [o \in DOMAIN asked |-> asked[o] \cup {p[2] : p \in {p \in pairs : p[1] = o}}]
    /\ required' = [s \in DOMAIN required |->
          required[s] \cup {p[2] : p \in {p \in pairs : p[1] \in DOMAIN bound /\ bound[p[1]] = s}}]

RequireColumns ==
    /\ Doing("require")
    /\ LET q == Task.query IN
       Ask({<< <<q, need[1]>>, need[2]>> : need \in Node(q).needs} \cup (Sole(q) \X MarkedColumns(q)))
    /\ Then(<<>>)
    /\ UNCHANGED <<program, binding, constraints, references, linking, results,
                   marking, diagnostics, knowledge, crashed>>

\* A foreign key marker references a relation.
IsPending(marker) == marker.references # NoName

FindTarget ==
    /\ Doing("target")
    /\ LET marker == Task.marker
           target == SymbolFor(marker.references, scopes[Task.query])
       IN  IF IsPending(marker)
           THEN /\ Meet(target, IF IsUndeclared(target) THEN marker.referenced ELSE {})
                /\ targets' = With(targets, marker.id, target)
           ELSE UNCHANGED <<symbols, global, required, targets>>
    /\ Then(<<>>)
    /\ UNCHANGED <<program, scopes, bound, asked, constraints, references, linking,
                   results, marking, diagnostics, knowledge, crashed>>

(***************************************************************************)
(* _discover_constraint_references: the REFERENCES constraints of declared  *)
(* tables onto tables the program reaches, of which only an undeclared one  *)
(* is required to have the columns.                                         *)
(***************************************************************************)
DiscoverConstraints ==
    /\ Doing("constraints")
    /\ Then([i \in DOMAIN symbols |-> About("constraints of", symbols[i])])
    /\ UNCHANGED <<program, binding, asking, constraints, references, linking,
                   results, marking, diagnostics, knowledge, crashed>>

ConstraintsOf(s) == IF s.role = "TABLE" /\ s.declared THEN constraints[s] ELSE <<>>

DiscoverConstraintsOf ==
    /\ Doing("constraints of")
    /\ LET s == Task.symbol IN
       Then([i \in DOMAIN ConstraintsOf(s) |->
               [do |-> "constraint", symbol |-> s, constraint |-> ConstraintsOf(s)[i]]])
    /\ UNCHANGED <<program, binding, asking, constraints, references, linking,
                   results, marking, diagnostics, knowledge, crashed>>

DiscoverReference ==
    /\ Doing("constraint")
    /\ LET c == Task.constraint IN
       IF c.kind = "references" /\ c.target \in DOMAIN global /\ global[c.target].role = "TABLE"
       THEN LET target == global[c.target] IN
            /\ references' = Append(references, [table |-> Task.symbol, columns |-> c.columns,
                                                target |-> target, referenced |-> c.referenced])
            /\ required' = IF IsUndeclared(target)
                           THEN [required EXCEPT ![target] = @ \cup ToSet(c.referenced)] ELSE required
       ELSE UNCHANGED <<references, required>>
    /\ Then(<<>>)
    /\ UNCHANGED <<program, binding, asked, constraints, linking, results, marking,
                   diagnostics, knowledge, crashed>>

(***************************************************************************)
(* _propagate_required_columns: what a relation is asked for, a star over   *)
(* one source asks of that source, until that changes nothing.  A source    *)
(* nobody discovered cannot be asked.                                       *)
(***************************************************************************)
BodyFlows ==
    UNION {{s.body} \X required[s] : s \in {s \in ToSet(symbols) : s.body # NoQuery}}
SubqueryFlows ==
    UNION {{Source(o).body} \X asked[o] : o \in {o \in DOMAIN asked : Source(o).kind = "subquery"}}

\* Mutation: derived tables are not looked through.
NamedFlows == UNION {Sole(flow[1]) \X {flow[2]} : flow \in BodyFlows}

\* The <<occurrence, column>> pairs that are asked for on behalf of a reader.
Flows == UNION {Sole(flow[1]) \X {flow[2]} : flow \in BodyFlows \cup SubqueryFlows}

\* Mutation: whatever is asked for counts as a change.
AnyFlow == Flows

Unasked == {flow \in Flows : flow[1] \notin DOMAIN asked \/ flow[2] \notin asked[flow[1]]}

Crash == crashed' = TRUE /\ UNCHANGED agenda

Propagate ==
    /\ Doing("propagate")
    /\ \/ Unasked = {} /\ Then(<<>>) /\ UNCHANGED <<asking, crashed>>
       \/ \E flow \in Unasked :
             /\ flow[1] \in DOMAIN asked
             /\ Ask({flow}) /\ UNCHANGED <<agenda, crashed>>
       \/ \E flow \in Unasked :
             /\ flow[1] \notin DOMAIN asked
             /\ Crash /\ UNCHANGED asking
    /\ UNCHANGED <<program, binding, constraints, references, linking, results,
                   marking, diagnostics, knowledge>>
-----------------------------------------------------------------------------
(***************************************************************************)
(* Lowering: _lower_query and what it calls.                                *)
(***************************************************************************)
Lowered(tail) == tail \in {"star", "listed"}

SourceTasks(q) == [i \in DOMAIN Node(q).sources |-> Read(q, i)]

WhereTasks(q) ==
    IF Lowered(Node(q).tail)
    THEN [i \in DOMAIN Node(q).where |-> [do |-> "filter", conjunct |-> Node(q).where[i]]] ELSE <<>>

LowerQuery ==
    /\ Doing("lower")
    /\ LET q == Unwrap(Task.query)
           finish == <<[do |-> "finish", query |-> q]>>
       IN  Then(CASE Node(q).kind = "setop" ->
                        <<Lower(Node(q).arms[1]), Lower(Node(q).arms[2])>> \o finish
                  [] Node(q).kind = "select" /\ Node(q).tail = "natural" -> finish
                  [] OTHER -> SourceTasks(q) \o WhereTasks(q) \o finish)
    /\ UNCHANGED <<program, binding, asking, constraints, references, linking,
                   results, marking, diagnostics, knowledge, crashed>>

\* _subquery_join: of an EXISTS only the sources are lowered, and only when it
\* has no clause in the way; an IN lowers its whole subquery.
FilterRows ==
    /\ Doing("filter")
    /\ LET body == Task.conjunct.body IN
       Then(CASE Task.conjunct.kind = "in" -> <<Lower(body)>>
              [] /\ Task.conjunct.kind = "exists"
                 /\ Lowered(Node(body).tail) /\ Node(body).with = <<>> -> SourceTasks(body)
              [] OTHER -> <<>>)
    /\ UNCHANGED <<program, binding, asking, constraints, references, linking,
                   results, marking, diagnostics, knowledge, crashed>>

\* The symbols being resolved, outermost first.
Stack == [i \in DOMAIN callers |-> callers[i].symbol]

\* _table_output_columns, and an opaque relation of what is required.
TableOutput(s) ==
    [columns |-> s.columns \cup required[s], complete |-> s.declared /\ required[s] \subseteq s.columns]
Opaque(columns) == [columns |-> columns, complete |-> FALSE]

Name(s, output) ==
    /\ named' = Append(named, s)
    /\ outputs' = With(outputs, s, output)

\* _resolve_symbol, of a symbol that is not named yet, then `tasks`.
Open(s, tasks) ==
    IF s.role = "TABLE"
    THEN Name(s, TableOutput(s)) /\ Then(tasks) /\ UNCHANGED <<callers, resolving>>
    ELSE /\ resolving' = resolving \cup {s}
         /\ callers' = Append(callers, [symbol |-> s, rest |-> tasks \o Tail(agenda)])
         /\ agenda' = IF s.body = NoQuery THEN <<>> ELSE <<Lower(s.body)>>
         /\ UNCHANGED <<named, outputs>>

ResolveThen(s, tasks) ==
    IF s \in ToSet(named) THEN Then(tasks) /\ UNCHANGED <<callers, named, outputs, resolving>>
    ELSE Open(s, tasks)

\* Of the reads by a relation, not by the root select, a history is kept.
Between(s) == IF callers = <<>> THEN {} ELSE {<<Last(callers).symbol, s>>}

ReadRelation(o, s, tasks) ==
    IF s \in resolving
    THEN /\ reads' = With(reads, o, "recursive") /\ cut' = cut \cup Between(s)
         /\ cycles' = IF s.role = "VIEW" THEN cycles \cup {s} ELSE cycles
         /\ Then(tasks) /\ UNCHANGED <<callers, kept, named, outputs, resolving>>
    ELSE /\ reads' = With(reads, o, "named") /\ kept' = kept \cup Between(s)
         /\ ResolveThen(s, tasks)
         /\ UNCHANGED <<cut, cycles>>

\* _lower_source, and what _lower_join asserts of the join afterwards.
ReadSource ==
    /\ Doing("read")
    /\ LET o == Task.at
           source == Source(o)
           join == IF source.joined = NoMarker THEN <<>> ELSE <<[do |-> "join", marker |-> source.joined]>>
       IN
       \/ /\ source.kind # "table"
          /\ Then((IF source.kind = "subquery" THEN <<Lower(source.body)>> ELSE <<>>) \o join)
          /\ UNCHANGED <<linking, crashed>>
       \/ /\ source.kind = "table" /\ o \in DOMAIN bound
          /\ ReadRelation(o, bound[o], join)
          /\ UNCHANGED crashed
       \/ /\ source.kind = "table" /\ o \notin DOMAIN bound
          /\ Crash
          /\ UNCHANGED linking
    /\ UNCHANGED <<program, binding, asking, constraints, references, results,
                   marking, diagnostics, knowledge>>

ResolveSymbol ==
    /\ Doing("resolve")
    /\ ResolveThen(Task.symbol, <<>>)
    /\ UNCHANGED <<program, binding, asking, constraints, references, reads, kept, cut, cycles,
                   results, marking, diagnostics, knowledge, crashed>>

\* Mutation: a symbol stays in _resolving once it is resolved.
StillResolving(s) == resolving

Resolved(s) == resolving \ {s}

\* _resolve_symbol returns: the body is lowered.
NameRelation ==
    /\ ~crashed /\ agenda = <<>> /\ callers # <<>>
    /\ LET s == Last(callers).symbol IN
       /\ Name(s, IF s.body = NoQuery THEN Opaque(required[s]) ELSE results[Unwrap(s.body)])
       /\ resolving' = Resolved(s)
    /\ agenda' = Last(callers).rest
    /\ callers' = Front(callers)
    /\ UNCHANGED <<program, binding, asking, constraints, references, reads, kept, cut, cycles,
                   results, marking, diagnostics, knowledge, crashed>>
-----------------------------------------------------------------------------
(***************************************************************************)
(* Markers: _join_marker, and _register_column_markers on the output of the *)
(* select they are written on, one after the other.                         *)
(***************************************************************************)
AssertJoin ==
    /\ Doing("join")
    /\ assertions' = Append(assertions, Task.marker)
    /\ handled' = handled \cup {Task.marker}
    /\ Then(<<>>)
    /\ UNCHANGED <<program, binding, asking, constraints, references, linking, results,
                   declarations, pending, placed, diagnostics, knowledge, crashed>>

\* What is read at occurrence o.
Output(o) ==
    CASE Source(o).kind = "function" -> Opaque(IF o \in DOMAIN asked THEN asked[o] ELSE {})
      [] Source(o).kind = "subquery" -> results[Unwrap(Source(o).body)]
      [] Source(o).kind = "table" /\ reads[o] = "recursive" -> Opaque(required[bound[o]])
      [] OTHER -> outputs[bound[o]]

SelectOutput(q) ==
    LET sources == {Output(<<q, i>>) : i \in DOMAIN Node(q).sources} IN
    CASE Node(q).tail = "star"   -> [columns |-> UNION {s.columns : s \in sources},
                                     complete |-> \A s \in sources : s.complete]
      [] Node(q).tail = "listed" -> [columns |-> Node(q).items, complete |-> TRUE]
      [] OTHER                   -> Opaque(Node(q).items)

FinishQuery ==
    /\ Doing("finish")
    /\ LET q == Task.query IN
       \/ /\ Node(q).kind = "select"
          /\ results' = With(results, q, SelectOutput(q))
          /\ Then([i \in DOMAIN Node(q).markers |-> Mark("mark", q, Node(q).markers[i])])
       \/ /\ Node(q).kind = "setop"
          /\ LET left == results[Unwrap(Node(q).arms[1])]
                 right == results[Unwrap(Node(q).arms[2])]
             IN  results' = With(results, q, [left EXCEPT !.complete = @ /\ right.complete])
          /\ Then(<<>>)
    /\ UNCHANGED <<program, binding, asking, constraints, references, linking,
                   marking, diagnostics, knowledge, crashed>>

RegisterMarker ==
    /\ Doing("mark")
    /\ LET m == Task.marker
           output == results[Task.query]
           known == m.columns \subseteq output.columns
       IN
       \/ /\ ~known
          /\ Report({<<IF output.complete THEN "unknown" ELSE "unresolved", m.id>>})
          /\ Then(<<>>) /\ UNCHANGED <<assertions, declarations, pending, crashed>>
       \/ /\ known /\ ~IsPending(m)
          /\ assertions' = IF m.asserted THEN Append(assertions, m.id) ELSE assertions
          /\ declarations' = IF m.asserted THEN declarations ELSE Append(declarations, m.id)
          /\ Then(<<>>) /\ UNCHANGED <<pending, diagnostics, crashed>>
       \/ /\ known /\ IsPending(m) /\ m.id \in DOMAIN targets
          /\ pending' = Append(pending, [marker |-> m, target |-> targets[m.id], position |-> Len(assertions)])
          /\ Then(<<>>) /\ UNCHANGED <<assertions, declarations, diagnostics, crashed>>
       \/ /\ known /\ IsPending(m) /\ m.id \notin DOMAIN targets
          /\ Crash
          /\ UNCHANGED <<assertions, declarations, pending, diagnostics>>
    /\ handled' = handled \cup {Task.marker.id}
    /\ UNCHANGED <<program, binding, asking, constraints, references, linking, results,
                   placed, knowledge>>
-----------------------------------------------------------------------------
(***************************************************************************)
(* Referenced relations are linked last: _link_constraint_references and    *)
(* _link_marker_references.  Lowering one may register more markers.        *)
(***************************************************************************)
LinkConstraints ==
    /\ Doing("links")
    /\ Then([i \in DOMAIN references |-> Reference("link", references[i])])
    /\ UNCHANGED <<program, binding, asking, constraints, references, linking,
                   results, marking, diagnostics, knowledge, crashed>>

LinkReference ==
    /\ Doing("link")
    /\ LET r == Task.reference IN Then(<<Resolve(r.table), Resolve(r.target), Reference("constrain", r)>>)
    /\ UNCHANGED <<program, binding, asking, constraints, references, linking,
                   results, marking, diagnostics, knowledge, crashed>>

\* The columns a reference names, or those of the target's primary key.
ReferencedColumns(r) ==
    LET keys == {i \in DOMAIN ConstraintsOf(r.target) : ConstraintsOf(r.target)[i].kind = "key"}
        first == CHOOSE i \in keys : \A j \in keys : i <= j
    IN  CASE r.referenced # <<>> -> r.referenced
          [] r.referenced = <<>> /\ keys # {} -> ConstraintsOf(r.target)[first].columns
          [] OTHER               -> <<>>

ConstrainReference ==
    /\ Doing("constrain")
    /\ LET r == Task.reference
           referenced == ReferencedColumns(r)
           paired == /\ ToSet(r.columns) \subseteq outputs[r.table].columns
                     /\ Len(r.columns) = Len(referenced)
           known == ToSet(referenced) \subseteq outputs[r.target].columns
           problem == CASE referenced = <<>> -> IF r.target.declared THEN {"no primary key"} ELSE {"unknown key"}
                        [] referenced # <<>> /\ ~paired -> {"invalid foreign key"}
                        [] referenced # <<>> /\ paired /\ ~known -> {"unknown referenced column"}
                        [] OTHER -> {}
       IN  /\ knowledge' = IF problem = {} THEN knowledge \cup {<<r.table, r.columns, r.target, referenced>>}
                           ELSE knowledge
           /\ Report({<<what, r.table.name>> : what \in problem \ {"unknown key"}})
    /\ Then(<<>>)
    /\ UNCHANGED <<program, binding, asking, constraints, references, linking,
                   results, marking, crashed>>

\* Mutation: one reference is linked, not all of them.
LinkOnce == <<>>

LinkMore == <<Call("references")>>

LinkMarkers ==
    /\ Doing("references")
    /\ IF pending = <<>> THEN Then(<<>>) /\ UNCHANGED pending
       ELSE LET first == Head(pending) IN
            /\ pending' = Tail(pending)
            /\ Then(<<Resolve(first.target), Reference("refer", first)>> \o LinkMore)
    /\ UNCHANGED <<program, binding, asking, constraints, references, linking, results,
                   assertions, declarations, placed, handled, diagnostics, knowledge, crashed>>

StateReference ==
    /\ Doing("refer")
    /\ LET r == Task.reference
           known == r.marker.referenced \subseteq outputs[r.target].columns
       IN  /\ placed' = IF known /\ r.marker.asserted THEN Append(placed, r) ELSE placed
           /\ declarations' = IF known /\ ~r.marker.asserted THEN Append(declarations, r.marker.id)
                              ELSE declarations
           /\ Report(IF known THEN {} ELSE {<<"unknown referenced column", r.marker.id>>})
    /\ Then(<<>>)
    /\ UNCHANGED <<program, binding, asking, constraints, references, linking, results,
                   assertions, pending, handled, knowledge, crashed>>

\* Mutation: the first to be placed is inserted first.
FirstPlaced == 1

\* Descending, so earlier positions stay valid.
LastPlaced == Len(placed)

PlaceAssertion ==
    /\ Doing("place")
    /\ IF placed = <<>> THEN Then(<<>>) /\ UNCHANGED <<assertions, placed>>
       ELSE LET r == placed[LastPlaced] IN
            /\ assertions' = InsertAt(assertions, r.position + 1, r.marker.id)
            /\ placed' = RemoveAt(placed, LastPlaced)
            /\ UNCHANGED agenda
    /\ UNCHANGED <<program, binding, asking, constraints, references, linking, results,
                   declarations, pending, handled, diagnostics, knowledge, crashed>>

\* Every marker of the program, of queries that were never lowered too.
Written == MarkersIn(program)

Unhandled == Written \ handled

ReportUnanalyzed ==
    /\ Doing("report")
    /\ Report({<<"unanalyzed", m>> : m \in Unhandled})
    /\ Then(<<>>)
    /\ UNCHANGED <<program, binding, asking, constraints, references, linking,
                   results, marking, knowledge, crashed>>

\* _unresolved_named_relation: symbols nobody read, in order.
Settle ==
    /\ Doing("settle")
    /\ LET rest == {i \in DOMAIN symbols : symbols[i] \notin ToSet(named)} IN
       \/ rest = {} /\ Then(<<>>) /\ UNCHANGED <<named, outputs>>
       \/ \E i \in rest :
             /\ \A j \in rest : i <= j
             /\ LET s == symbols[i] IN
                Name(s, IF s.role = "TABLE" THEN TableOutput(s) ELSE Opaque(required[s]))
             /\ UNCHANGED agenda
    /\ UNCHANGED <<program, binding, asking, constraints, references, callers, reads, kept, cut,
                   resolving, cycles, results, marking, diagnostics, knowledge, crashed>>
-----------------------------------------------------------------------------
\* parse
Init ==
    /\ program \in Programs
    /\ agenda = LET declare == [i \in DOMAIN program.statements |->
                                  [do |-> "declare", statement |-> program.statements[i]]]
                    root(task) == IF program.root = NoQuery THEN <<>> ELSE <<task>>
                IN  declare \o <<Call("views")>> \o root(Discover(program.root, NoEntry))
                    \o <<Call("constraints"), Call("propagate")>> \o root(Lower(program.root))
                    \o <<Call("links"), Call("references"), Call("place"), Call("report"), Call("settle")>>
    /\ symbols = <<>> /\ references = <<>> /\ named = <<>> /\ callers = <<>>
    /\ global = NoEntry /\ constraints = NoEntry /\ scopes = NoEntry /\ bound = NoEntry
    /\ required = NoEntry /\ asked = NoEntry /\ targets = NoEntry
    /\ outputs = NoEntry /\ results = NoEntry /\ reads = NoEntry
    /\ kept = {} /\ cut = {} /\ resolving = {} /\ cycles = {} /\ diagnostics = {} /\ knowledge = {} /\ handled = {}
    /\ assertions = <<>> /\ declarations = <<>> /\ pending = <<>> /\ placed = <<>>
    /\ crashed = FALSE

Next ==
    \/ DeclareStatement
    \/ DiscoverViews \/ DiscoverView \/ DiscoverQuery \/ BindSource \/ RequireColumns \/ FindTarget
    \/ DiscoverConstraints \/ DiscoverConstraintsOf \/ DiscoverReference \/ Propagate
    \/ LowerQuery \/ ReadSource \/ FilterRows \/ ResolveSymbol \/ NameRelation
    \/ AssertJoin \/ FinishQuery \/ RegisterMarker
    \/ LinkConstraints \/ LinkReference \/ ConstrainReference \/ LinkMarkers \/ StateReference
    \/ PlaceAssertion \/ ReportUnanalyzed \/ Settle

\* The conversion runs on.
Spec == Init /\ [][Next]_vars /\ WF_vars(Next)
-----------------------------------------------------------------------------
TypeOK ==
    /\ ToSet(symbols) = DOMAIN required
    /\ \A name \in DOMAIN global : global[name] \in ToSet(symbols) /\ global[name].name = name
    /\ \A o \in DOMAIN bound : bound[o] \in ToSet(symbols)
    /\ DOMAIN outputs = ToSet(named) /\ ToSet(named) \subseteq ToSet(symbols)
    /\ resolving = ToSet(Stack)
    /\ cycles \subseteq {s \in ToSet(symbols) : s.role = "VIEW"}
    /\ \A i \in DOMAIN pending : pending[i].position \in 0..Len(assertions)

\* What a chain of pairs connects: the second is in every set that holds what
\* the first is paired with and, with an element, what that one is paired with.
Connected(pairs) ==
    LET ends == {pair[1] : pair \in pairs} \cup {pair[2] : pair \in pairs}
        closed == {found \in SUBSET ends : \A pair \in pairs : pair[1] \in found => pair[2] \in found}
        onward == [x \in ends |-> {found \in closed : \A pair \in pairs : pair[1] = x => pair[2] \in found}]
    IN  {ab \in ends \X ends : \A found \in onward[ab[1]] : ab[2] \in found}

(***************************************************************************)
(* Every marker that was written is accounted for, once: it is one          *)
(* assertion or one declaration, or one diagnostic is about it, wherever it *)
(* was written and whether or not its query was lowered.                    *)
(***************************************************************************)
Times(m, sequence) == Cardinality({i \in DOMAIN sequence : sequence[i] = m})
Accounted ==
    Ended => \A m \in Written :
        Times(m, assertions) + Times(m, declarations)
            + Cardinality({d \in diagnostics : d[2] = m}) = 1

(***************************************************************************)
(* The assertions of one select stay in the order its markers were written, *)
(* joins first, although those of its foreign keys are stated only after    *)
(* everything else was lowered.                                             *)
(***************************************************************************)
OrderKept ==
    Ended => \A q \in Selects(program) :
        LET written == MarkersOn(Node(q)) IN
        \A i, j \in DOMAIN assertions : \A k, l \in DOMAIN written :
            assertions[i] = written[k] /\ assertions[j] = written[l] /\ k < l => i < j

(***************************************************************************)
(* A name means what SQL scoping says, whatever query was met first and     *)
(* whoever reads the view it is written in: a CTE of the nearest enclosing  *)
(* WITH that has the name, in whatever order its CTEs are written, or else  *)
(* the relation of the whole program.                                       *)
(***************************************************************************)
\* What encloses a query is in every set that holds it and, with a query, the
\* one that is written in.
Enclosing(query) ==
    LET outward == {found \in SUBSET DOMAIN query :
                      \A p \in DOMAIN query : DirectlyWithin(query[p]) \cap found # {} => p \in found}
    IN  [q \in DOMAIN query |-> {p \in DOMAIN query : \A found \in outward : q \in found => p \in found}]
Lexical ==
    Ended => LET enclosing == Enclosing(program.query) IN
        \A o \in DOMAIN bound :
            LET name == Source(o).name
                having == {q \in enclosing[o[1]] : name \in CteNames(Node(q).with)}
                nearest == {q \in having : having \subseteq enclosing[q]}
            IN  IF having = {} THEN bound[o] = global[name]
                ELSE \E q \in nearest : \E i \in DOMAIN Node(q).with :
                        bound[o] = Cte(Node(q).with[i]) /\ Node(q).with[i].name = name

(***************************************************************************)
(* Of the reads between relations that were lowered, every cycle through a  *)
(* view has a view that is reported as recursive, wherever lowering entered *)
(* it, and nothing else is reported.                                        *)
(***************************************************************************)
CyclesReported ==
    Ended => LET led == Connected(kept \cup cut) IN
        /\ \A s \in cycles : <<s, s>> \in led
        /\ \A s \in {s \in ToSet(symbols) : s.role = "VIEW"} :
              <<s, s>> \in led => \E t \in cycles : <<s, t>> \in led /\ <<t, s>> \in led

(***************************************************************************)
(* A marker on SELECT * from one source finds its columns when stars lead   *)
(* from there to a table or a function, through views, CTEs and derived     *)
(* tables, declared or not and in whatever order they were met, provided    *)
(* that discovery met the query itself.                                     *)
(***************************************************************************)
StarsLead ==
    Connected(UNION {{o} \X Sole(IF o \in DOMAIN bound THEN bound[o].body ELSE Source(o).body) :
                       o \in DOMAIN asked})
IsTable(o) == Source(o).kind = "function" \/ (o \in DOMAIN bound /\ bound[o].role = "TABLE")
StarsResolve ==
    Ended => LET led == StarsLead IN
        \A q \in {q \in DOMAIN results \cap DOMAIN scopes : Sole(q) # {}} :
            IsTable(<<q, 1>>) \/ (\E pair \in led : pair[1] = <<q, 1>> /\ IsTable(pair[2])) =>
                \A m \in ToSet(Ids(Node(q).markers)) :
                    diagnostics \cap {<<"unknown", m>>, <<"unresolved", m>>} = {}

\* The reads of the linked program are what the abstract resolution allows: each
\* relation lowered once, reads cut only on a cycle.
AbstractResolution ==
    INSTANCE Resolution WITH
        known <- ToSet(symbols), stack <- Stack, done <- named

(***************************************************************************)
(* Linking resolves names as Resolution allows: each relation is lowered    *)
(* once, and a read is cut exactly when its relation is being lowered.      *)
(***************************************************************************)
Implements == AbstractResolution!Spec

(***************************************************************************)
(* The conversion of every program ends, also when views and the foreign    *)
(* keys of views refer to each other: with a result, or with a KeyError.    *)
(***************************************************************************)
Converts == <>(Ended \/ crashed)

(***************************************************************************)
(* It ends with a result: no query is lowered whose sources were not        *)
(* discovered.                                                              *)
(***************************************************************************)
NeverCrashes == ~crashed

\* What discovery passes over: a WITH of a set operation, what is in
\* parentheses, the query of CREATE TABLE AS.
PassedOver(p) ==
    \/ \E q \in DOMAIN p.query :
          p.query[q].kind = "paren" \/ (p.query[q].kind = "setop" /\ p.query[q].with # <<>>)
    \/ \E s \in ToSet(p.statements) : s.kind = "TABLE" /\ s.body # NoQuery

(***************************************************************************)
(* Only what discovery passes over makes it crash.  Of any other program    *)
(* every source that is lowered, every source a star asks and every target  *)
(* of a foreign key was discovered, in whatever order they are met.         *)
(***************************************************************************)
CrashesExplained == crashed => PassedOver(program)
=============================================================================
