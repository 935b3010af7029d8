----------------------------- MODULE Hydration -----------------------------
(***************************************************************************)
(* discovery/fetcher.py: _Hydration and bind.  The program is linked, the   *)
(* external names it reaches are looked up in the catalog, each is declared *)
(* (a table by its columns, a view by its stored definition, whose own      *)
(* names are looked up in the view's scope) or given up, and the program is *)
(* linked again, until it reaches nothing new.                              *)
(*                                                                         *)
(* The catalog is live: between two calls another session may change it,    *)
(* and every call may fail.  The calls are the steps; what runs between two *)
(* calls is one step too.                                                   *)
(***************************************************************************)
EXTENDS Catalog, FiniteSets

CONSTANTS
    Programs,    \* [reads, declares]: the names a program reads and declares
    Catalogs,    \* the catalogs it may start from
    Entries,     \* what a change may put at a path
    MaxChanges   \* how often the catalog changes: a bound of the model

ASSUME MaxChangesAssumption == MaxChanges \in Nat
ASSUME ProgramsAssumption == \A p \in Programs : p.reads \subseteq Seq(STRING)
ASSUME CatalogsAssumption ==
    \A c \in Catalogs :
        DOMAIN c = Paths /\ \A path \in Paths : c[path].body \subseteq Seq(STRING)
ASSUME EntriesAssumption == \A entry \in Entries : entry.body \subseteq Seq(STRING)

VARIABLES
    program, catalog, changes,
    resolved,      \* name -> metadata: the memo of answers
    views,         \* identity -> [known, reads]: the memo of view definitions
    declarations,  \* name -> the statement added to the program, and its place
    tables,        \* name -> metadata of the tables among them
    unavailable,   \* the names given up
    diagnostics,   \* the names and identities something was reported about
    pending,       \* the names of this round still to declare
    opened,        \* the view whose body names are being looked up, and its name
    seen,          \* history: the catalogs there have been
    pc             \* "declare", "resolve", "body" or "done"

memo == <<resolved, views>>
output == <<declarations, tables, unavailable>>
vars == <<program, catalog, changes, memo, output, diagnostics, pending,
          opened, seen, pc>>

Nothing == [name |-> <<>>, metadata |-> NotFound, reads |-> {}]
NoEntry == [x \in {} |-> x]

\* f, with the values of g where both have one: dict.update.
Updated(f, g) ==
    [x \in DOMAIN f \cup DOMAIN g |-> IF x \in DOMAIN g THEN g[x] ELSE f[x]]

DeclaredNames == DOMAIN declarations
Revealed == UNION {declarations[name].reveals : name \in DeclaredNames}
Decided == DeclaredNames \cup unavailable

(***************************************************************************)
(* Linking the program with the declarations made so far: its named         *)
(* relations are what its statements and the declared views read, and the   *)
(* tables declared, each under the name its CREATE statement can hold.      *)
(***************************************************************************)
\* Mutation: only the statements of the program are linked.
NamedByProgram == program.reads

NamedRelations == program.reads \cup Revealed

\* Mutation: names given up are external again.
IsUndeclared(name) ==
    /\ name \notin program.declares
    /\ name \notin DeclaredNames

IsExternal(name) ==
    /\ name \notin program.declares
    /\ name \notin DeclaredNames
    /\ name \notin unavailable

Link ==
    /\ pc = "declare" /\ pending = {}
    /\ pending' = {name \in NamedRelations : IsExternal(name)}
    /\ pc' = IF pending' = {} THEN "done"
             ELSE IF pending' \subseteq DOMAIN resolved THEN "declare"
             ELSE "resolve"
    /\ UNCHANGED <<program, catalog, changes, memo, output, diagnostics, opened, seen>>

\* Names to look up: those no answer, of either scope, is known for.
Unknown == pending \ DOMAIN resolved

(***************************************************************************)
(* _resolve: one call for a set of names.  It fails for all of them alike.  *)
(***************************************************************************)
Answers(names, scope) == [name \in names |-> Lookup(catalog, name, scope)]
Failures(names) == [name \in names |-> NotFound]
Missing(answers) == {name \in DOMAIN answers : answers[name] = NotFound}

Resolve ==
    /\ pc = "resolve"
    /\ \/ LET found == Answers(Unknown, Session) IN
             /\ resolved' = Updated(resolved, found)
             /\ diagnostics' = diagnostics \cup Missing(found)
       \/ /\ resolved' = Updated(resolved, Failures(Unknown))
          /\ diagnostics' = diagnostics \cup Unknown
    /\ pc' = "declare"
    /\ UNCHANGED <<program, catalog, changes, views, output, pending, opened, seen>>

(***************************************************************************)
(* _declare: each pending name, with the memo's answer as it is by then.    *)
(***************************************************************************)
Declaration(metadata, reveals) ==
    [kind |-> metadata.entry.kind, columns |-> metadata.entry.columns,
     reveals |-> reveals, place |-> Cardinality(DeclaredNames)]

Declare(name, metadata, reveals) ==
    /\ declarations' =
          Updated(declarations, [n \in {name} |-> Declaration(metadata, reveals)])
    /\ tables' = IF metadata.entry.kind # "TABLE" THEN tables
                 ELSE Updated(tables, [n \in {name} |-> metadata])
    /\ pending' = pending \ {name}
    /\ UNCHANGED unavailable

\* Mutation: a name that cannot be declared is only dropped from the round.
GiveUpForNow(name) ==
    /\ pending' = pending \ {name}
    /\ UNCHANGED <<declarations, tables, unavailable>>

GiveUp(name) ==
    /\ unavailable' = unavailable \cup {name}
    /\ pending' = pending \ {name}
    /\ UNCHANGED <<declarations, tables>>

DeclareMissing(name) ==
    /\ resolved[name] = NotFound
    /\ GiveUp(name)
    /\ UNCHANGED <<views, diagnostics, opened, pc>>

\* Mutation: nothing is reported of a table whose metadata is incomplete.
DeclareSilently(name) ==
    /\ Incomplete(resolved[name].entry)
    /\ GiveUp(name)
    /\ UNCHANGED <<views, diagnostics, opened, pc>>

DeclareIncomplete(name) ==
    /\ Incomplete(resolved[name].entry)
    /\ GiveUp(name)
    /\ diagnostics' = diagnostics \cup {Identity(resolved[name].path)}
    /\ UNCHANGED <<views, opened, pc>>

DeclareTable(name) ==
    /\ resolved[name].entry.kind = "TABLE"
    /\ ~ Incomplete(resolved[name].entry)
    /\ Declare(name, resolved[name], {Target(name)})
    /\ UNCHANGED <<views, diagnostics, opened, pc>>

\* A view met before under another name: its rewritten body is memoized.
DeclareKnownView(name) ==
    LET view == Identity(resolved[name].path) IN
    /\ resolved[name].entry.kind = "VIEW"
    /\ view \in DOMAIN views
    /\ IF views[view].known THEN Declare(name, resolved[name], views[view].reads)
       ELSE GiveUp(name)
    /\ UNCHANGED <<views, diagnostics, opened, pc>>

Remember(view, known, reads) ==
    views' = Updated(views, [v \in {view} |-> [known |-> known, reads |-> reads]])

(***************************************************************************)
(* _fetch_view: one call for the definition, which may fail, find the view  *)
(* gone, or get a text that is not one analyzable CREATE VIEW; then, unless *)
(* it reads nothing, one call for the names it reads.                       *)
(***************************************************************************)
OpenView(name) ==
    LET metadata == resolved[name]
        view == Identity(metadata.path)
        stored == catalog[metadata.path]
    IN  /\ metadata.entry.kind = "VIEW"
        /\ view \notin DOMAIN views
        /\ \/ /\ stored.kind = "VIEW" /\ stored.analyzable
              /\ opened' = [name |-> name, metadata |-> metadata, reads |-> stored.body]
              /\ pc' = "body"
              /\ UNCHANGED <<views, output, diagnostics, pending>>
           \/ /\ GiveUp(name)
              /\ Remember(view, FALSE, {})
              /\ diagnostics' = diagnostics \cup {view}
              /\ UNCHANGED <<opened, pc>>

DeclareName ==
    /\ pc = "declare"
    /\ \E name \in pending :
          \/ DeclareMissing(name)
          \/ DeclareIncomplete(name)
          \/ DeclareTable(name)
          \/ DeclareKnownView(name)
          \/ OpenView(name)
    /\ UNCHANGED <<program, catalog, changes, resolved, seen>>

\* Mutation: the answers to a view's own names enter the memo under
\* the names the view writes.
ByName(answers) == answers

\* The answers to a view's own names enter the memo under their identities.
ByIdentity(answers) ==
    LET identities == {Identity(answers[name].path) : name \in DOMAIN answers}
    IN  [id \in identities |->
            answers[CHOOSE name \in DOMAIN answers : Identity(answers[name].path) = id]]

ResolveBody ==
    LET view == Identity(opened.metadata.path)
        answers == Answers(opened.reads, opened.metadata.path)
    IN  /\ pc = "body"
        /\ \/ /\ Missing(answers) = {}
              /\ LET read == ByIdentity(answers) IN
                    /\ resolved' = Updated(resolved, read)
                    /\ Remember(view, TRUE, DOMAIN read)
                    /\ Declare(opened.name, opened.metadata, DOMAIN read)
              /\ UNCHANGED diagnostics
           \/ /\ opened.reads # {}
              /\ GiveUp(opened.name)
              /\ Remember(view, FALSE, {})
              /\ diagnostics' = diagnostics \cup {view}
              /\ UNCHANGED resolved
        /\ opened' = Nothing
        /\ pc' = "declare"
        /\ UNCHANGED <<program, catalog, changes, seen>>

\* Another session creates, drops or replaces a relation.
Change ==
    /\ pc # "done" /\ changes < MaxChanges
    /\ changes' = changes + 1
    /\ \E path \in Paths, entry \in Entries :
          /\ entry # catalog[path]
          /\ catalog' = [catalog EXCEPT ![path] = entry]
    /\ seen' = seen \cup {catalog'}
    /\ UNCHANGED <<program, memo, output, diagnostics, pending, opened, pc>>

Init ==
    /\ program \in Programs
    /\ catalog \in Catalogs
    /\ changes = 0
    /\ resolved = NoEntry
    /\ views = NoEntry
    /\ declarations = NoEntry
    /\ tables = NoEntry
    /\ unavailable = {}
    /\ diagnostics = {}
    /\ pending = {}
    /\ opened = Nothing
    /\ seen = {catalog}
    /\ pc = "declare"

Run == Link \/ Resolve \/ DeclareName \/ ResolveBody
Next == Run \/ Change

\* The loop runs on; nobody has to change the catalog.
Spec == Init /\ [][Next]_vars /\ WF_vars(Run)
-----------------------------------------------------------------------------
(***************************************************************************)
(* bind: the facts of the catalog, as facts of relations of the program.    *)
(* Relations are found by identity, so of two names of one table the last   *)
(* is bound; the columns of a relation are those it was declared with, or   *)
(* in the worst case none, when no declaration has its name.                *)
(***************************************************************************)
RelationColumns(name) ==
    IF Target(name) = name THEN declarations[name].columns ELSE {}

Bound ==
    {name \in DOMAIN tables :
        \A other \in DOMAIN tables :
            tables[other].path = tables[name].path =>
                declarations[other].place <= declarations[name].place}

\* What a unique set or a foreign key is bound to: [relation, columns].
KeysBound ==
    UNION {{[relation |-> name, columns |-> key] : key \in tables[name].entry.keys} :
           name \in Bound}

\* Mutation: the referenced columns are not compared with the target's.
EndsUnchecked(name, target) ==
    UNION {{[relation |-> name, columns |-> Columns(fk.columns)],
            [relation |-> target, columns |-> Columns(fk.referencedColumns)]} :
           fk \in {f \in tables[name].entry.foreignKeys :
                     f.referenced = Identity(tables[target].path)}}

\* Both ends of the foreign keys whose referenced relation the program reaches.
Ends(name, target) ==
    UNION {{[relation |-> name, columns |-> Columns(fk.columns)],
            [relation |-> target, columns |-> Columns(fk.referencedColumns)]} :
           fk \in {f \in tables[name].entry.foreignKeys :
                     /\ f.referenced = Identity(tables[target].path)
                     /\ ~ IncompleteReference(f, tables[target].entry)}}
ForeignKeysBound == UNION {Ends(name, target) : name \in Bound, target \in Bound}

-----------------------------------------------------------------------------
TypeOK ==
    /\ program \in Programs
    /\ changes \in 0..MaxChanges
    /\ pc \in {"declare", "resolve", "body", "done"}
    /\ pc # "resolve" => pending \subseteq DOMAIN resolved
    /\ DOMAIN tables \subseteq DeclaredNames
    /\ pc = "body" => opened.name \in pending
    /\ pc # "body" => opened = Nothing
    /\ DeclaredNames \cap unavailable = {}
    /\ pending \cap Decided = {}

(***************************************************************************)
(* A name that could not be declared was reported: itself, or the relation  *)
(* it was found to be, whichever of the two names of a view came first and  *)
(* whatever changed in the catalog meanwhile.                               *)
(***************************************************************************)
UnavailableReported ==
    \A name \in unavailable :
        \/ name \in diagnostics
        \/ Identity(resolved[name].path) \in diagnostics

(***************************************************************************)
(* What a name was declared as is what the catalog, at some moment, said of *)
(* that name in the scope it was written in: the program's names in the     *)
(* session's scope, and each name a view reads in the view's own.  The memo *)
(* the two share never answers for the wrong one.                           *)
(***************************************************************************)
AnsweredInScope ==
    /\ \A name \in DOMAIN tables :
          \E c \in seen : tables[name] = Lookup(c, name, Session)
    /\ \A name \in {n \in DeclaredNames : declarations[n].kind = "VIEW"} :
          \E c, d, e \in seen :
             LET view == Lookup(c, name, Session)
                 read == {Lookup(d, n, view.path) : n \in e[view.path].body}
             IN  /\ Exists(view.entry)
                 /\ \A metadata \in read : Exists(metadata.entry)
                 /\ declarations[name].reveals = {Identity(metadata.path) : metadata \in read}

(***************************************************************************)
(* Every column a bound fact names is a column of the relation it is bound  *)
(* to, also when the two ends of a foreign key were fetched by different    *)
(* calls: bind looks them up without asking whether they are there.         *)
(***************************************************************************)
BindTotal ==
    pc = "done" =>
        \A fact \in KeysBound \cup ForeignKeysBound :
            fact.columns \subseteq RelationColumns(fact.relation)

\* The names decided are what the abstract expansion decides, in an order of its.
ExpansionOfProgram ==
    INSTANCE Expansion WITH
        decided <- Decided, revealed <- Revealed, over <- pc = "done"

(***************************************************************************)
(* Discovery expands the program: it decides only names that are reached,   *)
(* each once, and ends only when nothing it reaches is undecided.           *)
(***************************************************************************)
Implements == ExpansionOfProgram!Spec

\* It ends, on recursive views and on a catalog that changes or fails.
Terminates == <>(pc = "done")
=============================================================================
