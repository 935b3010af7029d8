# A verification of sqlassert

sqlassert reads a SQL program with assertions in its comments ("this join is a
UNIQUE JOIN", "these columns are a UNIQUE SET"), and reports each one PROVED or
UNKNOWN without looking at any data. So it makes one promise: **what is PROVED
holds on every content of the database that satisfies the declared
constraints.** This directory models the way from the program to the report:
fetching what the program does not declare, linking its names, the engine and
the rules that decide, and the rewrites suggested. It checks the promise on
small databases, and proves the engine, its central algorithm, the discovery
loop and most of linking correct for all inputs.

Paths below are relative to `src/sqlassert/`.

## 1. Inventory

| Component | Keeps | Does | Correct when |
|---|---|---|---|
| **Engine** `python_engine.py` | one `Arena` per session: `cache`, `evaluating`, `active`, `accepted` | `session` opens and drops the arena; `@cache` memoizes a call and rejects a cyclic one; `@analysis` asserts the Stratum order and substitutes accepted Knowledge | a failed call leaves no trace; cached values are right; no rule recurs forever |
| **IR** `ir/model.py` | an immutable DAG of relations and expressions with object identity | `relation_of`, `arms`, and what the rules read off an expression: `determinants`, `injective_input`, `strict_inputs` | each column has one parent; the shape functions are sound readings |
| **Unique sets, dependencies** `rules/uniqueness.py`, `column_set.py` | nothing between calls (the memo is the arena's) | `_functional_dependencies`, `_delegations`, the worklist `_closure`; `unique_set`, `functional_dependency`, `minimal_keys` | the closure is the least fixpoint, and rows agreeing on a set agree on its closure |
| **Nullability** `rules/nullability.py` | " | the *null sources* of a column: its own NULLs (`Organic`) and the padding of outer joins | a column without sources holds no NULL |
| **Equality groups** `rules/equality.py` | " | union-find over pass-through columns and strict conjuncts | columns of one group are equal wherever they are non-null |
| **Foreign keys** `rules/foreign_key.py` | " | walks the referencing side down and the referenced side down (`_targets`) to known coverage | every non-null referencing row finds its referenced row |
| **Join facts** `rules/unique_join.py`, `exactly_one.py` | " | is the right key bound by ON? is a match also guaranteed? | at most one, or exactly one, right row for a left row |
| **Domains** `rules/domain.py` | " | the literals a column is limited to; CASEs whose ELSE no value reaches | values outside the domain do not occur |
| **Suggested rewrites** `improvements.py` | none | finds outer joins that pad nothing, joins, DISTINCTs and grouping columns that change nothing | the rewritten program returns the same rows |
| **Lowering** `ir/convert.py` | symbol tables, required columns, what is being resolved, the lists of assertions, declarations, diagnostics | declares statements, binds names, runs the required-columns fixpoint, lowers each relation once, states markers, links references | a name denotes what SQL says; a marker leaves exactly one trace; the IR is a DAG |
| **Markers** `sql_parse.py` | token positions | attaches marker comments to selects, joins and statements | a marker is handled or reported, never dropped |
| **Discovery** `discovery/` | memos of answers and of views, the declarations made, the names given up | asks a live database for the names the program does not declare, relinks until nothing is missing, binds the catalog's facts | the loop ends; an answer belongs to the scope that asked; what is given up is reported |
| **Suggested markers, smells** `suggest.py`, `smells.py` | none | proposes markers that would be proved; local patterns | - |
| **Shell** `main.py`, `reporting.py`, ... | none | files, flags, text | - |

**How they interact.** Everything runs in one Python thread. The shell parses a
program and hydrates it: `_Hydration` links it (`IrParser.parse`), asks the
catalog for the names still undeclared, adds their declarations and links again.
The last IR goes, with the Properties its markers declare and the catalog's
facts, to one engine session. In it, each assertion is a call of the analysis of
the same name; an analysis calls others, through the memo, about its own
relation or its inputs. `improvements.py` asks the same analyses. The session
ends with a report; nothing is kept for the next.

**What is hard.** Nothing is persisted and no two threads of sqlassert share
state, but the catalog belongs to other sessions too, and may change or fail
between any two calls to it. Apart from that, the hard behaviours are:

- the recursion of analyses through a memo, with exceptions anywhere in it, and
  an evaluation on demand that must not depend on which question came first;
- a worklist whose order is the iteration order of Python sets;
- names: views and CTEs that shadow, precede and read each other or themselves,
  in scopes that are discovered in one order and lowered in another; columns
  required of a source after its readers were met; markers stated long after
  their place in the list was fixed;
- the semantics the rules reason about: three-valued logic, padding of outer
  joins, duplicates, collations, implicit casts, set operations by name, and
  their compositions, which unit tests sample and a model checker enumerates.

PROJECT.json lists each hazard at its line.

## 2. The modules

```
 Expressions -- Ir -- Inference -- Improvements --+
      |               SqlSemantics ---------------+-- Soundness -- MCSoundness
      +----- Programs -----------------------------------------------'

 ClosureRules --+-- DependencyClosure              Catalog   Expansion
                |        ^ refines                    |          ^ refines
                +-- Closure -- MCClosure              +------ Hydration -- MCHydration
                       '------ ClosureProofs                      '------- HydrationProofs

 Arena --+-- OrderedArena -- MCArena               Resolution -- ResolutionProofs
         |        '--------- ArenaProofs              ^ refines
         +-- MCBrokenArena                         Linker --+-- MCLinker
                                                            '-- LinkerProofs --.
              RequiredProofs -- CycleProofs -- LoweringProofs -----------------'
```

### Discovery: Catalog, Expansion, Hydration

`Catalog` is what `discovery/duckdb.py` finds under a name: the candidates along
the search path, a view's own schema first (`Candidates`, `Lookup`), the
identity of what is found, and when its metadata contradicts itself
(`Incomplete`). A name is the sequence of its dotted parts, because identities
are joined with dots and split at them again. `Expansion` is the abstract
promise: of the names the program reaches each is decided once, and the end
comes only when none is left. `Hydration` is `_Hydration` of
`discovery/fetcher.py`; `resolved` and `views` are its memos, `pending` the
names of the round.

| Action | Code |
|---|---|
| `Link` | a round of `run` (205-213): link the program with the declarations so far, collect its external names |
| `Resolve` | `_resolve`: one call for all unknown names, which fails for all alike |
| `DeclareMissing`, `DeclareIncomplete`, `DeclareTable`, `DeclareKnownView` | the branches of `_declare` |
| `OpenView`, `ResolveBody` | `_fetch_view`: the call for the definition, and the call for its names in the view's scope; either may fail |
| `Change` | another session creates, drops or replaces a relation |

Each call to the catalog is a step, so a `Change` falls between any two. The
statements of one metadata call are not steps: what a change between them leaves
is a table whose key names a column it does not list (`Torn`). `KeysBound` and
`ForeignKeysBound` are what `bind` makes of the answers. `seen` is a history
variable: the catalogs there have been.

### Linking: Linker, Resolution

`Linker` is `IrParser.parse`. Its methods call each other deeply. `agenda` is
the list of calls still to make, in order, and one step does the first method's
own work and puts its calls in its place. `callers` are the nested calls of
`_resolve_symbol`: a relation that is being lowered, with what its caller still
has to do. So the order of everything is the code's, but where the code's
follows the iteration of a set: the fixpoint. `kept`, `cut` and `handled` are
history variables: the reads between relations that were linked or replaced by
an opaque relation, and `_handled_joins` with `_handled_column_markers`.

| Action | Code |
|---|---|
| `DeclareStatement` | `_declare`, `_declare_index`, `_alter` |
| `DiscoverViews`, `DiscoverQuery`, `BindSource`, `RequireColumns`, `FindTarget` | `_discover_query` and what it calls: the scope of a WITH, the symbol of each source, the columns needed, the target of a foreign key marker |
| `DiscoverConstraints`, `Propagate` | `_discover_constraint_references`, one iteration of `_propagate_required_columns` |
| `LowerQuery`, `ReadSource`, `FilterRows`, `ResolveSymbol`, `NameRelation`, `FinishQuery` | `_lower_query`, `_lower_source`, `_subquery_join`, `_resolve_symbol`; a read of what is being resolved becomes an opaque recursive relation |
| `AssertJoin`, `RegisterMarker` | `_join_marker`, `_register_column_markers` |
| `LinkConstraints`, `ConstrainReference`, `LinkMarkers`, `StateReference`, `PlaceAssertion` | `_link_constraint_references`, `_link_marker_references`, which lower more and so find more markers |
| `ReportUnanalyzed`, `Settle` | `_report_unanalyzed`, the symbols nobody read |

A query is its CTEs, sources, subqueries of WHERE and markers, with what its
SELECT list is: a star, named outputs, clauses that are not lowered, or a
NATURAL JOIN. A program is a syntax tree (`IsProgram`): each query is written in
one place, and so is each marker. `crashed` stands for the `KeyError` of a source
that discovery never reached. `Resolution` is the recursion alone: relations
being lowered form a stack, a read is kept, or cut when what it reads is on the
stack.

### The engine: Arena, OrderedArena

`Arena` is `python_engine.py`. A *key* is a function with its arguments, as in
`cache`. What a rule does is a parameter: `Callees[k]` are the calls it makes,
in order, and `Rule(k, answers)` its value, any function of their answers. The
variables `cache`, `evaluating`, `active`, `accepted` are the arena's fields;
`stack` is Python's call stack of `cached`/`evaluate` frames, a frame being
*admitted* once it has passed the Stratum assertion and is in `active`;
`raising` is the exception in flight.

| Action | Code |
|---|---|
| `Open`, `Close` | `Engine.session`; the arena's dictionaries are new and dropped |
| `Ask(k)` | `Arena.prove`: a question from outside |
| `Hit`, `Miss`, `Cycle` | `cached`: lines 117-119, 125-127, 120-124 |
| `Admit`, `Reject` | `evaluate`: the assertion at 176-183, then `active.append` |
| `Return` | accepted Knowledge or the body's value; both `finally` blocks; the cache is written |
| `Fail` | a body raises, at any point between two calls |
| `Unwind` | the `finally` blocks of one frame while an exception propagates |

An `Ask` after an exception stands for a caller that caught it and went on in
the same session. Only tests do (`src/tests/test_python_engine.py:88`), but
nothing in the engine's interface forbids it, and the `finally` blocks are there
for it. `OrderedArena` adds what the docstring of `Stratum` describes: relations
have a height, and a rule calls only below its own relation, or on it at an
allowed Stratum and (within one Stratum) a lower level.

### The closure: ClosureRules, DependencyClosure, Closure

`ClosureRules` says what follows in one step from a set of attributes. Its
constants are what `_closure` reads: the dependencies of the relation, its
`_Delegation`s, which attributes are always non-null, and the memoized closure
of its inputs. `DependencyClosure` is the abstract promise: learn any
consequence of what is known, answer when there is no other. `Closure` is the
code: `reached` and `queue`, the `waiting` counters, `Seed` (144-148), `Pop`
(152-159), `Delegate` (161-171, one input a step) and `EndPass` (172). `Pop`
takes any queued attribute. The code takes the last one, but in which order they
were appended follows the iteration of sets and dictionaries, so any order is
possible and none is promised. `Drained` is the end of the inner loop, `turn`
the position of the `for` over the delegations.

### The rules: Expressions, Ir, Inference

An IR program is a sequence of relations in which each reads earlier ones: the
DAG of `ir/model.py` in a topological order, with a place in the sequence for
object identity; `<<r, i>>` is the i-th output column of relation r, `<<r, 0>>`
its `RowIdentity`. `Inference` translates each rule as an operator over the
facts known so far: one variable per group of memoized analyses (`groups`,
`joins`, `sources`, `dependencies`, `delegations`), extended one relation at a
time, and for a relation in the order of the Strata. That bottom-up order is a
simplification of the demand-driven one, and `Arena` is what justifies it: a
cached value is a function of the cached values it was computed from
(`CacheConsistent`, proved), whatever was asked first.

Enumerated Domains and minimal keys are operators over those facts: `{D}` says
that the non-null values of a column are among the literals D, `{}` is the
code's `None`.

`SqlSemantics` is not sqlassert: it stands for DuckDB, against which the
project's own oracle (`src/tests/soundness_oracle.py`) tests it. It evaluates a
program on tables that are bags of rows, with three-valued logic, padded rows,
duplicates, a collation that equates two texts, implicit casts between integers
and text, and a free choice wherever SQL leaves one (which row LIMIT, DISTINCT,
QUALIFY or ANY_VALUE takes). Each row carries the identity of the input rows it
came from, so row identities can be compared. `Mangle` is the opaque
deterministic function: neither injective, nor strict, nor preserving of the
collation.

`Improvements` is `improvements.py`. Where the code edits syntax, a suggestion
here is the program it leads to (`Suggestions`): a join made inner, a join gone,
a join's condition moved into a `WHERE EXISTS`, a DISTINCT or a grouping column
gone. The code asks the syntax whether a column is read; the IR answers that
here.

`Soundness` composes all of these: choose a program, infer, publish the report
and drop the memo, then execute on any database that satisfies the accepted
Properties, release it, execute on another.

## 3. What is checked

| Run | Asks | Instance |
|---|---|---|
| `hydration` | is every declaration the catalog's answer to that name in its own scope, whatever changes or fails meanwhile? | two schemas with a table and a view each whose names shadow each other; 32 catalogs, 4 programs, one change, any call failing |
| `linker` | do names, markers and recursion come out right in every program? | two views, two CTEs, a derived table and a table, declared or not, that read each other in every combination; a WITH inside another that reuses a name; markers in every place; statements that repeat or amend |
| `arena` | is a session that survived a failure as good as new? | the ten calls behind a left join's unique set, any subset of three facts accepted, a failure at any point |
| `arena_broken` | what happens to rules that break the order, or recur? | seven rules after those of `test_python_engine.py` |
| `closure` | is the worklist the least fixpoint, in any order? | 0-2 own dependencies, 0-2 of the table's, a computed column, a left join with its padded side; every request of up to two attributes |
| `keys` | do closures, keys, join facts and coverage hold? | 6 join kinds x 16 ON conditions x 5 Knowledge sets, derived tables on the right; 19 stages over a filter x 4 readers x 8 Knowledge sets; coverage through 5 shapes of tables, 6 kinds, 4 readers, every column pair asked |
| `nulls` | do null sources, equality, domains hold, and do rewrites preserve the result? | 9 WHEREs over 4 join kinds; outer joins over outer joins and over two aliases of one CTE; set operations; CASE over columns narrowed in 7 ways; chains of two joins, subqueries, DISTINCT and GROUP BY to rewrite |
| `coverage_by_name`, `distinct_by_name`, `full_join_padding`, `linker_undiscovered`, `stratum_cached` | what the code's documentation says (section 5) | violated |

**Properties of discovery.** `Implements` (of `Expansion`): a name is decided
once, only if reached, and none is left over. `AnsweredInScope`: the memo that
the program's names and the views' names share never answers for the wrong
scope. `UnavailableReported`: a name given up was reported, though later answers
overwrite the memo. `BindTotal`: a fact bound speaks of columns that exist, also
when both ends of a foreign key were fetched at different times.

**Of linking.** `Lexical`: a name is the nearest enclosing WITH's, whichever
query was met first. `Accounted`: every marker leaves exactly one trace.
`OrderKept`: assertions stay in the order written, though those of foreign keys
are inserted last. `CyclesReported`: every cycle through a view has a view that
is reported, and only those. `StarsResolve`: a marker on a star finds
its columns when stars lead from there to a table or a function, however late
they are required, if discovery met its query. `CrashesExplained`: the conversion
fails with a `KeyError` only of a program in a form that discovery passes over.
`Implements` (of `Resolution`).

**Of the engine.** `StacksAgree` (bookkeeping describes exactly the calls that
run; in `arena_broken`, where the engine itself raises), `CacheConsistent`, `NoInternalError`, `OnlyAllowedRun`. **Of the
closure.** `CountersExact`, `WorklistInv`, `ReturnsClosed`, `NothingInvented`,
`AskingMoreGetsMore` (asking for more never determines less, on which
`minimal_keys` relies when it skips supersets and shrinks greedily),
`PoppedForGood`, and `Implements`, the refinement of `DependencyClosure`.

**Of the facts.** `ClosuresSound`: rows that agree on a requested set, and are
non-null where it was requested so, agree on everything its closure reaches.
This is unique sets and functional dependencies at once, because the row
identity is among the attributes. `NullSourcesSound`, `GroupsSound`,
`JoinFactsSound`, `CoverageSound`, `MinimalKeysSound`, `DomainsSound` say the
same of the other facts. `ExhaustiveCasesSound`: no non-null operand takes the
ELSE of an exhaustive CASE. `SuggestionsPreserve`: each suggested program
returns the same bag of rows.

Each property has a mutant in PROJECT.json: a plausible bug of the code, written
next to the definition it replaces and marked *Mutation*, under which the run
fails. The mutations are used by nothing else.

**Bounds.** `MaxRows = 2`: a counterexample to uniqueness, to a functional
dependency or to a group needs two rows of a relation, one to coverage or
non-nullness needs one, and the row of an input each came from. A join of two
rows with two rows has four, which is enough for a multiplied left row, a padded
row beside a matched one, and a duplicate. It is not a proof: a rule may be
unsound only on three rows of one table. `MaxColumns = 2`: requests of up to two
columns, and of all of them. Values are NULL and two others; where text matters,
a column has two texts that the collation equates and an integer with which they
can be compared. Programs have one to three tables of at most two columns and
three to eight relations. Domains are asked of programs in which one is
declared. `MaxChanges = 1`: the catalog changes once, to any of three entries at
any path, between any two calls; a name that moves needs no second change to be
answered from two catalogs. The linker's programs nest four queries deep,
enough for a CTE hidden by another and for a cycle through a derived table. In
`arena` nothing bounds the number of questions or failures: the state space is
finite.

Where the rules are known to be wrong (section 5) the passing runs stay away: no
UNION BY NAME, no WHERE over a FULL JOIN where its two paddings would be
confused. The undiscovered queries are part of `linker`, whose properties hold
up to the crash, and `CrashesExplained` says of which programs there is one.

**Fairness.** `Hydration` has WF(Run), `Linker` and `Closure` WF(Next), `Arena`
WF(Evaluate): Python runs a call it started until it returns or raises. Nobody
must `Change` the catalog, `Ask`, or make a body `Fail`, and a session need not
close; none of these is in the fairness condition. On it and on nothing else
rest `Terminates` of discovery (on recursive views, too), `Converts` (linking
ends, with a result or a crash), `Returns` (a closure ends) and `Terminates` of
the engine (a started evaluation ends, even of mutually recursive rules).
`Soundness` has no fairness: all its properties are safety.

Deadlock is checked everywhere except where the program ends: `closure`,
`hydration`, `linker` and `linker_undiscovered`.

## 4. What is proved

TLAPS checks eight modules for every value of the constants.

**HydrationProofs.** Assumptions: names are sequences of strings, catalogs map
`Paths`, a path is three nonempty components (`PathsAssumption`,
`SessionPathAssumption`, `ProgramsAssumption`, `CatalogsAssumption`,
`EntriesAssumption`). `Control` strengthens `TypeOK` by the state of a view that
is being opened and by where pending names come from. `Reported` strengthens
`UnavailableReported`: every answer of the memo is a "not found" that was
reported, or a path, of which a name of three or more parts is the identity; so
an answer that overwrites another has the same identity, and what was reported
of it stays reported. That needs facts about names: a name of three parts is
only ever found at the path whose identity it is (`IdentityIsName`,
`LookupFacts`). `DiscoveryExpands` is the refinement: every declaration or
giving-up maps to `Decide`, the last `Link` to `Finish`, and the rest stutter.
It holds for any catalog, changing and failing as often as it likes.
`BoundColumnsExist` proves `BindTotal` where no component of a path holds a dot
(`Undotted`). Its invariant `AllBacked` says that every bound table entry is
complete and declares the columns it lists, which `Incomplete` alone ensures: a
key or reference over other columns never gets that far. The hypothesis is
needed because a `CREATE` statement keeps three parts of a name and an identity
with a dotted component has more (`FoundNameIsTarget`). `ScopesNeverMix` proves
`AnsweredInScope` under the same hypothesis: one memo serves the program's names
and those of every view, each in a scope of its own, and it is keyed by what was
asked and by the identity of what was found. Without dots an identity is that of
one path (`PathOfIdentity`), and the program finds it there too
(`IdentityFindsPath`). The invariant `InScope` says of every answer in the memos,
of every table declared and of the body of every view that some catalog of
`seen` gives it, in the scope it is used for.

**ResolutionProofs** needs no assumption. The invariant `IInv` joins to
`LoweredOnce`, `Acyclic` and `CutsOnCycles` that the stack is a path of kept
reads (`StackLinked`) and that a relation on it waits for the next one alone
(`WaitsForOne`): the path from a relation on the stack to its top is the cycle
that a cut read closes. From it: each relation is lowered once, the linked
program is a DAG, and only reads on a true cycle are cut.

**LinkerProofs.** The only assumption is `ProgramsAssumption`: programs are
syntax trees. The first part is about trees alone: what `Enclosing`
means (`WithinEnclosed`), and that the scope `_discover_query` builds for a query
maps each name to the nearest CTE, provided the scope it was given did so for the
query around it (`ScopeWithin`). The second proves an invariant of parts, each
of which says that whatever the state mentions was met: `CallsKnown` of the
calls still to make, `NamesKnown` of the tables, `NamesLexical` of what scopes
and sources are bound to, `ReferencesKnown` and `PositionsKnown` of the
foreign keys that wait and of the places kept for them, `LinksKnown` of the
relations on the stack, done, kept and cut. From it `TypeCorrect` and
`NamesAreLexical` (`Lexical`). The latter needs that a scope, once it is in a
call, stays right until that call is made, though names are met meanwhile: a
name that was met never changes what it stands for (`Grows`). `LinksAsResolution`
is the refinement of `Resolution`, step by step: meeting a symbol maps to `Meet`,
`ResolveThen` to `Enter`, `Leaf` or `Cut`, `NameRelation` to `Leave`, the rest
stutter; so the theorems of *Resolution* hold of the linker
(`LinkedIsAcyclic`, `CutsCloseCycles`).

**LoweringProofs.** Nothing in the code says that a query is lowered once: it
follows from where queries are written. `Makes` says which piece of work (a query
to lower, a source to read) leads to which other; `OneMaker` proves from
`IsProgram` that each has one origin at most, and `Sequenced`, the invariant,
that the calls still to make are of work that was not begun, that no two are of
the same, and that those about one select come in the order it is written in.
`RelationsSourced` adds that a relation's body is that of one CTE or statement.
From these, `MarkersHandledOnce`: a marker about to be handled was not handled
before, and all that was handled of its select was written sooner.

Then the markers. Linking goes through stages (`Stands`): lowering, linking
references, placing, reporting. `Traced` says for each how the handled markers
split into those stated, declared, diagnosed, and still owed an assertion; the
owed ones form a line in which positions do not decrease and in which those of
one select are in order (`Lined`). `PlaceAssertion` takes the last of the line,
so what it shifts was inserted before (`Inserted`). The diagnostics name a marker
or a relation, and `IsProgram` keeps the two apart. At the end nothing is owed
and what was not handled is reported: `EveryMarkerAccounted` proves `Accounted`,
`AssertionsKeepOrder` proves `OrderKept`.

**CycleProofs.** A cut read closes a cycle, and for a view it is reported; but a
read of a CTE is cut silently, and the cut may fall anywhere on the cycle. The
invariant `Placed` rules out that all of a view's cycle is cut at CTEs. The
*home* of a query is the statement it is written in, and `Placed` says of every
read that is made or still to make: it is written in a statement that was
started, so a CTE is only read at home (`EdgePlaced`, `CallPlaced`); on the
stack no CTE of a view is below that view (`StackPlaced`); and what is read of a
view's CTEs on the view's behalf was finished before it (`ReadsPlaced`). At the
end take, of the relations on a view's cycle, the one named last. Another of the
cycle, or itself, reads it; had that read been kept, the reader would have been
named later (`Acyclic`), so it was cut. If what was named last were a CTE, its
view would be on the cycle too (`CycleHome`) and named after it (`PartBefore`).
So it is a view, and its cut was reported. `EveryCycleReported` proves
`CyclesReported` in both directions.

**RequiredProofs** needs no further assumption. `StarsAlwaysResolve` proves
`StarsResolve` by the invariant `Asking`: until the fixpoint ends the program is
being discovered (`Discovers`), after it it is being lowered (`Lowering`).
`Discovers` says of every star that was met that its source was asked for the
columns of its markers or that the calls to bind the source and then to ask it
are still to come (`WillAsk`), each source bound once. What a source is asked, its
relation is required to have (`AskedKnown`). The end of the fixpoint is that no
symbol and no occurrence is left to ask (`Unasked = {}`), that is, what is
required of a relation or asked of a derived table whose query is a star was
asked of that star's source too. `Lowering` takes it from there, bottom up: no
star is finished before what it reads (`InTurn`): its derived table has a
result, or its relation was named, or that is being resolved further up the
stack and was cut to an opaque relation, which has every required column
(`IsServed`). So a finished star has what its source was asked for
(`ResultsHold`), a named relation has what is required of it (`OutputsHold`), both
provided that stars lead to a table or a function, and no column of its markers
is reported (`MarkersHold`). The proviso is the code's: a list of columns, a
NATURAL JOIN or an unlowered clause ends the asking, and its columns are its own.

`CrashesAreExplained` proves `CrashesExplained`. The invariant is that the program
has one of the forms that are passed over, or nothing crashed and all is *due*
(`AllDue`): of every query that was met, the CTE bodies, the arms, the sources,
the subqueries of WHERE and the targets of the markers were met or are called
for (`PartsDue`); so was the body of every relation (`BodyDue`) and of every
derived table that was asked (`AskedDue`); and each call of lowering is about a
query that is due (`CallDue`). A step of discovery makes the calls for what it
meets (`DiscoverySteps`), no other step meets anything (`LaterSteps`), and when
lowering begins no calls of discovery are left, so that due means met. Views are
looked through only after every statement was declared (`Declaring`), without
which a view that is declared later could be missed. The three forms that section
5 names are therefore the only ones in which a lookup of a source, an occurrence or a
target fails, whatever else a program does.

**ClosureProofs.** Assumptions: `RulesAssumption` (dependencies and delegations
speak of attributes of their relation, determinants are finite),
`CallsAssumption` (requests too), and for one theorem `InputsMonotone`. The
invariant is `TypeOK /\ CountersExact /\ WorklistInv`. `WorklistInv` alone is
not inductive: that a dependency whose determinant has been popped has fired
needs the counter to be *exactly* the number of attributes not yet popped, and
that needs every attribute to be popped once. From it: `ReturnsClosed` at the
end of a pass that reached nothing new; `NothingInvented`, by showing that each
step stays inside any closed set that contains the request; `PoppedForGood`; and
`Implements`, in which `Seed`, `Pop` and `Delegate` map to `Learn`, the final
`EndPass` to `Answer`, and the rest stutter. `ClosureIsMonotone` takes the
inputs' monotonicity as an assumption and concludes the relation's: it is the
step of an induction over the IR's DAG. The induction itself is not stated,
because the model's `InputClosure` is a constant.

**ArenaProofs.** Assumptions: `ArenaAssumption` (constants have their types) and
for the last theorem `OrderedAssumption`. The invariant is `TypeOK /\
StacksAgree /\ CacheConsistent /\ Nested`; `Nested` says that frames below the
top wait for the call above them and that their answers so far are the cached
ones, without which `Return` could cache a value computed from something else.
`OrderSuffices` adds `Descending`: each frame is below its caller in the order,
so a call is never already running and the assertion never fires. It is the
argument the docstring of `Stratum` makes in words. `OnlyAllowedBodiesRun` needs
no order: the assertion looks at all of `active` when a body is admitted,
`active` is the stack below it by `StacksAgree`, and every other step only pops
frames.

**Only model-checked.** The soundness of the inference rules and of the rewrites
(recursive definitions over programs and a database semantics),
`MinimalKeysSound` among it: a program is a sequence of relations and an
expression a tree, so the rules and the semantics they are compared with are
`RECURSIVE` operators, and the claim is an induction over programs, which no
installed prover can make; and liveness: `Returns`, `Terminates`, `Converts`.

## 5. Disagreements found

1. **Coverage of UNION BY NAME** (`rules/foreign_key.py:74`, run
   `coverage_by_name`). `_targets` pairs both branches with the union's columns
   by position; a BY NAME union pairs by name, which `arms` (`ir/model.py:516`)
   and `_set_operation` of the same file respect. A false coverage is proved; a
   narrower branch makes the index fail.
2. **Distinct UNION BY NAME** (`rules/uniqueness.py:450`, run
   `distinct_by_name`). The IR gives the union its left input's columns only
   (`ir/convert.py:427`); a column that only the right input has makes rows
   distinct that agree on all of them.
3. **The padding of a FULL JOIN** (`rules/nullability.py:246`, run
   `full_join_padding`). `Padding(join)` does not say which side was padded, so
   a WHERE that rejects NULL on one side of a FULL JOIN is taken to have matched
   the other. `t FULL JOIN u WHERE t.a IS NOT NULL` is reported with `u`'s
   columns non-null. It also misleads `improvements.py:207`: in `t LEFT JOIN u
   ON t.a = u.c FULL JOIN w ON u.c = w.e WHERE t.a IS NOT NULL` the left join is
   suggested to become an inner join, which loses rows of `t`.
4. **Undiscovered sources** (`ir/convert.py:290`, run `linker_undiscovered`).
   Discovery returns early for a set operation with a WITH of its own and for an
   arm in parentheses, and does not enter `CREATE TABLE ... AS`; lowering or the
   fixpoint then looks up a source nobody bound: a `KeyError`. No other form of
   program has this effect (`CrashesAreExplained`). Where such a query reads only
   a table function, nothing crashes, but nobody asks the function for the
   columns of a marker on a star over it, and the marker is reported as
   unresolved (`ir/convert.py:491`).
5. **The Stratum assertion is not made on every call** (`python_engine.py:117`,
   run `stratum_cached`), as `src/docs/functional-dependencies.md:547` says: a
   cached answer is returned first. Whether a rule that breaks the order is
   caught depends on the order of questions. The shipped rules respect it.

Met while modelling, reproduced by the model or left out of it, without a run:

- One table declared under two names is bound under the last only
  (`discovery/fetcher.py:125`): facts are lost, none is false.
- An identity with a dot in a component is split at it
  (`discovery/fetcher.py:337`); the declaration gets another name than the one
  that is looked up when binding its keys.
- `varchar_key = 1` counts as fixing the column to one value
  (`rules/uniqueness.py:470`, and the bound columns of `rules/unique_join.py`),
  although by the implicit cast both `'1'` and `'01'` equal it, as
  `src/README.md:148` notes of domains. No program checked has a conjunct that
  compares text without a collation with a number; under a collation that
  equates the two spellings the rule is right.

## 6. What is not modelled

- *Evidence.* A `Result` is its value; the tree of reasons printed to the user
  is left out, and with it `_uncovered_keys`, `_narrowed` and the text of an
  unknown.
- *Lexing and parsing.* sqlglot, and how `sql_parse.py` finds the select, join
  or CASE a comment belongs to. A program of `Linker` has its markers on their
  queries, and a view's stored text is the set of names it reads.
- *The syntax below a clause.* `Linker` does not lower expressions,
  `_table_knowledge`, LIMIT, attachment sites or CASE markers; what they lower
  to are the IR nodes of `Programs`, and what `_subquery_join` makes of a WHERE
  subquery is only which queries it lowers.
- *Discovered types, collations and nullability* are data without control.
- *Literals* are integers and text. That floats and decimals of one value are
  written in several ways, and booleans, are left out of the domains.
- *Declared types* are three: exact integer, text compared by identity, text
  under a collation.
- *Recursive CTEs and opaque relations* in the rules: no rule concludes anything
  of them but nullable columns, as of a table without Knowledge.
- *Builtins one by one.* A Call is total, strict and injective, or an opaque
  pure function; the table of them in `ir/model.py` is data.
- *The Alias over every table* is left out where it only passes columns through.
- *Unused CTEs* among the improvements: an IR does not hold them.
- *`suggest.py`* generates markers and keeps those that are proved, so its
  promise is the rules'; that it keeps the minimal ones is not modelled.
  *Smells* and the *shell* have no state and decide nothing.

## 7. What is left

In the order of what each would add:

1. `EqualityClasses`: the union-find of `_equality_groups` step by step,
   refining the merge of blocks used in `Inference`, its invariant proved.
2. `Keys`: `minimal_keys` step by step over a monotone closure; minimality and
   completeness up to the size bound proved.
3. Null sources that tell the two paddings of a FULL JOIN apart, should the code
   do so: then `nulls` can take every WHERE over every chain of joins.
4. `suggest.py`: which candidates it tries, and that none it keeps is implied by
   another.
