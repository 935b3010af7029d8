--------------------------- MODULE RequiredProofs ----------------------------
(***************************************************************************)
(* Proofs that what lowering needs is there, for every set of syntax trees: *)
(* where stars lead to a table or a function, by way of whatever relations, *)
(* the columns asked of the first are found; and every source that is looked*)
(* up was discovered, except for what discovery passes over.                *)
(***************************************************************************)
EXTENDS CycleProofs

-----------------------------------------------------------------------------
(* The invariant: what a star is asked for, its source was asked for, and    *)
(* what is asked of a source that stars lead to a table from is there when   *)
(* the source was read.                                                      *)

\* The selects whose star has one source.
Stars == {q \in DOMAIN program.query : Sole(q) # {}}

\* The calls of discovery, before propagation; the calls that follow it.
DiscoveryCalls == {"declare", "views", "view", "discover", "bind", "require", "target", "constraints",
                   "constraints of", "constraint"}
Afterwards(p) == Rooted(p) \o <<Call("links")>> \o Closing
IsDiscovering(calls) ==
    \E first : /\ IsSequence(first) /\ \A t \in ToSet(first) : t.do \in DiscoveryCalls
               /\ calls = first \o (<<Call("propagate")>> \o Afterwards(program))

\* What a source is asked for, its relation is required to have.
AskedKnown ==
    /\ \A o \in DOMAIN asked : o[1] \in DOMAIN scopes
    /\ \A o \in DOMAIN bound : o \in DOMAIN asked /\ Source(o).kind = "table" /\ asked[o] \subseteq required[bound[o]]

\* The columns of the markers on a star were asked of its source, or will be
\* once the source is bound, as those of `met` are.
IsAsked(q) == <<q, 1>> \in DOMAIN asked /\ MarkedColumns(q) \subseteq asked[<<q, 1>>]
WillAsk(calls, q, met) ==
    \E b \in DOMAIN calls :
        /\ calls[b].do = "require" /\ calls[b].query = q
        /\ \/ <<q, 1>> \in met
           \/ \E a \in DOMAIN calls : a < b /\ calls[a].do = "bind" /\ calls[a].at = <<q, 1>>

\* Sources are bound once, and what is declared has a name.
BindsOnce(calls, met) ==
    \A a \in DOMAIN calls : calls[a].do = "bind" =>
        /\ calls[a].at \notin met
        /\ \A b \in DOMAIN calls : calls[b].do = "bind" /\ calls[b].at = calls[a].at => a = b
DeclaredNamed == \A s \in ToSet(symbols) : s.declared => s.name \in DOMAIN global

\* Nothing is reported of the columns of a marker.
Silent(m) == <<"unknown", m>> \notin diagnostics /\ <<"unresolved", m>> \notin diagnostics

Discovers ==
    /\ IsDiscovering(agenda)
    /\ callers = <<>> /\ named = <<>> /\ DOMAIN results = {}
    /\ BindsOnce(agenda, DOMAIN asked) /\ DeclaredNamed
    /\ \A q \in Stars \cap DOMAIN scopes : IsAsked(q) \/ WillAsk(agenda, q, DOMAIN asked)
    /\ \A m \in MarkersIn(program) : Silent(m)

\* What must be there when a star is finished: its derived table, or the
\* relation that was read, unless that is resolved at a level inside the i-th.
IsServed(q, i) ==
    LET o == <<q, 1>> IN
    /\ Source(o).kind = "subquery" /\ Source(o).body \in Stars => Source(o).body \in DOMAIN results
    /\ Source(o).kind = "table" =>
          /\ o \in DOMAIN reads /\ o \in DOMAIN bound
          /\ \/ reads[o] = "recursive" \/ bound[o] \in ToSet(named)
             \/ \E j \in DOMAIN callers : i < j /\ callers[j].symbol = bound[o]
Served(i) == {q \in Stars : IsServed(q, i)}

\* The calls that see to it.
Serves(t, q) ==
    \/ t.do = "read" /\ t.at = <<q, 1>>
    \/ Source(<<q, 1>>).kind = "subquery" /\ t.do \in {"lower", "finish"} /\ t.query = Source(<<q, 1>>).body
InTurn(calls, served) ==
    \A b \in DOMAIN calls : calls[b].do = "finish" /\ calls[b].query \in Stars =>
        \/ calls[b].query \in served
        \/ \E a \in DOMAIN calls : a < b /\ Serves(calls[a], calls[b].query)
IsLate(t) ==
    /\ t.do \notin DiscoveryCalls \cup {"propagate"}
    /\ t.do = "mark" => t.query \in DOMAIN results \cap Selects(program) /\ t.marker \in ToSet(Node(t.query).markers)
LateCalls(calls, served) == InTurn(calls, served) /\ \A t \in ToSet(calls) : IsLate(t)

\* The star of a relation that is being resolved is lowered inside it.
Lowers(t, q) == t.do \in {"lower", "finish"} /\ t.query = q
Inside(i) == IF i = Len(callers) THEN agenda ELSE callers[i + 1].rest
BodiesDue ==
    \A i \in DOMAIN callers :
        /\ callers[i].symbol.role # "TABLE"
        /\ callers[i].symbol.body \in Stars =>
              \/ callers[i].symbol.body \in DOMAIN results
              \/ \E t \in ToSet(Inside(i)) : Lowers(t, callers[i].symbol.body)

\* Stars lead from an occurrence to a table or a function.
StarPairs ==
    UNION {{o} \X Sole(IF o \in DOMAIN bound THEN bound[o].body ELSE Source(o).body) : o \in DOMAIN asked}
LeadsToTable(o) == IsTable(o) \/ \E z : Leads(o, z, StarPairs) /\ IsTable(z)

\* What is asked is there.
ResultsHold ==
    \A q \in Stars \cap DOMAIN results :
        <<q, 1>> \in DOMAIN asked /\ LeadsToTable(<<q, 1>>) => asked[<<q, 1>>] \subseteq results[q].columns
Holds(s) == s.role = "TABLE" \/ s.body = NoQuery \/ (s.body \in Stars /\ LeadsToTable(<<s.body, 1>>))
OutputsHold == \A s \in ToSet(named) : Holds(s) => required[s] \subseteq outputs[s].columns
MarkersHold ==
    \A q \in Stars \cap DOMAIN scopes :
        LeadsToTable(<<q, 1>>) => \A m \in ToSet(Ids(Node(q).markers)) : Silent(m)

Lowering ==
    /\ Unasked = {}
    /\ \A q \in Stars \cap DOMAIN scopes : IsAsked(q)
    /\ LateCalls(agenda, Served(Len(callers)))
    /\ \A i \in DOMAIN callers : LateCalls(callers[i].rest, Served(i - 1))
    /\ BodiesDue
    /\ ResultsHold /\ OutputsHold /\ MarkersHold

Asking == crashed \/ (AskedKnown /\ (Discovers \/ Lowering))
-----------------------------------------------------------------------------
(* Calls that come in the place of the next one.                            *)

\* The calls `all`, of which the first n are those that are made instead of the
\* next one of `calls`.
Instead(calls, tasks, all, n) ==
    /\ n \in Nat /\ DOMAIN calls \subseteq Nat \ {0} /\ DOMAIN all \subseteq Nat \ {0}
    /\ 1 \in DOMAIN calls /\ calls[1] = Head(calls)
    /\ \A i \in DOMAIN tasks : i \in DOMAIN all /\ all[i] = tasks[i] /\ i \in Nat /\ i <= n
    /\ \A b \in DOMAIN calls : b # 1 => n + b - 1 \in DOMAIN all /\ all[n + b - 1] = calls[b]
    /\ \A k \in DOMAIN all : k \in DOMAIN tasks \/ \E b \in DOMAIN calls : b # 1 /\ k = n + b - 1

LEMMA ThenPlaces ==
    ASSUME NEW calls, IsSequence(calls), calls # <<>>, NEW tasks, IsSequence(tasks)
    PROVE  Instead(calls, tasks, tasks \o Tail(calls), Len(tasks))
<1> DEFINE n == Len(tasks)
           all == tasks \o Tail(calls)
<1>1. /\ IsSequence(Tail(calls)) /\ Len(calls) \in Nat \ {0} /\ DOMAIN calls = 1..Len(calls)
      /\ Len(Tail(calls)) = Len(calls) - 1 /\ \A i \in 1..(Len(calls) - 1) : Tail(calls)[i] = calls[i + 1]
  <2>1. calls \in Seq(ToSet(calls)) /\ IsSequence(Tail(calls))
    BY TailFacts DEF IsSequence
  <2> QED
    BY <2>1
<1>2. /\ Len(tasks) \in Nat /\ Len(Tail(calls)) \in Nat
      /\ DOMAIN tasks = 1..Len(tasks) /\ DOMAIN all = 1..(Len(tasks) + Len(Tail(calls)))
      /\ \A i \in 1..Len(tasks) : all[i] = tasks[i]
      /\ \A i \in 1..Len(Tail(calls)) : all[Len(tasks) + i] = Tail(calls)[i]
  BY <1>1, ConcatPlaces
<1>3. calls[1] = Head(calls)
  OBVIOUS
<1>4. ASSUME NEW b \in DOMAIN calls, b # 1
      PROVE  n + b - 1 \in DOMAIN all /\ all[n + b - 1] = calls[b]
  <2>1. b - 1 \in 1..(Len(calls) - 1) /\ n + b - 1 = Len(tasks) + (b - 1) /\ (b - 1) + 1 = b
    BY <1>1, <1>2, <1>4
  <2>2. all[Len(tasks) + (b - 1)] = Tail(calls)[b - 1] /\ Tail(calls)[b - 1] = calls[b]
    BY <1>1, <1>2, <2>1
  <2> QED
    BY <1>1, <1>2, <2>1, <2>2
<1>5. ASSUME NEW k \in DOMAIN all, k \notin DOMAIN tasks
      PROVE  \E b \in DOMAIN calls : b # 1 /\ k = n + b - 1
  <2>1. k - n + 1 \in DOMAIN calls /\ k - n + 1 # 1 /\ k = n + (k - n + 1) - 1
    BY <1>1, <1>2, <1>5
  <2> QED
    BY <2>1
<1> QED
  BY <1>1, <1>2, <1>3, <1>4, <1>5 DEF Instead

LEMMA TurnStep ==
    ASSUME NEW calls, IsSequence(calls), calls # <<>>, NEW tasks, IsSequence(tasks),
           NEW served, NEW more, served \subseteq more, InTurn(calls, served), InTurn(tasks, more),
           \A q \in Stars : Serves(Head(calls), q) => q \in more \/ \E a \in DOMAIN tasks : Serves(tasks[a], q)
    PROVE  InTurn(tasks \o Tail(calls), more)
<1> DEFINE all == tasks \o Tail(calls)
           n == Len(tasks)
<1>1. Instead(calls, tasks, all, n)
  BY ThenPlaces
<1> SUFFICES ASSUME NEW k \in DOMAIN all, all[k].do = "finish", all[k].query \in Stars, all[k].query \notin more
             PROVE  \E a \in DOMAIN all : a < k /\ Serves(all[a], all[k].query)
  BY DEF InTurn
<1> HIDE DEF all, n
<1>2. CASE k \in DOMAIN tasks
  <2>1. PICK a \in DOMAIN tasks : a < k /\ Serves(tasks[a], tasks[k].query)
    BY <1>1, <1>2 DEF InTurn, Instead
  <2> QED
    BY <1>1, <1>2, <2>1 DEF Instead
<1>3. CASE k \notin DOMAIN tasks
  <2>1. PICK b \in DOMAIN calls : b # 1 /\ k = n + b - 1 /\ all[k] = calls[b]
    BY <1>1, <1>3 DEF Instead
  <2>2. PICK a \in DOMAIN calls : a < b /\ Serves(calls[a], calls[b].query)
    BY <2>1 DEF InTurn
  <2>3. CASE a # 1
    <3>1. n + a - 1 \in DOMAIN all /\ all[n + a - 1] = calls[a] /\ n + a - 1 < k
      BY <1>1, <2>1, <2>2, <2>3 DEF Instead
    <3> QED
      BY <2>1, <2>2, <3>1
  <2>4. CASE a = 1
    <3>1. PICK c \in DOMAIN tasks : Serves(tasks[c], calls[b].query)
      BY <1>1, <2>1, <2>2, <2>4 DEF Instead
    <3>2. c < k
      BY <1>1, <2>1, <3>1 DEF Instead
    <3> QED
      BY <1>1, <2>1, <3>1, <3>2 DEF Instead
  <2> QED
    BY <2>3, <2>4
<1> QED
  BY <1>2, <1>3

LEMMA WillAskStep ==
    ASSUME NEW calls, IsSequence(calls), calls # <<>>, NEW tasks, IsSequence(tasks), NEW q,
           NEW met, NEW more, met \subseteq more, WillAsk(calls, q, met),
           Head(calls).do = "require" /\ Head(calls).query = q => <<q, 1>> \notin met,
           Head(calls).do = "bind" /\ Head(calls).at = <<q, 1>> => <<q, 1>> \in more
    PROVE  WillAsk(tasks \o Tail(calls), q, more)
<1> DEFINE all == tasks \o Tail(calls)
           n == Len(tasks)
<1>1. Instead(calls, tasks, all, n)
  BY ThenPlaces
<1> HIDE DEF all, n
<1>2. PICK b \in DOMAIN calls :
         /\ calls[b].do = "require" /\ calls[b].query = q
         /\ \/ <<q, 1>> \in met
            \/ \E a \in DOMAIN calls : a < b /\ calls[a].do = "bind" /\ calls[a].at = <<q, 1>>
  BY DEF WillAsk
<1>3. b # 1
  <2>1. ~\E a \in DOMAIN calls : a < 1
    BY <1>1 DEF Instead
  <2> QED
    BY <1>1, <1>2, <2>1 DEF Instead
<1>4. n + b - 1 \in DOMAIN all /\ all[n + b - 1] = calls[b]
  BY <1>1, <1>3 DEF Instead
<1> DEFINE Due1 ==
             \/ <<q, 1>> \in more
             \/ \E a \in DOMAIN all : a < n + b - 1 /\ all[a].do = "bind" /\ all[a].at = <<q, 1>>
<1>5. Due1
  <2>1. CASE <<q, 1>> \in met
    BY <2>1
  <2>2. ASSUME NEW a \in DOMAIN calls, a < b, calls[a].do = "bind", calls[a].at = <<q, 1>>
        PROVE  Due1
    <3>1. CASE a = 1
      BY <1>1, <2>2, <3>1 DEF Instead
    <3>2. CASE a # 1
      <4>1. n + a - 1 \in DOMAIN all /\ all[n + a - 1] = calls[a] /\ n + a - 1 < n + b - 1
        BY <1>1, <2>2, <3>2 DEF Instead
      <4> QED
        BY <2>2, <4>1
    <3> QED
      BY <3>1, <3>2
  <2> QED
    BY <1>2, <2>1, <2>2
<1> QED
  BY <1>2, <1>4, <1>5 DEF WillAsk, all

\* Other sources may be bound.
LEMMA BindsStep ==
    ASSUME NEW calls, IsSequence(calls), calls # <<>>, NEW tasks, IsSequence(tasks),
           NEW met, NEW more, BindsOnce(calls, met), BindsOnce(tasks, more),
           \A t \in ToSet(Tail(calls)), u \in ToSet(tasks) : t.do = "bind" /\ u.do = "bind" => t.at # u.at,
           \A o \in more \ met : Head(calls).do = "bind" /\ Head(calls).at = o
    PROVE  BindsOnce(tasks \o Tail(calls), more)
<1> DEFINE all == tasks \o Tail(calls)
           n == Len(tasks)
<1>1. Instead(calls, tasks, all, n)
  BY ThenPlaces
<1>2. \A i \in DOMAIN tasks : tasks[i] \in ToSet(tasks)
  BY SequenceFacts
<1>3. \A b \in DOMAIN calls : b # 1 => calls[b] \in ToSet(Tail(calls))
  <2>1. calls \in Seq(ToSet(calls)) /\ IsSequence(Tail(calls))
    BY TailFacts DEF IsSequence
  <2>2. SUFFICES ASSUME NEW b \in DOMAIN calls, b # 1 PROVE calls[b] \in ToSet(Tail(calls))
    OBVIOUS
  <2>3. b - 1 \in 1..Len(Tail(calls)) /\ Tail(calls)[b - 1] = calls[b]
    BY <2>1, <2>2
  <2> QED
    BY <2>1, <2>3, SequenceFacts
<1> HIDE DEF all, n
<1> DEFINE BoundOnce(k) == /\ all[k].at \notin more
                      /\ \A l \in DOMAIN all : all[l].do = "bind" /\ all[l].at = all[k].at => k = l
<1>4. ASSUME NEW k \in DOMAIN all, all[k].do = "bind"
      PROVE  BoundOnce(k)
  <2>1. CASE k \in DOMAIN tasks
    <3>1. all[k] = tasks[k] /\ all[k] \in ToSet(tasks)
      BY <1>1, <1>2, <2>1 DEF Instead
    <3>2. ASSUME NEW l \in DOMAIN all, all[l].do = "bind", all[l].at = all[k].at
          PROVE  k = l
      <4>1. CASE l \in DOMAIN tasks
        BY <1>1, <1>4, <2>1, <3>1, <3>2, <4>1 DEF BindsOnce, Instead
      <4>2. ASSUME NEW b \in DOMAIN calls, b # 1, l = n + b - 1
            PROVE  FALSE
        <5>1. all[l] = calls[b] /\ calls[b] \in ToSet(Tail(calls))
          BY <1>1, <1>3, <4>2 DEF Instead
        <5> QED
          BY <1>4, <3>1, <3>2, <5>1
      <4> QED
        BY <1>1, <4>1, <4>2 DEF Instead
    <3> QED
      BY <1>4, <2>1, <3>1, <3>2 DEF BindsOnce
  <2>2. ASSUME NEW b \in DOMAIN calls, b # 1, k = n + b - 1
        PROVE  BoundOnce(k)
    <3>1. all[k] = calls[b] /\ calls[b] \in ToSet(Tail(calls))
      BY <1>1, <1>3, <2>2 DEF Instead
    <3>2. calls[b].at \notin more
      <4>1. calls[b].at \notin met
        BY <1>4, <3>1 DEF BindsOnce
      <4>2. ~(calls[1].do = "bind" /\ calls[1].at = calls[b].at)
        BY <1>1, <1>4, <2>2, <3>1 DEF BindsOnce, Instead
      <4> QED
        BY <1>1, <4>1, <4>2 DEF Instead
    <3>3. ASSUME NEW l \in DOMAIN all, all[l].do = "bind", all[l].at = all[k].at
          PROVE  k = l
      <4>1. ASSUME l \in DOMAIN tasks PROVE FALSE
        <5>1. all[l] = tasks[l] /\ tasks[l] \in ToSet(tasks)
          BY <1>1, <1>2, <4>1 DEF Instead
        <5> QED
          BY <1>4, <3>1, <3>3, <5>1
      <4>2. PICK c \in DOMAIN calls : c # 1 /\ l = n + c - 1
        BY <1>1, <4>1 DEF Instead
      <4>3. all[l] = calls[c]
        BY <1>1, <4>2 DEF Instead
      <4>4. b = c
        BY <1>4, <3>1, <3>3, <4>3 DEF BindsOnce
      <4> QED
        BY <2>2, <4>2, <4>4
    <3> QED
      BY <3>1, <3>2, <3>3
  <2> QED
    BY <1>1, <2>1, <2>2 DEF Instead
<1> QED
  BY <1>4 DEF BindsOnce, all

-----------------------------------------------------------------------------
(* Discovery.                                                               *)

IsFirst(tasks) == IsSequence(tasks) /\ \A t \in ToSet(tasks) : t.do \in DiscoveryCalls
\* Calls that bind no source and ask for nothing.
IsAside(tasks) == IsFirst(tasks) /\ \A t \in ToSet(tasks) : t.do \notin {"bind", "require"}

LEMMA FirstFew ==
    /\ IsAside(<<>>) /\ IsFirst(<<>>)
    /\ \A t : t.do \in DiscoveryCalls => IsFirst(<<t>>)
    /\ \A t : t.do \in DiscoveryCalls \ {"bind", "require"} => IsAside(<<t>>)
    /\ \A s, t : IsFirst(s) /\ IsFirst(t) => IsFirst(s \o t)
    /\ \A s, t : IsAside(s) /\ IsAside(t) => IsAside(s \o t)
BY EmptyFacts, OneFacts, ConcatFacts DEF IsFirst, IsAside

LEMMA FirstEach ==
    ASSUME NEW s, IsSequence(s), NEW f, f = [i \in DOMAIN s |-> f[i]]
    PROVE  /\ (\A i \in DOMAIN s : f[i].do \in DiscoveryCalls) => IsFirst(f)
           /\ (\A i \in DOMAIN s : f[i].do \in DiscoveryCalls \ {"bind", "require"}) => IsAside(f)
BY EachFacts, SequenceFacts DEF IsFirst, IsAside

LEMMA SilentStill ==
    ASSUME IsProgram(program), Reported, NEW m \in MarkersIn(program), Silent(m)
    PROVE  Silent(m)'
<1>1. m \notin Names(program)
  BY DEF IsProgram
<1> QED
  BY <1>1 DEF Reported, AboutNames, Report, Silent

\* Calls of discovery come before propagation.
LEMMA StillDiscovering ==
    ASSUME IsProgram(program), program' = program, IsDiscovering(agenda), agenda # <<>>, Head(agenda).do \in DiscoveryCalls,
           NEW tasks, IsFirst(tasks), agenda' = tasks \o Tail(agenda)
    PROVE  IsDiscovering(agenda)'
<1> DEFINE rest == <<Call("propagate")>> \o Afterwards(program)
<1>1. PICK first : IsFirst(first) /\ agenda = first \o rest
  BY DEF IsDiscovering, IsFirst
<1>2. IsSequence(rest) /\ rest # <<>> /\ Head(rest).do = "propagate"
  <2>1. IsSequence(Afterwards(program))
    BY EmptyFacts, OneFacts, ClosingFacts, ConcatFacts DEF Afterwards, Rooted
  <2> QED
    BY <2>1, OneFacts, ConcatFacts, FirstFacts DEF Call
<1> HIDE DEF rest
<1>3. first # <<>>
  BY <1>1, <1>2, FirstFacts DEF IsFirst, DiscoveryCalls
<1>4. Tail(agenda) = Tail(first) \o rest /\ IsFirst(Tail(first))
  BY <1>1, <1>2, <1>3, FirstFacts, TailFacts DEF IsFirst
<1>5. agenda' = (tasks \o Tail(first)) \o rest
  <2> DEFINE others == Tail(first)
  <2>1. IsSequence(tasks) /\ IsSequence(others) /\ IsSequence(rest)
    BY <1>2, <1>4 DEF IsFirst
  <2> HIDE DEF others
  <2>2. tasks \o (others \o rest) = (tasks \o others) \o rest
    BY <2>1, Associative
  <2> QED
    BY <1>4, <2>2 DEF others
<1>6. IsFirst(tasks \o Tail(first))
  BY <1>4, FirstFew
<1> QED
  BY <1>5, <1>6 DEF IsDiscovering, IsFirst, rest

LEMMA DiscoverStep ==
    ASSUME IInv, Discovers, agenda # <<>>, Head(agenda).do \in DiscoveryCalls,
           NEW tasks, IsFirst(tasks), agenda' = tasks \o Tail(agenda),
           UNCHANGED <<program, callers, named, results>>, Reported,
           DeclaredNamed', BindsOnce(agenda, DOMAIN asked)', \A q \in Stars \cap DOMAIN scopes' : (IsAsked(q) \/ WillAsk(agenda, q, DOMAIN asked))'
    PROVE  Discovers'
<1>1. IsDiscovering(agenda)'
  BY StillDiscovering DEF IInv, Discovers
<1>2. \A m \in MarkersIn(program) : Silent(m)'
  BY SilentStill DEF IInv, Discovers
<1>3. Stars' = Stars /\ MarkersIn(program)' = MarkersIn(program)
  BY DEF Stars, Sole, IsSelect, Node
<1> QED
  BY <1>1, <1>2, <1>3 DEF Discovers

\* The columns of a marker do not change, nor does what is asked.
LEMMA StillAsked ==
    ASSUME program' = program, NEW q, IsAsked(q), DOMAIN asked \subseteq DOMAIN asked',
           \A o \in DOMAIN asked : asked[o] \subseteq asked'[o]
    PROVE  IsAsked(q)'
<1>1. MarkedColumns(q)' = MarkedColumns(q)
  BY DEF MarkedColumns, Node
<1> QED
  BY <1>1 DEF IsAsked

LEMMA AsideStep ==
    ASSUME IInv, AskedKnown, Discovers, agenda # <<>>, Head(agenda).do \in DiscoveryCalls \ {"bind", "require"},
           NEW tasks, IsAside(tasks), agenda' = tasks \o Tail(agenda),
           UNCHANGED <<program, scopes, bound, asked, callers, named, results>>, Reported, DeclaredNamed',
           \A s \in DOMAIN required : s \in DOMAIN required' /\ required[s] \subseteq required'[s]
    PROVE  AskedKnown' /\ Discovers'
<1>0. IsSequence(agenda)
  BY DEF IInv, CallsKnown, KnownCalls
<1>1. AskedKnown'
  <2>1. \A o \in DOMAIN bound : bound[o] \in DOMAIN required
    BY DEF IInv, NamesKnown
  <2>2. \A o : Source(o)' = Source(o)
    BY DEF Source, Node
  <2> QED
    BY <2>1, <2>2 DEF AskedKnown
<1>2. BindsOnce(agenda, DOMAIN asked)'
  <2>1. IsSequence(tasks) /\ \A t \in ToSet(tasks) : t.do # "bind"
    BY DEF IsAside, IsFirst
  <2>2. BindsOnce(tasks, DOMAIN asked')
    BY <2>1, SequenceFacts DEF BindsOnce
  <2>3. BindsOnce(agenda, DOMAIN asked)
    BY DEF Discovers
  <2>4. BindsOnce(tasks \o Tail(agenda), DOMAIN asked')
    BY <1>0, <2>1, <2>2, <2>3, BindsStep
  <2> QED
    BY <2>4
<1>3. ASSUME NEW q \in Stars \cap DOMAIN scopes'
      PROVE  (IsAsked(q) \/ WillAsk(agenda, q, DOMAIN asked))'
  <2>1. IsAsked(q) => IsAsked(q)'
    BY StillAsked
  <2>2. WillAsk(agenda, q, DOMAIN asked) => WillAsk(tasks \o Tail(agenda), q, DOMAIN asked')
    BY <1>0, WillAskStep DEF IsAside, IsFirst
  <2> QED
    BY <1>3, <2>1, <2>2 DEF Discovers
<1> QED
  BY <1>1, <1>2, <1>3, DiscoverStep DEF IsAside

\* A relation that is met is required to have more, and is declared if its name
\* is known.
LEMMA MeetDiscovered ==
    ASSUME IInv, DeclaredNamed, NEW q \in DOMAIN scopes, NEW name, NEW s, s = SymbolFor(name, scopes[q]),
           NEW columns, Meet(s, columns)
    PROVE  /\ DeclaredNamed'
           /\ \A r \in DOMAIN required : r \in DOMAIN required' /\ required[r] \subseteq required'[r]
           /\ s \in DOMAIN required'
<1>1. /\ s \in ToSet(symbols) \/ (s = Undeclared(name) /\ name \notin DOMAIN global)
      /\ IsSequence(symbols) /\ DOMAIN required = ToSet(symbols)
  BY SymbolFacts DEF IInv, NamesKnown
<1>2. required' = With(required, s, columns \cup IF s \in DOMAIN required THEN required[s] ELSE {})
  BY DEF Meet
<1>3. \A r \in DOMAIN required : r \in DOMAIN required' /\ required[r] \subseteq required'[r]
  BY <1>2 DEF With
<1>4. s \in DOMAIN required'
  BY <1>2 DEF With
<1>5. DeclaredNamed'
  <2>1. CASE s \in ToSet(symbols)
    BY <2>1 DEF Meet, DeclaredNamed
  <2>2. CASE s \notin ToSet(symbols)
    <3>1. symbols' = Append(symbols, s) /\ global' = With(global, s.name, s) /\ ~s.declared
      BY <1>1, <2>2 DEF Meet, Undeclared, Symbol
    <3>2. ToSet(symbols') = ToSet(symbols) \cup {s}
      BY <1>1, <3>1, AppendFacts
    <3> QED
      BY <3>1, <3>2 DEF DeclaredNamed, With
  <2> QED
    BY <2>1, <2>2
<1> QED
  BY <1>3, <1>4, <1>5

\* The call that a step of discovery makes.
LEMMA FirstTask ==
    ASSUME IInv, Discovers, NEW what \in DiscoveryCalls, Doing(what)
    PROVE  agenda # <<>> /\ Head(agenda).do = what /\ DeclaredNamed /\ IsSequence(agenda)
BY TaskFacts DEF Doing, Task, Discovers, IInv, CallsKnown, KnownCalls

LEMMA DeclareDiscovers == IInv /\ RelationsSourced /\ AskedKnown /\ Discovers /\ DeclareStatement => AskedKnown' /\ Discovers'
<1> SUFFICES ASSUME IInv, RelationsSourced, AskedKnown, Discovers, DeclareStatement PROVE AskedKnown' /\ Discovers'
  OBVIOUS
<1>1. Reported
  BY PreparingFacts DEF Preparing
<1>2. Doing("declare") /\ UNCHANGED <<program, scopes, bound, asked, callers, named, results>> /\ Then(<<>>)
  BY DEF DeclareStatement, linking, marking
<1>3. agenda # <<>> /\ Head(agenda).do \in DiscoveryCalls \ {"bind", "require"} /\ DeclaredNamed
  BY <1>2, FirstTask DEF DiscoveryCalls
<1>4. IsAside(<<>>) /\ agenda' = <<>> \o Tail(agenda)
  BY <1>2, FirstFew DEF Then
<1>5. IsSequence(symbols) /\ DOMAIN required = ToSet(symbols)
  BY DEF IInv, NamesKnown
<1> DEFINE Goal == DeclaredNamed' /\ \A s \in DOMAIN required : s \in DOMAIN required' /\ required[s] \subseteq required'[s]
<1>6. ASSUME UNCHANGED <<symbols, global, required>>
      PROVE  Goal
  BY <1>3, <1>6 DEF DeclaredNamed
<1>7. ASSUME Declare(Task.statement), Task.statement.name \notin DOMAIN global
      PROVE  Goal
  <2> DEFINE symbol == Symbol(Task.statement.name, Task.statement.kind, Task.statement.body, Task.statement.columns, TRUE)
  <2>1. /\ symbols' = Append(symbols, symbol) /\ global' = With(global, Task.statement.name, symbol)
        /\ required' = With(required, symbol, {})
    BY <1>7 DEF Declare
  <2>2. symbol.name = Task.statement.name /\ symbol.declared
    BY DEF Symbol
  <2>3. symbol \notin DOMAIN required
    BY <1>3, <1>5, <1>7, <2>2 DEF DeclaredNamed
  <2> HIDE DEF symbol
  <2>4. ToSet(symbols') = ToSet(symbols) \cup {symbol}
    BY <1>5, <2>1, AppendFacts
  <2>5. DeclaredNamed'
    BY <1>3, <2>1, <2>2, <2>4 DEF DeclaredNamed, With
  <2>6. \A s \in DOMAIN required : s \in DOMAIN required' /\ required[s] \subseteq required'[s]
    BY <2>1, <2>3 DEF With
  <2> QED
    BY <2>5, <2>6
<1>8. Goal
  <2>1. UNCHANGED <<symbols, global, required>> \/ (Declare(Task.statement) /\ Task.statement.name \notin DOMAIN global)
    BY DEF DeclareStatement, Declare, Amend
  <2> QED
    BY <1>6, <1>7, <2>1
<1> HIDE DEF Goal
<1>9. DeclaredNamed' /\ \A s \in DOMAIN required : s \in DOMAIN required' /\ required[s] \subseteq required'[s]
  BY <1>8 DEF Goal
<1> QED
  BY <1>1, <1>2, <1>3, <1>4, <1>9, AsideStep

\* Steps that only make calls.
Listing == DiscoverViews \/ DiscoverView \/ DiscoverConstraints \/ DiscoverConstraintsOf

LEMMA ListingCalls ==
    ASSUME IInv, Listing
    PROVE  \E tasks : IsAside(tasks) /\ agenda' = tasks \o Tail(agenda)
<1>1. IsSequence(symbols)
  BY DEF IInv, NamesKnown
<1>2. ASSUME DiscoverViews \/ DiscoverConstraints PROVE \E tasks : IsAside(tasks) /\ agenda' = tasks \o Tail(agenda)
  <2> DEFINE f(what) == [i \in DOMAIN symbols |-> About(what, symbols[i])]
  <2>1. ASSUME NEW what \in {"view", "constraints of"} PROVE IsAside(f(what))
    <3>1. \A i \in DOMAIN symbols : f(what)[i].do \in DiscoveryCalls \ {"bind", "require"}
      BY DEF About, DiscoveryCalls
    <3>2. f(what) = [i \in DOMAIN symbols |-> f(what)[i]]
      OBVIOUS
    <3> HIDE DEF f
    <3> QED
      BY <1>1, <3>1, <3>2, FirstEach
  <2>2. agenda' = f("view") \o Tail(agenda) \/ agenda' = f("constraints of") \o Tail(agenda)
    BY <1>2 DEF DiscoverViews, DiscoverConstraints, Then
  <2> HIDE DEF f
  <2> QED
    BY <2>1, <2>2
<1>3. ASSUME DiscoverView PROVE \E tasks : IsAside(tasks) /\ agenda' = tasks \o Tail(agenda)
  <2>1. Discover(Task.symbol.body, NoEntry).do \in DiscoveryCalls \ {"bind", "require"}
    BY DEF Discover, DiscoveryCalls
  <2>2. IsAside(<<>>) /\ IsAside(<<Discover(Task.symbol.body, NoEntry)>>)
    BY <2>1, FirstFew
  <2> QED
    BY <1>3, <2>2 DEF DiscoverView, Then
<1>4. ASSUME DiscoverConstraintsOf PROVE \E tasks : IsAside(tasks) /\ agenda' = tasks \o Tail(agenda)
  <2> DEFINE s == Task.symbol
             f == [i \in DOMAIN ConstraintsOf(s) |-> [do |-> "constraint", symbol |-> s, constraint |-> ConstraintsOf(s)[i]]]
  <2>1. s \in ToSet(symbols)
    BY <1>4, SymbolCall DEF DiscoverConstraintsOf
  <2>2. IsSequence(ConstraintsOf(s))
    BY <2>1, EmptyFacts DEF ConstraintsOf, IInv, NamesKnown
  <2>3. \A i \in DOMAIN ConstraintsOf(s) : f[i].do \in DiscoveryCalls \ {"bind", "require"}
    BY DEF DiscoveryCalls
  <2>4. f = [i \in DOMAIN ConstraintsOf(s) |-> f[i]]
    OBVIOUS
  <2>5. agenda' = f \o Tail(agenda)
    BY <1>4 DEF DiscoverConstraintsOf, Then
  <2> HIDE DEF f
  <2> QED
    BY <2>2, <2>3, <2>4, <2>5, FirstEach
<1> QED
  BY <1>2, <1>3, <1>4 DEF Listing

LEMMA ListingDiscovers == IInv /\ RelationsSourced /\ AskedKnown /\ Discovers /\ Listing => AskedKnown' /\ Discovers'
<1> SUFFICES ASSUME IInv, RelationsSourced, AskedKnown, Discovers, Listing PROVE AskedKnown' /\ Discovers'
  OBVIOUS
<1>1. Reported
  BY PreparingFacts DEF Preparing, Listing
<1>2. /\ \E what \in {"views", "view", "constraints", "constraints of"} : Doing(what)
      /\ UNCHANGED <<program, scopes, bound, asked, callers, named, results, symbols, global, required>>
  BY DEF Listing, DiscoverViews, DiscoverView, DiscoverConstraints, DiscoverConstraintsOf, linking, binding, asking
<1>3. agenda # <<>> /\ Head(agenda).do \in DiscoveryCalls \ {"bind", "require"} /\ DeclaredNamed
  BY <1>2, FirstTask DEF DiscoveryCalls
<1>4. PICK tasks : IsAside(tasks) /\ agenda' = tasks \o Tail(agenda)
  BY ListingCalls
<1>5. DeclaredNamed' /\ \A s \in DOMAIN required : s \in DOMAIN required' /\ required[s] \subseteq required'[s]
  BY <1>2, <1>3 DEF DeclaredNamed
<1> QED
  BY <1>1, <1>2, <1>3, <1>4, <1>5, AsideStep

LEMMA TargetDiscovers == IInv /\ RelationsSourced /\ AskedKnown /\ Discovers /\ FindTarget => AskedKnown' /\ Discovers'
<1> SUFFICES ASSUME IInv, RelationsSourced, AskedKnown, Discovers, FindTarget PROVE AskedKnown' /\ Discovers'
  OBVIOUS
<1>1. Reported
  BY PreparingFacts DEF Preparing
<1>2. Doing("target") /\ UNCHANGED <<program, scopes, bound, asked, callers, named, results>> /\ Then(<<>>)
  BY DEF FindTarget, linking
<1>3. agenda # <<>> /\ Head(agenda).do \in DiscoveryCalls \ {"bind", "require"} /\ DeclaredNamed
  BY <1>2, FirstTask DEF DiscoveryCalls
<1>4. IsAside(<<>>) /\ agenda' = <<>> \o Tail(agenda)
  BY <1>2, FirstFew DEF Then
<1>5. DeclaredNamed' /\ \A s \in DOMAIN required : s \in DOMAIN required' /\ required[s] \subseteq required'[s]
  <2>1. Task.query \in DOMAIN scopes
    BY <1>2, ScopedCall
  <2>2. CASE UNCHANGED <<symbols, global, required>>
    BY <1>3, <2>2 DEF DeclaredNamed
  <2>3. ASSUME NEW s, s = SymbolFor(Task.marker.references, scopes[Task.query]), NEW columns, Meet(s, columns)
        PROVE  <1>5
    BY <1>3, <2>1, <2>3, MeetDiscovered
  <2> QED
    BY <2>2, <2>3 DEF FindTarget
<1> QED
  BY <1>1, <1>2, <1>3, <1>4, <1>5, AsideStep

LEMMA ReferenceDiscovers == IInv /\ RelationsSourced /\ AskedKnown /\ Discovers /\ DiscoverReference => AskedKnown' /\ Discovers'
<1> SUFFICES ASSUME IInv, RelationsSourced, AskedKnown, Discovers, DiscoverReference PROVE AskedKnown' /\ Discovers'
  OBVIOUS
<1>1. Reported
  BY PreparingFacts DEF Preparing
<1>2. /\ Doing("constraint") /\ Then(<<>>)
      /\ UNCHANGED <<program, scopes, bound, asked, callers, named, results, symbols, global>>
  BY DEF DiscoverReference, linking, binding
<1>3. agenda # <<>> /\ Head(agenda).do \in DiscoveryCalls \ {"bind", "require"} /\ DeclaredNamed
  BY <1>2, FirstTask DEF DiscoveryCalls
<1>4. IsAside(<<>>) /\ agenda' = <<>> \o Tail(agenda)
  BY <1>2, FirstFew DEF Then
<1>5. DeclaredNamed'
  BY <1>2, <1>3 DEF DeclaredNamed
<1>6. \A s \in DOMAIN required : s \in DOMAIN required' /\ required[s] \subseteq required'[s]
  BY DEF DiscoverReference
<1> QED
  BY <1>1, <1>2, <1>3, <1>4, <1>5, <1>6, AsideStep

-----------------------------------------------------------------------------
(* The steps that bind sources and ask of them.                             *)

LEMMA NoBinds ==
    ASSUME NEW tasks, IsSequence(tasks), \A t \in ToSet(tasks) : t.do # "bind", NEW met
    PROVE  BindsOnce(tasks, met)
BY SequenceFacts DEF BindsOnce

LEMMA MoreBinds ==
    ASSUME NEW s, IsSequence(s), NEW t, IsSequence(t), NEW met, BindsOnce(s, met), \A u \in ToSet(t) : u.do # "bind"
    PROVE  BindsOnce(s \o t, met)
<1> DEFINE all == s \o t
<1>1. /\ Len(s) \in Nat /\ Len(t) \in Nat
      /\ DOMAIN s = 1..Len(s) /\ DOMAIN t = 1..Len(t) /\ DOMAIN all = 1..(Len(s) + Len(t))
      /\ \A i \in 1..Len(s) : all[i] = s[i]
      /\ \A i \in 1..Len(t) : all[Len(s) + i] = t[i]
  BY ConcatPlaces
<1> HIDE DEF all
<1>2. \A i \in 1..Len(t) : t[i].do # "bind"
  BY <1>1, SequenceFacts
<1>3. ASSUME NEW k \in DOMAIN all, all[k].do = "bind"
      PROVE  k \in 1..Len(s) /\ all[k] = s[k]
  <2>1. CASE k \in 1..Len(s)
    BY <1>1, <2>1
  <2>2. CASE k \notin 1..Len(s)
    <3>1. k - Len(s) \in 1..Len(t) /\ k = Len(s) + (k - Len(s))
      BY <1>1, <2>2
    <3>2. all[k] = t[k - Len(s)]
      BY <1>1, <3>1
    <3> QED
      BY <1>2, <1>3, <3>1, <3>2
  <2> QED
    BY <2>1, <2>2
<1> QED
  BY <1>1, <1>3 DEF BindsOnce, all

LEMMA MoreAsked ==
    ASSUME NEW s, IsSequence(s), NEW t, IsSequence(t), NEW q, NEW met, WillAsk(s, q, met)
    PROVE  WillAsk(s \o t, q, met)
<1>1. /\ Len(s) \in Nat /\ Len(t) \in Nat
      /\ DOMAIN s = 1..Len(s) /\ DOMAIN (s \o t) = 1..(Len(s) + Len(t))
      /\ \A i \in 1..Len(s) : (s \o t)[i] = s[i]
  BY ConcatPlaces
<1>2. DOMAIN s \subseteq DOMAIN (s \o t)
  BY <1>1
<1> QED
  BY <1>1, <1>2 DEF WillAsk

LEMMA AskFacts ==
    ASSUME IInv, AskedKnown, NEW pairs, Ask(pairs), UNCHANGED <<program, scopes, bound>>
    PROVE  /\ AskedKnown' /\ DOMAIN required' = DOMAIN required
           /\ DOMAIN asked' = DOMAIN asked /\ \A o \in DOMAIN asked : asked[o] \subseteq asked'[o]
           /\ \A o \in DOMAIN asked : \A c : <<o, c>> \in pairs => c \in asked'[o]
<1>1. /\ asked' = [o \in DOMAIN asked |-> asked[o] \cup {p[2] : p \in {p \in pairs : p[1] = o}}]
      /\ required' = [s \in DOMAIN required |->
             required[s] \cup {p[2] : p \in {p \in pairs : p[1] \in DOMAIN bound /\ bound[p[1]] = s}}]
  BY DEF Ask
<1>2. \A o : Source(o)' = Source(o)
  BY DEF Source, Node
<1>3. ASSUME NEW o \in DOMAIN bound
      PROVE  asked'[o] \subseteq required'[bound[o]]
  <2>1. o \in DOMAIN asked /\ asked[o] \subseteq required[bound[o]]
    BY DEF AskedKnown
  <2>2. bound[o] \in DOMAIN required
    BY DEF IInv, NamesKnown
  <2> QED
    BY <1>1, <1>3, <2>1, <2>2
<1>4. AskedKnown'
  BY <1>1, <1>2, <1>3 DEF AskedKnown
<1> QED
  BY <1>1, <1>4

LEMMA RequireDiscovers == IInv /\ RelationsSourced /\ AskedKnown /\ Discovers /\ RequireColumns => AskedKnown' /\ Discovers'
<1> SUFFICES ASSUME IInv, RelationsSourced, AskedKnown, Discovers, RequireColumns PROVE AskedKnown' /\ Discovers'
  OBVIOUS
<1> DEFINE q == Task.query
           pairs == {<< <<q, need[1]>>, need[2]>> : need \in Node(q).needs} \cup (Sole(q) \X MarkedColumns(q))
<1>1. Reported
  BY PreparingFacts DEF Preparing
<1>2. /\ Doing("require") /\ Then(<<>>) /\ Ask(pairs)
      /\ UNCHANGED <<program, scopes, bound, callers, named, results, symbols, global>>
  BY DEF RequireColumns, linking, binding
<1>3. agenda # <<>> /\ Head(agenda).do = "require" /\ Head(agenda).query = q /\ DeclaredNamed /\ IsSequence(agenda)
  BY <1>2, FirstTask DEF DiscoveryCalls, Task
<1>4. \A x \in Sole(q), c \in MarkedColumns(q) : <<x, c>> \in pairs
  OBVIOUS
<1> HIDE DEF pairs
<1>5. /\ AskedKnown'
      /\ DOMAIN asked' = DOMAIN asked /\ \A o \in DOMAIN asked : asked[o] \subseteq asked'[o]
      /\ \A o \in DOMAIN asked : \A c : <<o, c>> \in pairs => c \in asked'[o]
  BY <1>2, AskFacts
<1>6. IsFirst(<<>>) /\ agenda' = <<>> \o Tail(agenda)
  BY <1>2, FirstFew DEF Then
<1>7. BindsOnce(agenda, DOMAIN asked)'
  <2>1. BindsOnce(<<>>, DOMAIN asked')
    BY EmptyFacts, NoBinds
  <2>2. BindsOnce(agenda, DOMAIN asked)
    BY DEF Discovers
  <2>3. BindsOnce(<<>> \o Tail(agenda), DOMAIN asked')
    BY <1>3, <1>5, <2>1, <2>2, BindsStep, EmptyFacts
  <2> QED
    BY <1>6, <2>3
<1>8. ASSUME NEW r \in Stars \cap DOMAIN scopes'
      PROVE  (IsAsked(r) \/ WillAsk(agenda, r, DOMAIN asked))'
  <2>1. IsAsked(r) => IsAsked(r)'
    BY <1>2, <1>5, StillAsked
  <2>2. CASE r = q /\ <<q, 1>> \in DOMAIN asked
    <3>1. Sole(q) = {<<q, 1>>}
      BY <1>8, <2>2 DEF Stars, Sole
    <3>2. MarkedColumns(q) \subseteq asked'[<<q, 1>>]
      BY <1>4, <1>5, <2>2, <3>1
    <3>3. MarkedColumns(r)' = MarkedColumns(r)
      BY <1>2 DEF MarkedColumns, Node
    <3> QED
      BY <1>5, <2>2, <3>2, <3>3 DEF IsAsked
  <2>3. CASE ~(r = q /\ <<q, 1>> \in DOMAIN asked)
    <3>1. WillAsk(agenda, r, DOMAIN asked) => WillAsk(<<>> \o Tail(agenda), r, DOMAIN asked')
      BY <1>3, <1>5, <2>3, WillAskStep, EmptyFacts
    <3> QED
      BY <1>2, <1>6, <1>8, <2>1, <3>1 DEF Discovers
  <2> QED
    BY <2>2, <2>3
<1>9. DeclaredNamed'
  BY <1>2, <1>3 DEF DeclaredNamed
<1>10. Head(agenda).do \in DiscoveryCalls
  BY <1>3 DEF DiscoveryCalls
<1> QED
  BY <1>1, <1>2, <1>3, <1>5, <1>6, <1>7, <1>8, <1>9, <1>10, DiscoverStep

LEMMA BindDiscovers == IInv /\ RelationsSourced /\ AskedKnown /\ Discovers /\ BindSource => AskedKnown' /\ Discovers'
<1> SUFFICES ASSUME IInv, RelationsSourced, AskedKnown, Discovers, BindSource PROVE AskedKnown' /\ Discovers'
  OBVIOUS
<1> DEFINE o == Task.at
           symbol == SymbolFor(Source(o).name, scopes[o[1]])
           tasks == IF Source(o).kind = "subquery" THEN <<Discover(Source(o).body, scopes[o[1]])>> ELSE <<>>
<1>1. Reported
  BY PreparingFacts DEF Preparing
<1>2. /\ Doing("bind") /\ agenda' = tasks \o Tail(agenda) /\ asked' = With(asked, o, {})
      /\ \/ Source(o).kind = "table" /\ Meet(symbol, {}) /\ bound' = With(bound, o, symbol)
         \/ UNCHANGED <<symbols, global, required, bound>>
      /\ UNCHANGED <<program, scopes, callers, named, results>>
  BY DEF BindSource, linking, Then
<1>3. agenda # <<>> /\ Head(agenda) = Task /\ Head(agenda).do = "bind" /\ DeclaredNamed /\ IsSequence(agenda)
  BY <1>2, FirstTask DEF DiscoveryCalls, Task
<1>4. o[1] \in DOMAIN scopes
  BY <1>2, BindCall
<1>5. o \notin DOMAIN asked
  <2>1. 1 \in DOMAIN agenda /\ agenda[1] = Head(agenda)
    BY <1>3, SequenceFacts
  <2> QED
    BY <1>3, <2>1 DEF Discovers, BindsOnce
<1>6. /\ DOMAIN asked' = DOMAIN asked \cup {o} /\ asked'[o] = {}
      /\ \A other \in DOMAIN asked : asked'[other] = asked[other]
  BY <1>2, <1>5 DEF With
<1>7. /\ DeclaredNamed'
      /\ \A s \in DOMAIN required : s \in DOMAIN required' /\ required[s] \subseteq required'[s]
  <2>1. CASE Meet(symbol, {})
    BY <1>3, <1>4, <2>1, MeetDiscovered
  <2>2. CASE UNCHANGED <<symbols, global, required>>
    BY <1>3, <2>2 DEF DeclaredNamed
  <2> QED
    BY <1>2, <2>1, <2>2
<1>8. IsAside(tasks)
  <2>1. Discover(Source(o).body, scopes[o[1]]).do \in DiscoveryCalls \ {"bind", "require"}
    BY DEF Discover, DiscoveryCalls
  <2> QED
    BY <2>1, FirstFew
<1>9. \A other : Source(other)' = Source(other)
  BY <1>2 DEF Source, Node
<1> HIDE DEF tasks, symbol
<1>10. AskedKnown'
  <2>1. \A other \in DOMAIN asked' : other[1] \in DOMAIN scopes'
    BY <1>2, <1>4, <1>6 DEF AskedKnown
  <2>2. ASSUME NEW other \in DOMAIN bound'
        PROVE  other \in DOMAIN asked' /\ Source(other).kind = "table" /\ asked'[other] \subseteq required'[bound'[other]]
    <3>1. CASE other = o
      <4>1. o \notin DOMAIN bound
        BY <1>5 DEF AskedKnown
      <4>2. Source(o).kind = "table"
        BY <1>2, <2>2, <3>1, <4>1
      <4> QED
        BY <1>6, <3>1, <4>2
    <3>2. CASE other # o
      <4>1. other \in DOMAIN bound /\ bound'[other] = bound[other]
        BY <1>2, <2>2, <3>2 DEF With
      <4>2. other \in DOMAIN asked /\ Source(other).kind = "table" /\ asked[other] \subseteq required[bound[other]]
        BY <4>1 DEF AskedKnown
      <4>3. bound[other] \in DOMAIN required
        BY <4>1 DEF IInv, NamesKnown
      <4>4. required[bound[other]] \subseteq required'[bound[other]]
        BY <1>7, <4>3
      <4> QED
        BY <1>6, <4>1, <4>2, <4>4
    <3> QED
      BY <3>1, <3>2
  <2> QED
    BY <1>9, <2>1, <2>2 DEF AskedKnown
<1>11. BindsOnce(agenda, DOMAIN asked)'
  <2>1. BindsOnce(tasks, DOMAIN asked') /\ IsSequence(tasks) /\ \A t \in ToSet(tasks) : t.do # "bind"
    BY <1>8, NoBinds DEF IsAside, IsFirst
  <2>2. BindsOnce(agenda, DOMAIN asked)
    BY DEF Discovers
  <2>3. \A other \in DOMAIN asked' \ DOMAIN asked : Head(agenda).do = "bind" /\ Head(agenda).at = other
    BY <1>3, <1>6
  <2>4. BindsOnce(tasks \o Tail(agenda), DOMAIN asked')
    BY <1>3, <2>1, <2>2, <2>3, BindsStep
  <2> QED
    BY <1>2, <2>4
<1>12. ASSUME NEW r \in Stars \cap DOMAIN scopes'
       PROVE  (IsAsked(r) \/ WillAsk(agenda, r, DOMAIN asked))'
  <2>1. IsAsked(r) => IsAsked(r)'
    <3>1. DOMAIN asked \subseteq DOMAIN asked' /\ \A other \in DOMAIN asked : asked[other] \subseteq asked'[other]
      BY <1>6
    <3> QED
      BY <1>2, <3>1, StillAsked
  <2>2. WillAsk(agenda, r, DOMAIN asked) => WillAsk(tasks \o Tail(agenda), r, DOMAIN asked')
    <3>1. DOMAIN asked \subseteq DOMAIN asked' /\ IsSequence(tasks)
      BY <1>6, <1>8 DEF IsAside, IsFirst
    <3>2. Head(agenda).do = "bind" /\ Head(agenda).at = <<r, 1>> => <<r, 1>> \in DOMAIN asked'
      BY <1>3, <1>6
    <3>3. ~(Head(agenda).do = "require" /\ Head(agenda).query = r)
      BY <1>3
    <3> QED
      BY <1>3, <3>1, <3>2, <3>3, WillAskStep
  <2> QED
    BY <1>2, <1>12, <2>1, <2>2 DEF Discovers
<1>13. Head(agenda).do \in DiscoveryCalls /\ IsFirst(tasks)
  BY <1>3, <1>8 DEF DiscoveryCalls, IsAside
<1> QED
  BY <1>1, <1>2, <1>3, <1>7, <1>10, <1>11, <1>12, <1>13, DiscoverStep

\* Discovering a query binds its sources once, and asks for the columns of the
\* markers on its star after that.
LEMMA WithinDiscovers ==
    ASSUME NEW q \in DOMAIN program.query, IsProgram(program), NEW scope, NEW outer
    PROVE  LET tasks == Within(q, scope, outer) IN
           /\ IsFirst(tasks)
           /\ \A t \in ToSet(tasks) : t.do = "bind" => t.at[1] = q
           /\ \A met : (\A o \in met : o[1] # q) => BindsOnce(tasks, met)
           /\ q \in Stars => \A met : WillAsk(tasks, q, met)
<1> DEFINE node == program.query[q]
           tasks == Within(q, scope, outer)
           bodies == Bodies(q, scope, outer)
           Good(calls) == /\ IsFirst(calls)
                          /\ \A t \in ToSet(calls) : t.do = "bind" => t.at[1] = q
                          /\ \A met : (\A o \in met : o[1] # q) => BindsOnce(calls, met)
<1>1. \A calls : IsAside(calls) => Good(calls)
  BY NoBinds DEF IsAside, IsFirst
<1>2. IsSequence(node.with) /\ node.kind \in {"select", "setop", "paren"}
  BY TreeFacts
<1>3. Node(q) = node
  BY DEF Node
<1>4. ASSUME node.kind = "paren" PROVE Good(tasks) /\ q \notin Stars
  <2>1. tasks = <<>>
    BY <1>3, <1>4 DEF Within
  <2> QED
    BY <1>1, <1>3, <1>4, <2>1, FirstFew DEF Stars, Sole, IsSelect
<1>5. ASSUME node.kind = "setop" PROVE Good(tasks) /\ q \notin Stars
  <2>1. tasks = [i \in 1..2 |-> Discover(node.arms[i], scope)]
    BY <1>3, <1>5 DEF Within
  <2>2. IsSequence(tasks) /\ Len(tasks) = 2
    BY <2>1, Listed1
  <2>3. \A i \in 1..2 : tasks[i].do = "discover"
    BY <2>1 DEF Discover
  <2> HIDE DEF tasks
  <2>4. IsAside(tasks)
    <3>1. \A t \in ToSet(tasks) : \E i \in 1..2 : t = tasks[i]
      BY <2>2, SequenceFacts
    <3> QED
      BY <2>2, <2>3, <3>1 DEF IsAside, IsFirst, DiscoveryCalls
  <2> QED
    BY <1>1, <1>3, <1>5, <2>4 DEF Stars, Sole, IsSelect
<1>6. ASSUME node.kind = "select" PROVE Good(tasks) /\ (q \in Stars => \A met : WillAsk(tasks, q, met))
  <2> DEFINE binds == [i \in DOMAIN node.sources |-> Bind(q, i)]
             marks == [i \in DOMAIN node.markers |-> Mark("target", q, node.markers[i])]
             wheres == [i \in DOMAIN node.where |-> Discover(node.where[i].body, scope)]
             first == binds \o <<Require(q)>>
  <2>1. tasks = first \o marks \o wheres \o bodies
    BY <1>3, <1>6 DEF Within
  <2>2. IsSequence(node.sources) /\ IsSequence(node.markers) /\ IsSequence(node.where)
    BY <1>6, TreeFacts
  <2>3. IsAside(marks)
    <3>1. \A i \in DOMAIN node.markers : marks[i].do \in DiscoveryCalls \ {"bind", "require"}
      BY DEF Mark, DiscoveryCalls
    <3>2. marks = [i \in DOMAIN node.markers |-> marks[i]]
      OBVIOUS
    <3> HIDE DEF marks
    <3> QED
      BY <2>2, <3>1, <3>2, FirstEach
  <2>4. IsAside(wheres)
    <3>1. \A i \in DOMAIN node.where : wheres[i].do \in DiscoveryCalls \ {"bind", "require"}
      BY DEF Discover, DiscoveryCalls
    <3>2. wheres = [i \in DOMAIN node.where |-> wheres[i]]
      OBVIOUS
    <3> HIDE DEF wheres
    <3> QED
      BY <2>2, <3>1, <3>2, FirstEach
  <2>5. IsAside(bodies)
    <3>1. bodies = [i \in DOMAIN node.with |-> Discover(node.with[i].body, scope)]
      BY <1>3 DEF Bodies
    <3> HIDE DEF bodies
    <3>2. \A i \in DOMAIN node.with : bodies[i].do \in DiscoveryCalls \ {"bind", "require"}
      BY <3>1 DEF Discover, DiscoveryCalls
    <3>3. bodies = [i \in DOMAIN node.with |-> bodies[i]]
      BY <3>1
    <3> QED
      BY <1>2, <3>2, <3>3, FirstEach
  <2>6. IsFirst(binds) /\ Len(binds) = Len(node.sources) /\ DOMAIN binds = DOMAIN node.sources
        /\ \A t \in ToSet(binds) : t.do = "bind" => t.at[1] = q
    <3>1. \A i \in DOMAIN node.sources : binds[i].do \in DiscoveryCalls /\ binds[i].at[1] = q
      BY DEF Bind, DiscoveryCalls
    <3>2. binds = [i \in DOMAIN node.sources |-> binds[i]]
      OBVIOUS
    <3>3. DOMAIN binds = DOMAIN node.sources
      OBVIOUS
    <3> HIDE DEF binds
    <3>4. IsSequence(binds) /\ Len(binds) = Len(node.sources) /\ IsFirst(binds)
      BY <2>2, <3>1, <3>2, EachFacts, FirstEach
    <3> QED
      BY <3>1, <3>3, <3>4, SequenceFacts
  <2>7. \A met : (\A o \in met : o[1] # q) => BindsOnce(binds, met)
    BY DEF Bind, BindsOnce
  <2>8. IsFirst(<<Require(q)>>) /\ \A t \in ToSet(<<Require(q)>>) : t.do = "require"
    <3>1. Require(q).do = "require" /\ Require(q).do \in DiscoveryCalls
      BY DEF Require, DiscoveryCalls
    <3> QED
      BY <3>1, OneFacts, FirstFew
  <2>9. ASSUME q \in Stars, NEW met PROVE WillAsk(first, q, met)
    <3>1. Len(node.sources) = 1
      BY <1>3, <2>9 DEF Stars, Sole
    <3>2. IsSequence(binds) /\ IsSequence(<<Require(q)>>)
      BY <2>6, <2>8 DEF IsFirst
    <3>3. binds[1] = Bind(q, 1)
      BY <2>2, <3>1, SequenceFacts
    <3> HIDE DEF binds
    <3>4. DOMAIN first = 1..2 /\ first[1] = binds[1] /\ first[1 + 1] = <<Require(q)>>[1]
      <4>1. Len(<<Require(q)>>) = 1 /\ Len(binds) = 1 /\ 1 \in 1..1
        BY <2>6, <3>1
      <4>2. /\ DOMAIN first = 1..(Len(binds) + Len(<<Require(q)>>))
            /\ \A i \in 1..Len(binds) : first[i] = binds[i]
            /\ \A i \in 1..Len(<<Require(q)>>) : first[Len(binds) + i] = <<Require(q)>>[i]
        BY <3>2, ConcatPlaces
      <4> HIDE DEF first
      <4> QED
        BY <4>1, <4>2
    <3> HIDE DEF first
    <3>5. first[2] = Require(q) /\ 1 \in DOMAIN first /\ 2 \in DOMAIN first
      BY <3>4
    <3> QED
      BY <3>3, <3>4, <3>5 DEF WillAsk, Bind, Require
  <2> HIDE DEF binds, marks, wheres, bodies
  <2>10. /\ IsFirst(first) /\ (\A t \in ToSet(first) : t.do = "bind" => t.at[1] = q)
         /\ \A met : (\A o \in met : o[1] # q) => BindsOnce(first, met)
    BY <2>6, <2>7, <2>8, FirstFew, ConcatFacts, MoreBinds DEF IsFirst
  <2> HIDE DEF first
  <2>11. ASSUME NEW calls, Good(calls), NEW others, IsAside(others)
         PROVE  Good(calls \o others) /\ \A met : WillAsk(calls, q, met) => WillAsk(calls \o others, q, met)
    <3>1. IsSequence(calls) /\ IsSequence(others) /\ IsFirst(others) /\ \A t \in ToSet(others) : t.do # "bind"
      BY <2>11 DEF IsAside, IsFirst
    <3>2. IsFirst(calls \o others)
      BY <2>11, <3>1, FirstFew
    <3>3. \A t \in ToSet(calls \o others) : t.do = "bind" => t.at[1] = q
      BY <2>11, <3>1, ConcatFacts
    <3>4. \A met : (\A o \in met : o[1] # q) => BindsOnce(calls \o others, met)
      BY <2>11, <3>1, MoreBinds
    <3> QED
      BY <3>1, <3>2, <3>3, <3>4, MoreAsked
  <2>12. Good(first \o marks) /\ (q \in Stars => \A met : WillAsk(first \o marks, q, met))
    BY <2>3, <2>9, <2>10, <2>11
  <2>13. Good(first \o marks \o wheres) /\ (q \in Stars => \A met : WillAsk(first \o marks \o wheres, q, met))
    BY <2>4, <2>11, <2>12
  <2> QED
    BY <2>1, <2>5, <2>11, <2>13
<1> QED
  BY <1>2, <1>4, <1>5, <1>6

LEMMA QueryDiscovers == IInv /\ RelationsSourced /\ AskedKnown /\ Discovers /\ DiscoverQuery => AskedKnown' /\ Discovers'
<1> SUFFICES ASSUME IInv, RelationsSourced, AskedKnown, Discovers, DiscoverQuery PROVE AskedKnown' /\ Discovers'
  OBVIOUS
<1> DEFINE q == Task.query
           ctes == [i \in DOMAIN Node(q).with |-> Cte(Node(q).with[i])]
           scope == Visible(Node(q).with, Task.scope)
           tasks == Within(q, scope, Task.scope)
<1>1. Reported
  BY PreparingFacts DEF Preparing
<1>2. Doing("discover") /\ UNCHANGED <<program, global, bound, asked, callers, named, results>>
  BY DEF DiscoverQuery, linking
<1>3. agenda # <<>> /\ Head(agenda).do = "discover" /\ DeclaredNamed /\ IsSequence(agenda)
  BY <1>2, FirstTask DEF DiscoveryCalls
<1>4. q \in DOMAIN program.query /\ IsProgram(program)
  BY <1>2, DiscoverCall DEF IInv
<1>5. CASE q \in DOMAIN scopes
  <2>1. UNCHANGED <<scopes, symbols, required>> /\ agenda' = <<>> \o Tail(agenda)
    BY <1>5 DEF DiscoverQuery, Then
  <2>2. DeclaredNamed' /\ \A s \in DOMAIN required : s \in DOMAIN required' /\ required[s] \subseteq required'[s]
    BY <1>2, <1>3, <2>1 DEF DeclaredNamed
  <2>3. Head(agenda).do \in DiscoveryCalls \ {"bind", "require"} /\ IsAside(<<>>)
    BY <1>3, FirstFew DEF DiscoveryCalls
  <2> QED
    BY <1>1, <1>2, <1>3, <2>1, <2>2, <2>3, AsideStep
<1>6. CASE q \notin DOMAIN scopes
  <2>1. /\ scopes' = With(scopes, q, scope) /\ symbols' = symbols \o ctes
        /\ required' = [s \in DOMAIN required \cup ToSet(ctes) |-> IF s \in DOMAIN required THEN required[s] ELSE {}]
        /\ agenda' = tasks \o Tail(agenda)
    BY <1>6 DEF DiscoverQuery, Then
  <2>2. /\ IsFirst(tasks) /\ \A t \in ToSet(tasks) : t.do = "bind" => t.at[1] = q
        /\ \A met : (\A o \in met : o[1] # q) => BindsOnce(tasks, met)
        /\ q \in Stars => \A met : WillAsk(tasks, q, met)
    BY <1>4, WithinDiscovers
  <2>3. IsSequence(symbols) /\ IsSequence(ctes) /\ ToSet(ctes) = {ctes[i] : i \in 1..Len(Node(q).with)} /\ DOMAIN Node(q).with = 1..Len(Node(q).with)
    <3>1. IsSequence(Node(q).with)
      BY <1>4, TreeFacts DEF Node
    <3>2. ctes = [i \in DOMAIN Node(q).with |-> ctes[i]]
      OBVIOUS
    <3> HIDE DEF ctes
    <3> QED
      BY <3>1, <3>2, EachFacts, SequenceFacts DEF IInv, NamesKnown
  <2>4. \A s \in ToSet(ctes) : ~s.declared
    BY <2>3 DEF Cte, Symbol
  <2> HIDE DEF ctes, scope, tasks
  <2>5. DeclaredNamed'
    <3>1. ToSet(symbols') = ToSet(symbols) \cup ToSet(ctes)
      BY <2>1, <2>3, ConcatFacts
    <3> QED
      BY <1>2, <1>3, <2>4, <3>1 DEF DeclaredNamed
  <2>6. \A s \in DOMAIN required : s \in DOMAIN required' /\ required'[s] = required[s]
    BY <2>1
  <2>7. DOMAIN scopes' = DOMAIN scopes \cup {q}
    BY <2>1 DEF With
  <2>8. AskedKnown'
    <3>1. \A o : Source(o)' = Source(o)
      BY <1>2 DEF Source, Node
    <3>2. \A o \in DOMAIN bound : bound[o] \in DOMAIN required
      BY DEF IInv, NamesKnown
    <3> QED
      BY <1>2, <2>6, <2>7, <3>1, <3>2 DEF AskedKnown
  <2>9. BindsOnce(agenda, DOMAIN asked)'
    <3>1. \A o \in DOMAIN asked : o[1] # q
      BY <1>6 DEF AskedKnown
    <3>2. BindsOnce(tasks, DOMAIN asked)
      BY <2>2, <3>1
    <3>3. \A t \in ToSet(Tail(agenda)), u \in ToSet(tasks) : t.do = "bind" /\ u.do = "bind" => t.at # u.at
      <4>1. \A t \in ToSet(Tail(agenda)) : t \in ToSet(agenda)
        BY <1>3, TailFacts
      <4>2. \A t \in ToSet(agenda) : t.do = "bind" => t.at[1] \in DOMAIN scopes
        BY DEF IInv, CallsKnown, KnownCalls, KnownCall
      <4> QED
        BY <1>6, <2>2, <4>1, <4>2
    <3>4. BindsOnce(agenda, DOMAIN asked)
      BY DEF Discovers
    <3>5. BindsOnce(tasks \o Tail(agenda), DOMAIN asked)
      BY <1>3, <2>2, <3>2, <3>3, <3>4, BindsStep DEF IsFirst
    <3> QED
      BY <1>2, <2>1, <3>5
  <2>10. ASSUME NEW r \in Stars \cap DOMAIN scopes'
         PROVE  (IsAsked(r) \/ WillAsk(agenda, r, DOMAIN asked))'
    <3>1. CASE r = q
      <4>1. WillAsk(tasks, q, DOMAIN asked)
        BY <2>2, <2>10, <3>1
      <4>2. WillAsk(tasks \o Tail(agenda), q, DOMAIN asked)
        BY <1>3, <2>2, <4>1, MoreAsked, TailFacts DEF IsFirst
      <4>3. WillAsk(agenda', r, DOMAIN asked')
        BY <1>2, <2>1, <3>1, <4>2
      <4> QED
        BY <4>3
    <3>2. CASE r # q
      <4>1. IsAsked(r) => IsAsked(r)'
        BY <1>2, StillAsked
      <4>2. WillAsk(agenda, r, DOMAIN asked) => WillAsk(tasks \o Tail(agenda), r, DOMAIN asked)
        BY <1>3, <2>2, WillAskStep DEF IsFirst
      <4> QED
        BY <1>2, <2>1, <2>7, <2>10, <3>2, <4>1, <4>2 DEF Discovers
    <3> QED
      BY <3>1, <3>2
  <2>11. Head(agenda).do \in DiscoveryCalls
    BY <1>3 DEF DiscoveryCalls
  <2> QED
    BY <1>1, <1>2, <1>3, <2>1, <2>2, <2>5, <2>8, <2>9, <2>10, <2>11, DiscoverStep
<1> QED
  BY <1>5, <1>6

-----------------------------------------------------------------------------
(* From discovery to lowering.                                              *)

Grouping(r, s, t) == r \o (s \o t) = (r \o s) \o t

LEMMA GroupingFacts ==
    ASSUME NEW r, NEW s, NEW t, IsSequence(r), IsSequence(s), IsSequence(t)
    PROVE  Grouping(r, s, t)
BY Associative DEF Grouping

Regroups(a, b, c, d, e, f) ==
    ((a \o (b \o c)) \o d) \o (e \o f) = (a \o b) \o (c \o ((d \o e) \o f))

LEMMA Regrouped ==
    ASSUME NEW a, NEW b, NEW c, NEW d, NEW e, NEW f, IsSequence(a), IsSequence(b), IsSequence(c),
           IsSequence(d), IsSequence(e), IsSequence(f)
    PROVE  Regroups(a, b, c, d, e, f)
<1>1. a \o (b \o c) = (a \o b) \o c
  BY Associative
<1> DEFINE ab == a \o b
           cd == c \o d
           ef == e \o f
           de == d \o e
<1>2. IsSequence(ab) /\ IsSequence(cd) /\ IsSequence(ef) /\ IsSequence(de)
  BY ConcatFacts
<1> HIDE DEF ab, cd, ef, de
<1>3. d \o ef = de \o f
  <2>1. d \o (e \o f) = (d \o e) \o f
    BY Associative
  <2> QED
    BY <2>1 DEF ef, de
<1>g. Grouping(c, d, ef) /\ Grouping(ab, c, d) /\ Grouping(ab, cd, ef)
  BY <1>2, GroupingFacts
<1>4. c \o (d \o ef) = cd \o ef
  BY <1>g DEF Grouping, cd
<1>5. ab \o cd = (ab \o c) \o d
  BY <1>g DEF Grouping, cd
<1>6. ab \o (cd \o ef) = (ab \o cd) \o ef
  BY <1>g DEF Grouping
<1>7. (a \o b) \o c = ab \o c
  BY DEF ab
<1>8. ((ab \o c) \o d) \o ef = ab \o (c \o (de \o f))
  BY <1>3, <1>4, <1>5, <1>6
<1> QED
  BY <1>1, <1>7, <1>8 DEF ab, ef, de, Regroups

\* A call that is made before all others is not one of discovery, if it is made
\* after those.
LEMMA AfterwardsFacts ==
    /\ IsSequence(Afterwards(program))
    /\ \A t \in ToSet(Afterwards(program)) : t.do \in {"lower", "links", "references", "place", "report", "settle"}
<1>1. IsSequence(Rooted(program)) /\ \A t \in ToSet(Rooted(program)) : t.do = "lower"
  BY EmptyFacts, OneFacts DEF Rooted, Lower
<1>2. IsSequence(<<Call("links")>>) /\ \A t \in ToSet(<<Call("links")>>) : t.do = "links"
  BY OneFacts DEF Call
<1> DEFINE r == Rooted(program)
           l == <<Call("links")>>
<1> HIDE DEF r, l
<1>3. IsSequence(r \o l) /\ ToSet(r \o l) = ToSet(r) \cup ToSet(l)
  BY <1>1, <1>2, ConcatFacts DEF r, l
<1>4. IsSequence((r \o l) \o Closing) /\ ToSet((r \o l) \o Closing) = ToSet(r) \cup ToSet(l) \cup ToSet(Closing)
  BY <1>3, ConcatFacts, ClosingFacts
<1> QED
  BY <1>1, <1>2, <1>4, ClosingFacts DEF Afterwards, r, l

LEMMA InitDiscovers == Init => AskedKnown /\ Discovers
<1> SUFFICES ASSUME Init PROVE AskedKnown /\ Discovers
  OBVIOUS
<1>1. IsProgram(program)
  BY ProgramsAssumption DEF Init
<1> DEFINE declare == [i \in DOMAIN program.statements |-> [do |-> "declare", statement |-> program.statements[i]]]
           found == IF program.root = NoQuery THEN <<>> ELSE <<Discover(program.root, NoEntry)>>
           middle == <<Call("constraints"), Call("propagate")>>
           last == <<Call("links"), Call("references"), Call("place"), Call("report"), Call("settle")>>
           opening == declare \o <<Call("views")>> \o found
           first == opening \o <<Call("constraints")>>
<1>2. IsAside(declare)
  <2>1. IsSequence(program.statements)
    BY <1>1, StatementFacts
  <2>2. \A i \in DOMAIN program.statements : declare[i].do \in DiscoveryCalls \ {"bind", "require"}
    BY DEF DiscoveryCalls
  <2>3. declare = [i \in DOMAIN program.statements |-> declare[i]]
    OBVIOUS
  <2> HIDE DEF declare
  <2> QED
    BY <2>1, <2>2, <2>3, FirstEach
<1>3. IsAside(<<Call("views")>>) /\ IsAside(<<Call("constraints")>>)
  <2>1. Call("views").do \in DiscoveryCalls \ {"bind", "require"} /\ Call("constraints").do \in DiscoveryCalls \ {"bind", "require"}
    BY DEF Call, DiscoveryCalls
  <2> QED
    BY <2>1, FirstFew
<1>4. IsAside(found)
  <2>1. Discover(program.root, NoEntry).do \in DiscoveryCalls \ {"bind", "require"}
    BY DEF Discover, DiscoveryCalls
  <2> QED
    BY <2>1, FirstFew
<1>5. agenda = ((opening \o middle) \o Rooted(program)) \o last
  BY DEF Init, Rooted
<1>6. middle = <<Call("constraints")>> \o <<Call("propagate")>> /\ last = <<Call("links")>> \o Closing
  BY DEF Closing
<1> HIDE DEF declare, found, middle, last
<1>7. IsAside(opening)
  BY <1>2, <1>3, <1>4, FirstFew
<1> HIDE DEF opening
<1>8. IsAside(first)
  BY <1>3, <1>7, FirstFew
<1>9. agenda = first \o (<<Call("propagate")>> \o Afterwards(program))
  <2>1. /\ IsSequence(opening) /\ IsSequence(<<Call("constraints")>>) /\ IsSequence(<<Call("propagate")>>)
        /\ IsSequence(Rooted(program)) /\ IsSequence(<<Call("links")>>) /\ IsSequence(Closing)
    BY <1>7, EmptyFacts, OneFacts, ClosingFacts DEF IsAside, IsFirst, Rooted
  <2> DEFINE c1 == <<Call("constraints")>>
             p1 == <<Call("propagate")>>
             l1 == <<Call("links")>>
             r1 == Rooted(program)
             o1 == Closing
  <2> HIDE DEF c1, p1, l1, r1, o1
  <2>2. Regroups(opening, c1, p1, r1, l1, o1)
    BY <2>1, Regrouped DEF c1, p1, l1, r1, o1
  <2>3. agenda = ((opening \o (c1 \o p1)) \o r1) \o (l1 \o o1)
    BY <1>5, <1>6 DEF c1, p1, l1, r1, o1
  <2> QED
    BY <2>2, <2>3 DEF Regroups, Afterwards, c1, p1, l1, r1, o1
<1> HIDE DEF first
<1>10. IsDiscovering(agenda)
  BY <1>8, <1>9 DEF IsDiscovering, IsAside, IsFirst
<1>11. BindsOnce(agenda, DOMAIN asked)
  <2>1. IsSequence(<<Call("propagate")>>) /\ \A t \in ToSet(<<Call("propagate")>>) : t.do = "propagate"
    BY OneFacts DEF Call
  <2>2. /\ IsSequence(<<Call("propagate")>> \o Afterwards(program))
        /\ \A t \in ToSet(<<Call("propagate")>> \o Afterwards(program)) : t.do # "bind"
    BY <2>1, AfterwardsFacts, ConcatFacts
  <2>3. IsSequence(agenda) /\ \A t \in ToSet(agenda) : t.do # "bind"
    BY <1>8, <1>9, <2>2, ConcatFacts DEF IsAside, IsFirst
  <2> QED
    BY <2>3, NoBinds
<1>12. /\ DOMAIN asked = {} /\ DOMAIN bound = {} /\ DOMAIN scopes = {} /\ DOMAIN results = {} /\ callers = <<>>
       /\ named = <<>> /\ diagnostics = {} /\ ToSet(symbols) = {}
  BY EmptyFacts DEF Init, NoEntry
<1> QED
  BY <1>10, <1>11, <1>12 DEF AskedKnown, Discovers, DeclaredNamed, Silent

\* The next call is one of discovery, or propagation, before what comes after.
LEMMA DiscoveringTask ==
    ASSUME IsDiscovering(agenda)
    PROVE  /\ agenda # <<>> /\ IsSequence(agenda)
           /\ \/ Head(agenda).do \in DiscoveryCalls
              \/ Head(agenda).do = "propagate" /\ Tail(agenda) = Afterwards(program)
<1> DEFINE rest == <<Call("propagate")>> \o Afterwards(program)
<1>1. PICK first : IsFirst(first) /\ agenda = first \o rest
  BY DEF IsDiscovering, IsFirst
<1>2. IsSequence(rest) /\ rest # <<>> /\ Head(rest).do = "propagate" /\ Tail(rest) = Afterwards(program)
  <2> DEFINE one == <<Call("propagate")>>
             after == Afterwards(program)
  <2>1. IsSequence(one) /\ one # <<>> /\ Head(one).do = "propagate" /\ Tail(one) = <<>>
    BY OneFacts DEF Call
  <2>2. IsSequence(after)
    BY AfterwardsFacts
  <2> HIDE DEF one, after
  <2>3. one \o after # <<>> /\ Head(one \o after) = Head(one) /\ Tail(one \o after) = Tail(one) \o after
    BY <2>1, <2>2, FirstFacts
  <2>4. <<>> \o after = after
    BY <2>2, EmptyFacts, FirstFacts
  <2> QED
    BY <2>1, <2>2, <2>3, <2>4, ConcatFacts DEF one, after
<1> HIDE DEF rest
<1>3. IsSequence(first) /\ IsSequence(agenda)
  BY <1>1, <1>2, ConcatFacts DEF IsFirst
<1>4. CASE first = <<>>
  BY <1>1, <1>2, <1>3, <1>4, FirstFacts
<1>5. CASE first # <<>>
  <2>1. agenda # <<>> /\ Head(agenda) = Head(first) /\ Head(first) \in ToSet(first)
    BY <1>1, <1>2, <1>3, <1>5, FirstFacts, TailFacts
  <2> QED
    BY <1>1, <1>3, <2>1 DEF IsFirst
<1> QED
  BY <1>4, <1>5

-----------------------------------------------------------------------------
(* Propagation.                                                             *)

\* What lowering does not change.
Known == UNCHANGED <<program, symbols, scopes, bound, asked, required>>

LEMMA StillKnown ==
    ASSUME Known
    PROVE  /\ \A q : Node(q)' = Node(q) /\ Sole(q)' = Sole(q) /\ IsAsked(q)' = IsAsked(q)
           /\ \A o : Source(o)' = Source(o) /\ IsTable(o)' = IsTable(o)
           /\ Stars' = Stars /\ Unasked' = Unasked /\ StarPairs' = StarPairs
<1>1. \A q : Node(q)' = Node(q)
  BY DEF Known, Node
<1>2. \A o : Source(o)' = Source(o)
  BY <1>1 DEF Known, Source
<1>3. \A q : IsSelect(q)' = IsSelect(q)
  BY <1>1 DEF IsSelect
<1>4. \A q : Sole(q)' = Sole(q)
  BY <1>1, <1>3 DEF Sole
<1>5. \A q : MarkedColumns(q)' = MarkedColumns(q)
  BY <1>1 DEF MarkedColumns
<1>6. \A q : IsAsked(q)' = IsAsked(q)
  BY <1>5 DEF Known, IsAsked
<1>7. \A o : IsTable(o)' = IsTable(o)
  BY <1>2 DEF Known, IsTable
<1>8. Stars' = Stars
  BY <1>4 DEF Known, Stars
<1>9. StarPairs' = StarPairs
  BY <1>2, <1>4 DEF Known, StarPairs
<1>10. Flows' = Flows
  <2>1. BodyFlows' = BodyFlows
    BY DEF Known, BodyFlows
  <2>2. SubqueryFlows' = SubqueryFlows
    BY <1>2 DEF Known, SubqueryFlows
  <2> QED
    BY <1>4, <2>1, <2>2 DEF Flows
<1>11. Unasked' = Unasked
  BY <1>10 DEF Known, Unasked
<1> QED
  BY <1>1, <1>2, <1>4, <1>6, <1>7, <1>8, <1>9, <1>11

LEMMA StillLeads ==
    ASSUME Known
    PROVE  /\ \A o : LeadsToTable(o)' = LeadsToTable(o)
           /\ \A s : Holds(s)' = Holds(s)
           /\ AskedKnown' = AskedKnown
<1>1. \A o : LeadsToTable(o)' = LeadsToTable(o)
  BY StillKnown DEF LeadsToTable
<1>2. \A s : Holds(s)' = Holds(s)
  BY <1>1, StillKnown DEF Holds
<1>3. AskedKnown' = AskedKnown
  BY StillKnown DEF AskedKnown, Known
<1> QED
  BY <1>1, <1>2, <1>3

\* The markers on a star.
LEMMA StarMarkers ==
    ASSUME IsProgram(program), NEW q \in Stars, NEW m \in ToSet(Ids(Node(q).markers))
    PROVE  m \in MarkersIn(program) /\ q \in Holders(program, m)
<1>1. q \in Selects(program) /\ program.query[q].kind = "select" /\ q \in DOMAIN program.query
  BY DEF Stars, Sole, IsSelect, Node, Selects
<1>2. q \in Holders(program, m)
  BY <1>1 DEF Holders, Node
<1>3. m # NoMarker
  BY <1>1 DEF IsProgram, Node
<1>4. PICK i \in DOMAIN program.query[q].markers : m = program.query[q].markers[i].id
  BY DEF ToSet, Ids, Node
<1> DEFINE a == Len(program.query[q].sources)
           b == Len(program.query[q].markers)
<1>5. /\ a \in Nat /\ b \in Nat /\ DOMAIN program.query[q].markers = 1..b
      /\ DOMAIN MarkersOn(program.query[q]) = 1..(a + b)
      /\ \A j \in 1..b : MarkersOn(program.query[q])[a + j] = program.query[q].markers[j].id
  BY <1>1, MarkerFacts
<1> HIDE DEF a, b
<1>6. a + i \in DOMAIN MarkersOn(program.query[q]) /\ MarkersOn(program.query[q])[a + i] = m
  BY <1>4, <1>5
<1> QED
  BY <1>1, <1>2, <1>3, <1>6, OnePlace

\* Propagation asks for more, or lowering begins.
LEMMA PropagateStep ==
    ASSUME IInv, RelationsSourced, AskedKnown, Discovers, Propagate
    PROVE  crashed' \/ (AskedKnown' /\ (Discovers' \/ Lowering'))
<1>1. Doing("propagate") /\ UNCHANGED <<program, binding, results, linking, diagnostics>>
  BY DEF Propagate
<1>2. UNCHANGED <<symbols, global, scopes, bound, callers, named>>
  BY <1>1 DEF binding, linking
<1>3. /\ IsDiscovering(agenda) /\ callers = <<>> /\ named = <<>> /\ DOMAIN results = {}
      /\ \A q \in Stars \cap DOMAIN scopes : IsAsked(q) \/ WillAsk(agenda, q, DOMAIN asked)
      /\ \A m \in MarkersIn(program) : Silent(m)
  BY DEF Discovers
<1>4. agenda # <<>> /\ IsSequence(agenda) /\ Head(agenda).do = "propagate" /\ Tail(agenda) = Afterwards(program)
  <2>1. Head(agenda).do = "propagate"
    BY <1>1 DEF Doing, Task
  <2> QED
    BY <1>3, <2>1, DiscoveringTask DEF DiscoveryCalls
<1>5. ASSUME NEW flow \in Unasked, Ask({flow}), agenda' = agenda
      PROVE  AskedKnown' /\ Discovers'
  <2>1. /\ AskedKnown'
        /\ DOMAIN asked' = DOMAIN asked /\ \A o \in DOMAIN asked : asked[o] \subseteq asked'[o]
    BY <1>1, <1>2, <1>5, AskFacts
  <2>2. Stars' = Stars /\ MarkersIn(program)' = MarkersIn(program)
    BY <1>1 DEF Stars, Sole, IsSelect, Node
  <2>3. ASSUME NEW q \in Stars \cap DOMAIN scopes
        PROVE  (IsAsked(q) \/ WillAsk(agenda, q, DOMAIN asked))'
    <3>1. IsAsked(q) => IsAsked(q)'
      BY <1>1, <2>1, StillAsked
    <3> QED
      BY <1>3, <1>5, <2>1, <3>1
  <2>4. BindsOnce(agenda, DOMAIN asked)' /\ DeclaredNamed'
    BY <1>2, <1>5, <2>1 DEF Discovers, DeclaredNamed
  <2>5. IsDiscovering(agenda)'
    BY <1>1, <1>3, <1>5 DEF IsDiscovering
  <2>6. \A m \in MarkersIn(program) : Silent(m)'
    BY <1>1, <1>3 DEF Silent
  <2>7. callers' = <<>> /\ named' = <<>> /\ DOMAIN results' = {}
    BY <1>1, <1>2, <1>3
  <2> QED
    BY <1>2, <2>1, <2>2, <2>3, <2>4, <2>5, <2>6, <2>7 DEF Discovers
<1>6. ASSUME Unasked = {}, agenda' = <<>> \o Tail(agenda), UNCHANGED asking
      PROVE  AskedKnown' /\ Lowering'
  <2>1. Known
    BY <1>1, <1>2, <1>6 DEF Known, asking
  <2>2. agenda' = Afterwards(program)
    BY <1>4, <1>6, AfterwardsFacts, EmptyFacts, FirstFacts
  <2>3. \A t \in ToSet(agenda') : t.do \in {"lower", "links", "references", "place", "report", "settle"}
    BY <2>2, AfterwardsFacts
  <2>4. \A i \in DOMAIN agenda' : agenda'[i] \in ToSet(agenda')
    BY <2>2, AfterwardsFacts, SequenceFacts
  <2>5. InTurn(agenda, Served(Len(callers)))'
    BY <2>3, <2>4 DEF InTurn
  <2>6. \A t \in ToSet(agenda') : IsLate(t)'
    BY <2>3 DEF IsLate, DiscoveryCalls
  <2>7. \A i : i \notin DOMAIN callers'
    BY <1>2, <1>3, EmptyFacts
  <2>8. ToSet(named') = {} /\ DOMAIN results' = {}
    BY <1>1, <1>2, <1>3, EmptyFacts
  <2>9. \A q \in Stars \cap DOMAIN scopes : IsAsked(q)
    <3>1. ASSUME NEW q PROVE ~WillAsk(agenda, q, DOMAIN asked)
      <4>1. \A t \in ToSet(agenda) : t.do # "require"
        <5>1. ToSet(agenda) \subseteq {Head(agenda)} \cup ToSet(Tail(agenda))
          <6>1. agenda \in Seq(ToSet(agenda))
            BY <1>4 DEF IsSequence
          <6>2. \A i \in DOMAIN agenda : agenda[i] = Head(agenda) \/ agenda[i] \in ToSet(Tail(agenda))
            <7> TAKE i \in DOMAIN agenda
            <7>1. CASE i = 1
              BY <7>1
            <7>2. CASE i # 1
              <8>1. i - 1 \in 1..Len(Tail(agenda)) /\ Tail(agenda)[i - 1] = agenda[i]
                BY <1>4, <6>1, <7>2
              <8> QED
                BY <8>1, <1>4, TailFacts, SequenceFacts
            <7> QED
              BY <7>1, <7>2
          <6> QED
            BY <1>4, <6>2, SequenceFacts
        <5> QED
          BY <1>4, <5>1, AfterwardsFacts
      <4> QED
        BY <1>4, <4>1, SequenceFacts DEF WillAsk
    <3> QED
      BY <1>3, <3>1
  <2>10. MarkersHold'
    <3>1. \A m \in MarkersIn(program) : Silent(m)'
      BY <1>1, <1>3 DEF Silent
    <3>2. ASSUME NEW q \in Stars, NEW m \in ToSet(Ids(Node(q).markers)) PROVE Silent(m)'
      BY <3>1, <3>2, StarMarkers DEF IInv
    <3> QED
      BY <2>1, <3>2, StillKnown, StillLeads DEF MarkersHold, Known
  <2>11. BodiesDue' /\ ResultsHold' /\ OutputsHold'
    BY <2>7, <2>8 DEF BodiesDue, ResultsHold, OutputsHold
  <2>12. Unasked' = {} /\ \A q \in Stars' \cap DOMAIN scopes' : IsAsked(q)'
    BY <1>6, <2>1, <2>9, StillKnown DEF Known
  <2>13. LateCalls(agenda, Served(Len(callers)))'
    BY <2>5, <2>6 DEF LateCalls
  <2>14. \A i \in DOMAIN callers' : LateCalls(callers[i].rest, Served(i - 1))'
    BY <2>7
  <2> QED
    BY <2>1, <2>10, <2>11, <2>12, <2>13, <2>14, StillLeads DEF Lowering
<1> QED
  BY <1>5, <1>6 DEF Propagate, Then, Crash

-----------------------------------------------------------------------------
(* Lowering goes on.                                                        *)

\* What comes in the place of the next call serves what that one served, given
\* what is served then, and lowers what that one lowered.
Answers(tasks, more) ==
    /\ IsSequence(tasks) /\ InTurn(tasks, more) /\ \A t \in ToSet(tasks) : IsLate(t)'
    /\ \A q \in Stars : Serves(Head(agenda), q) => q \in more \/ \E a \in DOMAIN tasks : Serves(tasks[a], q)
    /\ \A q \in Stars : Lowers(Head(agenda), q) => q \in DOMAIN results' \/ \E t \in ToSet(tasks) : Lowers(t, q)

LEMMA StillLate ==
    ASSUME Known, DOMAIN results \subseteq DOMAIN results'
    PROVE  /\ \A t : IsLate(t) => IsLate(t)'
           /\ \A t, q : Serves(t, q)' = Serves(t, q)
           /\ \A calls, served, more : InTurn(calls, served) /\ served \subseteq more => InTurn(calls, more)'
<1>1. Stars' = Stars /\ \A q : Node(q)' = Node(q)
  BY StillKnown
<1>2. \A o : Source(o)' = Source(o)
  BY StillKnown
<1>3. \A t : IsLate(t) => IsLate(t)'
  <2>1. Selects(program)' = Selects(program)
    BY <1>1 DEF Known, Selects
  <2> QED
    BY <1>1, <2>1 DEF IsLate
<1>4. \A t, q : Serves(t, q)' = Serves(t, q)
  BY <1>1, <1>2 DEF Serves
<1>5. \A calls, served, more : InTurn(calls, served) /\ served \subseteq more => InTurn(calls, more)'
  BY <1>1, <1>4 DEF InTurn
<1> QED
  BY <1>3, <1>4, <1>5

LEMMA LateTurn ==
    ASSUME IInv, Lowering, Known, agenda # <<>>, DOMAIN results \subseteq DOMAIN results',
           NEW tasks, NEW more, Served(Len(callers)) \subseteq more, Answers(tasks, more)
    PROVE  /\ InTurn(tasks \o Tail(agenda), more)
           /\ \A t \in ToSet(tasks \o Tail(agenda)) : IsLate(t)'
           /\ \A q \in Stars : (\E t \in ToSet(agenda) : Lowers(t, q))
                => q \in DOMAIN results' \/ \E t \in ToSet(tasks \o Tail(agenda)) : Lowers(t, q)
<1>1. IsSequence(agenda) /\ IsSequence(tasks) /\ IsSequence(Tail(agenda))
  BY TailFacts DEF IInv, CallsKnown, KnownCalls, Answers
<1>2. InTurn(agenda, Served(Len(callers))) /\ \A t \in ToSet(agenda) : IsLate(t)
  BY DEF Lowering, LateCalls
<1>3. InTurn(tasks \o Tail(agenda), more)
  BY <1>1, <1>2, TurnStep DEF Answers
<1>4. ToSet(tasks \o Tail(agenda)) = ToSet(tasks) \cup ToSet(Tail(agenda)) /\ ToSet(Tail(agenda)) \subseteq ToSet(agenda)
  BY <1>1, ConcatFacts, TailFacts
<1>5. ToSet(agenda) \subseteq {Head(agenda)} \cup ToSet(Tail(agenda))
  <2>1. agenda \in Seq(ToSet(agenda))
    BY <1>1 DEF IsSequence
  <2>2. \A i \in DOMAIN agenda : agenda[i] = Head(agenda) \/ agenda[i] \in ToSet(Tail(agenda))
    <3> TAKE i \in DOMAIN agenda
    <3>1. CASE i = 1
      BY <3>1
    <3>2. CASE i # 1
      <4>1. i - 1 \in 1..Len(Tail(agenda)) /\ Tail(agenda)[i - 1] = agenda[i]
        BY <2>1, <3>2
      <4> QED
        BY <4>1, <1>1, SequenceFacts
    <3> QED
      BY <3>1, <3>2
  <2> QED
    BY <1>1, <2>2, SequenceFacts
<1>6. \A t \in ToSet(tasks \o Tail(agenda)) : IsLate(t)'
  BY <1>2, <1>4, StillLate DEF Answers
<1> QED
  BY <1>3, <1>4, <1>5, <1>6 DEF Answers

\* The next call is replaced by others.
LEMMA StayTurn ==
    ASSUME IInv, Lowering, Known, agenda # <<>>, DOMAIN results \subseteq DOMAIN results',
           NEW tasks, agenda' = tasks \o Tail(agenda), callers' = callers, NEW n, n = Len(callers),
           NEW more, more = Served(n)', Answers(tasks, more), \A i \in 0..n : Served(i) \subseteq Served(i)',
           ResultsHold', OutputsHold', MarkersHold'
    PROVE  Lowering'
<1>0. n \in Nat /\ DOMAIN callers = 1..n
  BY SequenceFacts DEF IInv, CallsKnown
<1>b. PICK rest : rest = tasks \o Tail(agenda)
  OBVIOUS
<1>1. Served(Len(callers)) \subseteq more
  BY <1>0
<1>2. /\ InTurn(rest, more) /\ \A t \in ToSet(rest) : IsLate(t)'
      /\ \A q \in Stars : (\E t \in ToSet(agenda) : Lowers(t, q))
                => q \in DOMAIN results' \/ \E t \in ToSet(rest) : Lowers(t, q)
  BY <1>1, <1>b, LateTurn
<1>3. agenda' = rest
  BY <1>b
<1>4. InTurn(rest, more)'
  BY <1>2, StillLate
<1>5. LateCalls(agenda, Served(Len(callers)))'
  BY <1>2, <1>3, <1>4 DEF LateCalls
<1>6. \A i \in DOMAIN callers' : LateCalls(callers[i].rest, Served(i - 1))'
  <2> SUFFICES ASSUME NEW i \in 1..n PROVE LateCalls(callers[i].rest, Served(i - 1))'
    BY <1>0
  <2>1. InTurn(callers[i].rest, Served(i - 1)) /\ \A t \in ToSet(callers[i].rest) : IsLate(t)
    BY <1>0 DEF Lowering, LateCalls
  <2>2. i - 1 \in 0..n
    BY <1>0
  <2>3. PICK then : then = callers[i].rest
    OBVIOUS
  <2>4. PICK served : served = Served(i - 1)'
    OBVIOUS
  <2>5. InTurn(then, served)'
    <3>1. InTurn(then, Served(i - 1)) /\ Served(i - 1) \subseteq served
      BY <2>1, <2>2, <2>3, <2>4
    <3> QED
      BY <3>1, StillLate
  <2>6. \A t \in ToSet(then) : IsLate(t)'
    BY <2>1, <2>3, StillLate
  <2> QED
    BY <2>3, <2>4, <2>5, <2>6 DEF LateCalls
<1>7. BodiesDue'
  <2>0. \A i \in DOMAIN callers' : callers'[i].symbol.role # "TABLE"
    BY DEF Lowering, BodiesDue
  <2> SUFFICES ASSUME NEW i \in 1..n, callers[i].symbol.body \in Stars, callers[i].symbol.body \notin DOMAIN results'
               PROVE  \E t \in ToSet(Inside(i)') : Lowers(t, callers[i].symbol.body)
    BY <1>0, <2>0, StillKnown DEF BodiesDue, Lowers
  <2>1. PICK t \in ToSet(Inside(i)) : Lowers(t, callers[i].symbol.body)
    BY <1>0 DEF Lowering, BodiesDue
  <2>2. CASE i = n
    <3>1. Inside(i) = agenda /\ Inside(i)' = agenda'
      BY <2>2 DEF Inside
    <3>2. \E u \in ToSet(rest) : Lowers(u, callers[i].symbol.body)
      BY <1>2, <2>1, <3>1
    <3> QED
      BY <1>3, <3>1, <3>2
  <2>3. CASE i # n
    <3>1. Inside(i)' = Inside(i)
      BY <2>3 DEF Inside
    <3> QED
      BY <2>1, <3>1
  <2> QED
    BY <2>2, <2>3
<1>8. Unasked' = {} /\ \A q \in Stars' \cap DOMAIN scopes' : IsAsked(q)'
  BY StillKnown DEF Known, Lowering
<1> QED
  BY <1>5, <1>6, <1>7, <1>8 DEF Lowering

\* The calls of a relation that is resolved come before the others.
LEMMA PushTurn ==
    ASSUME IInv, Lowering, Known, agenda # <<>>, DOMAIN results \subseteq DOMAIN results',
           NEW tasks, NEW s, s \in ToSet(symbols), s.role # "TABLE", callers' = Append(callers, [symbol |-> s, rest |-> tasks \o Tail(agenda)]),
           agenda' = IF s.body = NoQuery THEN <<>> ELSE <<Lower(s.body)>>, NEW n, n = Len(callers),
           NEW more, more = Served(n)', Answers(tasks, more), \A i \in 0..n : Served(i) \subseteq Served(i)',
           ResultsHold', OutputsHold', MarkersHold'
    PROVE  Lowering'
<1>0. n \in Nat /\ DOMAIN callers = 1..n /\ IsSequence(callers)
  BY SequenceFacts DEF IInv, CallsKnown
<1>b. PICK rest : rest = tasks \o Tail(agenda)
  OBVIOUS
<1>1. Served(Len(callers)) \subseteq more
  BY <1>0
<1>2. /\ InTurn(rest, more) /\ \A t \in ToSet(rest) : IsLate(t)'
      /\ \A q \in Stars : (\E t \in ToSet(agenda) : Lowers(t, q))
                => q \in DOMAIN results' \/ \E t \in ToSet(rest) : Lowers(t, q)
  BY <1>1, <1>b, LateTurn
<1>3. /\ DOMAIN callers' = 1..(n + 1) /\ Len(callers') = n + 1
      /\ \A i \in 1..n : callers'[i] = callers[i]
      /\ callers'[n + 1].symbol = s /\ callers'[n + 1].rest = rest
  <2>1. PICK top : top = [symbol |-> s, rest |-> tasks \o Tail(agenda)]
    OBVIOUS
  <2>2. callers' = Append(callers, top)
    BY <2>1
  <2>3. Len(callers') = n + 1 /\ DOMAIN callers' = 1..(n + 1) /\ callers'[n + 1] = top /\ \A i \in 1..n : callers'[i] = callers[i]
    BY <1>0, <2>2, AppendFacts
  <2> QED
    BY <1>b, <2>1, <2>3
<1>4. IsSequence(agenda') /\ \A t \in ToSet(agenda') : t.do = "lower"
  BY EmptyFacts, OneFacts DEF Lower
<1>5. LateCalls(agenda, Served(Len(callers)))'
  <2>1. \A i \in DOMAIN agenda' : agenda'[i] \in ToSet(agenda')
    BY <1>4, SequenceFacts
  <2>2. InTurn(agenda, Served(Len(callers)))'
    BY <1>4, <2>1 DEF InTurn
  <2>3. \A t \in ToSet(agenda') : IsLate(t)'
    BY <1>4 DEF IsLate, DiscoveryCalls
  <2> QED
    BY <2>2, <2>3 DEF LateCalls
<1>6. \A i \in DOMAIN callers' : LateCalls(callers[i].rest, Served(i - 1))'
  <2>1. ASSUME NEW i \in 1..n PROVE LateCalls(callers[i].rest, Served(i - 1))'
    <3>1. InTurn(callers[i].rest, Served(i - 1)) /\ \A t \in ToSet(callers[i].rest) : IsLate(t)
      BY <1>0 DEF Lowering, LateCalls
    <3>2. i - 1 \in 0..n
      BY <1>0
    <3>3. PICK then : then = callers[i].rest
      OBVIOUS
    <3>4. PICK served : served = Served(i - 1)'
      OBVIOUS
    <3>5. InTurn(then, served)'
      <4>1. InTurn(then, Served(i - 1)) /\ Served(i - 1) \subseteq served
        BY <3>1, <3>2, <3>3, <3>4
      <4> QED
        BY <4>1, StillLate
    <3>6. \A t \in ToSet(then) : IsLate(t)'
      BY <3>1, <3>3, StillLate
    <3> QED
      BY <1>3, <3>3, <3>4, <3>5, <3>6 DEF LateCalls
  <2>2. ASSUME NEW i, i = n + 1 PROVE LateCalls(callers[i].rest, Served(i - 1))'
    <3>1. i - 1 = n /\ callers'[i].rest = rest
      BY <1>0, <1>3, <2>2
    <3>2. InTurn(rest, more)'
      BY <1>2, StillLate
    <3> QED
      BY <1>2, <3>1, <3>2 DEF LateCalls
  <2>3. \A i \in 1..(n + 1) : i \in 1..n \/ i = n + 1
    BY <1>0
  <2> QED
    BY <1>3, <2>1, <2>2, <2>3
<1>7. BodiesDue'
  <2>0. \A i \in DOMAIN callers' : callers'[i].symbol.role # "TABLE"
    <3>1. \A i \in 1..n : callers[i].symbol.role # "TABLE"
      BY <1>0 DEF Lowering, BodiesDue
    <3>2. \A i \in DOMAIN callers' : i \in 1..n \/ i = n + 1
      BY <1>0, <1>3
    <3> QED
      BY <1>3, <3>1, <3>2
  <2> SUFFICES ASSUME NEW i \in 1..(n + 1), callers'[i].symbol.body \in Stars, callers'[i].symbol.body \notin DOMAIN results'
               PROVE  \E t \in ToSet(Inside(i)') : Lowers(t, callers'[i].symbol.body)
    BY <1>3, <2>0, StillKnown DEF BodiesDue, Lowers
  <2>1. CASE i = n + 1
    <3>1. Inside(i)' = agenda' /\ callers'[i].symbol = s
      BY <1>3, <2>1 DEF Inside
    <3>2. s.body # NoQuery
      BY <3>1, StatementFacts DEF Stars, IInv
    <3>3. Lower(s.body) \in ToSet(agenda')
      BY <3>2, OneFacts
    <3> QED
      BY <3>1, <3>3 DEF Lowers, Lower
  <2>2. CASE i = n
    <3>1. Inside(i) = agenda /\ Inside(i)' = rest /\ callers'[i].symbol = callers[i].symbol
      BY <1>0, <1>3, <2>2 DEF Inside
    <3>2. PICK t \in ToSet(agenda) : Lowers(t, callers[i].symbol.body)
      BY <1>0, <2>2, <3>1 DEF Lowering, BodiesDue
    <3> QED
      BY <1>2, <3>1, <3>2
  <2>3. CASE i \in 1..(n - 1)
    <3>1. i + 1 \in 1..n /\ i \in 1..n /\ i # n /\ i # n + 1
      BY <1>0, <2>3
    <3>2. Inside(i)' = Inside(i) /\ callers'[i].symbol = callers[i].symbol
      BY <1>0, <1>3, <3>1 DEF Inside
    <3> QED
      BY <1>0, <3>1, <3>2 DEF Lowering, BodiesDue
  <2> QED
    BY <1>0, <2>1, <2>2, <2>3
<1>8. Unasked' = {} /\ \A q \in Stars' \cap DOMAIN scopes' : IsAsked(q)'
  BY StillKnown DEF Known, Lowering
<1> QED
  BY <1>5, <1>6, <1>7, <1>8 DEF Lowering

\* The calls around a relation go on when it is named.
LEMMA PopTurn ==
    ASSUME IInv, Lowering, Known, agenda = <<>>, callers # <<>>, DOMAIN results \subseteq DOMAIN results',
           callers' = Front(callers), agenda' = Last(callers).rest, NEW n, n = Len(callers),
           \A i \in 0..(n - 1) : Served(i) \subseteq Served(i)',
           ResultsHold', OutputsHold', MarkersHold'
    PROVE  Lowering'
<1>0. n \in Nat \ {0} /\ DOMAIN callers = 1..n /\ IsSequence(callers)
  BY FrontFacts DEF IInv, CallsKnown
<1>3. /\ DOMAIN callers' = 1..(n - 1) /\ Len(callers') = n - 1
      /\ \A i \in 1..(n - 1) : callers'[i] = callers[i]
      /\ agenda' = callers[n].rest
  BY <1>0, FrontFacts
<1>4. ASSUME NEW i \in 1..n, NEW then, then = callers[i].rest
      PROVE  InTurn(then, Served(i - 1))' /\ \A t \in ToSet(then) : IsLate(t)'
  <2>1. InTurn(then, Served(i - 1)) /\ \A t \in ToSet(then) : IsLate(t)
    BY <1>0, <1>4 DEF Lowering, LateCalls
  <2>2. i - 1 \in 0..(n - 1)
    BY <1>0
  <2>3. PICK served : served = Served(i - 1)'
    OBVIOUS
  <2>4. InTurn(then, Served(i - 1)) /\ Served(i - 1) \subseteq served
    BY <2>1, <2>2, <2>3
  <2>5. InTurn(then, served)'
    BY <2>4, StillLate
  <2>6. \A t \in ToSet(then) : IsLate(t)'
    BY <2>1, StillLate
  <2> QED
    BY <2>3, <2>5, <2>6
<1>5. LateCalls(agenda, Served(Len(callers)))'
  <2>1. PICK then : then = callers[n].rest
    OBVIOUS
  <2>2. n \in 1..n /\ Len(callers') = n - 1 /\ agenda' = then
    BY <1>0, <1>3, <2>1
  <2>3. InTurn(then, Served(n - 1))' /\ \A t \in ToSet(then) : IsLate(t)'
    BY <1>4, <2>1, <2>2
  <2> QED
    BY <2>2, <2>3 DEF LateCalls
<1>6. \A i \in DOMAIN callers' : LateCalls(callers[i].rest, Served(i - 1))'
  <2> SUFFICES ASSUME NEW i \in 1..(n - 1) PROVE LateCalls(callers[i].rest, Served(i - 1))'
    BY <1>3
  <2>1. PICK then : then = callers[i].rest
    OBVIOUS
  <2>2. i \in 1..n /\ callers'[i].rest = then
    BY <1>0, <1>3, <2>1
  <2>3. InTurn(then, Served(i - 1))' /\ \A t \in ToSet(then) : IsLate(t)'
    BY <1>4, <2>1, <2>2
  <2> QED
    BY <2>2, <2>3 DEF LateCalls
<1>7. BodiesDue'
  <2>0. \A i \in DOMAIN callers' : callers'[i].symbol.role # "TABLE"
    <3>1. \A i \in 1..n : callers[i].symbol.role # "TABLE"
      BY <1>0 DEF Lowering, BodiesDue
    <3>2. \A i \in DOMAIN callers' : i \in 1..n
      BY <1>0, <1>3
    <3> QED
      BY <1>3, <3>1, <3>2
  <2> SUFFICES ASSUME NEW i \in 1..(n - 1), callers'[i].symbol.body \in Stars, callers'[i].symbol.body \notin DOMAIN results'
               PROVE  \E t \in ToSet(Inside(i)') : Lowers(t, callers'[i].symbol.body)
    BY <1>3, <2>0, StillKnown DEF BodiesDue, Lowers
  <2>1. i \in 1..n /\ callers'[i].symbol = callers[i].symbol /\ i + 1 \in 1..n /\ i # n
    BY <1>0, <1>3
  <2>2. Inside(i)' = Inside(i)
    <3>1. CASE i = n - 1
      BY <1>0, <1>3, <2>1, <3>1 DEF Inside
    <3>2. CASE i # n - 1
      <4>1. i + 1 \in 1..(n - 1)
        BY <1>0, <3>2
      <4> QED
        BY <1>3, <2>1, <3>2, <4>1 DEF Inside
    <3> QED
      BY <3>1, <3>2
  <2> QED
    BY <1>0, <2>1, <2>2 DEF Lowering, BodiesDue
<1>8. Unasked' = {} /\ \A q \in Stars' \cap DOMAIN scopes' : IsAsked(q)'
  BY StillKnown DEF Known, Lowering
<1> QED
  BY <1>5, <1>6, <1>7, <1>8 DEF Lowering

\* The steps of discovery, and those of lowering.
Discovery == DeclareStatement \/ Listing \/ DiscoverQuery \/ BindSource \/ RequireColumns \/ FindTarget
             \/ DiscoverReference \/ Propagate
Later == LowerQuery \/ ReadSource \/ FilterRows \/ ResolveSymbol \/ NameRelation \/ AssertJoin \/ FinishQuery
         \/ RegisterMarker \/ LinkConstraints \/ LinkReference \/ ConstrainReference \/ LinkMarkers
         \/ StateReference \/ PlaceAssertion \/ ReportUnanalyzed \/ Settle

LEMMA DiscoverySteps ==
    ASSUME Discovers, Next
    PROVE  Discovery
<1>1. agenda # <<>> /\ Head(agenda).do \in DiscoveryCalls \cup {"propagate"}
  BY DiscoveringTask DEF Discovers
<1>2. \A what : Doing(what) => what \in DiscoveryCalls \cup {"propagate"}
  BY <1>1 DEF Doing, Task
<1>a. ASSUME NEW what \in {"lower", "read", "filter", "resolve", "join", "finish", "mark", "links", "link", "constrain",
                           "references", "refer", "place", "report", "settle"}
      PROVE  ~Doing(what)
  BY <1>2, <1>a DEF DiscoveryCalls
<1>3. ~(LowerQuery \/ ReadSource \/ FilterRows \/ ResolveSymbol \/ NameRelation \/ AssertJoin \/ FinishQuery)
  <2>1. ~LowerQuery /\ ~ReadSource
    BY <1>a DEF LowerQuery, ReadSource
  <2>2. ~FilterRows /\ ~ResolveSymbol /\ ~NameRelation
    BY <1>1, <1>a DEF FilterRows, ResolveSymbol, NameRelation
  <2>3. ~AssertJoin /\ ~FinishQuery
    BY <1>a DEF AssertJoin, FinishQuery
  <2> QED
    BY <2>1, <2>2, <2>3
<1>4. ~(RegisterMarker \/ LinkConstraints \/ LinkReference \/ ConstrainReference \/ LinkMarkers \/ StateReference
        \/ PlaceAssertion \/ ReportUnanalyzed \/ Settle)
  <2>1. ~RegisterMarker /\ ~LinkConstraints /\ ~LinkReference
    BY <1>a DEF RegisterMarker, LinkConstraints, LinkReference
  <2>2. ~ConstrainReference /\ ~LinkMarkers /\ ~StateReference
    BY <1>a DEF ConstrainReference, LinkMarkers, StateReference
  <2>3. ~PlaceAssertion /\ ~ReportUnanalyzed /\ ~Settle
    BY <1>a DEF PlaceAssertion, ReportUnanalyzed, Settle
  <2> QED
    BY <2>1, <2>2, <2>3
<1> QED
  BY <1>3, <1>4 DEF Next, Discovery, Listing

LEMMA DiscoversNext ==
    ASSUME IInv, RelationsSourced, AskedKnown, Discovers, Next
    PROVE  crashed' \/ (AskedKnown' /\ (Discovers' \/ Lowering'))
<1>1. Discovery
  BY DiscoverySteps
<1>2. CASE Listing
  BY <1>2, ListingDiscovers
<1>3. CASE Propagate
  BY <1>3, PropagateStep
<1> QED
  BY <1>1, <1>2, <1>3, DeclareDiscovers, QueryDiscovers, BindDiscovers, RequireDiscovers, TargetDiscovers,
     ReferenceDiscovers DEF Discovery

-----------------------------------------------------------------------------
(* What is served stays served.                                             *)

\* A relation that was being resolved still is, where it was, or is named.
StillResolved ==
    \A j \in DOMAIN callers :
        \/ j \in DOMAIN callers' /\ callers'[j].symbol = callers[j].symbol
        \/ callers[j].symbol \in ToSet(named')

\* Besides the sources in `change`, none is read otherwise than before.
LEMMA StillServed ==
    ASSUME Known, DOMAIN results \subseteq DOMAIN results', ToSet(named) \subseteq ToSet(named'), StillResolved,
           NEW change, \A o \in DOMAIN reads \ change : o \in DOMAIN reads' /\ reads'[o] = reads[o],
           NEW i, \A q \in Stars : <<q, 1>> \in change => IsServed(q, i)'
    PROVE  Served(i) \subseteq Served(i)'
<1> SUFFICES ASSUME NEW q \in Stars, IsServed(q, i), <<q, 1>> \notin change
             PROVE  IsServed(q, i)'
  BY StillKnown DEF Served
<1> DEFINE o == <<q, 1>>
<1>1. Source(o)' = Source(o) /\ bound' = bound /\ Stars' = Stars
  BY StillKnown DEF Known
<1>2. ASSUME Source(o).kind = "subquery", Source(o).body \in Stars
      PROVE  Source(o).body \in DOMAIN results'
  BY <1>2 DEF IsServed
<1>3. ASSUME Source(o).kind = "table"
      PROVE  /\ o \in DOMAIN reads' /\ o \in DOMAIN bound
             /\ \/ reads'[o] = "recursive" \/ bound[o] \in ToSet(named')
                \/ \E j \in DOMAIN callers' : i < j /\ callers'[j].symbol = bound[o]
  <2>1. /\ o \in DOMAIN reads /\ o \in DOMAIN bound
        /\ \/ reads[o] = "recursive" \/ bound[o] \in ToSet(named)
           \/ \E j \in DOMAIN callers : i < j /\ callers[j].symbol = bound[o]
    BY <1>3 DEF IsServed
  <2>2. o \in DOMAIN reads' /\ reads'[o] = reads[o]
    BY <2>1
  <2>3. ASSUME NEW j \in DOMAIN callers, i < j, callers[j].symbol = bound[o]
        PROVE  \/ bound[o] \in ToSet(named')
               \/ \E k \in DOMAIN callers' : i < k /\ callers'[k].symbol = bound[o]
    BY <2>3 DEF StillResolved
  <2> QED
    BY <2>1, <2>2, <2>3
<1> QED
  BY <1>1, <1>2, <1>3 DEF IsServed

LEMMA HoldStill ==
    ASSUME Known, Lowering
    PROVE  /\ results' = results => ResultsHold'
           /\ named' = named /\ outputs' = outputs => OutputsHold'
           /\ (\A m : Silent(m) => Silent(m)') => MarkersHold'
<1>1. ResultsHold /\ OutputsHold /\ MarkersHold
  BY DEF Lowering
<1>2. Stars' = Stars /\ \A q : Node(q)' = Node(q)
  BY StillKnown
<1>3. \A o : LeadsToTable(o)' = LeadsToTable(o)
  BY StillLeads
<1>4. \A s : Holds(s)' = Holds(s)
  BY StillLeads
<1>5. results' = results => ResultsHold'
  BY <1>1, <1>2, <1>3 DEF ResultsHold, Known
<1>6. named' = named /\ outputs' = outputs => OutputsHold'
  BY <1>1, <1>4 DEF OutputsHold, Known
<1>7. (\A m : Silent(m) => Silent(m)') => MarkersHold'
  BY <1>1, <1>2, <1>3 DEF MarkersHold, Known
<1> QED
  BY <1>5, <1>6, <1>7

\* A step that neither reads nor lowers, and makes no call that states markers.
LEMMA QuietLate ==
    ASSUME IInv, Lowering, Known, agenda # <<>>, UNCHANGED <<callers, reads, results>>, ToSet(named) \subseteq ToSet(named'),
           Head(agenda).do \notin {"read", "lower", "finish"}, NEW tasks, IsSequence(tasks), agenda' = tasks \o Tail(agenda),
           \A t \in ToSet(tasks) : t.do \notin DiscoveryCalls \cup {"propagate", "finish", "mark"},
           OutputsHold', MarkersHold'
    PROVE  Lowering'
<1>1. PICK n : n = Len(callers)
  OBVIOUS
<1>2. PICK more : more = Served(n)'
  OBVIOUS
<1>3. ResultsHold'
  BY HoldStill
<1>4. StillResolved
  BY DEF StillResolved
<1>5. ASSUME NEW i PROVE Served(i) \subseteq Served(i)'
  <2>0. PICK none : none = {}
    OBVIOUS
  <2>1. \A q \in Stars : <<q, 1>> \in none => IsServed(q, i)'
    BY <2>0
  <2>2. DOMAIN results \subseteq DOMAIN results' /\ \A o \in DOMAIN reads \ none : o \in DOMAIN reads' /\ reads'[o] = reads[o]
    OBVIOUS
  <2> QED
    BY <1>4, <2>1, <2>2, StillServed
<1>6. Answers(tasks, more)
  <2>1. InTurn(tasks, more)
    BY SequenceFacts DEF InTurn
  <2>2. \A t \in ToSet(tasks) : IsLate(t)'
    BY DEF IsLate
  <2>3. \A q : ~Serves(Head(agenda), q) /\ ~Lowers(Head(agenda), q)
    BY DEF Serves, Lowers
  <2> QED
    BY <2>1, <2>2, <2>3 DEF Answers
<1> QED
  BY <1>1, <1>2, <1>3, <1>5, <1>6, StayTurn

LEMMA HeadFacts ==
    ASSUME NEW s, IsSequence(s), s # <<>>
    PROVE  IsSequence(<<Head(s)>>) /\ ToSet(<<Head(s)>>) = {Head(s)} /\ <<Head(s)>> \o Tail(s) = s /\ Head(s) \in ToSet(s)
<1>1. s \in Seq(ToSet(s))
  BY DEF IsSequence
<1>2. <<Head(s)>> \o Tail(s) = s /\ Head(s) \in ToSet(s)
  BY <1>1
<1> QED
  BY <1>2, OneFacts

\* A call of lowering, or one that links.
LEMMA LateTask ==
    ASSUME IInv, Lowering, NEW what, Doing(what)
    PROVE  /\ agenda # <<>> /\ Head(agenda).do = what /\ Task = Head(agenda)
           /\ KnownCall(Head(agenda), program, ToSet(symbols), Len(assertions), DOMAIN scopes)
           /\ IsLate(Head(agenda)) /\ Head(agenda) \in ToSet(agenda) /\ IsSequence(agenda)
           /\ what \notin DiscoveryCalls \cup {"propagate"}
<1>1. agenda # <<>> /\ Head(agenda).do = what /\ Task = Head(agenda)
  BY DEF Doing, Task
<1>2. IsSequence(agenda) /\ Head(agenda) \in ToSet(agenda)
  BY <1>1, TailFacts DEF IInv, CallsKnown, KnownCalls
<1>3. IsLate(Head(agenda))
  BY <1>2 DEF Lowering, LateCalls
<1> QED
  BY <1>1, <1>2, <1>3, TaskFacts DEF IsLate

-----------------------------------------------------------------------------
(* The steps that only link, filter or report.                              *)

LEMMA FilterLate == IInv /\ Lowering /\ FilterRows => Lowering'
<1> SUFFICES ASSUME IInv, Lowering, FilterRows PROVE Lowering'
  OBVIOUS
<1> DEFINE body == Task.conjunct.body
           tasks == CASE Task.conjunct.kind = "in" -> <<Lower(body)>>
                      [] Task.conjunct.kind = "exists" /\ Lowered(Node(body).tail) /\ Node(body).with = <<>> -> SourceTasks(body)
                      [] OTHER -> <<>>
<1>1. Doing("filter") /\ agenda' = tasks \o Tail(agenda) /\ UNCHANGED <<program, binding, asking, linking, results, diagnostics>>
  BY DEF FilterRows, Then
<1>2. Known /\ UNCHANGED <<callers, reads, results, named, outputs, diagnostics>>
  BY <1>1 DEF Known, binding, asking, linking
<1>3. agenda # <<>> /\ Head(agenda).do = "filter" /\ body \in DOMAIN program.query /\ Node(body).kind = "select"
  BY <1>1, LateTask DEF KnownCall, Node
<1>4. IsSequence(tasks) /\ \A t \in ToSet(tasks) : t.do \in {"lower", "read"}
  <2>1. IsSequence(<<Lower(body)>>) /\ \A t \in ToSet(<<Lower(body)>>) : t.do = "lower"
    BY OneFacts DEF Lower
  <2>2. IsSequence(SourceTasks(body)) /\ \A t \in ToSet(SourceTasks(body)) : t.do = "read"
    <3> DEFINE sources == Node(body).sources
    <3>1. IsSequence(sources)
      BY <1>3, TreeFacts DEF IInv, Node
    <3> HIDE DEF sources
    <3>2. SourceTasks(body) = [i \in DOMAIN sources |-> Read(body, i)]
      BY DEF SourceTasks, sources
    <3>3. IsSequence(SourceTasks(body)) /\ ToSet(SourceTasks(body)) = {Read(body, i) : i \in DOMAIN sources}
      BY <3>1, <3>2, EachFacts, SequenceFacts
    <3> QED
      BY <3>3 DEF Read
  <2>3. IsSequence(<<>>) /\ \A t \in ToSet(<<>>) : FALSE
    BY EmptyFacts
  <2> HIDE DEF body
  <2>4. tasks = <<Lower(body)>> \/ tasks = SourceTasks(body) \/ tasks = <<>>
    OBVIOUS
  <2> QED
    BY <2>1, <2>2, <2>3, <2>4
<1> HIDE DEF tasks
<1>5. OutputsHold' /\ MarkersHold'
  BY <1>2, HoldStill DEF Silent
<1> QED
  BY <1>1, <1>2, <1>3, <1>4, <1>5, QuietLate DEF DiscoveryCalls

\* The calls of linking are of other kinds.
Passive == LinkConstraints \/ LinkReference \/ AssertJoin \/ PlaceAssertion \/ LinkMarkers

LEMMA PassiveLate == IInv /\ Lowering /\ Passive => Lowering'
<1> SUFFICES ASSUME IInv, Lowering, Passive PROVE Lowering'
  OBVIOUS
<1> DEFINE Quiet(tasks) == /\ IsSequence(tasks) /\ agenda' = tasks \o Tail(agenda)
                           /\ \A t \in ToSet(tasks) : t.do \in {"link", "resolve", "constrain", "refer", "references", "place"}
<1>1. /\ UNCHANGED <<program, binding, asking, linking, results, diagnostics>>
      /\ \E what \in {"links", "link", "join", "place", "references"} : Doing(what)
  BY DEF Passive, LinkConstraints, LinkReference, AssertJoin, PlaceAssertion, LinkMarkers
<1>2. Known /\ UNCHANGED <<callers, reads, results, named, outputs, diagnostics>>
  BY <1>1 DEF Known, binding, asking, linking
<1>3. agenda # <<>> /\ Head(agenda).do \in {"links", "link", "join", "place", "references"} /\ IsSequence(agenda)
  BY <1>1, LateTask
<1>4. \E tasks : Quiet(tasks)
  <2>1. CASE LinkConstraints
    <3>1. Then([i \in DOMAIN references |-> Reference("link", references[i])])
      BY <2>1 DEF LinkConstraints
    <3> DEFINE tasks == [i \in DOMAIN references |-> Reference("link", references[i])]
    <3>2. IsSequence(references)
      BY DEF IInv, ReferencesKnown
    <3>3. IsSequence(tasks) /\ ToSet(tasks) = {Reference("link", references[i]) : i \in DOMAIN references}
      BY <3>2, EachFacts, SequenceFacts
    <3>4. Quiet(tasks)
      BY <3>1, <3>3 DEF Then, Reference
    <3> QED
      BY <3>4
  <2>2. CASE LinkReference
    <3>1. PICK r : Then(<<Resolve(r.table), Resolve(r.target), Reference("constrain", r)>>)
      BY <2>2 DEF LinkReference
    <3> DEFINE tasks == <<Resolve(r.table), Resolve(r.target), Reference("constrain", r)>>
    <3>2. tasks \in Seq({Resolve(r.table), Resolve(r.target), Reference("constrain", r)})
      OBVIOUS
    <3>3. IsSequence(tasks) /\ ToSet(tasks) \subseteq {Resolve(r.table), Resolve(r.target), Reference("constrain", r)}
      BY <3>2, OwnElements
    <3>4. Quiet(tasks)
      <4>1. agenda' = tasks \o Tail(agenda)
        BY <3>1 DEF Then
      <4> HIDE DEF tasks
      <4> QED
        BY <4>1, <3>3 DEF Reference, Resolve, About
    <3> QED
      BY <3>4
  <2>3. CASE AssertJoin
    <3>1. Then(<<>>)
      BY <2>3 DEF AssertJoin
    <3>2. Quiet(<<>>)
      BY <3>1, EmptyFacts DEF Then
    <3> QED
      BY <3>2
  <2>4. CASE PlaceAssertion
    <3>1. Doing("place") /\ (Then(<<>>) \/ agenda' = agenda)
      BY <2>4 DEF PlaceAssertion
    <3>2. Then(<<>>) => Quiet(<<>>)
      BY EmptyFacts DEF Then
    <3>3. agenda' = agenda => Quiet(<<Head(agenda)>>)
      BY <1>3, <3>1, HeadFacts DEF Doing, Task
    <3> QED
      BY <3>1, <3>2, <3>3
  <2>5. CASE LinkMarkers
    <3>1. Then(<<>>) \/ \E r : Then(<<Resolve(r.target), Reference("refer", r)>> \o LinkMore)
      BY <2>5 DEF LinkMarkers
    <3>2. Then(<<>>) => Quiet(<<>>)
      BY EmptyFacts DEF Then
    <3>3. ASSUME NEW r, Then(<<Resolve(r.target), Reference("refer", r)>> \o LinkMore)
          PROVE  \E tasks : Quiet(tasks)
      <4> DEFINE tasks == <<Resolve(r.target), Reference("refer", r)>> \o LinkMore
      <4>1. tasks \in Seq({Resolve(r.target), Reference("refer", r), Call("references")})
        BY DEF LinkMore
      <4>2. IsSequence(tasks) /\ ToSet(tasks) \subseteq {Resolve(r.target), Reference("refer", r), Call("references")}
        BY <4>1, OwnElements
      <4>3. Quiet(tasks)
        <5> HIDE DEF tasks
        <5>1. agenda' = tasks \o Tail(agenda)
          BY <3>3 DEF Then, tasks
        <5> QED
          BY <5>1, <4>2 DEF Reference, Resolve, About, Call
      <4> QED
        BY <4>3
    <3> QED
      BY <3>1, <3>2, <3>3
  <2> QED
    BY <2>1, <2>2, <2>3, <2>4, <2>5 DEF Passive
<1>5. PICK tasks : Quiet(tasks)
  BY <1>4
<1>6. OutputsHold' /\ MarkersHold'
  BY <1>2, HoldStill DEF Silent
<1> QED
  BY <1>2, <1>3, <1>5, <1>6, QuietLate DEF DiscoveryCalls

\* Nothing is said here of the columns of a marker.
Telling == ConstrainReference \/ StateReference \/ ReportUnanalyzed

LEMMA TellingLate == IInv /\ Lowering /\ Telling => Lowering'
<1> SUFFICES ASSUME IInv, Lowering, Telling PROVE Lowering'
  OBVIOUS
<1>1. /\ UNCHANGED <<program, binding, asking, linking, results>>
      /\ \E what \in {"constrain", "refer", "report"} : Doing(what)
      /\ Then(<<>>)
  BY DEF Telling, ConstrainReference, StateReference, ReportUnanalyzed
<1>2. Known /\ UNCHANGED <<callers, reads, results, named, outputs>>
  BY <1>1 DEF Known, binding, asking, linking
<1>3. agenda # <<>> /\ Head(agenda).do \in {"constrain", "refer", "report"}
  BY <1>1, LateTask
<1>4. \E found : Report(found) /\ \A m : <<"unknown", m>> \notin found /\ <<"unresolved", m>> \notin found
  <2>1. CASE ConstrainReference
    <3>1. \E problem \in {{}, {"no primary key"}, {"unknown key"}, {"invalid foreign key"}, {"unknown referenced column"}} :
             Report({<<what, Task.reference.table.name>> : what \in problem \ {"unknown key"}})
      <4>1. \A problem : problem = {} \/ problem = {"no primary key"} \/ problem = {"unknown key"} \/ problem = {"invalid foreign key"}
                         \/ problem = {"unknown referenced column"}
                         => problem \in {{}, {"no primary key"}, {"unknown key"}, {"invalid foreign key"}, {"unknown referenced column"}}
        OBVIOUS
      <4> QED
        BY <2>1, <4>1 DEF ConstrainReference
    <3>2. PICK problem \in {{}, {"no primary key"}, {"unknown key"}, {"invalid foreign key"}, {"unknown referenced column"}} :
             Report({<<what, Task.reference.table.name>> : what \in problem \ {"unknown key"}})
      BY <3>1
    <3>3. "unknown" \notin problem /\ "unresolved" \notin problem
      BY <3>2
    <3>4. PICK found : found = {<<what, Task.reference.table.name>> : what \in problem \ {"unknown key"}}
      OBVIOUS
    <3>5. \A m : <<"unknown", m>> \notin found /\ <<"unresolved", m>> \notin found
      BY <3>3, <3>4
    <3>6. Report(found)
      BY <3>2, <3>4
    <3> QED
      BY <3>5, <3>6
  <2>2. CASE StateReference
    <3>1. Report({}) \/ Report({<<"unknown referenced column", Task.reference.marker.id>>})
      BY <2>2 DEF StateReference
    <3>2. PICK d : d = <<"unknown referenced column", Task.reference.marker.id>>
      OBVIOUS
    <3>3. \A m : d # <<"unknown", m>> /\ d # <<"unresolved", m>>
      BY <3>2
    <3>4. PICK one : one = {d}
      OBVIOUS
    <3>5. PICK none : none = {}
      OBVIOUS
    <3>6. Report(none) \/ Report(one)
      BY <3>1, <3>2, <3>4, <3>5
    <3> QED
      BY <3>3, <3>4, <3>5, <3>6
  <2>3. CASE ReportUnanalyzed
    <3>1. Report({<<"unanalyzed", m>> : m \in Unhandled})
      BY <2>3 DEF ReportUnanalyzed
    <3> QED
      BY <3>1
  <2> QED
    BY <2>1, <2>2, <2>3 DEF Telling
<1>5. OutputsHold' /\ MarkersHold'
  <2>1. \A m : Silent(m) => Silent(m)'
    BY <1>4 DEF Silent, Report
  <2> QED
    BY <1>2, <2>1, HoldStill
<1>6. IsSequence(<<>>) /\ \A t \in ToSet(<<>>) : FALSE
  BY EmptyFacts
<1> QED
  BY <1>1, <1>2, <1>3, <1>5, <1>6, QuietLate DEF Then

\* What is required is in the output that a relation is named with.
LEMMA NamedHold ==
    ASSUME IInv, Lowering, Known, NEW s, NEW output, Name(s, output), Holds(s) => required[s] \subseteq output.columns
    PROVE  OutputsHold' /\ ToSet(named') = ToSet(named) \cup {s}
<1>1. IsSequence(named) /\ DOMAIN outputs = ToSet(named)
  BY DEF IInv, LinksKnown
<1>2. ToSet(named') = ToSet(named) \cup {s}
  BY <1>1, AppendFacts DEF Name
<1>3. \A r : Holds(r)' = Holds(r)
  BY StillLeads
<1>4. \A r \in ToSet(named') : outputs'[r] = IF r = s THEN output ELSE outputs[r]
  BY <1>1, <1>2 DEF Name, With
<1>5. OutputsHold
  BY DEF Lowering
<1> QED
  BY <1>2, <1>3, <1>4, <1>5 DEF OutputsHold, Known

LEMMA SettleLate == IInv /\ Lowering /\ Settle => Lowering'
<1> SUFFICES ASSUME IInv, Lowering, Settle PROVE Lowering'
  OBVIOUS
<1>1. Doing("settle") /\ UNCHANGED <<program, binding, asking, callers, reads, results, diagnostics>>
  BY DEF Settle
<1>2. Known
  BY <1>1 DEF Known, binding, asking
<1>3. agenda # <<>> /\ Head(agenda).do = "settle" /\ IsSequence(agenda)
  BY <1>1, LateTask
<1>4. MarkersHold'
  BY <1>1, <1>2, HoldStill DEF Silent
<1>5. CASE Then(<<>>) /\ UNCHANGED <<named, outputs>>
  <2>1. IsSequence(<<>>) /\ \A t \in ToSet(<<>>) : FALSE
    BY EmptyFacts
  <2>2. OutputsHold'
    BY <1>2, <1>5, HoldStill
  <2> QED
    BY <1>1, <1>2, <1>3, <1>4, <1>5, <2>1, <2>2, QuietLate DEF Then
<1>6. CASE agenda' = agenda /\ \E i \in DOMAIN symbols : Name(symbols[i], IF symbols[i].role = "TABLE" THEN TableOutput(symbols[i])
                                                                        ELSE Opaque(required[symbols[i]]))
  <2>1. PICK s, output : Name(s, output) /\ output = IF s.role = "TABLE" THEN TableOutput(s) ELSE Opaque(required[s])
    BY <1>6
  <2>2. required[s] \subseteq output.columns
    BY <2>1 DEF TableOutput, Opaque
  <2>3. OutputsHold' /\ ToSet(named) \subseteq ToSet(named')
    BY <1>2, <2>1, <2>2, NamedHold
  <2>4. PICK tasks : tasks = <<Head(agenda)>>
    OBVIOUS
  <2>5. IsSequence(tasks) /\ agenda' = tasks \o Tail(agenda) /\ \A t \in ToSet(tasks) : t.do = "settle"
    BY <1>3, <1>6, <2>4, HeadFacts
  <2> QED
    BY <1>1, <1>2, <1>3, <1>4, <2>3, <2>5, QuietLate DEF DiscoveryCalls
<1> QED
  BY <1>5, <1>6 DEF Settle

\* A marker on a star that leads to a table finds its columns.
LEMMA RegisterLate == IInv /\ Lowering /\ RegisterMarker => crashed' \/ Lowering'
<1> SUFFICES ASSUME IInv, Lowering, RegisterMarker, ~crashed' PROVE Lowering'
  OBVIOUS
<1> DEFINE q == Task.query
           m == Task.marker
<1>1. Doing("mark") /\ UNCHANGED <<program, binding, asking, linking, results>> /\ Then(<<>>)
  BY DEF RegisterMarker, Crash
<1>2. Known /\ UNCHANGED <<callers, reads, results, named, outputs>>
  BY <1>1 DEF Known, binding, asking, linking
<1>3. agenda # <<>> /\ Head(agenda).do = "mark" /\ q \in DOMAIN results \cap Selects(program) /\ m \in ToSet(Node(q).markers)
  BY <1>1, LateTask DEF IsLate
<1>4. q \in Holders(program, m.id) /\ m.columns \subseteq MarkedColumns(q)
  <2> HIDE DEF q, m
  <2> QED
    BY <1>3 DEF Holders, Ids, ToSet, Node, MarkedColumns
<1>5. \/ UNCHANGED diagnostics
      \/ ~(m.columns \subseteq results[q].columns) /\ \E what : diagnostics' = diagnostics \cup {<<what, m.id>>}
  BY DEF RegisterMarker, Report
<1> HIDE DEF q, m
<1>6. MarkersHold'
  <2> SUFFICES ASSUME NEW r \in Stars \cap DOMAIN scopes, LeadsToTable(<<r, 1>>), NEW n \in ToSet(Ids(Node(r).markers))
               PROVE  Silent(n)'
    BY <1>2, StillKnown, StillLeads DEF MarkersHold, Known
  <2>1. Silent(n)
    BY DEF Lowering, MarkersHold
  <2>2. CASE n # m.id
    BY <1>5, <2>1, <2>2 DEF Silent
  <2>3. CASE n = m.id
    <3>1. r \in Holders(program, n)
      BY StarMarkers DEF IInv
    <3>2. r = q
      BY <1>4, <2>3, <3>1, OneHolder DEF IInv
    <3>3. IsAsked(q) /\ q \in Stars \cap DOMAIN results /\ LeadsToTable(<<q, 1>>)
      BY <1>3, <3>2 DEF Lowering
    <3>4. m.columns \subseteq results[q].columns
      BY <1>4, <3>3 DEF Lowering, ResultsHold, IsAsked
    <3> QED
      BY <1>5, <2>1, <3>4 DEF Silent
  <2> QED
    BY <2>2, <2>3
<1>7. OutputsHold'
  BY <1>2, HoldStill
<1>8. IsSequence(<<>>) /\ \A t \in ToSet(<<>>) : FALSE
  BY EmptyFacts
<1> QED
  BY <1>1, <1>2, <1>3, <1>6, <1>7, <1>8, QuietLate DEF Then

-----------------------------------------------------------------------------
(* Reading and resolving.                                                   *)

\* Calls that come with the others, whatever is served.
LEMMA PlainAnswers ==
    ASSUME NEW tasks, IsSequence(tasks), NEW more,
           \A t \in ToSet(tasks) : t.do \notin DiscoveryCalls \cup {"propagate", "finish", "mark"}
    PROVE  InTurn(tasks, more) /\ \A t \in ToSet(tasks) : IsLate(t)'
<1>1. InTurn(tasks, more)
  BY SequenceFacts DEF InTurn
<1>2. \A t \in ToSet(tasks) : IsLate(t)'
  BY DEF IsLate
<1> QED
  BY <1>1, <1>2

\* The sources in `change` are read from s.
LEMMA ResolveLate ==
    ASSUME IInv, Lowering, Known, agenda # <<>>, UNCHANGED <<results, diagnostics>>,
           NEW s \in ToSet(symbols), NEW tasks, IsSequence(tasks), ResolveThen(s, tasks),
           \A t \in ToSet(tasks) : t.do \notin DiscoveryCalls \cup {"propagate", "finish", "mark"},
           NEW change, \A o \in DOMAIN reads \ change : o \in DOMAIN reads' /\ reads'[o] = reads[o],
           \A q \in Stars : <<q, 1>> \in change =>
              Source(<<q, 1>>).kind = "table" /\ <<q, 1>> \in DOMAIN reads' /\ <<q, 1>> \in DOMAIN bound /\ bound[<<q, 1>>] = s,
           \A q \in Stars : Serves(Head(agenda), q) => <<q, 1>> \in change,
           Head(agenda).do \notin {"lower", "finish"}
    PROVE  Lowering'
<1>0. IsSequence(callers) /\ IsSequence(named) /\ DOMAIN outputs = ToSet(named)
  BY DEF IInv, CallsKnown, LinksKnown
<1>1. PICK n : n = Len(callers)
  OBVIOUS
<1>2. PICK more : more = Served(n)'
  OBVIOUS
<1>3. n \in Nat /\ DOMAIN callers = 1..n
  BY <1>0, <1>1, SequenceFacts
<1>4. \/ /\ agenda' = tasks \o Tail(agenda) /\ callers' = callers
         /\ s \in ToSet(named') /\ ToSet(named) \subseteq ToSet(named') /\ OutputsHold'
      \/ /\ callers' = Append(callers, [symbol |-> s, rest |-> tasks \o Tail(agenda)])
         /\ agenda' = IF s.body = NoQuery THEN <<>> ELSE <<Lower(s.body)>>
         /\ UNCHANGED <<named, outputs>> /\ s.role # "TABLE" /\ OutputsHold'
  <2>1. CASE s \in ToSet(named)
    <3>1. agenda' = tasks \o Tail(agenda) /\ callers' = callers /\ UNCHANGED <<named, outputs>>
      BY <2>1 DEF ResolveThen, Then
    <3> QED
      BY <2>1, <3>1, HoldStill
  <2>2. CASE s \notin ToSet(named) /\ s.role = "TABLE"
    <3>1. agenda' = tasks \o Tail(agenda) /\ callers' = callers /\ Name(s, TableOutput(s))
      BY <2>2 DEF ResolveThen, Open, Then
    <3>2. OutputsHold' /\ ToSet(named') = ToSet(named) \cup {s}
      <4>1. PICK output : output = TableOutput(s)
        OBVIOUS
      <4>2. required[s] \subseteq output.columns
        BY <4>1 DEF TableOutput
      <4> QED
        BY <3>1, <4>1, <4>2, NamedHold
    <3> QED
      BY <3>1, <3>2
  <2>3. CASE s \notin ToSet(named) /\ s.role # "TABLE"
    <3>1. /\ callers' = Append(callers, [symbol |-> s, rest |-> tasks \o Tail(agenda)])
          /\ agenda' = IF s.body = NoQuery THEN <<>> ELSE <<Lower(s.body)>>
          /\ UNCHANGED <<named, outputs>>
      BY <2>3 DEF ResolveThen, Open
    <3> QED
      BY <2>3, <3>1, HoldStill
  <2> QED
    BY <2>1, <2>2, <2>3
<1>5. /\ StillResolved /\ ToSet(named) \subseteq ToSet(named')
      /\ s \in ToSet(named') \/ \E j \in DOMAIN callers' : n < j /\ callers'[j].symbol = s
  <2>1. CASE callers' = callers /\ s \in ToSet(named') /\ ToSet(named) \subseteq ToSet(named')
    BY <2>1 DEF StillResolved
  <2>2. ASSUME callers' = Append(callers, [symbol |-> s, rest |-> tasks \o Tail(agenda)]), named' = named
        PROVE  StillResolved /\ \E j \in DOMAIN callers' : n < j /\ callers'[j].symbol = s
    <3>1. PICK top : top = [symbol |-> s, rest |-> tasks \o Tail(agenda)]
      OBVIOUS
    <3>2. top.symbol = s /\ callers' = Append(callers, top)
      BY <2>2, <3>1
    <3>3. DOMAIN callers' = 1..(n + 1) /\ callers'[n + 1] = top /\ \A i \in 1..n : callers'[i] = callers[i]
      BY <1>0, <1>1, <3>2, AppendFacts
    <3>4. n + 1 \in DOMAIN callers' /\ n < n + 1
      BY <1>3, <3>3
    <3>5. StillResolved
      BY <1>3, <3>3 DEF StillResolved
    <3> QED
      BY <3>2, <3>3, <3>4, <3>5
  <2> QED
    BY <1>4, <2>1, <2>2
<1>6. ASSUME NEW i \in 0..n PROVE Served(i) \subseteq Served(i)'
  <2>1. ASSUME NEW q \in Stars, <<q, 1>> \in change PROVE IsServed(q, i)'
    <3>1. Source(<<q, 1>>)' = Source(<<q, 1>>) /\ bound' = bound
      BY StillKnown DEF Known
    <3>2. /\ Source(<<q, 1>>).kind = "table" /\ <<q, 1>> \in DOMAIN reads' /\ <<q, 1>> \in DOMAIN bound /\ bound[<<q, 1>>] = s
      BY <2>1
    <3>3. s \in ToSet(named') \/ \E j \in DOMAIN callers' : i < j /\ callers'[j].symbol = s
      <4>1. CASE s \in ToSet(named')
        BY <4>1
      <4>2. ASSUME NEW j \in DOMAIN callers', n < j, callers'[j].symbol = s
            PROVE  i < j
        <5>1. j \in Nat
          <6>1. callers' = callers \/ \E x : callers' = Append(callers, x)
            BY <1>4
          <6>2. DOMAIN callers' \subseteq Nat
            BY <1>0, <1>1, <1>3, <6>1, AppendFacts
          <6> QED
            BY <6>2
        <5> QED
          BY <1>3, <4>2, <5>1
      <4> QED
        BY <1>5, <4>1, <4>2
    <3> QED
      BY <3>1, <3>2, <3>3 DEF IsServed
  <2>2. DOMAIN results \subseteq DOMAIN results'
    OBVIOUS
  <2> QED
    BY <1>5, <2>1, <2>2, StillServed
<1>7. Answers(tasks, more)
  <2>1. InTurn(tasks, more) /\ \A t \in ToSet(tasks) : IsLate(t)'
    BY PlainAnswers
  <2>2. ASSUME NEW q \in Stars, Serves(Head(agenda), q) PROVE q \in more
    <3>1. <<q, 1>> \in change
      BY <2>2
    <3>2. /\ Source(<<q, 1>>).kind = "table" /\ <<q, 1>> \in DOMAIN reads' /\ <<q, 1>> \in DOMAIN bound /\ bound[<<q, 1>>] = s
      BY <3>1
    <3>3. Source(<<q, 1>>)' = Source(<<q, 1>>) /\ bound' = bound /\ Stars' = Stars
      BY StillKnown DEF Known
    <3>4. IsServed(q, n)'
      BY <1>5, <3>2, <3>3 DEF IsServed
    <3> QED
      BY <1>2, <3>3, <3>4 DEF Served
  <2>3. \A q : ~Lowers(Head(agenda), q)
    BY DEF Lowers
  <2> QED
    BY <2>1, <2>2, <2>3 DEF Answers
<1>8. ResultsHold' /\ MarkersHold'
  <2>1. \A m : Silent(m) => Silent(m)'
    BY DEF Silent
  <2> QED
    BY <2>1, HoldStill
<1>9. CASE callers' = callers /\ agenda' = tasks \o Tail(agenda) /\ OutputsHold'
  BY <1>1, <1>2, <1>6, <1>7, <1>8, <1>9, StayTurn
<1>10. CASE /\ callers' = Append(callers, [symbol |-> s, rest |-> tasks \o Tail(agenda)])
            /\ agenda' = IF s.body = NoQuery THEN <<>> ELSE <<Lower(s.body)>>
            /\ s.role # "TABLE" /\ OutputsHold'
  BY <1>1, <1>2, <1>6, <1>7, <1>8, <1>10, PushTurn
<1> QED
  BY <1>4, <1>9, <1>10

LEMMA ResolveSymbolLate == IInv /\ Lowering /\ ResolveSymbol => Lowering'
<1> SUFFICES ASSUME IInv, Lowering, ResolveSymbol PROVE Lowering'
  OBVIOUS
<1>1. /\ Doing("resolve") /\ UNCHANGED <<program, binding, asking, results, diagnostics, reads>>
      /\ ResolveThen(Task.symbol, <<>>)
  BY DEF ResolveSymbol
<1>2. Known
  BY <1>1 DEF Known, binding, asking
<1>3. agenda # <<>> /\ Head(agenda).do = "resolve" /\ Task.symbol \in ToSet(symbols)
  BY <1>1, LateTask DEF KnownCall
<1>4. PICK tasks : tasks = <<>>
  OBVIOUS
<1>5. IsSequence(tasks) /\ \A t \in ToSet(tasks) : FALSE
  BY <1>4, EmptyFacts
<1>6. PICK change : change = {}
  OBVIOUS
<1>7. PICK s : s = Task.symbol
  OBVIOUS
<1>8. \A q : ~Serves(Head(agenda), q)
  BY <1>3 DEF Serves
<1>9. ResolveThen(s, tasks)
  BY <1>1, <1>4, <1>7
<1> QED
  BY <1>1, <1>2, <1>3, <1>5, <1>6, <1>7, <1>8, <1>9, ResolveLate

LEMMA ReadLate == IInv /\ Lowering /\ ReadSource => crashed' \/ Lowering'
<1> SUFFICES ASSUME IInv, Lowering, ReadSource, ~crashed' PROVE Lowering'
  OBVIOUS
<1>1. PICK o : o = Task.at
  OBVIOUS
<1>2. PICK source : source = Source(o)
  OBVIOUS
<1>3. PICK join : join = IF source.joined = NoMarker THEN <<>> ELSE <<[do |-> "join", marker |-> source.joined]>>
  OBVIOUS
<1>4. PICK derive : derive = IF source.kind = "subquery" THEN <<Lower(source.body)>> ELSE <<>>
  OBVIOUS
<1>5. /\ Doing("read") /\ UNCHANGED <<program, binding, asking, results, diagnostics>>
      /\ \/ source.kind # "table" /\ Then(derive \o join) /\ UNCHANGED linking
         \/ source.kind = "table" /\ o \in DOMAIN bound /\ ReadRelation(o, bound[o], join)
  BY <1>1, <1>2, <1>3, <1>4 DEF ReadSource, Crash
<1>6. Known
  BY <1>5 DEF Known, binding, asking
<1>7. agenda # <<>> /\ Head(agenda).do = "read" /\ Head(agenda).at = o
  BY <1>1, <1>5, LateTask
<1>8. IsSequence(join) /\ \A t \in ToSet(join) : t.do = "join"
  BY <1>3, EmptyFacts, OneFacts
<1>9. IsSequence(derive) /\ \A t \in ToSet(derive) : t.do = "lower"
  BY <1>4, EmptyFacts, OneFacts DEF Lower
<1>10. \A q : Serves(Head(agenda), q) => o = <<q, 1>>
  BY <1>7 DEF Serves
<1>11. /\ \A q : ~Lowers(Head(agenda), q)
       /\ Head(agenda).do \notin {"lower", "finish"}
  BY <1>7 DEF Lowers
<1>12. DOMAIN results \subseteq DOMAIN results' /\ ResultsHold' /\ MarkersHold'
  <2>1. \A m : Silent(m) => Silent(m)'
    BY <1>5 DEF Silent
  <2> QED
    BY <1>5, <1>6, <2>1, HoldStill
<1>13. PICK n : n = Len(callers)
  OBVIOUS
<1>14. PICK more : more = Served(n)'
  OBVIOUS
<1>15. \A q : Source(<<q, 1>>)' = Source(<<q, 1>>) /\ Stars' = Stars /\ bound' = bound
  BY <1>6, StillKnown DEF Known
<1>16. CASE source.kind # "table" /\ Then(derive \o join) /\ UNCHANGED linking
  <2>1. PICK tasks : tasks = derive \o join
    OBVIOUS
  <2>2. agenda' = tasks \o Tail(agenda) /\ UNCHANGED <<callers, named, outputs, reads>>
    BY <1>16, <2>1 DEF Then, linking
  <2>3. IsSequence(tasks) /\ \A t \in ToSet(tasks) : t.do \in {"lower", "join"}
    BY <1>8, <1>9, <2>1, ConcatFacts
  <2>4. InTurn(tasks, more) /\ \A t \in ToSet(tasks) : IsLate(t)'
    BY <2>3, PlainAnswers DEF DiscoveryCalls
  <2>5. ASSUME NEW q \in Stars, Serves(Head(agenda), q)
        PROVE  q \in more \/ \E a \in DOMAIN tasks : Serves(tasks[a], q)
    <3>1. source = Source(<<q, 1>>)
      BY <1>2, <1>10, <2>5
    <3>2. CASE source.kind = "subquery"
      <4>1. derive = <<Lower(source.body)>>
        BY <1>4, <3>2
      <4>2. derive # <<>> /\ Head(derive) = Lower(source.body)
        BY <4>1
      <4>3. tasks # <<>> /\ Head(tasks) = Lower(source.body)
        BY <1>8, <1>9, <2>1, <4>2, FirstFacts
      <4>4. 1 \in DOMAIN tasks /\ tasks[1] = Lower(source.body)
        <5>1. tasks \in Seq(ToSet(tasks))
          BY <2>3 DEF IsSequence
        <5> QED
          BY <4>3, <5>1
      <4>5. Serves(tasks[1], q)
        BY <3>1, <3>2, <4>4 DEF Serves, Lower
      <4> QED
        BY <4>4, <4>5
    <3>3. CASE source.kind # "subquery"
      <4>1. IsServed(q, n)'
        BY <1>15, <1>16, <3>1, <3>3 DEF IsServed
      <4> QED
        BY <1>14, <1>15, <4>1 DEF Served
    <3> QED
      BY <3>2, <3>3
  <2>6. Answers(tasks, more)
    BY <1>11, <2>3, <2>4, <2>5 DEF Answers
  <2>7. ASSUME NEW i PROVE Served(i) \subseteq Served(i)'
    <3>1. StillResolved /\ ToSet(named) \subseteq ToSet(named')
      BY <2>2 DEF StillResolved
    <3>2. PICK none : none = {}
      OBVIOUS
    <3>3. \A x \in DOMAIN reads \ none : x \in DOMAIN reads' /\ reads'[x] = reads[x]
      BY <2>2
    <3>4. \A q \in Stars : <<q, 1>> \in none => IsServed(q, i)'
      BY <3>2
    <3> QED
      BY <1>6, <1>12, <3>1, <3>3, <3>4, StillServed
  <2>8. OutputsHold'
    BY <1>6, <2>2, HoldStill
  <2> QED
    BY <1>6, <1>7, <1>12, <1>13, <1>14, <2>2, <2>6, <2>7, <2>8, StayTurn
<1>17. ASSUME source.kind = "table", o \in DOMAIN bound, NEW how, reads' = With(reads, o, how)
       PROVE  /\ \A x \in DOMAIN reads \ {o} : x \in DOMAIN reads' /\ reads'[x] = reads[x]
              /\ o \in DOMAIN reads' /\ reads'[o] = how
  BY <1>17 DEF With
<1>18. PICK change : change = {o}
  OBVIOUS
<1>19. CASE source.kind = "table" /\ o \in DOMAIN bound /\ ReadRelation(o, bound[o], join) /\ bound[o] \in resolving
  <2>1. reads' = With(reads, o, "recursive") /\ agenda' = join \o Tail(agenda) /\ UNCHANGED <<callers, named, outputs>>
    BY <1>19 DEF ReadRelation, Then
  <2>2. /\ \A x \in DOMAIN reads \ change : x \in DOMAIN reads' /\ reads'[x] = reads[x]
        /\ o \in DOMAIN reads' /\ reads'[o] = "recursive"
    BY <1>17, <1>18, <1>19, <2>1
  <2>3. ASSUME NEW q \in Stars, o = <<q, 1>>, NEW i PROVE IsServed(q, i)'
    <3>1. Source(<<q, 1>>).kind = "table"
      BY <1>2, <1>19, <2>3
    <3> QED
      BY <1>15, <1>19, <2>2, <2>3, <3>1 DEF IsServed
  <2>4. ASSUME NEW i PROVE Served(i) \subseteq Served(i)'
    <3>1. StillResolved /\ ToSet(named) \subseteq ToSet(named')
      BY <2>1 DEF StillResolved
    <3>2. \A q \in Stars : <<q, 1>> \in change => IsServed(q, i)'
      BY <1>18, <2>3
    <3> QED
      BY <1>6, <1>12, <2>2, <3>1, <3>2, StillServed
  <2>5. Answers(join, more)
    <3>1. InTurn(join, more) /\ \A t \in ToSet(join) : IsLate(t)'
      BY <1>8, PlainAnswers DEF DiscoveryCalls
    <3>2. \A q \in Stars : Serves(Head(agenda), q) => q \in more
      BY <1>10, <1>14, <1>15, <2>3 DEF Served
    <3> QED
      BY <1>8, <1>11, <3>1, <3>2 DEF Answers
  <2>6. OutputsHold'
    BY <1>6, <2>1, HoldStill
  <2> QED
    BY <1>6, <1>7, <1>12, <1>13, <1>14, <2>1, <2>4, <2>5, <2>6, StayTurn
<1>20. CASE source.kind = "table" /\ o \in DOMAIN bound /\ ReadRelation(o, bound[o], join) /\ bound[o] \notin resolving
  <2>1. PICK s : s = bound[o]
    OBVIOUS
  <2>2. reads' = With(reads, o, "named") /\ ResolveThen(s, join)
    BY <1>20, <2>1 DEF ReadRelation
  <2>3. /\ \A x \in DOMAIN reads \ change : x \in DOMAIN reads' /\ reads'[x] = reads[x]
        /\ o \in DOMAIN reads'
    BY <1>17, <1>18, <1>20, <2>2
  <2>4. s \in ToSet(symbols)
    BY <1>20, <2>1 DEF IInv, NamesKnown
  <2>5. \A q \in Stars : <<q, 1>> \in change =>
           Source(<<q, 1>>).kind = "table" /\ <<q, 1>> \in DOMAIN reads' /\ <<q, 1>> \in DOMAIN bound /\ bound[<<q, 1>>] = s
    BY <1>2, <1>18, <1>20, <2>1, <2>3
  <2>6. \A q \in Stars : Serves(Head(agenda), q) => <<q, 1>> \in change
    BY <1>10, <1>18
  <2>7. \A t \in ToSet(join) : t.do \notin DiscoveryCalls \cup {"propagate", "finish", "mark"}
    BY <1>8 DEF DiscoveryCalls
  <2> QED
    BY <1>5, <1>6, <1>7, <1>8, <1>11, <2>2, <2>3, <2>4, <2>5, <2>6, <2>7, ResolveLate
<1> QED
  BY <1>5, <1>16, <1>19, <1>20

-----------------------------------------------------------------------------
(* Lowering a query.                                                        *)

\* Calls come after those that see to them.
LEMMA InTurnAfter ==
    ASSUME NEW s, IsSequence(s), NEW t, IsSequence(t), NEW more, InTurn(s, more),
           \A u \in ToSet(t) : u.do = "finish" /\ u.query \in Stars =>
              u.query \in more \/ \E a \in DOMAIN s : Serves(s[a], u.query)
    PROVE  InTurn(s \o t, more)
<1> DEFINE all == s \o t
<1>1. /\ Len(s) \in Nat /\ Len(t) \in Nat
      /\ DOMAIN s = 1..Len(s) /\ DOMAIN t = 1..Len(t) /\ DOMAIN all = 1..(Len(s) + Len(t))
      /\ \A i \in 1..Len(s) : all[i] = s[i]
      /\ \A i \in 1..Len(t) : all[Len(s) + i] = t[i]
  BY ConcatPlaces
<1> HIDE DEF all
<1> SUFFICES ASSUME NEW k \in DOMAIN all, all[k].do = "finish", all[k].query \in Stars, all[k].query \notin more
             PROVE  \E a \in DOMAIN all : a < k /\ Serves(all[a], all[k].query)
  BY DEF InTurn, all
<1>2. CASE k \in 1..Len(s)
  <2>1. PICK a \in DOMAIN s : a < k /\ Serves(s[a], s[k].query)
    BY <1>1, <1>2 DEF InTurn
  <2> QED
    BY <1>1, <1>2, <2>1
<1>3. CASE k \notin 1..Len(s)
  <2>1. k - Len(s) \in 1..Len(t) /\ k = Len(s) + (k - Len(s)) /\ k > Len(s)
    BY <1>1, <1>3
  <2>2. all[k] = t[k - Len(s)] /\ t[k - Len(s)] \in ToSet(t)
    BY <1>1, <2>1, SequenceFacts
  <2>3. PICK a \in DOMAIN s : Serves(s[a], all[k].query)
    BY <2>2
  <2> QED
    BY <1>1, <2>1, <2>3
<1> QED
  BY <1>2, <1>3

LEMMA StarNode ==
    ASSUME NEW q \in Stars
    PROVE  /\ q \in DOMAIN program.query /\ q # NoQuery /\ Node(q).kind = "select" /\ Node(q).tail = "star"
           /\ Len(Node(q).sources) = 1 /\ Unwrap(q) = q /\ Sole(q) = {<<q, 1>>}
BY DEF Stars, Sole, IsSelect, Unwrap

LEMMA LowerLate == IInv /\ Lowering /\ LowerQuery => Lowering'
<1> SUFFICES ASSUME IInv, Lowering, LowerQuery PROVE Lowering'
  OBVIOUS
<1>1. PICK q : q = Unwrap(Task.query)
  OBVIOUS
<1>2. PICK finish : finish = [do |-> "finish", query |-> q]
  OBVIOUS
<1>3. PICK tasks : tasks = CASE Node(q).kind = "setop" -> <<Lower(Node(q).arms[1]), Lower(Node(q).arms[2])>> \o <<finish>>
                             [] Node(q).kind = "select" /\ Node(q).tail = "natural" -> <<finish>>
                             [] OTHER -> SourceTasks(q) \o WhereTasks(q) \o <<finish>>
  OBVIOUS
<1>4. /\ Doing("lower") /\ UNCHANGED <<program, binding, asking, linking, results, diagnostics>>
      /\ agenda' = tasks \o Tail(agenda)
  BY <1>1, <1>2, <1>3 DEF LowerQuery, Then
<1>5. Known /\ UNCHANGED <<callers, reads, results, named, outputs, diagnostics>>
  BY <1>4 DEF Known, binding, asking, linking
<1>6. agenda # <<>> /\ Head(agenda).do = "lower" /\ Task = Head(agenda) /\ Task.query \in DOMAIN program.query
  BY <1>4, LateTask DEF KnownCall
<1>7. q \in DOMAIN program.query /\ Node(q).kind \in {"select", "setop"}
  <2>1. q = Bare(program, Task.query)
    BY <1>1 DEF Unwrap, Bare, Node
  <2>2. q \in DOMAIN program.query /\ program.query[q].kind # "paren"
    BY <1>6, <2>1, SeatFacts DEF IInv
  <2> QED
    BY <2>2, TreeFacts DEF IInv, Node
<1>8. \E s : /\ IsSequence(s) /\ tasks = s \o <<finish>> /\ \A t \in ToSet(s) : t.do \in {"lower", "read", "filter"}
             /\ q \in Stars => \E a \in DOMAIN s : Serves(s[a], q)
  <2>1. CASE Node(q).kind = "setop"
    <3>1. PICK s : s = <<Lower(Node(q).arms[1]), Lower(Node(q).arms[2])>>
      OBVIOUS
    <3>2. s \in Seq({Lower(Node(q).arms[1]), Lower(Node(q).arms[2])})
      BY <3>1
    <3>3. IsSequence(s) /\ \A t \in ToSet(s) : t.do = "lower"
      BY <3>2, OwnElements DEF Lower
    <3>4. q \notin Stars
      BY <2>1, StarNode
    <3>5. tasks = s \o <<finish>>
      BY <1>3, <2>1, <3>1
    <3> QED
      BY <3>3, <3>4, <3>5
  <2>2. CASE Node(q).kind = "select" /\ Node(q).tail = "natural"
    <3>1. tasks = <<finish>>
      BY <1>3, <2>2
    <3>2. q \notin Stars
      BY <2>2, StarNode
    <3>3. PICK s : s = <<>>
      OBVIOUS
    <3>4. IsSequence(s) /\ ToSet(s) = {} /\ IsSequence(<<finish>>)
      BY <3>3, EmptyFacts, OneFacts
    <3>5. tasks = s \o <<finish>>
      BY <3>1, <3>3, <3>4, FirstFacts
    <3> QED
      BY <3>2, <3>4, <3>5
  <2>3. CASE Node(q).kind = "select" /\ Node(q).tail # "natural"
    <3>1. IsSequence(Node(q).sources) /\ IsSequence(Node(q).where)
      BY <1>7, <2>3, TreeFacts DEF IInv, Node
    <3>2. IsSequence(SourceTasks(q)) /\ ToSet(SourceTasks(q)) = {Read(q, i) : i \in DOMAIN Node(q).sources}
      <4>1. PICK sources : sources = Node(q).sources
        OBVIOUS
      <4>2. SourceTasks(q) = [i \in DOMAIN sources |-> Read(q, i)]
        BY <4>1 DEF SourceTasks
      <4> QED
        BY <3>1, <4>1, <4>2, EachFacts, SequenceFacts
    <3>3. IsSequence(WhereTasks(q)) /\ \A t \in ToSet(WhereTasks(q)) : t.do = "filter"
      <4>1. PICK where : where = Node(q).where
        OBVIOUS
      <4>2. PICK each : each = [i \in DOMAIN where |-> Filter(where[i])]
        OBVIOUS
      <4>3. IsSequence(each) /\ ToSet(each) = {Filter(where[i]) : i \in DOMAIN where}
        BY <3>1, <4>1, <4>2, EachFacts, SequenceFacts
      <4>4. \A t \in ToSet(each) : t.do = "filter"
        BY <4>3 DEF Filter
      <4>5. WhereTasks(q) = each \/ WhereTasks(q) = <<>>
        BY <4>1, <4>2 DEF WhereTasks, Filter
      <4> QED
        BY <4>3, <4>4, <4>5, EmptyFacts
    <3>4. PICK s : s = SourceTasks(q) \o WhereTasks(q)
      OBVIOUS
    <3>5. tasks = s \o <<finish>>
      BY <1>3, <2>3, <3>4
    <3>6. IsSequence(s) /\ ToSet(s) = ToSet(SourceTasks(q)) \cup ToSet(WhereTasks(q))
      BY <3>2, <3>3, <3>4, ConcatFacts
    <3>7. \A t \in ToSet(s) : t.do \in {"lower", "read", "filter"}
      BY <3>2, <3>3, <3>6 DEF Read
    <3>8. ASSUME q \in Stars PROVE \E a \in DOMAIN s : Serves(s[a], q)
      <4>1. 1 \in DOMAIN Node(q).sources
        BY <3>1, <3>8, StarNode, SequenceFacts
      <4>2. Read(q, 1) \in ToSet(s)
        BY <3>2, <3>6, <4>1
      <4>3. Serves(Read(q, 1), q)
        BY DEF Serves, Read
      <4>4. PICK a \in DOMAIN s : s[a] = Read(q, 1)
        BY <3>6, <4>2, SequenceFacts
      <4> QED
        BY <4>3, <4>4
    <3> QED
      BY <3>5, <3>6, <3>7, <3>8
  <2> QED
    BY <1>7, <2>1, <2>2, <2>3
<1>9. PICK s : /\ IsSequence(s) /\ tasks = s \o <<finish>> /\ \A t \in ToSet(s) : t.do \in {"lower", "read", "filter"}
               /\ q \in Stars => \E a \in DOMAIN s : Serves(s[a], q)
  BY <1>8
<1>10. PICK n : n = Len(callers)
  OBVIOUS
<1>11. PICK more : more = Served(n)'
  OBVIOUS
<1>12. IsSequence(<<finish>>) /\ ToSet(<<finish>>) = {finish} /\ finish.do = "finish" /\ finish.query = q
  BY <1>2, OneFacts
<1>13. IsSequence(tasks) /\ ToSet(tasks) = ToSet(s) \cup {finish}
  BY <1>9, <1>12, ConcatFacts
<1>14. InTurn(tasks, more)
  <2>1. InTurn(s, more)
    BY <1>9, PlainAnswers DEF DiscoveryCalls
  <2>2. PICK t : t = <<finish>>
    OBVIOUS
  <2>3. \A u \in ToSet(t) : u.do = "finish" /\ u.query \in Stars =>
              u.query \in more \/ \E a \in DOMAIN s : Serves(s[a], u.query)
    BY <1>9, <1>12, <2>2
  <2> QED
    BY <1>9, <1>12, <2>1, <2>2, <2>3, InTurnAfter
<1>15. \A t \in ToSet(tasks) : IsLate(t)'
  <2>1. \A t \in ToSet(tasks) : t.do \in {"lower", "read", "filter", "finish"}
    BY <1>9, <1>12, <1>13
  <2> QED
    BY <2>1 DEF IsLate, DiscoveryCalls
<1>16. \E a \in DOMAIN tasks : tasks[a] = finish
  BY <1>13, SequenceFacts
<1>17. ASSUME NEW x \in Stars, Serves(Head(agenda), x)
       PROVE  x \in more \/ \E a \in DOMAIN tasks : Serves(tasks[a], x)
  <2>1. Source(<<x, 1>>).kind = "subquery" /\ Task.query = Source(<<x, 1>>).body
    BY <1>6, <1>17 DEF Serves
  <2>2. CASE Task.query \in Stars
    <3>1. q = Task.query
      BY <1>1, <2>2, StarNode
    <3>2. Serves(finish, x)
      BY <1>12, <2>1, <3>1 DEF Serves
    <3> QED
      BY <1>16, <3>2
  <2>3. CASE Task.query \notin Stars
    <3>1. /\ Source(<<x, 1>>)' = Source(<<x, 1>>) /\ Stars' = Stars
      BY <1>5, StillKnown
    <3>2. IsServed(x, n)'
      BY <2>1, <2>3, <3>1 DEF IsServed
    <3> QED
      BY <1>11, <3>1, <3>2 DEF Served
  <2> QED
    BY <2>2, <2>3
<1>18. ASSUME NEW x \in Stars, Lowers(Head(agenda), x)
       PROVE  \E t \in ToSet(tasks) : Lowers(t, x)
  <2>1. q = x
    BY <1>1, <1>6, <1>18, StarNode DEF Lowers
  <2> QED
    BY <1>12, <1>13, <2>1 DEF Lowers
<1>19. Answers(tasks, more)
  BY <1>13, <1>14, <1>15, <1>17, <1>18 DEF Answers
<1>20. ResultsHold' /\ OutputsHold' /\ MarkersHold'
  BY <1>5, HoldStill DEF Silent
<1>21. ASSUME NEW i PROVE Served(i) \subseteq Served(i)'
  <2>1. StillResolved /\ ToSet(named) \subseteq ToSet(named') /\ DOMAIN results \subseteq DOMAIN results'
    BY <1>5 DEF StillResolved
  <2>2. PICK none : none = {}
    OBVIOUS
  <2>3. \A x \in DOMAIN reads \ none : x \in DOMAIN reads' /\ reads'[x] = reads[x]
    BY <1>5
  <2>4. \A x \in Stars : <<x, 1>> \in none => IsServed(x, i)'
    BY <2>2
  <2> QED
    BY <1>5, <2>1, <2>3, <2>4, StillServed
<1>22. DOMAIN results \subseteq DOMAIN results' /\ callers' = callers
  BY <1>5
<1> QED
  BY <1>4, <1>5, <1>6, <1>10, <1>11, <1>19, <1>20, <1>21, <1>22, StayTurn

-----------------------------------------------------------------------------
(* What is asked of a star is there when it is finished.                    *)

\* A star that leads to a table leads to one by way of the next star.
LEMMA NextStar ==
    ASSUME NEW o, LeadsToTable(o), ~IsTable(o)
    PROVE  \E y : <<o, y>> \in StarPairs /\ LeadsToTable(y)
<1>1. PICK z : Leads(o, z, StarPairs) /\ IsTable(z)
  BY DEF LeadsToTable
<1>2. StarPairs \subseteq Ends(StarPairs) \X Ends(StarPairs)
  <2>1. \A pair \in StarPairs : pair = <<pair[1], pair[2]>>
    BY DEF StarPairs
  <2>2. \A pair \in StarPairs : pair[1] \in Ends(StarPairs) /\ pair[2] \in Ends(StarPairs)
    BY DEF Ends
  <2> QED
    BY <2>1, <2>2
<1> SUFFICES ASSUME \A y : <<o, y>> \in StarPairs => ~LeadsToTable(y)
             PROVE  FALSE
  OBVIOUS
<1> DEFINE good == {x \in Ends(StarPairs) : ~LeadsToTable(x)}
<1>3. \A y : <<o, y>> \in StarPairs => y \in good
  BY <1>2
<1>4. ASSUME NEW x, NEW y, x \in good, <<x, y>> \in StarPairs
      PROVE  y \in good
  <2>1. ~LeadsToTable(x) /\ y \in Ends(StarPairs)
    BY <1>2, <1>4
  <2>2. Leads(x, y, StarPairs)
    BY <1>4, LeadsPair
  <2>3. ~IsTable(y)
    BY <2>1, <2>2 DEF LeadsToTable
  <2>4. ASSUME NEW w, Leads(y, w, StarPairs) PROVE ~IsTable(w)
    <3>1. Leads(x, w, StarPairs)
      BY <2>2, <2>4, LeadsFurther
    <3> QED
      BY <2>1, <3>1 DEF LeadsToTable
  <2> QED
    BY <2>1, <2>3, <2>4 DEF LeadsToTable
<1>5. z \in good
  <2> HIDE DEF good
  <2> QED
    BY <1>1, <1>2, <1>3, <1>4, LeadsWithin
<1> QED
  BY <1>1, <1>5 DEF LeadsToTable

\* What flows to a star was asked of its source.
LEMMA FlowsAsked ==
    ASSUME Unasked = {}, NEW q \in Stars, NEW c, <<q, c>> \in BodyFlows \cup SubqueryFlows
    PROVE  <<q, 1>> \in DOMAIN asked /\ c \in asked[<<q, 1>>]
<1>1. PICK flow \in BodyFlows \cup SubqueryFlows : flow = <<q, c>>
  OBVIOUS
<1>2. PICK asks : asks = << <<q, 1>>, c>>
  OBVIOUS
<1>3. Sole(flow[1]) = {<<q, 1>>} /\ flow[2] = c
  BY <1>1, StarNode
<1>4. asks \in Sole(flow[1]) \X {flow[2]}
  BY <1>2, <1>3
<1>5. asks \in Flows
  BY <1>4 DEF Flows
<1>6. asks \notin Unasked
  OBVIOUS
<1> QED
  BY <1>2, <1>5, <1>6 DEF Unasked

LEMMA StarOutput ==
    ASSUME IInv, AskedKnown, Lowering, NEW q \in Stars, IsServed(q, Len(callers)),
           <<q, 1>> \in DOMAIN asked, LeadsToTable(<<q, 1>>)
    PROVE  asked[<<q, 1>>] \subseteq Output(<<q, 1>>).columns
<1>1. PICK o : o = <<q, 1>>
  OBVIOUS
<1>2. Unasked = {} /\ ResultsHold /\ OutputsHold
  BY DEF Lowering
<1>3. /\ Source(o).kind \in {"table", "subquery", "function"}
      /\ Source(o).kind = "subquery" => Source(o).body \in DOMAIN program.query
  <2>1. q \in DOMAIN program.query /\ program.query[q].kind = "select" /\ Len(program.query[q].sources) = 1
    BY StarNode DEF Node
  <2>2. IsNode(program.query[q]) /\ IsSequence(program.query[q].sources)
    BY <2>1, TreeFacts DEF IInv, IsProgram
  <2>3. Source(o) = program.query[q].sources[1] /\ 1 \in DOMAIN program.query[q].sources
    BY <1>1, <2>1, <2>2, SequenceFacts DEF Source, Node
  <2>4. program.query[q].sources[1] \in ToSet(program.query[q].sources)
    BY <2>2, <2>3, SequenceFacts
  <2>5. Source(o).kind \in {"table", "subquery", "function"}
    BY <2>1, <2>2, <2>3, <2>4 DEF IsNode
  <2> QED
    BY <2>1, <2>3, <2>5, TreeFacts DEF IInv
<1> DEFINE body == IF o \in DOMAIN bound THEN bound[o].body ELSE Source(o).body
<1>4. ASSUME ~IsTable(o) PROVE body \in Stars /\ LeadsToTable(<<body, 1>>)
  <2>1. PICK y : <<o, y>> \in StarPairs /\ LeadsToTable(y)
    BY <1>1, <1>4, NextStar
  <2>2. y \in Sole(body)
    BY <2>1 DEF StarPairs
  <2>3. body \in DOMAIN program.query
    <3>1. body # NoQuery
      BY <2>2 DEF Sole, IsSelect
    <3>2. CASE o \in DOMAIN bound
      BY <3>1, <3>2 DEF IInv, NamesKnown
    <3>3. CASE o \notin DOMAIN bound
      <4>1. Source(o).kind # "function"
        BY <1>4 DEF IsTable
      <4>2. Source(o).kind # "table"
        BY <1>1, <3>3 DEF IsServed
      <4> QED
        BY <1>3, <3>3, <4>1, <4>2
    <3> QED
      BY <3>2, <3>3
  <2>4. body \in Stars
    BY <2>2, <2>3 DEF Stars
  <2> HIDE DEF body
  <2> QED
    BY <2>1, <2>2, <2>4, StarNode
<1>5. CASE Source(o).kind = "function"
  BY <1>1, <1>5 DEF Output, Opaque
<1>6. CASE Source(o).kind = "subquery"
  <2>1. o \notin DOMAIN bound
    BY <1>6 DEF AskedKnown
  <2>2. PICK r : r = Source(o).body
    OBVIOUS
  <2>3. r \in Stars /\ LeadsToTable(<<r, 1>>)
    BY <1>4, <1>6, <2>1, <2>2 DEF IsTable
  <2>4. r \in DOMAIN results /\ Unwrap(r) = r
    BY <1>1, <1>6, <2>2, <2>3, StarNode DEF IsServed
  <2>5. Output(o) = results[r]
    BY <1>6, <2>2, <2>4 DEF Output
  <2>6. ASSUME NEW c \in asked[o] PROVE c \in results[r].columns
    <3>1. <<r, c>> \in SubqueryFlows
      BY <1>1, <1>6, <2>2, <2>6 DEF SubqueryFlows
    <3>2. <<r, 1>> \in DOMAIN asked /\ c \in asked[<<r, 1>>]
      BY <1>2, <2>3, <3>1, FlowsAsked
    <3> QED
      BY <1>2, <2>3, <2>4, <3>2 DEF ResultsHold
  <2> QED
    BY <1>1, <2>5, <2>6
<1>7. CASE Source(o).kind = "table"
  <2>1. o \in DOMAIN reads /\ o \in DOMAIN bound
    BY <1>1, <1>7 DEF IsServed
  <2>2. PICK s : s = bound[o]
    OBVIOUS
  <2>3. asked[o] \subseteq required[s]
    BY <2>1, <2>2 DEF AskedKnown
  <2>4. CASE reads[o] = "recursive"
    <3>1. Output(o) = Opaque(required[s])
      BY <1>7, <2>2, <2>4 DEF Output
    <3> QED
      BY <1>1, <2>3, <3>1 DEF Opaque
  <2>5. CASE reads[o] # "recursive"
    <3>1. s \in ToSet(named)
      <4>1. ~\E j \in DOMAIN callers : Len(callers) < j
        BY SequenceFacts DEF IInv, CallsKnown
      <4> QED
        BY <1>1, <1>7, <2>2, <2>5, <4>1 DEF IsServed
    <3>2. Output(o) = outputs[s]
      BY <1>7, <2>2, <2>5 DEF Output
    <3>3. Holds(s)
      <4>1. CASE s.role = "TABLE"
        BY <4>1 DEF Holds
      <4>2. CASE s.role # "TABLE"
        <5>1. ~IsTable(o) /\ body = s.body
          BY <1>7, <2>1, <2>2, <4>2 DEF IsTable
        <5> QED
          BY <1>4, <5>1 DEF Holds
      <4> QED
        BY <4>1, <4>2
    <3> QED
      BY <1>1, <1>2, <2>3, <3>1, <3>2, <3>3 DEF OutputsHold
  <2> QED
    BY <2>4, <2>5
<1> QED
  BY <1>3, <1>5, <1>6, <1>7

LEMMA FinishLate == IInv /\ AskedKnown /\ Lowering /\ FinishQuery => Lowering'
<1> SUFFICES ASSUME IInv, AskedKnown, Lowering, FinishQuery PROVE Lowering'
  OBVIOUS
<1>1. PICK q : q = Task.query
  OBVIOUS
<1>2. PICK tasks : /\ agenda' = tasks \o Tail(agenda)
                   /\ \/ tasks = <<>>
                      \/ Node(q).kind = "select" /\ tasks = [i \in DOMAIN Node(q).markers |-> Mark("mark", q, Node(q).markers[i])]
  BY <1>1 DEF FinishQuery, Then
<1>3. /\ Doing("finish") /\ UNCHANGED <<program, binding, asking, linking, diagnostics>>
      /\ \E output : /\ results' = With(results, q, output)
                     /\ Node(q).kind = "select" => output = SelectOutput(q)
  BY <1>1 DEF FinishQuery
<1>4. PICK output : /\ results' = With(results, q, output)
                    /\ Node(q).kind = "select" => output = SelectOutput(q)
  BY <1>3
<1>5. Known /\ UNCHANGED <<callers, reads, named, outputs, diagnostics>>
  BY <1>3 DEF Known, binding, asking, linking
<1>6. agenda # <<>> /\ Head(agenda).do = "finish" /\ Head(agenda).query = q /\ q \in DOMAIN program.query /\ IsSequence(agenda)
  BY <1>1, <1>3, LateTask DEF KnownCall
<1>7. /\ DOMAIN results' = DOMAIN results \cup {q} /\ results'[q] = output
      /\ \A r \in DOMAIN results : r # q => results'[r] = results[r]
  BY <1>4 DEF With
<1>8. PICK n : n = Len(callers)
  OBVIOUS
<1>9. PICK more : more = Served(n)'
  OBVIOUS
<1>10. Stars' = Stars /\ (\A x : Source(x)' = Source(x)) /\ \A x : Node(x)' = Node(x)
  BY <1>5, StillKnown
<1>11. /\ IsSequence(tasks)
       /\ \A t \in ToSet(tasks) : t.do = "mark" /\ t.query = q /\ Node(q).kind = "select" /\ t.marker \in ToSet(Node(q).markers)
  <2>1. CASE tasks = <<>>
    BY <2>1, EmptyFacts
  <2>2. CASE Node(q).kind = "select" /\ tasks = [i \in DOMAIN Node(q).markers |-> Mark("mark", q, Node(q).markers[i])]
    <3>1. PICK markers : markers = Node(q).markers
      OBVIOUS
    <3>2. IsSequence(markers)
      BY <1>6, <2>2, <3>1, TreeFacts DEF IInv, Node
    <3>3. tasks = [i \in DOMAIN markers |-> Mark("mark", q, markers[i])]
      BY <2>2, <3>1
    <3>4. IsSequence(tasks) /\ ToSet(tasks) = {Mark("mark", q, markers[i]) : i \in DOMAIN markers}
      BY <3>2, <3>3, EachFacts, SequenceFacts
    <3>5. \A i \in DOMAIN markers : markers[i] \in ToSet(markers)
      BY <3>2, SequenceFacts
    <3> QED
      BY <2>2, <3>1, <3>4, <3>5 DEF Mark
  <2> QED
    BY <1>2, <2>1, <2>2
<1>12. Answers(tasks, more)
  <2>1. InTurn(tasks, more)
    BY <1>11, SequenceFacts DEF InTurn
  <2>2. \A t \in ToSet(tasks) : IsLate(t)'
    <3>1. Selects(program)' = Selects(program) /\ (Node(q).kind = "select" => q \in Selects(program))
      BY <1>5, <1>6 DEF Known, Selects, Node
    <3> QED
      BY <1>7, <1>10, <1>11, <3>1 DEF IsLate, DiscoveryCalls
  <2>3. ASSUME NEW x \in Stars, Serves(Head(agenda), x) PROVE x \in more
    <3>1. Source(<<x, 1>>).kind = "subquery" /\ Source(<<x, 1>>).body \in DOMAIN results'
      BY <1>6, <1>7, <2>3 DEF Serves
    <3>2. IsServed(x, n)'
      BY <1>10, <3>1 DEF IsServed
    <3> QED
      BY <1>9, <1>10, <3>2 DEF Served
  <2>4. \A x : Lowers(Head(agenda), x) => x \in DOMAIN results'
    BY <1>6, <1>7 DEF Lowers
  <2> QED
    BY <1>11, <2>1, <2>2, <2>3, <2>4 DEF Answers
<1>13. OutputsHold' /\ MarkersHold'
  BY <1>5, HoldStill DEF Silent
<1>14. ASSUME NEW i PROVE Served(i) \subseteq Served(i)'
  <2>1. StillResolved /\ ToSet(named) \subseteq ToSet(named') /\ DOMAIN results \subseteq DOMAIN results'
    BY <1>5, <1>7 DEF StillResolved
  <2>2. PICK none : none = {}
    OBVIOUS
  <2>3. \A x \in DOMAIN reads \ none : x \in DOMAIN reads' /\ reads'[x] = reads[x]
    BY <1>5
  <2>4. \A x \in Stars : <<x, 1>> \in none => IsServed(x, i)'
    BY <2>2
  <2> QED
    BY <1>5, <2>1, <2>3, <2>4, StillServed
<1>15. ResultsHold'
  <2> SUFFICES ASSUME NEW r \in Stars, r \in DOMAIN results', <<r, 1>> \in DOMAIN asked, LeadsToTable(<<r, 1>>)
               PROVE  asked[<<r, 1>>] \subseteq results'[r].columns
    BY <1>5, <1>10, StillLeads DEF ResultsHold, Known
  <2>1. CASE r # q
    BY <1>7, <2>1 DEF Lowering, ResultsHold
  <2>2. CASE r = q
    <3>1. IsServed(q, Len(callers))
      <4>1. 1 \in DOMAIN agenda /\ agenda[1] = Head(agenda) /\ DOMAIN agenda \subseteq Nat \ {0}
        <5>1. agenda \in Seq(ToSet(agenda))
          BY <1>6 DEF IsSequence
        <5> QED
          BY <1>6, <5>1
      <4>2. ~\E a \in DOMAIN agenda : a < 1
        BY <4>1
      <4>3. q \in Served(Len(callers))
        BY <1>6, <2>2, <4>1, <4>2 DEF Lowering, LateCalls, InTurn
      <4> QED
        BY <4>3 DEF Served
    <3>2. asked[<<q, 1>>] \subseteq Output(<<q, 1>>).columns
      BY <2>2, <3>1, StarOutput
    <3>3. /\ Node(q).kind = "select" /\ Node(q).tail = "star" /\ 1 \in DOMAIN Node(q).sources
      <4>1. Node(q).kind = "select" /\ Node(q).tail = "star" /\ Len(Node(q).sources) = 1
        BY <2>2, StarNode
      <4>2. IsSequence(Node(q).sources)
        BY <1>6, <4>1, TreeFacts DEF IInv, Node
      <4> QED
        BY <4>1, <4>2, SequenceFacts
    <3>4. Output(<<q, 1>>).columns \subseteq SelectOutput(q).columns
      BY <3>3 DEF SelectOutput
    <3> QED
      BY <1>4, <1>7, <2>2, <3>2, <3>3, <3>4
  <2> QED
    BY <2>1, <2>2
<1>16. callers' = callers /\ DOMAIN results \subseteq DOMAIN results'
  BY <1>5, <1>7
<1> QED
  BY <1>2, <1>5, <1>6, <1>8, <1>9, <1>12, <1>13, <1>14, <1>15, <1>16, StayTurn

LEMMA NameLate == IInv /\ Lowering /\ NameRelation => Lowering'
<1> SUFFICES ASSUME IInv, Lowering, NameRelation PROVE Lowering'
  OBVIOUS
<1>1. PICK n : n = Len(callers)
  OBVIOUS
<1>2. PICK s : s = Last(callers).symbol
  OBVIOUS
<1>3. PICK output : output = IF s.body = NoQuery THEN Opaque(required[s]) ELSE results[Unwrap(s.body)]
  OBVIOUS
<1>4. /\ agenda = <<>> /\ callers # <<>> /\ agenda' = Last(callers).rest /\ callers' = Front(callers)
      /\ Name(s, output)
      /\ UNCHANGED <<program, binding, asking, reads, results, diagnostics>>
  BY <1>2, <1>3 DEF NameRelation
<1>5. Known
  BY <1>4 DEF Known, binding, asking
<1>6. /\ IsSequence(callers) /\ n \in Nat \ {0} /\ DOMAIN callers = 1..n /\ Last(callers) = callers[n]
      /\ DOMAIN callers' = 1..(n - 1) /\ \A i \in 1..(n - 1) : callers'[i] = callers[i]
  BY <1>1, <1>4, FrontFacts DEF IInv, CallsKnown
<1>7. s = callers[n].symbol /\ s \in ToSet(symbols) /\ s.role # "TABLE"
  BY <1>2, <1>6 DEF IInv, CallsKnown, Lowering, BodiesDue
<1>8. Holds(s) => required[s] \subseteq output.columns
  <2>1. CASE s.body = NoQuery
    BY <1>3, <2>1 DEF Opaque
  <2>2. ASSUME s.body # NoQuery, s.body \in Stars, LeadsToTable(<<s.body, 1>>)
        PROVE  required[s] \subseteq output.columns
    <3>1. s.body \in DOMAIN results
      <4>1. Inside(n) = <<>>
        BY <1>1, <1>4 DEF Inside
      <4>2. ~\E t \in ToSet(Inside(n)) : Lowers(t, s.body)
        BY <4>1, EmptyFacts
      <4> QED
        BY <1>6, <1>7, <2>2, <4>2 DEF Lowering, BodiesDue
    <3>2. output = results[s.body]
      BY <1>3, <2>2, StarNode
    <3>3. ASSUME NEW c \in required[s] PROVE c \in results[s.body].columns
      <4>1. <<s.body, c>> \in BodyFlows
        BY <1>7, <2>2, <3>3 DEF BodyFlows
      <4>2. <<s.body, 1>> \in DOMAIN asked /\ c \in asked[<<s.body, 1>>]
        BY <2>2, <4>1, FlowsAsked DEF Lowering
      <4> QED
        BY <2>2, <3>1, <4>2 DEF Lowering, ResultsHold
    <3> QED
      BY <3>2, <3>3
  <2> QED
    BY <1>7, <2>1, <2>2 DEF Holds
<1>9. OutputsHold' /\ ToSet(named') = ToSet(named) \cup {s}
  BY <1>4, <1>5, <1>8, NamedHold
<1>10. ResultsHold' /\ MarkersHold'
  BY <1>4, <1>5, HoldStill DEF Silent
<1>11. ASSUME NEW i PROVE Served(i) \subseteq Served(i)'
  <2>1. StillResolved
    <3>1. \A j \in 1..n : j \in 1..(n - 1) \/ j = n
      BY <1>6
    <3> QED
      BY <1>6, <1>7, <1>9, <3>1 DEF StillResolved
  <2>2. PICK none : none = {}
    OBVIOUS
  <2>3. \A x \in DOMAIN reads \ none : x \in DOMAIN reads' /\ reads'[x] = reads[x]
    BY <1>4
  <2>4. \A x \in Stars : <<x, 1>> \in none => IsServed(x, i)'
    BY <2>2
  <2>5. ToSet(named) \subseteq ToSet(named') /\ DOMAIN results \subseteq DOMAIN results'
    BY <1>4, <1>9
  <2> QED
    BY <1>5, <2>1, <2>3, <2>4, <2>5, StillServed
<1>12. DOMAIN results \subseteq DOMAIN results'
  BY <1>4
<1> QED
  BY <1>1, <1>4, <1>5, <1>9, <1>10, <1>11, <1>12, PopTurn

\* The steps of lowering and of linking leave what was met, bound and asked.
LEMMA LateKnown ==
    ASSUME Later
    PROVE  Known /\ targets' = targets
<1>1. UNCHANGED <<program, binding, asking>>
  <2>1. CASE LowerQuery \/ FilterRows \/ FinishQuery \/ NameRelation
    BY <2>1 DEF LowerQuery, FilterRows, FinishQuery, NameRelation
  <2>2. CASE ReadSource \/ ResolveSymbol
    BY <2>2 DEF ReadSource, ResolveSymbol, Crash
  <2>3. CASE AssertJoin \/ RegisterMarker
    BY <2>3 DEF AssertJoin, RegisterMarker, Crash
  <2>4. CASE LinkConstraints \/ LinkReference \/ ConstrainReference \/ LinkMarkers
    BY <2>4 DEF LinkConstraints, LinkReference, ConstrainReference, LinkMarkers
  <2>5. CASE StateReference \/ PlaceAssertion \/ ReportUnanalyzed \/ Settle
    BY <2>5 DEF StateReference, PlaceAssertion, ReportUnanalyzed, Settle
  <2> QED
    BY <2>1, <2>2, <2>3, <2>4, <2>5 DEF Later
<1> QED
  BY <1>1 DEF Known, binding, asking

LEMMA LaterSteps ==
    ASSUME IInv, Lowering, Next
    PROVE  Later
<1>a. ASSUME NEW what \in DiscoveryCalls \cup {"propagate"} PROVE ~Doing(what)
  BY <1>a, LateTask
<1>1. ~(DeclareStatement \/ DiscoverViews \/ DiscoverView \/ DiscoverQuery \/ BindSource \/ RequireColumns)
  <2>1. ~DeclareStatement /\ ~DiscoverViews /\ ~DiscoverView
    BY <1>a DEF DeclareStatement, DiscoverViews, DiscoverView, DiscoveryCalls
  <2>2. ~DiscoverQuery /\ ~BindSource /\ ~RequireColumns
    BY <1>a DEF DiscoverQuery, BindSource, RequireColumns, DiscoveryCalls
  <2> QED
    BY <2>1, <2>2
<1>2. ~(FindTarget \/ DiscoverConstraints \/ DiscoverConstraintsOf \/ DiscoverReference \/ Propagate)
  <2>1. ~FindTarget /\ ~DiscoverConstraints /\ ~DiscoverConstraintsOf
    BY <1>a DEF FindTarget, DiscoverConstraints, DiscoverConstraintsOf, DiscoveryCalls
  <2>2. ~DiscoverReference /\ ~Propagate
    BY <1>a DEF DiscoverReference, Propagate, DiscoveryCalls
  <2> QED
    BY <2>1, <2>2
<1> QED
  BY <1>1, <1>2 DEF Next, Later

LEMMA LoweringNext ==
    ASSUME IInv, AskedKnown, Lowering, Next
    PROVE  crashed' \/ (AskedKnown' /\ Lowering')
<1>1. Later
  BY LaterSteps
<1>2. AskedKnown'
  BY <1>1, LateKnown, StillLeads
<1>3. crashed' \/ Lowering'
  <2>1. CASE Passive \/ Telling \/ Settle
    BY <2>1, PassiveLate, TellingLate, SettleLate
  <2>2. CASE LowerQuery \/ ReadSource \/ FilterRows \/ ResolveSymbol
    BY <2>2, LowerLate, ReadLate, FilterLate, ResolveSymbolLate
  <2>3. CASE NameRelation \/ FinishQuery \/ RegisterMarker
    BY <2>3, NameLate, FinishLate, RegisterLate
  <2> QED
    BY <1>1, <2>1, <2>2, <2>3 DEF Passive, Telling, Later
<1> QED
  BY <1>2, <1>3

\* A step that changes nothing.
LEMMA StillAsking == Asking /\ UNCHANGED vars => Asking'
<1> SUFFICES ASSUME ~crashed, AskedKnown, Discovers \/ Lowering, UNCHANGED vars
             PROVE  AskedKnown' /\ (Discovers' \/ Lowering')
  BY DEF Asking, vars
<1>1. /\ Known
      /\ UNCHANGED <<agenda, callers, global, outputs, named, reads, results, diagnostics>>
  BY DEF vars, binding, asking, linking, Known
<1>2. AskedKnown'
  BY <1>1, StillLeads
<1>3. ASSUME Discovers PROVE Discovers'
  <2>1. IsDiscovering(agenda)' /\ BindsOnce(agenda, DOMAIN asked)' /\ DeclaredNamed'
    BY <1>1, <1>3 DEF Discovers, Known, IsDiscovering, DeclaredNamed, BindsOnce
  <2>2. \A q \in Stars' \cap DOMAIN scopes' : IsAsked(q)' \/ WillAsk(agenda', q, DOMAIN asked')
    BY <1>1, <1>3, StillKnown DEF Discovers, Known
  <2>3. \A m \in MarkersIn(program') : Silent(m)'
    BY <1>1, <1>3 DEF Discovers, Known, Silent
  <2> QED
    BY <1>1, <1>3, <2>1, <2>2, <2>3 DEF Discovers
<1>4. ASSUME Lowering PROVE Lowering'
  <2>1. \A i : Served(i)' = Served(i)
    BY <1>1, StillKnown DEF Served, IsServed, Known
  <2>2. BodiesDue'
    BY <1>1, <1>4, StillKnown DEF Lowering, BodiesDue, Inside
  <2>3. ResultsHold' /\ OutputsHold'
    BY <1>1, <1>4, StillKnown, StillLeads DEF Lowering, ResultsHold, OutputsHold, Known
  <2>4. MarkersHold'
    BY <1>1, <1>4, StillKnown, StillLeads DEF Lowering, MarkersHold, Known, Silent
  <2>5. /\ \A t : IsLate(t) => IsLate(t)'
        /\ \A calls, served, more : InTurn(calls, served) /\ served \subseteq more => InTurn(calls, more)'
    BY <1>1, StillLate
  <2>6. \A i : Served(i) \subseteq Served(i)'
    BY <2>1
  <2>7. PICK served : served = Served(Len(callers))'
    OBVIOUS
  <2>8. PICK calls : calls = agenda
    OBVIOUS
  <2>9. LateCalls(agenda, Served(Len(callers)))'
    <3>1. InTurn(calls, served)' /\ \A t \in ToSet(calls) : IsLate(t)'
      <4>1. InTurn(calls, Served(Len(callers))) /\ Served(Len(callers)) \subseteq served
        BY <1>1, <1>4, <2>1, <2>7, <2>8 DEF Lowering, LateCalls
      <4> QED
        BY <1>4, <2>5, <2>8, <4>1 DEF Lowering, LateCalls
    <3>2. agenda' = calls
      BY <1>1, <2>8
    <3> QED
      BY <2>7, <3>1, <3>2 DEF LateCalls
  <2>10. \A i \in DOMAIN callers' : LateCalls(callers[i].rest, Served(i - 1))'
    <3> SUFFICES ASSUME NEW i \in DOMAIN callers PROVE LateCalls(callers[i].rest, Served(i - 1))'
      BY <1>1
    <3>1. PICK then : then = callers[i].rest
      OBVIOUS
    <3>2. PICK met : met = Served(i - 1)'
      OBVIOUS
    <3>3. InTurn(then, met)' /\ \A t \in ToSet(then) : IsLate(t)'
      <4>1. InTurn(then, Served(i - 1)) /\ Served(i - 1) \subseteq met
        BY <1>4, <2>6, <3>1, <3>2 DEF Lowering, LateCalls
      <4> QED
        BY <1>4, <2>5, <3>1, <4>1 DEF Lowering, LateCalls
    <3>4. callers'[i].rest = then
      BY <1>1, <3>1
    <3> QED
      BY <3>2, <3>3, <3>4 DEF LateCalls
  <2>11. Unasked' = {} /\ \A q \in Stars' \cap DOMAIN scopes' : IsAsked(q)'
    BY <1>1, <1>4, StillKnown DEF Lowering, Known
  <2> QED
    BY <1>4, <2>2, <2>3, <2>4, <2>9, <2>10, <2>11, <1>1 DEF Lowering
<1> QED
  BY <1>2, <1>3, <1>4

-----------------------------------------------------------------------------
(* What the invariant says in the end.                                      *)

LEMMA AskingNext ==
    ASSUME IInv, RelationsSourced, Asking, [Next]_vars
    PROVE  Asking'
<1>1. CASE UNCHANGED vars
  BY <1>1, StillAsking
<1>2. CASE crashed /\ Next
  <2>1. UNCHANGED vars \/ crashed'
    <3>1. \A what : ~Doing(what)
      BY <1>2 DEF Doing
    <3>2. ~(DeclareStatement \/ DiscoverViews \/ DiscoverView \/ DiscoverQuery \/ BindSource \/ RequireColumns
            \/ FindTarget \/ DiscoverConstraints \/ DiscoverConstraintsOf \/ DiscoverReference \/ Propagate)
      BY <3>1 DEF DeclareStatement, DiscoverViews, DiscoverView, DiscoverQuery, BindSource, RequireColumns,
                  FindTarget, DiscoverConstraints, DiscoverConstraintsOf, DiscoverReference, Propagate
    <3>3. ~(LowerQuery \/ ReadSource \/ FilterRows \/ ResolveSymbol \/ NameRelation \/ AssertJoin \/ FinishQuery
            \/ RegisterMarker)
      BY <1>2, <3>1 DEF LowerQuery, ReadSource, FilterRows, ResolveSymbol, NameRelation, AssertJoin, FinishQuery,
                        RegisterMarker
    <3>4. ~(LinkConstraints \/ LinkReference \/ ConstrainReference \/ LinkMarkers \/ StateReference
            \/ PlaceAssertion \/ ReportUnanalyzed \/ Settle)
      BY <3>1 DEF LinkConstraints, LinkReference, ConstrainReference, LinkMarkers, StateReference, PlaceAssertion,
                  ReportUnanalyzed, Settle
    <3> QED
      BY <1>2, <3>2, <3>3, <3>4 DEF Next
  <2> QED
    BY <2>1, StillAsking DEF Asking
<1>3. CASE ~crashed /\ Next
  <2>1. AskedKnown /\ (Discovers \/ Lowering)
    BY <1>3 DEF Asking
  <2>2. crashed' \/ (AskedKnown' /\ (Discovers' \/ Lowering'))
    BY <1>3, <2>1, DiscoversNext, LoweringNext
  <2> QED
    BY <2>2 DEF Asking
<1> QED
  BY <1>1, <1>2, <1>3

LEMMA AskingInvariant == Spec => [](IInv /\ RelationsSourced /\ Sequenced /\ Asking)
<1>1. Init => Asking
  BY InitDiscovers DEF Asking
<1>2. IInv /\ RelationsSourced /\ Sequenced /\ Asking /\ [Next]_vars => Asking'
  BY AskingNext
<1> QED
  BY <1>1, <1>2, LoweringInvariant, PTL DEF Spec

(***************************************************************************)
(* The columns of the markers on SELECT * are found where stars lead to a   *)
(* table or a function, whatever views, CTEs and derived tables they lead   *)
(* through: every one of them was asked for those columns before it was     *)
(* lowered, in whatever order they were discovered.                         *)
(***************************************************************************)
THEOREM StarsAlwaysResolve == Spec => []StarsResolve
<1>1. ASSUME IInv, Sequenced, Asking
      PROVE  StarsResolve
  <2>1. StarsLead = Connected(StarPairs)
    BY DEF StarsLead, StarPairs
  <2> SUFFICES ASSUME Ended, NEW q \in DOMAIN results \cap DOMAIN scopes, Sole(q) # {},
                      IsTable(<<q, 1>>) \/ \E pair \in Connected(StarPairs) : pair[1] = <<q, 1>> /\ IsTable(pair[2]),
                      NEW m \in ToSet(Ids(Node(q).markers))
               PROVE  diagnostics \cap {<<"unknown", m>>, <<"unresolved", m>>} = {}
    BY <2>1 DEF StarsResolve
  <2>2. agenda = <<>>
    BY DEF Ended
  <2>3. ~crashed
    BY <1>1, <2>2 DEF Sequenced
  <2>4. Lowering
    BY <1>1, <2>2, <2>3, DiscoveringTask DEF Asking, Discovers
  <2>5. q \in Stars
    BY <1>1 DEF IInv, NamesKnown, NamesLexical, Stars
  <2>6. LeadsToTable(<<q, 1>>)
    <3>1. ASSUME NEW pair \in Connected(StarPairs), pair[1] = <<q, 1>>, IsTable(pair[2])
          PROVE  Leads(<<q, 1>>, pair[2], StarPairs)
      <4>1. pair = <<pair[1], pair[2]>>
        BY DEF Connected
      <4> QED
        BY <3>1, <4>1, ConnectedFacts
    <3> QED
      BY <3>1 DEF LeadsToTable
  <2>7. Silent(m)
    BY <2>4, <2>5, <2>6 DEF Lowering, MarkersHold
  <2> QED
    BY <2>7 DEF Silent
<1> QED
  BY <1>1, AskingInvariant, PTL

-----------------------------------------------------------------------------
(* What is looked up was discovered, unless discovery passes over it.       *)

\* A query, a source, a marker's target is discovered, or will be; so is the
\* body of a relation, and all that a query holds.
QueryDue(q) == q \in DOMAIN scopes \/ \E t \in ToSet(agenda) : t.do = "discover" /\ t.query = q
SourceDue(q, i) ==
    \/ /\ <<q, i>> \in DOMAIN asked
       /\ Node(q).sources[i].kind = "table" => <<q, i>> \in DOMAIN bound
    \/ Bind(q, i) \in ToSet(agenda)
AskedDue(o) == Source(o).kind = "subquery" => QueryDue(Source(o).body)
MarkerDue(q, m) == IsPending(m) => m.id \in DOMAIN targets \/ Mark("target", q, m) \in ToSet(agenda)
BodyDue(s) ==
    \/ s.body = NoQuery \/ QueryDue(s.body)
    \/ s.role = "VIEW" /\ (About("view", s) \in ToSet(agenda) \/ Call("views") \in ToSet(agenda))
PartsDue(q) ==
    /\ \A c \in ToSet(Node(q).with) : QueryDue(c.body)
    /\ Node(q).kind = "setop" => \A i \in 1..2 : QueryDue(Node(q).arms[i])
    /\ Node(q).kind = "select" =>
          /\ \A i \in DOMAIN Node(q).sources : SourceDue(q, i)
          /\ \A c \in ToSet(Node(q).where) : QueryDue(c.body)
          /\ \A m \in ToSet(Node(q).markers) : MarkerDue(q, m)

\* What a call of lowering is about.
CallDue(t) ==
    /\ t.do \in {"lower", "finish", "mark"} => QueryDue(t.query)
    /\ t.do = "read" => QueryDue(t.at[1]) /\ t.at = <<t.at[1], t.at[2]>>
    /\ t.do = "filter" => QueryDue(t.conjunct.body)
Nested == UNION {ToSet(callers[i].rest) : i \in DOMAIN callers}

\* Views are looked through once everything was declared.
Declaring(calls) ==
    \E first, rest : /\ IsSequence(first) /\ \A t \in ToSet(first) : t.do = "declare"
                     /\ IsSequence(rest) /\ \A t \in ToSet(rest) : t.do # "declare"
                     /\ Call("views") \in ToSet(rest) /\ calls = first \o rest
Declared(calls) == \A t \in ToSet(calls) : t.do # "declare"

AllDue ==
    /\ \A q \in DOMAIN scopes : PartsDue(q)
    /\ \A o \in DOMAIN asked : AskedDue(o)
    /\ \A s \in ToSet(symbols) : BodyDue(s)
    /\ \A t \in ToSet(agenda) \cup Nested : CallDue(t)
    /\ Declared(agenda) \/ Declaring(agenda)

\* What is known or called for stays so, and the next call t sees to what it
\* was made for.
Onward(t) ==
    /\ program' = program
    /\ DOMAIN scopes \subseteq DOMAIN scopes' /\ DOMAIN asked \subseteq DOMAIN asked'
    /\ DOMAIN bound \subseteq DOMAIN bound' /\ DOMAIN targets \subseteq DOMAIN targets'
    /\ \A u \in ToSet(agenda) : u # t => u \in ToSet(agenda')
SeenTo(t) ==
    /\ t.do = "discover" => t.query \in DOMAIN scopes'
    /\ t.do = "bind" => \A q, i : t = Bind(q, i) => SourceDue(q, i)'
    /\ t.do = "target" => \A q, m : t = Mark("target", q, m) => MarkerDue(q, m)'
    /\ t.do = "view" => \A s : t = About("view", s) /\ s.role = "VIEW" => BodyDue(s)'
    /\ t.do = "views" => \A s \in ToSet(symbols) : s.role = "VIEW" => BodyDue(s)'

LEMMA OnwardFacts ==
    ASSUME NEW t, Onward(t), SeenTo(t)
    PROVE  /\ \A q : QueryDue(q) => QueryDue(q)'
           /\ \A q : PartsDue(q) => PartsDue(q)'
           /\ \A o : AskedDue(o) => AskedDue(o)'
           /\ \A s \in ToSet(symbols) : BodyDue(s) => BodyDue(s)'
           /\ \A c : CallDue(c) => CallDue(c)'
<1>1. \A q : QueryDue(q) => QueryDue(q)'
  BY DEF QueryDue, Onward, SeenTo
<1>2. \A q : Node(q)' = Node(q)
  BY DEF Onward, Node
<1>3. \A q, i : SourceDue(q, i) => SourceDue(q, i)'
  <2> SUFFICES ASSUME NEW q, NEW i, SourceDue(q, i) PROVE SourceDue(q, i)'
    OBVIOUS
  <2>1. CASE Bind(q, i) = t
    BY <2>1 DEF SeenTo, Bind
  <2>2. CASE Bind(q, i) # t
    BY <1>2, <2>2 DEF SourceDue, Onward
  <2> QED
    BY <2>1, <2>2
<1>4. \A q, m : MarkerDue(q, m) => MarkerDue(q, m)'
  <2> SUFFICES ASSUME NEW q, NEW m, MarkerDue(q, m) PROVE MarkerDue(q, m)'
    OBVIOUS
  <2>1. CASE Mark("target", q, m) = t
    BY <2>1 DEF SeenTo, Mark
  <2>2. CASE Mark("target", q, m) # t
    BY <2>2 DEF MarkerDue, IsPending, Onward
  <2> QED
    BY <2>1, <2>2
<1>5. ASSUME NEW s \in ToSet(symbols), BodyDue(s) PROVE BodyDue(s)'
  <2>1. CASE About("view", s) = t /\ s.role = "VIEW"
    BY <2>1 DEF SeenTo, About
  <2>2. CASE Call("views") = t /\ s.role = "VIEW"
    BY <2>2 DEF SeenTo, Call
  <2>3. CASE s.role = "VIEW" => About("view", s) # t /\ Call("views") # t
    BY <1>1, <1>5, <2>3 DEF BodyDue, Onward
  <2> QED
    BY <2>1, <2>2, <2>3
<1>6. \A q : PartsDue(q) => PartsDue(q)'
  BY <1>1, <1>2, <1>3, <1>4 DEF PartsDue
<1>7. \A c : CallDue(c) => CallDue(c)'
  BY <1>1 DEF CallDue
<1>8. \A o : AskedDue(o) => AskedDue(o)'
  BY <1>1, <1>2 DEF AskedDue, Source
<1> QED
  BY <1>1, <1>5, <1>6, <1>7, <1>8

\* The common case.
LEMMA DueKept ==
    ASSUME AllDue, NEW t, Onward(t), SeenTo(t), Declared(agenda') \/ Declaring(agenda'),
           \A q \in DOMAIN scopes' \ DOMAIN scopes : PartsDue(q)',
           \A o \in DOMAIN asked' \ DOMAIN asked : AskedDue(o)',
           \A s \in ToSet(symbols') \ ToSet(symbols) : BodyDue(s)',
           \A c \in (ToSet(agenda') \cup Nested') \ (ToSet(agenda) \cup Nested) : CallDue(c)'
    PROVE  AllDue'
<1>1. \A q \in DOMAIN scopes' : PartsDue(q)'
  BY OnwardFacts DEF AllDue
<1>2. \A s \in ToSet(symbols') : BodyDue(s)'
  BY OnwardFacts DEF AllDue
<1>3. \A c \in ToSet(agenda') \cup Nested' : CallDue(c)'
  BY OnwardFacts DEF AllDue
<1>4. (Declared(agenda) \/ Declaring(agenda))'
  BY DEF Declared, Declaring
<1>5. \A o \in DOMAIN asked' : AskedDue(o)'
  BY OnwardFacts DEF AllDue
<1> QED
  BY <1>1, <1>2, <1>3, <1>4, <1>5 DEF AllDue

\* Calls come in the place of the next one.
LEMMA InPlace ==
    ASSUME NEW calls, IsSequence(calls), calls # <<>>, NEW tasks, IsSequence(tasks),
           NEW all, all = tasks \o Tail(calls)
    PROVE  /\ IsSequence(all) /\ ToSet(all) = ToSet(tasks) \cup ToSet(Tail(calls))
           /\ \A u \in ToSet(calls) : u # Head(calls) => u \in ToSet(all)
           /\ ToSet(Tail(calls)) \subseteq ToSet(calls)
           /\ Declared(calls) /\ Declared(tasks) => Declared(all)
           /\ Declaring(calls) /\ Head(calls).do # "declare" /\ Declared(tasks) => Declared(all)
           /\ Declaring(calls) /\ Head(calls).do = "declare" /\ tasks = <<>> =>
                 Declaring(all) /\ Call("views") \in ToSet(all)
<1>1. IsSequence(Tail(calls)) /\ ToSet(Tail(calls)) \subseteq ToSet(calls)
  BY TailFacts
<1>2. IsSequence(all) /\ ToSet(all) = ToSet(tasks) \cup ToSet(Tail(calls))
  BY <1>1, ConcatFacts
<1>3. calls = <<Head(calls)>> \o Tail(calls) /\ IsSequence(<<Head(calls)>>) /\ ToSet(<<Head(calls)>>) = {Head(calls)}
  BY HeadFacts
<1>4. ToSet(calls) = {Head(calls)} \cup ToSet(Tail(calls))
  BY <1>1, <1>3, ConcatFacts
<1>5. Declared(calls) /\ Declared(tasks) => Declared(all)
  BY <1>1, <1>2 DEF Declared
<1>6. ASSUME Declaring(calls), Head(calls).do # "declare", Declared(tasks) PROVE Declared(all)
  <2>1. PICK first, rest : /\ IsSequence(first) /\ \A t \in ToSet(first) : t.do = "declare"
                           /\ IsSequence(rest) /\ \A t \in ToSet(rest) : t.do # "declare"
                           /\ calls = first \o rest
    BY <1>6 DEF Declaring
  <2>2. first = <<>>
    <3>1. ASSUME first # <<>> PROVE FALSE
      BY <1>6, <2>1, <3>1, FirstFacts, TailFacts
    <3> QED
      BY <3>1
  <2>3. calls = rest
    BY <2>1, <2>2, FirstFacts
  <2> QED
    BY <1>1, <1>2, <1>6, <2>1, <2>3 DEF Declared
<1>7. ASSUME Declaring(calls), Head(calls).do = "declare", tasks = <<>>
      PROVE  Declaring(all) /\ Call("views") \in ToSet(all)
  <2>1. PICK first, rest : /\ IsSequence(first) /\ \A t \in ToSet(first) : t.do = "declare"
                           /\ IsSequence(rest) /\ \A t \in ToSet(rest) : t.do # "declare"
                           /\ Call("views") \in ToSet(rest) /\ calls = first \o rest
    BY <1>7 DEF Declaring
  <2>2. first # <<>>
    <3>1. ASSUME first = <<>> PROVE FALSE
      BY <1>7, <2>1, <3>1, FirstFacts, TailFacts
    <3> QED
      BY <3>1
  <2>3. Tail(calls) = Tail(first) \o rest
    BY <2>1, <2>2, FirstFacts
  <2>4. all = Tail(calls)
    BY <1>1, <1>7, EmptyFacts, FirstFacts
  <2>5. IsSequence(Tail(first)) /\ \A t \in ToSet(Tail(first)) : t.do = "declare"
    BY <2>1, <2>2, TailFacts
  <2>6. PICK then : then = Tail(first)
    OBVIOUS
  <2>7. all = then \o rest /\ IsSequence(then) /\ \A t \in ToSet(then) : t.do = "declare"
    BY <2>3, <2>4, <2>5, <2>6
  <2>8. Call("views") \in ToSet(all)
    <3>1. ToSet(then \o rest) = ToSet(then) \cup ToSet(rest)
      BY <2>1, <2>7, ConcatFacts
    <3>2. Call("views") \in ToSet(rest)
      BY <2>1
    <3>3. all = then \o rest
      BY <2>7
    <3> QED
      BY <3>1, <3>2, <3>3
  <2> QED
    BY <2>1, <2>7, <2>8 DEF Declaring
<1> QED
  BY <1>1, <1>2, <1>4, <1>5, <1>6, <1>7

\* The next call is t.
Making(t, what) ==
    /\ agenda # <<>> /\ t = Head(agenda) /\ t.do = what /\ IsSequence(agenda) /\ Task = t
    /\ IsSequence(symbols) /\ IsProgram(program)

LEMMA MakingFacts ==
    ASSUME IInv, NEW what, Doing(what), NEW t, t = Head(agenda)
    PROVE  Making(t, what)
<1>1. agenda # <<>> /\ t = Head(agenda) /\ t.do = what /\ Task = t
  BY TaskFacts DEF Doing, Task
<1>2. IsSequence(agenda)
  BY DEF IInv, CallsKnown, KnownCalls
<1>3. IsSequence(symbols) /\ IsProgram(program)
  BY DEF IInv, NamesKnown
<1> QED
  BY <1>1, <1>2, <1>3 DEF Making

\* Calls of discovery are made, and nothing is lost.
LEMMA DiscoverDue ==
    ASSUME AllDue, NEW t, Making(t, t.do), t.do # "declare", NEW tasks, IsFirst(tasks), Declared(tasks),
           agenda' = tasks \o Tail(agenda), program' = program, callers' = callers,
           DOMAIN scopes \subseteq DOMAIN scopes', DOMAIN asked \subseteq DOMAIN asked',
           DOMAIN bound \subseteq DOMAIN bound', DOMAIN targets \subseteq DOMAIN targets', SeenTo(t),
           \A q \in DOMAIN scopes' \ DOMAIN scopes : PartsDue(q)',
           \A o \in DOMAIN asked' \ DOMAIN asked : AskedDue(o)',
           \A s \in ToSet(symbols') \ ToSet(symbols) : BodyDue(s)'
    PROVE  AllDue'
<1>1. PICK calls : calls = agenda
  OBVIOUS
<1>2. PICK all : all = tasks \o Tail(calls)
  OBVIOUS
<1>3. IsSequence(calls) /\ calls # <<>> /\ IsSequence(tasks) /\ t = Head(calls) /\ all = agenda'
  BY <1>1, <1>2 DEF Making, IsFirst
<1>4. /\ ToSet(all) = ToSet(tasks) \cup ToSet(Tail(calls)) /\ ToSet(Tail(calls)) \subseteq ToSet(calls)
      /\ \A u \in ToSet(calls) : u # t => u \in ToSet(all)
      /\ Declared(calls) \/ Declaring(calls) => Declared(all)
  BY <1>2, <1>3, InPlace
<1>5. Onward(t)
  BY <1>1, <1>3, <1>4 DEF Onward
<1>6. \A c \in ToSet(tasks) : CallDue(c)'
  BY DEF IsFirst, DiscoveryCalls, CallDue
<1>7. \A c \in (ToSet(agenda') \cup Nested') \ (ToSet(agenda) \cup Nested) : CallDue(c)'
  BY <1>1, <1>3, <1>4, <1>6 DEF Nested
<1>8. Declared(agenda') \/ Declaring(agenda')
  BY <1>1, <1>3, <1>4 DEF AllDue
<1> QED
  BY <1>5, <1>7, <1>8, DueKept

LEMMA DeclareDue == IInv /\ AllDue /\ ~PassedOver(program) /\ DeclareStatement => AllDue' /\ crashed' = crashed
<1> SUFFICES ASSUME IInv, AllDue, ~PassedOver(program), DeclareStatement PROVE AllDue' /\ crashed' = crashed
  OBVIOUS
<1>1. PICK t : t = Head(agenda)
  OBVIOUS
<1>2. /\ Doing("declare") /\ agenda' = <<>> \o Tail(agenda)
      /\ UNCHANGED <<program, scopes, bound, targets, asked, callers, crashed>>
  BY DEF DeclareStatement, Then, linking
<1>3. Making(t, "declare")
  BY <1>1, <1>2, MakingFacts
<1>4. PICK calls : calls = agenda
  OBVIOUS
<1>5. PICK none, all : none = <<>> /\ all = none \o Tail(calls)
  OBVIOUS
<1>6. IsSequence(calls) /\ calls # <<>> /\ t = Head(calls) /\ all = agenda' /\ Head(calls).do = "declare"
  BY <1>2, <1>3, <1>4, <1>5 DEF Making
<1>7. /\ ToSet(all) = ToSet(Tail(calls)) /\ ToSet(Tail(calls)) \subseteq ToSet(calls)
      /\ \A u \in ToSet(calls) : u # t => u \in ToSet(all)
      /\ Declaring(calls) => Declaring(all) /\ Call("views") \in ToSet(all)
  <2>1. IsSequence(none) /\ ToSet(none) = {} /\ none = <<>>
    BY <1>5, EmptyFacts
  <2>2. all = none \o Tail(calls)
    BY <1>5
  <2>3. /\ ToSet(all) = ToSet(none) \cup ToSet(Tail(calls))
        /\ \A u \in ToSet(calls) : u # Head(calls) => u \in ToSet(all)
        /\ ToSet(Tail(calls)) \subseteq ToSet(calls)
        /\ Declaring(calls) /\ Head(calls).do = "declare" /\ none = <<>> =>
              Declaring(all) /\ Call("views") \in ToSet(all)
    BY <1>6, <2>1, <2>2, InPlace
  <2> QED
    BY <1>6, <2>1, <2>3
<1>8. Declaring(calls)
  <2>1. t \in ToSet(calls) /\ t.do = "declare"
    BY <1>6, TailFacts
  <2> QED
    BY <1>4, <2>1 DEF AllDue, Declared
<1>9. Onward(t) /\ SeenTo(t)
  BY <1>2, <1>3, <1>4, <1>6, <1>7 DEF Onward, SeenTo, Making
<1>10. \A s \in ToSet(symbols') \ ToSet(symbols) : BodyDue(s)'
  <2>1. PICK said : said = t.statement
    OBVIOUS
  <2>2. said \in ToSet(program.statements) /\ Task.statement = said
    BY <1>2, <1>3, <2>1, StatementCall DEF Making
  <2>3. PICK symbol : symbol = Symbol(said.name, said.kind, said.body, said.columns, TRUE)
    OBVIOUS
  <2>4. \/ symbols' = symbols
        \/ symbols' = Append(symbols, symbol) /\ said.kind \in {"TABLE", "VIEW"}
    BY <2>2, <2>3 DEF DeclareStatement, Declare, Amend
  <2>5. symbol.body = said.body /\ symbol.role = said.kind
    BY <2>3 DEF Symbol
  <2>6. \A s \in ToSet(symbols') \ ToSet(symbols) : s = symbol /\ said.kind \in {"TABLE", "VIEW"}
    <3>1. ToSet(Append(symbols, symbol)) = ToSet(symbols) \cup {symbol}
      BY <1>3, AppendFacts DEF Making
    <3> QED
      BY <2>4, <3>1
  <2>7. said.kind = "TABLE" => symbol.body = NoQuery
    BY <2>2, <2>5 DEF PassedOver
  <2>8. Call("views") \in ToSet(agenda')
    BY <1>6, <1>7, <1>8
  <2> QED
    BY <2>5, <2>6, <2>7, <2>8 DEF BodyDue
<1>11. \A c \in (ToSet(agenda') \cup Nested') \ (ToSet(agenda) \cup Nested) : CallDue(c)'
  BY <1>2, <1>4, <1>6, <1>7 DEF Nested
<1>12. Declaring(agenda')
  BY <1>6, <1>7, <1>8
<1> QED
  BY <1>2, <1>9, <1>10, <1>11, <1>12, DueKept

\* Calls of one kind, one for each of a sequence.
LEMMA OneForEach ==
    ASSUME NEW s, IsSequence(s), NEW f, f = [i \in DOMAIN s |-> f[i]],
           NEW what \in DiscoveryCalls \ {"declare"}, \A i \in DOMAIN s : f[i].do = what
    PROVE  IsFirst(f) /\ Declared(f) /\ \A i \in DOMAIN s : f[i] \in ToSet(f)
<1>1. IsFirst(f) /\ IsSequence(f) /\ Len(f) = Len(s)
  BY FirstEach, EachFacts
<1>2. DOMAIN f = DOMAIN s /\ \A c \in ToSet(f) : \E i \in DOMAIN s : c = f[i]
  BY <1>1, SequenceFacts
<1>3. \A i \in DOMAIN s : f[i] \in ToSet(f)
  BY <1>1, <1>2, SequenceFacts
<1> QED
  BY <1>1, <1>2, <1>3 DEF Declared

LEMMA NoneOrOne ==
    /\ IsFirst(<<>>) /\ Declared(<<>>) /\ ToSet(<<>>) = {}
    /\ \A c : c.do \in DiscoveryCalls \ {"declare"} => IsFirst(<<c>>) /\ Declared(<<c>>) /\ ToSet(<<c>>) = {c}
BY FirstFew, EmptyFacts, OneFacts DEF Declared

LEMMA ViewsDue == IInv /\ AllDue /\ (DiscoverViews \/ DiscoverView) => AllDue' /\ crashed' = crashed
<1> SUFFICES ASSUME IInv, AllDue, DiscoverViews \/ DiscoverView PROVE AllDue' /\ crashed' = crashed
  OBVIOUS
<1>1. PICK t : t = Head(agenda)
  OBVIOUS
<1>2. UNCHANGED <<program, symbols, scopes, bound, targets, asked, callers, crashed>>
  BY DEF DiscoverViews, DiscoverView, binding, asking, linking
<1>3. CASE DiscoverViews
  <2>1. Making(t, "views")
    BY <1>1, <1>3, MakingFacts DEF DiscoverViews
  <2>2. PICK tasks : tasks = [i \in DOMAIN symbols |-> About("view", symbols[i])]
    OBVIOUS
  <2>3. agenda' = tasks \o Tail(agenda)
    BY <1>3, <2>2 DEF DiscoverViews, Then
  <2>4. /\ IsFirst(tasks) /\ Declared(tasks) /\ \A i \in DOMAIN symbols : tasks[i] \in ToSet(tasks)
    BY <2>1, <2>2, OneForEach DEF Making, About, DiscoveryCalls
  <2>5. SeenTo(t)
    <3>1. ToSet(tasks) \subseteq ToSet(agenda')
      <4>1. IsSequence(tasks) /\ IsSequence(Tail(agenda))
        BY <2>1, <2>4, TailFacts DEF Making, IsFirst
      <4> QED
        BY <2>3, <4>1, ConcatFacts
    <3>2. \A s \in ToSet(symbols) : About("view", s) \in ToSet(agenda')
      BY <2>1, <2>2, <2>4, <3>1, SequenceFacts DEF Making
    <3> QED
      BY <2>1, <3>2 DEF SeenTo, Making, BodyDue
  <2> QED
    BY <1>2, <2>1, <2>3, <2>4, <2>5, DiscoverDue DEF Making
<1>4. CASE DiscoverView
  <2>1. Making(t, "view")
    BY <1>1, <1>4, MakingFacts DEF DiscoverView
  <2>2. PICK s : s = t.symbol
    OBVIOUS
  <2>3. PICK tasks : tasks = IF s.role = "VIEW" /\ s.body # NoQuery THEN <<Discover(s.body, NoEntry)>> ELSE <<>>
    OBVIOUS
  <2>4. agenda' = tasks \o Tail(agenda)
    BY <1>4, <2>1, <2>2, <2>3 DEF DiscoverView, Then, Making
  <2>5. /\ Discover(s.body, NoEntry).do \in DiscoveryCalls \ {"declare"}
        /\ Discover(s.body, NoEntry).do = "discover" /\ Discover(s.body, NoEntry).query = s.body
    BY DEF Discover, DiscoveryCalls
  <2>6. PICK find : find = Discover(s.body, NoEntry)
    OBVIOUS
  <2>7. /\ IsFirst(tasks) /\ Declared(tasks)
        /\ s.role = "VIEW" /\ s.body # NoQuery => find \in ToSet(tasks)
    BY <2>3, <2>5, <2>6, NoneOrOne
  <2>8. SeenTo(t)
    <3>1. ToSet(tasks) \subseteq ToSet(agenda')
      <4>1. IsSequence(tasks) /\ IsSequence(Tail(agenda))
        BY <2>1, <2>7, TailFacts DEF Making, IsFirst
      <4> QED
        BY <2>4, <4>1, ConcatFacts
    <3>2. s.role = "VIEW" => BodyDue(s)'
      BY <2>5, <2>6, <2>7, <3>1 DEF BodyDue, QueryDue
    <3>3. \A u : t = About("view", u) => u = s
      BY <2>2 DEF About
    <3> QED
      BY <2>1, <3>2, <3>3 DEF SeenTo, Making
  <2> QED
    BY <1>2, <2>1, <2>4, <2>7, <2>8, DiscoverDue DEF Making
<1> QED
  BY <1>3, <1>4

\* Discovery of a query calls for all that it holds.
CallsFor(q, scope, calls) ==
    /\ \A c \in ToSet(Node(q).with) : Discover(c.body, scope) \in calls
    /\ Node(q).kind = "setop" => \A i \in 1..2 : Discover(Node(q).arms[i], scope) \in calls
    /\ Node(q).kind = "select" =>
          /\ \A i \in DOMAIN Node(q).sources : Bind(q, i) \in calls
          /\ \A c \in ToSet(Node(q).where) : Discover(c.body, scope) \in calls
          /\ \A m \in ToSet(Node(q).markers) : Mark("target", q, m) \in calls

LEMMA WithinCalls ==
    ASSUME NEW q \in DOMAIN program.query, IsProgram(program), ~PassedOver(program),
           NEW scope, NEW outer, NEW tasks, tasks = Within(q, scope, outer)
    PROVE  IsFirst(tasks) /\ Declared(tasks) /\ CallsFor(q, scope, ToSet(tasks))
<1>1. PICK node : node = Node(q)
  OBVIOUS
<1>2. /\ IsSequence(node.with) /\ node.kind \in {"select", "setop"}
      /\ node.kind = "setop" => node.with = <<>>
      /\ node.kind = "select" => IsSequence(node.sources) /\ IsSequence(node.where) /\ IsSequence(node.markers)
  BY <1>1, TreeFacts DEF PassedOver, Node
<1>3. IsFirst(tasks)
  BY WithinDiscovers
<1>4. CASE node.kind = "setop"
  <2>1. tasks = [i \in 1..2 |-> Discover(node.arms[i], scope)]
    BY <1>1, <1>4 DEF Within
  <2>2. IsSequence(tasks) /\ Len(tasks) = 2 /\ DOMAIN tasks = 1..2
    BY <2>1, Listed1
  <2>3. \A c \in ToSet(tasks) : \E i \in 1..2 : c = tasks[i]
    BY <2>2, SequenceFacts
  <2>4. \A i \in 1..2 : tasks[i] = Discover(node.arms[i], scope) /\ tasks[i].do = "discover" /\ tasks[i] \in ToSet(tasks)
    BY <2>1, <2>2, SequenceFacts DEF Discover
  <2>5. ToSet(node.with) = {}
    BY <1>2, <1>4, EmptyFacts
  <2> QED
    BY <1>1, <1>3, <1>4, <2>3, <2>4, <2>5 DEF Declared, CallsFor
<1>5. CASE node.kind = "select"
  <2>1. PICK binds : binds = [i \in DOMAIN node.sources |-> Bind(q, i)]
    OBVIOUS
  <2>2. PICK asks : asks = <<Require(q)>>
    OBVIOUS
  <2>3. PICK marks : marks = [i \in DOMAIN node.markers |-> Mark("target", q, node.markers[i])]
    OBVIOUS
  <2>4. PICK wheres : wheres = [i \in DOMAIN node.where |-> Discover(node.where[i].body, scope)]
    OBVIOUS
  <2>5. PICK bodies : bodies = [i \in DOMAIN node.with |-> Discover(node.with[i].body, scope)]
    OBVIOUS
  <2>6. tasks = binds \o asks \o marks \o wheres \o bodies
    BY <1>1, <1>5, <2>1, <2>2, <2>3, <2>4, <2>5 DEF Within, Bodies
  <2>7. /\ IsFirst(binds) /\ Declared(binds) /\ \A i \in DOMAIN node.sources : Bind(q, i) \in ToSet(binds)
    BY <1>2, <1>5, <2>1, OneForEach DEF Bind, DiscoveryCalls
  <2>8. IsFirst(asks) /\ Declared(asks)
    BY <2>2, NoneOrOne DEF Require, DiscoveryCalls
  <2>9. /\ IsFirst(marks) /\ Declared(marks)
        /\ \A i \in DOMAIN node.markers : Mark("target", q, node.markers[i]) \in ToSet(marks)
    BY <1>2, <1>5, <2>3, OneForEach DEF Mark, DiscoveryCalls
  <2>10. /\ IsFirst(wheres) /\ Declared(wheres)
         /\ \A i \in DOMAIN node.where : Discover(node.where[i].body, scope) \in ToSet(wheres)
    BY <1>2, <1>5, <2>4, OneForEach DEF Discover, DiscoveryCalls
  <2>11. /\ IsFirst(bodies) /\ Declared(bodies)
         /\ \A i \in DOMAIN node.with : Discover(node.with[i].body, scope) \in ToSet(bodies)
    BY <1>2, <2>5, OneForEach DEF Discover, DiscoveryCalls
  <2>12. \A s, r : IsFirst(s) /\ IsFirst(r) => IsFirst(s \o r) /\ ToSet(s \o r) = ToSet(s) \cup ToSet(r)
    BY FirstFew, ConcatFacts DEF IsFirst
  <2>13. IsFirst(binds \o asks) /\ ToSet(binds \o asks) = ToSet(binds) \cup ToSet(asks)
    BY <2>7, <2>8, <2>12
  <2>14. PICK two : two = binds \o asks
    OBVIOUS
  <2>15. IsFirst(two \o marks) /\ ToSet(two \o marks) = ToSet(binds) \cup ToSet(asks) \cup ToSet(marks)
    BY <2>9, <2>12, <2>13, <2>14
  <2>16. PICK three : three = two \o marks
    OBVIOUS
  <2>17. IsFirst(three \o wheres) /\ ToSet(three \o wheres) = ToSet(binds) \cup ToSet(asks) \cup ToSet(marks) \cup ToSet(wheres)
    BY <2>10, <2>12, <2>15, <2>16
  <2>18. PICK four : four = three \o wheres
    OBVIOUS
  <2>19. tasks = four \o bodies
    BY <2>6, <2>14, <2>16, <2>18
  <2>20. ToSet(tasks) = ToSet(binds) \cup ToSet(asks) \cup ToSet(marks) \cup ToSet(wheres) \cup ToSet(bodies)
    BY <2>11, <2>12, <2>17, <2>18, <2>19
  <2>21. Declared(tasks)
    BY <2>7, <2>8, <2>9, <2>10, <2>11, <2>20 DEF Declared
  <2>22. \A c \in ToSet(node.with) : Discover(c.body, scope) \in ToSet(tasks)
    BY <1>2, <2>11, <2>20, SequenceFacts
  <2>23. \A i \in DOMAIN node.sources : Bind(q, i) \in ToSet(tasks)
    BY <2>7, <2>20
  <2>24. \A c \in ToSet(node.where) : Discover(c.body, scope) \in ToSet(tasks)
    BY <1>2, <1>5, <2>10, <2>20, SequenceFacts
  <2>25. \A m \in ToSet(node.markers) : Mark("target", q, m) \in ToSet(tasks)
    BY <1>2, <1>5, <2>9, <2>20, SequenceFacts
  <2> QED
    BY <1>1, <1>3, <1>5, <2>21, <2>22, <2>23, <2>24, <2>25 DEF CallsFor
<1> QED
  BY <1>2, <1>4, <1>5

LEMMA CalledFor ==
    ASSUME program' = program, NEW q, NEW scope, CallsFor(q, scope, ToSet(agenda'))
    PROVE  PartsDue(q)'
<1>1. Node(q)' = Node(q)
  BY DEF Node
<1>2. \A b : Discover(b, scope) \in ToSet(agenda') => QueryDue(b)'
  BY DEF QueryDue, Discover
<1>3. \A i : Bind(q, i) \in ToSet(agenda') => SourceDue(q, i)'
  BY DEF SourceDue
<1>4. \A m : Mark("target", q, m) \in ToSet(agenda') => MarkerDue(q, m)'
  BY DEF MarkerDue
<1> QED
  BY <1>1, <1>2, <1>3, <1>4 DEF PartsDue, CallsFor

LEMMA QueryStepDue == IInv /\ AllDue /\ ~PassedOver(program) /\ DiscoverQuery => AllDue' /\ crashed' = crashed
<1> SUFFICES ASSUME IInv, AllDue, ~PassedOver(program), DiscoverQuery PROVE AllDue' /\ crashed' = crashed
  OBVIOUS
<1>1. PICK t : t = Head(agenda)
  OBVIOUS
<1>2. Doing("discover") /\ UNCHANGED <<program, bound, targets, asked, callers, crashed>>
  BY DEF DiscoverQuery, linking
<1>3. Making(t, "discover")
  BY <1>1, <1>2, MakingFacts
<1>4. PICK q : q = t.query
  OBVIOUS
<1>5. q \in DOMAIN program.query /\ Task.query = q
  BY <1>2, <1>3, <1>4, DiscoverCall DEF Making
<1>6. CASE q \in DOMAIN scopes
  <2>1. UNCHANGED <<scopes, symbols>> /\ agenda' = <<>> \o Tail(agenda)
    BY <1>5, <1>6 DEF DiscoverQuery, Then
  <2>2. SeenTo(t)
    BY <1>3, <1>4, <1>6, <2>1 DEF SeenTo, Making
  <2>3. IsFirst(<<>>) /\ Declared(<<>>)
    BY NoneOrOne
  <2>4. Making(t, t.do) /\ t.do # "declare"
    BY <1>3 DEF Making
  <2>5. PICK tasks : tasks = <<>>
    OBVIOUS
  <2> QED
    BY <1>2, <2>1, <2>2, <2>3, <2>4, <2>5, DiscoverDue
<1>7. CASE q \notin DOMAIN scopes
  <2>1. PICK scope, outer : scope = Visible(Node(q).with, outer) /\ outer = Task.scope
    OBVIOUS
  <2>2. PICK tasks : tasks = Within(q, scope, outer)
    OBVIOUS
  <2>3. PICK ctes : ctes = [i \in DOMAIN Node(q).with |-> Cte(Node(q).with[i])]
    OBVIOUS
  <2>4. /\ scopes' = With(scopes, q, scope) /\ symbols' = symbols \o ctes
        /\ agenda' = tasks \o Tail(agenda)
    BY <1>5, <1>7, <2>1, <2>2, <2>3 DEF DiscoverQuery, Then
  <2>5. IsFirst(tasks) /\ Declared(tasks) /\ CallsFor(q, scope, ToSet(tasks))
    BY <1>3, <1>5, <2>2, WithinCalls DEF Making
  <2>6. ToSet(tasks) \subseteq ToSet(agenda')
    <3>1. IsSequence(tasks) /\ IsSequence(Tail(agenda))
      BY <1>3, <2>5, TailFacts DEF Making, IsFirst
    <3> QED
      BY <2>4, <3>1, ConcatFacts
  <2>7. DOMAIN scopes' = DOMAIN scopes \cup {q}
    BY <2>4 DEF With
  <2>8. PartsDue(q)'
    <3>1. CallsFor(q, scope, ToSet(agenda'))
      BY <2>5, <2>6 DEF CallsFor
    <3> QED
      BY <1>2, <3>1, CalledFor
  <2>9. \A s \in ToSet(symbols') \ ToSet(symbols) : BodyDue(s)'
    <3>1. PICK with : with = Node(q).with
      OBVIOUS
    <3>2. IsSequence(with)
      BY <1>3, <1>5, <3>1, TreeFacts DEF Node, Making
    <3>3. IsSequence(ctes) /\ \A s \in ToSet(ctes) : \E c \in ToSet(with) : s = Cte(c)
      BY <2>3, <3>1, <3>2, EachFacts, SequenceFacts
    <3>4. ToSet(symbols') = ToSet(symbols) \cup ToSet(ctes)
      BY <1>3, <2>4, <3>3, ConcatFacts DEF Making
    <3>5. \A c \in ToSet(with) : Discover(c.body, scope) \in ToSet(agenda')
      BY <2>5, <2>6, <3>1 DEF CallsFor
    <3>6. \A b : Discover(b, scope) \in ToSet(agenda') => QueryDue(b)'
      BY DEF QueryDue, Discover
    <3>7. \A c : Cte(c).body = c.body
      BY DEF Cte, Symbol
    <3>8. \A s \in ToSet(ctes) : QueryDue(s.body)'
      BY <3>3, <3>5, <3>6, <3>7
    <3> QED
      BY <3>4, <3>8 DEF BodyDue
  <2>10. SeenTo(t)
    BY <1>3, <1>4, <2>7 DEF SeenTo, Making
  <2>11. Making(t, t.do) /\ t.do # "declare"
    BY <1>3 DEF Making
  <2>12. \A r \in DOMAIN scopes' \ DOMAIN scopes : PartsDue(r)'
    BY <2>7, <2>8
  <2> QED
    BY <1>2, <2>4, <2>5, <2>7, <2>9, <2>10, <2>11, <2>12, DiscoverDue
<1> QED
  BY <1>6, <1>7

\* A relation that is met has no body but those that were met before.
LEMMA MeetDue ==
    ASSUME IInv, NEW q \in DOMAIN scopes, NEW name, NEW s, s = SymbolFor(name, scopes[q]), NEW columns, Meet(s, columns)
    PROVE  \A r \in ToSet(symbols') \ ToSet(symbols) : BodyDue(r)'
<1>1. s \in ToSet(symbols) \/ s = Undeclared(name)
  BY SymbolFacts
<1>2. IsSequence(symbols)
  BY DEF IInv, NamesKnown
<1>3. \A r \in ToSet(symbols') : r \in ToSet(symbols) \/ r = s
  <2>1. symbols' = symbols \/ symbols' = Append(symbols, s)
    BY DEF Meet
  <2>2. ToSet(Append(symbols, s)) = ToSet(symbols) \cup {s}
    BY <1>2, AppendFacts
  <2> QED
    BY <2>1, <2>2
<1> QED
  BY <1>1, <1>3 DEF BodyDue, Undeclared, Symbol

LEMMA BindDue == IInv /\ AllDue /\ BindSource => AllDue' /\ crashed' = crashed
<1> SUFFICES ASSUME IInv, AllDue, BindSource PROVE AllDue' /\ crashed' = crashed
  OBVIOUS
<1>1. PICK t : t = Head(agenda)
  OBVIOUS
<1>2. Doing("bind") /\ UNCHANGED <<program, scopes, targets, callers, crashed>>
  BY DEF BindSource, linking
<1>3. Making(t, "bind")
  BY <1>1, <1>2, MakingFacts
<1>4. PICK o : o = t.at
  OBVIOUS
<1>5. Task.at = o /\ o[1] \in DOMAIN scopes
  BY <1>2, <1>3, <1>4, BindCall DEF Making
<1>6. PICK source : source = Source(o)
  OBVIOUS
<1>7. PICK symbol : symbol = SymbolFor(source.name, scopes[o[1]])
  OBVIOUS
<1>8. PICK find : find = Discover(source.body, scopes[o[1]])
  OBVIOUS
<1>9. PICK tasks : tasks = IF source.kind = "subquery" THEN <<find>> ELSE <<>>
  OBVIOUS
<1>10. /\ asked' = With(asked, o, {}) /\ agenda' = tasks \o Tail(agenda)
       /\ source.kind = "table" => Meet(symbol, {}) /\ bound' = With(bound, o, symbol)
       /\ source.kind # "table" => UNCHANGED <<symbols, bound>>
  BY <1>5, <1>6, <1>7, <1>8, <1>9 DEF BindSource, Then
<1>11. /\ DOMAIN asked' = DOMAIN asked \cup {o} /\ DOMAIN bound \subseteq DOMAIN bound'
       /\ source.kind = "table" => o \in DOMAIN bound'
  BY <1>10 DEF With
<1>12. find.do = "discover" /\ find.query = source.body
  BY <1>8 DEF Discover
<1>13. /\ IsFirst(tasks) /\ Declared(tasks)
       /\ source.kind = "subquery" => find \in ToSet(tasks)
  <2>1. find.do \in DiscoveryCalls \ {"declare"}
    BY <1>12 DEF DiscoveryCalls
  <2> QED
    BY <1>9, <2>1, NoneOrOne
<1>14. ToSet(tasks) \subseteq ToSet(agenda')
  <2>1. IsSequence(tasks) /\ IsSequence(Tail(agenda))
    BY <1>3, <1>13, TailFacts DEF Making, IsFirst
  <2> QED
    BY <1>10, <2>1, ConcatFacts
<1>15. Source(o)' = source
  BY <1>2, <1>6 DEF Source, Node
<1>16. AskedDue(o)'
  BY <1>12, <1>13, <1>14, <1>15 DEF AskedDue, QueryDue
<1>17. \A s \in ToSet(symbols') \ ToSet(symbols) : BodyDue(s)'
  <2>1. CASE source.kind = "table"
    BY <1>5, <1>7, <1>10, <2>1, MeetDue
  <2>2. CASE source.kind # "table"
    BY <1>10, <2>2
  <2> QED
    BY <2>1, <2>2
<1>18. SeenTo(t)
  <2>1. ASSUME NEW q, NEW i, t = Bind(q, i) PROVE SourceDue(q, i)'
    <3>1. o = <<q, i>>
      BY <1>4, <2>1 DEF Bind
    <3>2. (Node(q).sources[i])' = source
      BY <1>15, <3>1 DEF Source
    <3> QED
      BY <1>11, <3>1, <3>2 DEF SourceDue
  <2> QED
    BY <1>3, <2>1 DEF SeenTo, Making
<1>19. Making(t, t.do) /\ t.do # "declare"
  BY <1>3 DEF Making
<1>20. \A p \in DOMAIN asked' \ DOMAIN asked : AskedDue(p)'
  BY <1>11, <1>16
<1> QED
  BY <1>2, <1>10, <1>11, <1>13, <1>17, <1>18, <1>19, <1>20, DiscoverDue

LEMMA TargetDue == IInv /\ AllDue /\ FindTarget => AllDue' /\ crashed' = crashed
<1> SUFFICES ASSUME IInv, AllDue, FindTarget PROVE AllDue' /\ crashed' = crashed
  OBVIOUS
<1>1. PICK t : t = Head(agenda)
  OBVIOUS
<1>2. /\ Doing("target") /\ agenda' = <<>> \o Tail(agenda)
      /\ UNCHANGED <<program, scopes, bound, asked, callers, crashed>>
  BY DEF FindTarget, Then, linking
<1>3. Making(t, "target")
  BY <1>1, <1>2, MakingFacts
<1>4. PICK m : m = t.marker
  OBVIOUS
<1>5. PICK q : q = t.query
  OBVIOUS
<1>6. Task.marker = m /\ Task.query = q /\ q \in DOMAIN scopes
  BY <1>2, <1>3, <1>4, <1>5, ScopedCall DEF Making
<1>7. PICK target : target = SymbolFor(m.references, scopes[q])
  OBVIOUS
<1>8. PICK columns : columns = IF IsUndeclared(target) THEN m.referenced ELSE {}
  OBVIOUS
<1>9. /\ IsPending(m) => Meet(target, columns) /\ targets' = With(targets, m.id, target)
      /\ ~IsPending(m) => UNCHANGED <<symbols, targets>>
  BY <1>6, <1>7, <1>8 DEF FindTarget
<1>10. DOMAIN targets \subseteq DOMAIN targets' /\ (IsPending(m) => m.id \in DOMAIN targets')
  BY <1>9 DEF With
<1>11. \A s \in ToSet(symbols') \ ToSet(symbols) : BodyDue(s)'
  BY <1>6, <1>7, <1>9, MeetDue
<1>12. SeenTo(t)
  <2>1. \A r, n : t = Mark("target", r, n) => n = m
    BY <1>4 DEF Mark
  <2>2. \A r : MarkerDue(r, m)'
    BY <1>10 DEF MarkerDue, IsPending
  <2> QED
    BY <1>3, <2>1, <2>2 DEF SeenTo, Making
<1>13. Making(t, t.do) /\ t.do # "declare"
  BY <1>3 DEF Making
<1>14. PICK tasks : tasks = <<>>
  OBVIOUS
<1> QED
  BY <1>2, <1>10, <1>11, <1>12, <1>13, <1>14, NoneOrOne, DiscoverDue

\* Steps that find nothing.
LEMMA AsideDue ==
    ASSUME IInv, AllDue, NEW what \in {"require", "constraints", "constraints of", "constraint"}, Doing(what),
           NEW tasks, IsFirst(tasks), Declared(tasks), agenda' = tasks \o Tail(agenda),
           UNCHANGED <<program, symbols, scopes, bound, targets, callers>>, DOMAIN asked' = DOMAIN asked
    PROVE  AllDue'
<1>1. PICK t : t = Head(agenda)
  OBVIOUS
<1>2. Making(t, what) /\ Making(t, t.do) /\ t.do # "declare"
  <2>1. Making(t, what)
    BY <1>1, MakingFacts
  <2>2. t.do = what
    BY <2>1 DEF Making
  <2> QED
    BY <2>1, <2>2
<1>3. SeenTo(t)
  BY <1>2 DEF SeenTo, Making
<1> QED
  BY <1>2, <1>3, DiscoverDue

Asides == RequireColumns \/ DiscoverConstraints \/ DiscoverConstraintsOf \/ DiscoverReference

LEMMA AsidesDue == IInv /\ AllDue /\ Asides => AllDue' /\ crashed' = crashed
<1> SUFFICES ASSUME IInv, AllDue, Asides PROVE AllDue' /\ crashed' = crashed
  OBVIOUS
<1>1. IsFirst(<<>>) /\ Declared(<<>>)
  BY NoneOrOne
<1>2. PICK none : none = <<>>
  OBVIOUS
<1>3. CASE RequireColumns
  <2>1. /\ Doing("require") /\ agenda' = none \o Tail(agenda)
        /\ UNCHANGED <<program, symbols, scopes, bound, targets, callers, crashed>>
    BY <1>2, <1>3 DEF RequireColumns, Then, binding, linking
  <2>2. DOMAIN asked' = DOMAIN asked
    BY <1>3 DEF RequireColumns, Ask
  <2> QED
    BY <1>1, <1>2, <2>1, <2>2, AsideDue
<1>4. CASE DiscoverReference
  <2>1. /\ Doing("constraint") /\ agenda' = none \o Tail(agenda)
        /\ UNCHANGED <<program, symbols, scopes, bound, targets, callers, crashed, asked>>
    BY <1>2, <1>4 DEF DiscoverReference, Then, binding, linking
  <2> QED
    BY <1>1, <1>2, <2>1, AsideDue
<1>5. CASE DiscoverConstraints
  <2>1. PICK tasks : tasks = [i \in DOMAIN symbols |-> About("constraints of", symbols[i])]
    OBVIOUS
  <2>2. /\ Doing("constraints") /\ agenda' = tasks \o Tail(agenda)
        /\ UNCHANGED <<program, symbols, scopes, bound, targets, callers, crashed, asked>>
    BY <1>5, <2>1 DEF DiscoverConstraints, Then, binding, asking, linking
  <2>3. IsFirst(tasks) /\ Declared(tasks)
    <3>1. IsSequence(symbols)
      BY DEF IInv, NamesKnown
    <3> QED
      BY <2>1, <3>1, OneForEach DEF About, DiscoveryCalls
  <2> QED
    BY <2>2, <2>3, AsideDue
<1>6. CASE DiscoverConstraintsOf
  <2>1. PICK stated : stated = ConstraintsOf(Task.symbol)
    OBVIOUS
  <2>2. PICK tasks : tasks = [i \in DOMAIN stated |-> [do |-> "constraint", symbol |-> Task.symbol, constraint |-> stated[i]]]
    OBVIOUS
  <2>3. /\ Doing("constraints of") /\ agenda' = tasks \o Tail(agenda)
        /\ UNCHANGED <<program, symbols, scopes, bound, targets, callers, crashed, asked>>
    BY <1>6, <2>1, <2>2 DEF DiscoverConstraintsOf, Then, binding, asking, linking
  <2>4. IsSequence(stated)
    <3>1. Task.symbol \in ToSet(symbols)
      BY <2>3, SymbolCall
    <3>2. Task.symbol.declared => IsSequence(constraints[Task.symbol])
      BY <3>1 DEF IInv, NamesKnown
    <3> QED
      BY <2>1, <3>2, EmptyFacts DEF ConstraintsOf
  <2>5. IsFirst(tasks) /\ Declared(tasks)
    BY <2>2, <2>4, OneForEach DEF DiscoveryCalls
  <2> QED
    BY <2>3, <2>5, AsideDue
<1> QED
  BY <1>3, <1>4, <1>5, <1>6 DEF Asides

\* Propagation asks what was discovered.
LEMMA PropagateDue ==
    ASSUME IInv, AskedKnown, Discovers, AllDue, Propagate
    PROVE  AllDue' /\ crashed' = crashed
<1>1. Doing("propagate") /\ UNCHANGED <<program, symbols, scopes, bound, targets, callers>>
  BY DEF Propagate, binding, linking
<1>2. PICK t : t = Head(agenda)
  OBVIOUS
<1>3. Making(t, "propagate")
  BY <1>1, <1>2, MakingFacts
<1>4. PICK after : after = Tail(agenda)
  OBVIOUS
<1>5. IsSequence(after) /\ \A c \in ToSet(after) : c.do \in {"lower", "links", "references", "place", "report", "settle"}
  <2>1. after = Afterwards(program)
    BY <1>2, <1>3, <1>4, DiscoveringTask DEF Discovers, Making, DiscoveryCalls
  <2> QED
    BY <2>1, AfterwardsFacts
<1>6. ToSet(agenda) = {t} \cup ToSet(after)
  <2>1. agenda = <<t>> \o after /\ IsSequence(<<t>>) /\ ToSet(<<t>>) = {t}
    BY <1>3, <1>4, HeadFacts, OneFacts DEF Making
  <2> QED
    BY <1>5, <2>1, ConcatFacts
<1>7. \A c \in ToSet(agenda) : c.do \notin DiscoveryCalls
  BY <1>3, <1>5, <1>6 DEF Making, DiscoveryCalls
<1>8. \A q : QueryDue(q) => q \in DOMAIN scopes
  BY <1>7 DEF QueryDue, DiscoveryCalls
<1>9. ASSUME NEW flow \in Unasked
      PROVE  flow[1] \in DOMAIN asked
  <2>1. PICK b, c : flow \in Sole(b) \X {c}
                    /\ \/ \E s \in ToSet(symbols) : s.body # NoQuery /\ b = s.body
                       \/ \E o \in DOMAIN asked : Source(o).kind = "subquery" /\ b = Source(o).body
    BY <1>9 DEF Unasked, Flows, BodyFlows, SubqueryFlows
  <2>2. b \in DOMAIN scopes
    <3>1. \A s \in ToSet(symbols) : s.body # NoQuery => s.body \in DOMAIN scopes
      BY <1>7, <1>8 DEF AllDue, BodyDue, About, Call, DiscoveryCalls
    <3>2. \A o \in DOMAIN asked : Source(o).kind = "subquery" => Source(o).body \in DOMAIN scopes
      BY <1>8 DEF AllDue, AskedDue
    <3> QED
      BY <2>1, <3>1, <3>2
  <2>3. flow[1] = <<b, 1>> /\ Node(b).kind = "select" /\ Len(Node(b).sources) = 1
    BY <2>1 DEF Sole, IsSelect
  <2>4. 1 \in DOMAIN Node(b).sources
    <3>1. b \in DOMAIN program.query
      BY <2>2 DEF IInv, NamesKnown, NamesLexical
    <3>2. IsSequence(Node(b).sources)
      BY <2>3, <3>1, TreeFacts DEF Node, IInv
    <3> QED
      BY <2>3, <3>2, SequenceFacts
  <2>5. SourceDue(b, 1)
    BY <2>2, <2>3, <2>4 DEF AllDue, PartsDue
  <2> QED
    BY <1>7, <2>3, <2>5 DEF SourceDue, Bind, DiscoveryCalls
<1>10. CASE Unasked = {} /\ Then(<<>>) /\ UNCHANGED <<asking, crashed>>
  <2>1. agenda' = after /\ asked' = asked
    BY <1>4, <1>5, <1>10, EmptyFacts, FirstFacts DEF Then, asking
  <2>2. Onward(t) /\ SeenTo(t)
    BY <1>1, <1>3, <1>6, <2>1 DEF Onward, SeenTo, Making
  <2>3. Declared(agenda')
    BY <1>5, <2>1 DEF Declared
  <2>4. \A c \in (ToSet(agenda') \cup Nested') \ (ToSet(agenda) \cup Nested) : CallDue(c)'
    BY <1>1, <1>6, <2>1 DEF Nested
  <2> QED
    BY <1>1, <1>10, <2>1, <2>2, <2>3, <2>4, DueKept
<1>11. CASE \E flow \in Unasked : Ask({flow}) /\ UNCHANGED <<agenda, crashed>>
  <2>1. DOMAIN asked' = DOMAIN asked /\ UNCHANGED <<agenda, crashed>>
    BY <1>11 DEF Ask
  <2>2. PICK none : none.do = "none"
    <3>1. Call("none").do = "none"
      BY DEF Call
    <3> QED
      BY <3>1
  <2>3. Onward(none) /\ SeenTo(none)
    BY <1>1, <2>1, <2>2 DEF Onward, SeenTo
  <2>4. Declared(agenda') \/ Declaring(agenda')
    BY <2>1 DEF AllDue
  <2>5. \A c \in (ToSet(agenda') \cup Nested') \ (ToSet(agenda) \cup Nested) : CallDue(c)'
    BY <1>1, <2>1 DEF Nested
  <2> QED
    BY <1>1, <2>1, <2>3, <2>4, <2>5, DueKept
<1> QED
  BY <1>9, <1>10, <1>11 DEF Propagate

\* Once lowering has begun, all that is due was discovered.
LEMMA LateFacts ==
    ASSUME IInv, Lowering, AllDue
    PROVE  /\ \A q : QueryDue(q) => q \in DOMAIN scopes
           /\ \A q \in DOMAIN scopes : PartsDue(q)
           /\ \A q, i : SourceDue(q, i) => /\ <<q, i>> \in DOMAIN asked
                                           /\ Node(q).sources[i].kind = "table" => <<q, i>> \in DOMAIN bound
           /\ \A q, m : MarkerDue(q, m) /\ IsPending(m) => m.id \in DOMAIN targets
           /\ \A o \in DOMAIN asked : AskedDue(o)
           /\ \A s \in ToSet(symbols) : s.body # NoQuery => s.body \in DOMAIN scopes
           /\ \A c \in ToSet(agenda) \cup Nested : CallDue(c)
<1>1. \A c \in ToSet(agenda) : c.do \notin DiscoveryCalls
  BY DEF Lowering, LateCalls, IsLate
<1>2. \A q : QueryDue(q) => q \in DOMAIN scopes
  BY <1>1 DEF QueryDue, DiscoveryCalls
<1>3. \A q, i : SourceDue(q, i) => /\ <<q, i>> \in DOMAIN asked
                                   /\ Node(q).sources[i].kind = "table" => <<q, i>> \in DOMAIN bound
  BY <1>1 DEF SourceDue, Bind, DiscoveryCalls
<1>4. \A q, m : MarkerDue(q, m) /\ IsPending(m) => m.id \in DOMAIN targets
  BY <1>1 DEF MarkerDue, Mark, DiscoveryCalls
<1>5. \A s \in ToSet(symbols) : s.body # NoQuery => s.body \in DOMAIN scopes
  BY <1>1, <1>2 DEF AllDue, BodyDue, About, Call, DiscoveryCalls
<1> QED
  BY <1>2, <1>3, <1>4, <1>5 DEF AllDue

\* Lowering calls for what was discovered.
MakesDue == \A c \in ToSet(agenda') \cup Nested' : c \in ToSet(agenda) \cup Nested \/ CallDue(c)

LEMMA LateKept ==
    ASSUME IInv, Lowering, AllDue, Known, targets' = targets, MakesDue, Lowering'
    PROVE  AllDue'
<1>1. \A q : QueryDue(q) => QueryDue(q)'
  BY LateFacts DEF QueryDue, Known
<1>2. \A q : Node(q)' = Node(q)
  BY DEF Node, Known
<1>3. \A q, i : SourceDue(q, i) => SourceDue(q, i)'
  BY <1>2, LateFacts DEF SourceDue, Known
<1>4. \A q, m : MarkerDue(q, m) => MarkerDue(q, m)'
  BY LateFacts DEF MarkerDue, IsPending
<1>5. \A q : PartsDue(q) => PartsDue(q)'
  BY <1>1, <1>2, <1>3, <1>4 DEF PartsDue
<1>6. \A o : AskedDue(o) => AskedDue(o)'
  BY <1>1, <1>2 DEF AskedDue, Source
<1>7. \A s \in ToSet(symbols) : BodyDue(s)'
  BY LateFacts DEF BodyDue, QueryDue, Known
<1>8. \A c : CallDue(c) => CallDue(c)'
  BY <1>1 DEF CallDue
<1>9. \A c \in ToSet(agenda') \cup Nested' : CallDue(c)'
  BY <1>8, LateFacts DEF MakesDue
<1>10. Declared(agenda')
  <2>1. \A c \in ToSet(agenda') : c.do \notin DiscoveryCalls
    BY DEF Lowering, LateCalls, IsLate
  <2> QED
    BY <2>1 DEF Declared, DiscoveryCalls
<1>11. (Declared(agenda) \/ Declaring(agenda))'
  BY <1>10 DEF Declared
<1>12. \A q \in DOMAIN scopes' : PartsDue(q)'
  BY <1>5, LateFacts DEF Known
<1>13. \A o \in DOMAIN asked' : AskedDue(o)'
  BY <1>6, LateFacts DEF Known
<1>14. \A s \in ToSet(symbols') : BodyDue(s)'
  BY <1>7 DEF Known
<1> QED
  BY <1>9, <1>11, <1>12, <1>13, <1>14 DEF AllDue

DueCalls(tasks) == IsSequence(tasks) /\ \A c \in ToSet(tasks) : CallDue(c)
\* Most calls are about nothing that must have been discovered.
Plain(c) == c.do \notin {"lower", "finish", "mark", "read", "filter"}

LEMMA FewDue ==
    /\ DueCalls(<<>>) /\ \A c : CallDue(c) => DueCalls(<<c>>)
    /\ \A c, d : CallDue(c) /\ CallDue(d) => DueCalls(<<c, d>>)
    /\ \A c, d, e : CallDue(c) /\ CallDue(d) /\ CallDue(e) => DueCalls(<<c, d, e>>)
    /\ \A s, r : DueCalls(s) /\ DueCalls(r) => DueCalls(s \o r)
    /\ \A c : Plain(c) => CallDue(c)
<1>1. DueCalls(<<>>) /\ \A c : CallDue(c) => DueCalls(<<c>>)
  BY EmptyFacts, OneFacts DEF DueCalls
<1>2. ASSUME NEW c, NEW d, CallDue(c), CallDue(d) PROVE DueCalls(<<c, d>>)
  <2>1. PICK two : two = <<c, d>>
    OBVIOUS
  <2>2. two \in Seq({c, d})
    BY <2>1
  <2>3. IsSequence(two) /\ ToSet(two) \subseteq {c, d}
    BY <2>2, OwnElements
  <2> QED
    BY <1>2, <2>1, <2>3 DEF DueCalls
<1>3. ASSUME NEW c, NEW d, NEW e, CallDue(c), CallDue(d), CallDue(e) PROVE DueCalls(<<c, d, e>>)
  <2>1. PICK three : three = <<c, d, e>>
    OBVIOUS
  <2>2. three \in Seq({c, d, e})
    BY <2>1
  <2>3. IsSequence(three) /\ ToSet(three) \subseteq {c, d, e}
    BY <2>2, OwnElements
  <2> QED
    BY <1>3, <2>1, <2>3 DEF DueCalls
<1>4. \A s, r : DueCalls(s) /\ DueCalls(r) => DueCalls(s \o r)
  BY ConcatFacts DEF DueCalls
<1>5. \A c : Plain(c) => CallDue(c)
  BY DEF Plain, CallDue
<1> QED
  BY <1>1, <1>2, <1>3, <1>4, <1>5

LEMMA EachDue ==
    ASSUME NEW s, IsSequence(s), NEW f, f = [i \in DOMAIN s |-> f[i]], \A i \in DOMAIN s : CallDue(f[i])
    PROVE  DueCalls(f)
<1>1. IsSequence(f) /\ Len(f) = Len(s) /\ DOMAIN f = DOMAIN s
  BY EachFacts
<1>2. \A c \in ToSet(f) : \E i \in DOMAIN s : c = f[i]
  BY <1>1, SequenceFacts
<1> QED
  BY <1>1, <1>2 DEF DueCalls

LEMMA ThenMakes ==
    ASSUME IInv, agenda # <<>>, callers' = callers, NEW tasks, DueCalls(tasks), agenda' = tasks \o Tail(agenda)
    PROVE  MakesDue
<1>1. IsSequence(agenda)
  BY DEF IInv, CallsKnown, KnownCalls
<1>2. IsSequence(Tail(agenda)) /\ ToSet(Tail(agenda)) \subseteq ToSet(agenda)
  BY <1>1, TailFacts
<1>3. PICK then : then = Tail(agenda)
  OBVIOUS
<1>4. ToSet(tasks \o then) = ToSet(tasks) \cup ToSet(then)
  BY <1>2, <1>3, ConcatFacts DEF DueCalls
<1> QED
  BY <1>2, <1>3, <1>4 DEF MakesDue, DueCalls, Nested

LEMMA ResolveMakes ==
    ASSUME IInv, Lowering, AllDue, agenda # <<>>, NEW s \in ToSet(symbols), NEW tasks, DueCalls(tasks), ResolveThen(s, tasks)
    PROVE  MakesDue
<1>1. CASE s \in ToSet(named) \/ s.role = "TABLE"
  <2>1. agenda' = tasks \o Tail(agenda) /\ callers' = callers
    BY <1>1 DEF ResolveThen, Open, Then
  <2> QED
    BY <2>1, ThenMakes
<1>2. CASE s \notin ToSet(named) /\ s.role # "TABLE"
  <2>1. PICK rest : rest = tasks \o Tail(agenda)
    OBVIOUS
  <2>2. PICK body : body = IF s.body = NoQuery THEN <<>> ELSE <<Lower(s.body)>>
    OBVIOUS
  <2>3. callers' = Append(callers, [symbol |-> s, rest |-> rest]) /\ agenda' = body
    BY <1>2, <2>1, <2>2 DEF ResolveThen, Open
  <2>4. \A c \in ToSet(body) : CallDue(c)
    <3>1. s.body # NoQuery => CallDue(Lower(s.body))
      BY LateFacts DEF CallDue, Lower, QueryDue
    <3> QED
      BY <2>2, <3>1, FewDue DEF DueCalls
  <2>5. \A c \in ToSet(rest) : c \in ToSet(agenda) \/ CallDue(c)
    <3>1. IsSequence(agenda)
      BY DEF IInv, CallsKnown, KnownCalls
    <3>2. PICK then : then = Tail(agenda)
      OBVIOUS
    <3>3. IsSequence(then) /\ ToSet(then) \subseteq ToSet(agenda)
      BY <3>1, <3>2, TailFacts
    <3>4. ToSet(tasks \o then) = ToSet(tasks) \cup ToSet(then)
      BY <3>3, ConcatFacts DEF DueCalls
    <3> QED
      BY <2>1, <3>2, <3>3, <3>4 DEF DueCalls
  <2>6. \A c \in Nested' : c \in Nested \/ c \in ToSet(rest)
    <3>1. IsSequence(callers)
      BY DEF IInv, CallsKnown
    <3>2. PICK caller : caller = [symbol |-> s, rest |-> rest]
      OBVIOUS
    <3>3. /\ DOMAIN callers' = 1..(Len(callers) + 1) /\ DOMAIN callers = 1..Len(callers)
          /\ Len(callers) \in Nat
          /\ \A i \in 1..Len(callers) : callers'[i] = callers[i]
          /\ callers'[Len(callers) + 1] = caller
      BY <2>3, <3>1, <3>2, AppendFacts
    <3>4. \A i \in DOMAIN callers' : i \in DOMAIN callers \/ i = Len(callers) + 1
      BY <3>3
    <3> QED
      BY <3>2, <3>3, <3>4 DEF Nested
  <2> QED
    BY <2>3, <2>4, <2>5, <2>6 DEF MakesDue
<1> QED
  BY <1>1, <1>2

\* The call that a step of lowering makes was due.
LEMMA LateCall ==
    ASSUME IInv, Lowering, AllDue, NEW what, Doing(what)
    PROVE  agenda # <<>> /\ IsSequence(agenda) /\ Task.do = what /\ Task \in ToSet(agenda) /\ CallDue(Task) /\ IsLate(Task)
<1>1. agenda # <<>> /\ IsSequence(agenda) /\ Task.do = what /\ Task \in ToSet(agenda) /\ IsLate(Task)
  BY LateTask
<1> QED
  BY <1>1 DEF AllDue

LEMMA SourcesDue ==
    ASSUME IInv, NEW q \in DOMAIN program.query, Node(q).kind = "select", QueryDue(q)
    PROVE  DueCalls(SourceTasks(q))
<1>1. PICK sources : sources = Node(q).sources
  OBVIOUS
<1>2. PICK tasks : tasks = [i \in DOMAIN sources |-> Read(q, i)]
  OBVIOUS
<1>3. IsSequence(sources)
  BY <1>1, TreeFacts DEF IInv, Node
<1>4. \A i \in DOMAIN sources : tasks[i] = Read(q, i)
  BY <1>2
<1>5. \A i : CallDue(Read(q, i))
  BY DEF CallDue, Read
<1>6. \A i \in DOMAIN sources : CallDue(tasks[i])
  BY <1>4, <1>5
<1>7. DueCalls(tasks)
  BY <1>2, <1>3, <1>6, EachDue
<1> QED
  BY <1>1, <1>2, <1>7 DEF SourceTasks

LEMMA LowerMakes == IInv /\ Lowering /\ AllDue /\ ~PassedOver(program) /\ LowerQuery => MakesDue /\ crashed' = crashed
<1> SUFFICES ASSUME IInv, Lowering, AllDue, ~PassedOver(program), LowerQuery PROVE MakesDue /\ crashed' = crashed
  OBVIOUS
<1>1. Doing("lower") /\ callers' = callers /\ crashed' = crashed
  BY DEF LowerQuery, linking
<1>2. PICK q : q = Task.query
  OBVIOUS
<1>3. q \in DOMAIN program.query
  BY <1>1, <1>2, TaskFacts DEF KnownCall
<1>4. agenda # <<>> /\ QueryDue(q)
  BY <1>1, <1>2, LateCall DEF CallDue
<1>5. PartsDue(q)
  BY <1>4, LateFacts
<1>6. Node(q).kind \in {"select", "setop"}
  BY <1>3, TreeFacts DEF IInv, PassedOver, Node
<1>7. Unwrap(Task.query) = q
  BY <1>2, <1>6 DEF Unwrap
<1>8. PICK finish : finish = <<[do |-> "finish", query |-> q]>>
  OBVIOUS
<1>9. DueCalls(finish)
  BY <1>4, <1>8, FewDue DEF CallDue
<1>10. PICK tasks : tasks = CASE Node(q).kind = "setop" -> <<Lower(Node(q).arms[1]), Lower(Node(q).arms[2])>> \o finish
                              [] Node(q).kind = "select" /\ Node(q).tail = "natural" -> finish
                              [] OTHER -> SourceTasks(q) \o WhereTasks(q) \o finish
  OBVIOUS
<1>11. agenda' = tasks \o Tail(agenda)
  BY <1>7, <1>8, <1>10 DEF LowerQuery, Then
<1>12. DueCalls(tasks)
  <2>1. CASE Node(q).kind = "setop"
    <3>1. \A i \in 1..2 : QueryDue(Node(q).arms[i])
      BY <1>5, <2>1 DEF PartsDue
    <3>2. CallDue(Lower(Node(q).arms[1])) /\ CallDue(Lower(Node(q).arms[2]))
      BY <3>1 DEF CallDue, Lower
    <3>3. PICK arms : arms = <<Lower(Node(q).arms[1]), Lower(Node(q).arms[2])>>
      OBVIOUS
    <3>4. DueCalls(arms)
      BY <3>2, <3>3, FewDue
    <3>5. tasks = arms \o finish
      BY <1>10, <2>1, <3>3
    <3> QED
      BY <1>9, <3>4, <3>5, FewDue
  <2>2. CASE Node(q).kind = "select" /\ Node(q).tail = "natural"
    BY <1>9, <1>10, <2>2
  <2>3. CASE Node(q).kind = "select" /\ Node(q).tail # "natural"
    <3>1. PICK sources : sources = SourceTasks(q)
      OBVIOUS
    <3>2. DueCalls(sources)
      BY <1>3, <1>4, <2>3, <3>1, SourcesDue
    <3>3. PICK wheres : wheres = WhereTasks(q)
      OBVIOUS
    <3>4. DueCalls(wheres)
      <4>1. PICK where : where = Node(q).where
        OBVIOUS
      <4>2. IsSequence(where)
        BY <1>3, <2>3, <4>1, TreeFacts DEF IInv, Node
      <4>3. PICK filters : filters = [i \in DOMAIN where |-> [do |-> "filter", conjunct |-> where[i]]]
        OBVIOUS
      <4>4. \A i \in DOMAIN where : QueryDue(where[i].body)
        BY <1>5, <2>3, <4>1, <4>2, SequenceFacts DEF PartsDue
      <4>5. \A i \in DOMAIN where : filters[i].do = "filter" /\ filters[i].conjunct = where[i]
        BY <4>3
      <4>6. \A i \in DOMAIN where : CallDue(filters[i])
        BY <4>4, <4>5 DEF CallDue
      <4>7. DueCalls(filters)
        BY <4>2, <4>3, <4>6, EachDue
      <4>8. wheres = filters \/ wheres = <<>>
        BY <3>3, <4>1, <4>3 DEF WhereTasks
      <4> QED
        BY <4>7, <4>8, FewDue
    <3>5. PICK both : both = sources \o wheres
      OBVIOUS
    <3>6. DueCalls(both)
      BY <3>2, <3>4, <3>5, FewDue
    <3>7. tasks = both \o finish
      BY <1>10, <2>3, <3>1, <3>3, <3>5
    <3> QED
      BY <1>9, <3>6, <3>7, FewDue
  <2> QED
    BY <1>6, <2>1, <2>2, <2>3
<1> QED
  BY <1>1, <1>4, <1>11, <1>12, ThenMakes

LEMMA FilterMakes == IInv /\ Lowering /\ AllDue /\ FilterRows => MakesDue /\ crashed' = crashed
<1> SUFFICES ASSUME IInv, Lowering, AllDue, FilterRows PROVE MakesDue /\ crashed' = crashed
  OBVIOUS
<1>1. Doing("filter") /\ callers' = callers /\ crashed' = crashed
  BY DEF FilterRows, linking
<1>2. PICK body : body = Task.conjunct.body
  OBVIOUS
<1>3. body \in DOMAIN program.query /\ Node(body).kind = "select"
  BY <1>1, <1>2, TaskFacts DEF KnownCall, Node
<1>4. agenda # <<>> /\ QueryDue(body)
  BY <1>1, <1>2, LateCall DEF CallDue
<1>5. PICK tasks : /\ agenda' = tasks \o Tail(agenda)
                   /\ tasks = <<Lower(body)>> \/ tasks = SourceTasks(body) \/ tasks = <<>>
  BY <1>2 DEF FilterRows, Then
<1>6. CallDue(Lower(body)) /\ DueCalls(SourceTasks(body))
  BY <1>3, <1>4, SourcesDue DEF CallDue, Lower
<1>7. DueCalls(tasks)
  BY <1>5, <1>6, FewDue
<1> QED
  BY <1>1, <1>4, <1>5, <1>7, ThenMakes

LEMMA ReadMakes == IInv /\ Lowering /\ AllDue /\ ReadSource => MakesDue /\ crashed' = crashed
<1> SUFFICES ASSUME IInv, Lowering, AllDue, ReadSource PROVE MakesDue /\ crashed' = crashed
  OBVIOUS
<1>1. Doing("read")
  BY DEF ReadSource
<1>2. PICK o : o = Task.at
  OBVIOUS
<1>3. PICK q, i : o = <<q, i>> /\ q \in DOMAIN program.query /\ Node(q).kind = "select" /\ i \in DOMAIN Node(q).sources
  <2>1. o = <<o[1], o[2]>>
    BY <1>1, <1>2, LateCall DEF CallDue
  <2> QED
    BY <1>1, <1>2, <2>1, TaskFacts DEF KnownCall, Node
<1>4. agenda # <<>> /\ QueryDue(q)
  BY <1>1, <1>2, <1>3, LateCall DEF CallDue
<1>5. SourceDue(q, i)
  BY <1>3, <1>4, LateFacts DEF PartsDue
<1>6. o \in DOMAIN asked /\ (Source(o).kind = "table" => o \in DOMAIN bound)
  BY <1>3, <1>5, LateFacts DEF Source
<1>7. PICK source : source = Source(o)
  OBVIOUS
<1>8. PICK join : join = IF source.joined = NoMarker THEN <<>> ELSE <<[do |-> "join", marker |-> source.joined]>>
  OBVIOUS
<1>9. DueCalls(join)
  BY <1>8, FewDue DEF Plain
<1>10. CASE source.kind # "table"
  <2>1. PICK body : body = IF source.kind = "subquery" THEN <<Lower(source.body)>> ELSE <<>>
    OBVIOUS
  <2>2. agenda' = (body \o join) \o Tail(agenda) /\ callers' = callers /\ crashed' = crashed
    BY <1>2, <1>7, <1>8, <1>10, <2>1 DEF ReadSource, Then, linking
  <2>3. source.kind = "subquery" => CallDue(Lower(source.body))
    BY <1>6, <1>7, LateFacts DEF AskedDue, CallDue, Lower
  <2>4. PICK tasks : tasks = body \o join
    OBVIOUS
  <2>5. DueCalls(tasks)
    <3>1. DueCalls(body)
      BY <2>1, <2>3, FewDue
    <3> QED
      BY <1>9, <2>4, <3>1, FewDue
  <2> QED
    BY <1>4, <2>2, <2>4, <2>5, ThenMakes
<1>11. CASE source.kind = "table"
  <2>1. ReadRelation(o, bound[o], join) /\ crashed' = crashed
    BY <1>2, <1>6, <1>7, <1>8, <1>11 DEF ReadSource
  <2>2. CASE bound[o] \in resolving
    <3>1. agenda' = join \o Tail(agenda) /\ callers' = callers
      BY <2>1, <2>2 DEF ReadRelation, Then
    <3> QED
      BY <1>4, <1>9, <2>1, <3>1, ThenMakes
  <2>3. CASE bound[o] \notin resolving
    <3>1. PICK s : s = bound[o]
      OBVIOUS
    <3>2. ResolveThen(s, join)
      BY <2>1, <2>3, <3>1 DEF ReadRelation
    <3>3. s \in ToSet(symbols)
      BY <1>6, <1>7, <1>11, <3>1 DEF IInv, NamesKnown
    <3> QED
      BY <1>4, <1>9, <2>1, <3>2, <3>3, ResolveMakes
  <2> QED
    BY <2>2, <2>3
<1> QED
  BY <1>10, <1>11

LEMMA ResolveSymbolMakes == IInv /\ Lowering /\ AllDue /\ ResolveSymbol => MakesDue /\ crashed' = crashed
<1> SUFFICES ASSUME IInv, Lowering, AllDue, ResolveSymbol PROVE MakesDue /\ crashed' = crashed
  OBVIOUS
<1>1. Doing("resolve") /\ ResolveThen(Task.symbol, <<>>) /\ crashed' = crashed
  BY DEF ResolveSymbol
<1>2. PICK s : s = Task.symbol
  OBVIOUS
<1>3. s \in ToSet(symbols) /\ agenda # <<>>
  BY <1>1, <1>2, SymbolCall, LateCall
<1>4. PICK none : none = <<>>
  OBVIOUS
<1>5. DueCalls(none) /\ ResolveThen(s, none)
  BY <1>1, <1>2, <1>4, FewDue
<1> QED
  BY <1>1, <1>3, <1>5, ResolveMakes

LEMMA NameMakes == IInv /\ NameRelation => MakesDue /\ crashed' = crashed
<1> SUFFICES ASSUME IInv, NameRelation PROVE MakesDue /\ crashed' = crashed
  OBVIOUS
<1>1. callers # <<>> /\ agenda' = Last(callers).rest /\ callers' = Front(callers) /\ crashed' = crashed
  BY DEF NameRelation
<1>2. /\ Len(callers) \in Nat \ {0} /\ DOMAIN callers = 1..Len(callers)
      /\ DOMAIN callers' = 1..(Len(callers) - 1) /\ \A i \in 1..(Len(callers) - 1) : callers'[i] = callers[i]
      /\ Last(callers) = callers[Len(callers)]
  BY <1>1, FrontFacts DEF IInv, CallsKnown
<1>3. ToSet(agenda') \subseteq Nested
  BY <1>1, <1>2 DEF Nested
<1>4. Nested' \subseteq Nested
  BY <1>1, <1>2 DEF Nested
<1> QED
  BY <1>1, <1>3, <1>4 DEF MakesDue

LEMMA FinishMakes == IInv /\ Lowering /\ AllDue /\ FinishQuery => MakesDue /\ crashed' = crashed
<1> SUFFICES ASSUME IInv, Lowering, AllDue, FinishQuery PROVE MakesDue /\ crashed' = crashed
  OBVIOUS
<1>1. Doing("finish") /\ callers' = callers /\ crashed' = crashed
  BY DEF FinishQuery, linking
<1>2. PICK q : q = Task.query
  OBVIOUS
<1>3. agenda # <<>> /\ QueryDue(q)
  BY <1>1, <1>2, LateCall DEF CallDue
<1>4. q \in DOMAIN program.query
  BY <1>1, <1>2, TaskFacts DEF KnownCall
<1>5. CASE Node(q).kind = "select"
  <2>1. PICK markers : markers = Node(q).markers
    OBVIOUS
  <2>2. PICK tasks : tasks = [i \in DOMAIN markers |-> Mark("mark", q, markers[i])]
    OBVIOUS
  <2>3. agenda' = tasks \o Tail(agenda)
    BY <1>2, <1>5, <2>1, <2>2 DEF FinishQuery, Then
  <2>4. IsSequence(markers)
    BY <1>4, <1>5, <2>1, TreeFacts DEF IInv, Node
  <2>5. \A m : CallDue(Mark("mark", q, m))
    BY <1>3 DEF CallDue, Mark
  <2>6. \A i \in DOMAIN markers : CallDue(tasks[i])
    BY <2>2, <2>5
  <2>7. DueCalls(tasks)
    BY <2>2, <2>4, <2>6, EachDue
  <2> QED
    BY <1>1, <1>3, <2>3, <2>7, ThenMakes
<1>6. CASE Node(q).kind # "select"
  <2>1. agenda' = <<>> \o Tail(agenda)
    BY <1>2, <1>6 DEF FinishQuery, Then
  <2>2. PICK none : none = <<>>
    OBVIOUS
  <2> QED
    BY <1>1, <1>3, <2>1, <2>2, FewDue, ThenMakes
<1> QED
  BY <1>5, <1>6

LEMMA RegisterMakes == IInv /\ Lowering /\ AllDue /\ RegisterMarker => MakesDue /\ crashed' = crashed
<1> SUFFICES ASSUME IInv, Lowering, AllDue, RegisterMarker PROVE MakesDue /\ crashed' = crashed
  OBVIOUS
<1>1. Doing("mark") /\ callers' = callers
  BY DEF RegisterMarker, linking
<1>2. PICK q : q = Task.query
  OBVIOUS
<1>3. PICK m : m = Task.marker
  OBVIOUS
<1>4. agenda # <<>> /\ QueryDue(q) /\ q \in Selects(program) /\ m \in ToSet(Node(q).markers)
  BY <1>1, <1>2, <1>3, LateCall DEF CallDue, IsLate
<1>5. MarkerDue(q, m)
  BY <1>4, LateFacts DEF PartsDue, Selects, Node
<1>6. IsPending(m) => m.id \in DOMAIN targets
  BY <1>5, LateFacts
<1>7. Then(<<>>) /\ crashed' = crashed
  BY <1>3, <1>6 DEF RegisterMarker
<1>8. PICK none : none = <<>>
  OBVIOUS
<1> QED
  BY <1>1, <1>4, <1>7, <1>8, FewDue, ThenMakes DEF Then

\* What links calls for nothing that is lowered at once.
LEMMA LinkMakes == IInv /\ (Passive \/ Telling \/ Settle) => MakesDue /\ crashed' = crashed
<1> SUFFICES ASSUME IInv, Passive \/ Telling \/ Settle PROVE MakesDue /\ crashed' = crashed
  OBVIOUS
<1>1. callers' = callers /\ crashed' = crashed /\ agenda # <<>>
  <2>1. CASE Passive
    BY <2>1 DEF Passive, LinkConstraints, LinkReference, AssertJoin, PlaceAssertion, LinkMarkers, linking, Doing
  <2>2. CASE Telling \/ Settle
    BY <2>2 DEF Telling, ConstrainReference, StateReference, ReportUnanalyzed, Settle, linking, Doing
  <2> QED
    BY <2>1, <2>2
<1>2. ASSUME NEW tasks, DueCalls(tasks), Then(tasks) PROVE MakesDue
  BY <1>1, <1>2, ThenMakes DEF Then
<1>3. PICK none : none = <<>>
  OBVIOUS
<1>4. Then(<<>>) => MakesDue
  BY <1>2, <1>3, FewDue
<1>5. agenda' = agenda => MakesDue
  BY <1>1 DEF MakesDue, Nested
<1>6. CASE LinkConstraints
  <2>1. PICK tasks : tasks = [i \in DOMAIN references |-> Reference("link", references[i])]
    OBVIOUS
  <2>2. \A i \in DOMAIN references : Plain(tasks[i])
    BY <2>1 DEF Plain, Reference
  <2>3. \A i \in DOMAIN references : CallDue(tasks[i])
    BY <2>2, FewDue
  <2>4. IsSequence(references)
    BY DEF IInv, ReferencesKnown
  <2>5. DueCalls(tasks)
    BY <2>1, <2>3, <2>4, EachDue
  <2> QED
    BY <1>1, <1>2, <1>6, <2>1, <2>5 DEF LinkConstraints
<1>7. CASE LinkReference
  <2>1. PICK r : Then(<<Resolve(r.table), Resolve(r.target), Reference("constrain", r)>>)
    BY <1>7 DEF LinkReference
  <2>2. PICK tasks : tasks = <<Resolve(r.table), Resolve(r.target), Reference("constrain", r)>>
    OBVIOUS
  <2>3. Plain(Resolve(r.table)) /\ Plain(Resolve(r.target)) /\ Plain(Reference("constrain", r))
    BY DEF Plain, Resolve, About, Reference
  <2>4. DueCalls(tasks)
    BY <2>2, <2>3, FewDue
  <2> QED
    BY <1>1, <1>2, <2>1, <2>2, <2>4
<1>8. CASE LinkMarkers
  <2>1. Then(<<>>) \/ \E r : Then(<<Resolve(r.target), Reference("refer", r)>> \o LinkMore)
    BY <1>8 DEF LinkMarkers
  <2>2. ASSUME NEW r, Then(<<Resolve(r.target), Reference("refer", r)>> \o LinkMore) PROVE MakesDue
    <3>1. PICK first : first = <<Resolve(r.target), Reference("refer", r)>>
      OBVIOUS
    <3>2. PICK more : more = LinkMore
      OBVIOUS
    <3>3. Plain(Resolve(r.target)) /\ Plain(Reference("refer", r)) /\ Plain(Call("references"))
      BY DEF Plain, Resolve, About, Reference, Call
    <3>4. DueCalls(first) /\ DueCalls(more)
      BY <3>1, <3>2, <3>3, FewDue DEF LinkMore
    <3>5. PICK tasks : tasks = first \o more
      OBVIOUS
    <3>6. DueCalls(tasks)
      BY <3>4, <3>5, FewDue
    <3> QED
      BY <1>2, <2>2, <3>1, <3>2, <3>5, <3>6
  <2> QED
    BY <1>1, <1>4, <2>1, <2>2
<1>9. CASE AssertJoin \/ PlaceAssertion
  BY <1>1, <1>4, <1>5, <1>9 DEF AssertJoin, PlaceAssertion
<1>10. CASE Telling \/ Settle
  BY <1>1, <1>4, <1>5, <1>10 DEF Telling, ConstrainReference, StateReference, ReportUnanalyzed, Settle
<1> QED
  BY <1>6, <1>7, <1>8, <1>9, <1>10 DEF Passive

LEMMA DueNext ==
    ASSUME IInv, ~crashed, Asking, AllDue, ~PassedOver(program), Next
    PROVE  AllDue' /\ ~crashed'
<1>1. AskedKnown /\ (Discovers \/ Lowering)
  BY DEF Asking
<1>2. CASE Discovers
  <2>1. Discovery
    BY <1>2, DiscoverySteps
  <2>2. CASE Listing \/ RequireColumns \/ DiscoverReference
    BY <2>2, ViewsDue, AsidesDue DEF Listing, Asides
  <2>3. CASE Propagate
    BY <1>1, <1>2, <2>3, PropagateDue
  <2> QED
    BY <2>1, <2>2, <2>3, DeclareDue, QueryStepDue, BindDue, TargetDue DEF Discovery
<1>3. CASE Lowering
  <2>1. Later
    BY <1>3, LaterSteps
  <2>2. MakesDue /\ crashed' = crashed
    <3>1. CASE Passive \/ Telling \/ Settle
      BY <3>1, LinkMakes
    <3>2. CASE LowerQuery \/ ReadSource \/ FilterRows \/ ResolveSymbol
      BY <1>3, <3>2, LowerMakes, ReadMakes, FilterMakes, ResolveSymbolMakes
    <3>3. CASE NameRelation \/ FinishQuery \/ RegisterMarker
      BY <1>3, <3>3, NameMakes, FinishMakes, RegisterMakes
    <3> QED
      BY <2>1, <3>1, <3>2, <3>3 DEF Passive, Telling, Later
  <2>3. Lowering'
    BY <1>1, <1>3, <2>2, LoweringNext
  <2>4. Known /\ targets' = targets
    BY <2>1, LateKnown
  <2> QED
    BY <1>3, <2>2, <2>3, <2>4, LateKept
<1> QED
  BY <1>1, <1>2, <1>3

LEMMA ProgramStays == Next => program' = program
<1>1. Later => program' = program
  BY LateKnown DEF Known
<1>2. DeclareStatement \/ Listing \/ DiscoverQuery \/ BindSource => program' = program
  BY DEF DeclareStatement, Listing, DiscoverViews, DiscoverView, DiscoverConstraints, DiscoverConstraintsOf,
         DiscoverQuery, BindSource
<1>3. RequireColumns \/ FindTarget \/ DiscoverReference \/ Propagate => program' = program
  BY DEF RequireColumns, FindTarget, DiscoverReference, Propagate
<1> QED
  BY <1>1, <1>2, <1>3 DEF Next, Later, Listing

LEMMA StillDue == AllDue /\ UNCHANGED vars => AllDue' /\ crashed' = crashed
<1> SUFFICES ASSUME AllDue, UNCHANGED vars PROVE AllDue' /\ crashed' = crashed
  OBVIOUS
<1>1. UNCHANGED <<program, agenda, callers, symbols, scopes, bound, targets, asked, crashed>>
  BY DEF vars, binding, asking, linking
<1>2. PICK none : none.do = "none"
  <2>1. Call("none").do = "none"
    BY DEF Call
  <2> QED
    BY <2>1
<1>3. Onward(none) /\ SeenTo(none)
  BY <1>1, <1>2 DEF Onward, SeenTo
<1>4. Declared(agenda') \/ Declaring(agenda')
  BY <1>1 DEF AllDue
<1>5. \A c \in (ToSet(agenda') \cup Nested') \ (ToSet(agenda) \cup Nested) : CallDue(c)'
  BY <1>1 DEF Nested
<1> QED
  BY <1>1, <1>3, <1>4, <1>5, DueKept

LEMMA InitDue == Init => AllDue
<1> SUFFICES ASSUME Init PROVE AllDue
  OBVIOUS
<1>1. IsProgram(program)
  BY ProgramsAssumption DEF Init
<1>2. /\ DOMAIN scopes = {} /\ DOMAIN asked = {} /\ ToSet(symbols) = {} /\ callers = <<>>
  BY EmptyFacts DEF Init, NoEntry
<1>3. Nested = {}
  <2>1. DOMAIN callers = {}
    BY <1>2, EmptyFacts
  <2> QED
    BY <2>1 DEF Nested
<1>4. PICK declare : declare = [i \in DOMAIN program.statements |-> [do |-> "declare", statement |-> program.statements[i]]]
  OBVIOUS
<1>5. PICK views : views = <<Call("views")>>
  OBVIOUS
<1>6. PICK found : found = IF program.root = NoQuery THEN <<>> ELSE <<Discover(program.root, NoEntry)>>
  OBVIOUS
<1>7. PICK middle : middle = <<Call("constraints"), Call("propagate")>>
  OBVIOUS
<1>8. PICK rooted : rooted = IF program.root = NoQuery THEN <<>> ELSE <<Lower(program.root)>>
  OBVIOUS
<1>9. PICK last : last = <<Call("links"), Call("references"), Call("place"), Call("report"), Call("settle")>>
  OBVIOUS
<1>10. agenda = ((((declare \o views) \o found) \o middle) \o rooted) \o last
  BY <1>4, <1>5, <1>6, <1>7, <1>8, <1>9 DEF Init
<1>11. IsSequence(declare) /\ \A c \in ToSet(declare) : c.do = "declare"
  <2>1. PICK stated : stated = program.statements
    OBVIOUS
  <2>2. IsSequence(stated)
    BY <1>1, <2>1, StatementFacts
  <2>3. \A i \in DOMAIN stated : declare[i].do = "declare"
    BY <1>4, <2>1
  <2>4. declare = [i \in DOMAIN stated |-> declare[i]] /\ DOMAIN declare = DOMAIN stated
    BY <1>4, <2>1
  <2>5. IsSequence(declare) /\ ToSet(declare) = {declare[i] : i \in 1..Len(stated)}
    BY <2>2, <2>4, EachFacts
  <2> QED
    BY <2>2, <2>3, <2>5, SequenceFacts
<1>12. IsSequence(views) /\ ToSet(views) = {Call("views")}
  BY <1>5, OneFacts
<1>13. /\ IsSequence(found) /\ \A c \in ToSet(found) : c.do = "discover"
       /\ program.root # NoQuery => Discover(program.root, NoEntry) \in ToSet(found)
  BY <1>6, EmptyFacts, OneFacts DEF Discover
<1>14. IsSequence(middle) /\ \A c \in ToSet(middle) : c.do \in {"constraints", "propagate"}
  <2>1. middle \in Seq({Call("constraints"), Call("propagate")})
    BY <1>7
  <2> QED
    BY <2>1, OwnElements DEF Call
<1>15. IsSequence(rooted) /\ \A c \in ToSet(rooted) : program.root # NoQuery /\ c = Lower(program.root)
  BY <1>8, EmptyFacts, OneFacts
<1>16. IsSequence(last) /\ \A c \in ToSet(last) : c.do \in {"links", "references", "place", "report", "settle"}
  <2>1. last \in Seq({Call("links"), Call("references"), Call("place"), Call("report"), Call("settle")})
    BY <1>9
  <2> QED
    BY <2>1, OwnElements DEF Call
<1>17. PICK k1 : k1 = views \o found
  OBVIOUS
<1>18. PICK k2 : k2 = k1 \o middle
  OBVIOUS
<1>19. PICK k3 : k3 = k2 \o rooted
  OBVIOUS
<1>20. PICK k4 : k4 = k3 \o last
  OBVIOUS
<1>21. IsSequence(k1) /\ ToSet(k1) = ToSet(views) \cup ToSet(found) /\ (declare \o views) \o found = declare \o k1
  BY <1>11, <1>12, <1>13, <1>17, ConcatFacts, Associative
<1>22. IsSequence(k2) /\ ToSet(k2) = ToSet(k1) \cup ToSet(middle) /\ (declare \o k1) \o middle = declare \o k2
  BY <1>11, <1>14, <1>18, <1>21, ConcatFacts, Associative
<1>23. IsSequence(k3) /\ ToSet(k3) = ToSet(k2) \cup ToSet(rooted) /\ (declare \o k2) \o rooted = declare \o k3
  BY <1>11, <1>15, <1>19, <1>22, ConcatFacts, Associative
<1>24. IsSequence(k4) /\ ToSet(k4) = ToSet(k3) \cup ToSet(last) /\ (declare \o k3) \o last = declare \o k4
  BY <1>11, <1>16, <1>20, <1>23, ConcatFacts, Associative
<1>25. agenda = declare \o k4 /\ ToSet(agenda) = ToSet(declare) \cup ToSet(k4)
  BY <1>10, <1>11, <1>21, <1>22, <1>23, <1>24, ConcatFacts
<1>26. ToSet(k4) = ToSet(views) \cup ToSet(found) \cup ToSet(middle) \cup ToSet(rooted) \cup ToSet(last)
  BY <1>21, <1>22, <1>23, <1>24
<1>27. Declaring(agenda)
  <2>1. \A c \in ToSet(k4) : c.do # "declare"
    BY <1>12, <1>13, <1>14, <1>15, <1>16, <1>26 DEF Call, Lower
  <2>2. Call("views") \in ToSet(k4)
    BY <1>12, <1>26
  <2> QED
    BY <1>11, <1>24, <1>25, <2>1, <2>2 DEF Declaring
<1>28. \A c \in ToSet(agenda) : CallDue(c)
  <2>1. program.root # NoQuery => QueryDue(program.root)
    BY <1>13, <1>25, <1>26 DEF QueryDue, Discover
  <2>2. \A c \in ToSet(rooted) : CallDue(c)
    BY <1>15, <2>1 DEF CallDue, Lower
  <2>3. \A c \in ToSet(declare) \cup ToSet(views) \cup ToSet(found) \cup ToSet(middle) \cup ToSet(last) : CallDue(c)
    BY <1>11, <1>12, <1>13, <1>14, <1>16 DEF CallDue, Call
  <2> QED
    BY <1>25, <1>26, <2>2, <2>3
<1> QED
  BY <1>2, <1>3, <1>27, <1>28 DEF AllDue

(***************************************************************************)
(* A KeyError has one of three causes: a WITH of a set operation, a query   *)
(* in parentheses, CREATE TABLE AS.  Of any other program, whatever the     *)
(* order in which its queries are met, a query is lowered only when each of *)
(* its tables is bound, the body of each of its derived tables and          *)
(* relations was discovered, and its markers have their targets.            *)
(***************************************************************************)
THEOREM CrashesAreExplained == Spec => []CrashesExplained
<1> DEFINE Kept == PassedOver(program) \/ (~crashed /\ AllDue)
<1>1. Init => Kept
  BY InitDue DEF Init
<1>2. ASSUME IInv, Asking, [Next]_vars, Kept PROVE Kept'
  <2>1. program' = program
    <3>1. CASE UNCHANGED vars
      BY <3>1 DEF vars
    <3>2. CASE Next
      BY <3>2, ProgramStays
    <3> QED
      BY <1>2, <3>1, <3>2
  <2>2. PassedOver(program)' = PassedOver(program)
    BY <2>1
  <2>3. CASE PassedOver(program)
    BY <2>2, <2>3
  <2>4. CASE ~PassedOver(program)
    <3>1. ~crashed /\ AllDue
      BY <1>2, <2>4
    <3>2. AllDue' /\ ~crashed'
      BY <1>2, <2>4, <3>1, DueNext, StillDue
    <3> QED
      BY <3>2
  <2> QED
    BY <2>3, <2>4
<1>3. Kept => CrashesExplained
  BY DEF CrashesExplained
<1> HIDE DEF Kept
<1> QED
  BY <1>1, <1>2, <1>3, AskingInvariant, PTL DEF Spec

=============================================================================
