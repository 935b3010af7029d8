-------------------------- MODULE HydrationProofs --------------------------
(***************************************************************************)
(* Theorems about discovery, for every catalog, however often it changes or *)
(* fails, and every program.                                                *)
(***************************************************************************)
EXTENDS Hydration, SequenceTheorems, WellFoundedInduction, TLAPS

\* Updating a function adds the other's domain and takes its values.
LEMMA UpdatedFacts ==
  ASSUME NEW f, NEW g
  PROVE  /\ DOMAIN Updated(f, g) = DOMAIN f \cup DOMAIN g
         /\ \A x \in DOMAIN g : Updated(f, g)[x] = g[x]
         /\ \A x \in DOMAIN f \ DOMAIN g : Updated(f, g)[x] = f[x]
  BY DEF Updated

-----------------------------------------------------------------------------
(***************************************************************************)
(* Type correctness is inductive together with the control state of a view  *)
(* whose body is being looked up.                                           *)
(***************************************************************************)
Control ==
    /\ TypeOK
    /\ pc = "body" => opened.metadata = resolved[opened.name]
    /\ pending \subseteq NamedRelations \ program.declares

LEMMA ControlInit == Init => Control
  BY MaxChangesAssumption DEF Init, Control, TypeOK, DeclaredNames, Decided, NoEntry

LEMMA RevealedGrows ==
  ASSUME NEW name, NEW metadata, NEW reveals, name \notin DeclaredNames,
         Declare(name, metadata, reveals)
  PROVE  /\ DeclaredNames' = DeclaredNames \cup {name}
         /\ Revealed' = Revealed \cup reveals
         /\ \A n \in DeclaredNames : declarations'[n] = declarations[n]
<1> DEFINE new == [n \in {name} |-> Declaration(metadata, reveals)]
<1>1. declarations' = Updated(declarations, new) /\ DOMAIN new = {name}
  BY DEF Declare
<1>2. /\ DOMAIN declarations' = DOMAIN declarations \cup {name}
      /\ declarations'[name] = Declaration(metadata, reveals)
      /\ \A n \in DOMAIN declarations : declarations'[n] = declarations[n]
  <2>1. new[name] = Declaration(metadata, reveals)
    OBVIOUS
  <2> HIDE DEF new
  <2>2. DOMAIN Updated(declarations, new) = DOMAIN declarations \cup DOMAIN new
    BY UpdatedFacts
  <2>3. /\ \A n \in DOMAIN new : Updated(declarations, new)[n] = new[n]
        /\ \A n \in DOMAIN declarations \ DOMAIN new :
              Updated(declarations, new)[n] = declarations[n]
    BY UpdatedFacts, ZenonT(30)
  <2> QED
    BY <1>1, <2>1, <2>2, <2>3 DEF DeclaredNames
<1>3. declarations'[name].reveals = reveals
  BY <1>2 DEF Declaration
<1> QED
  BY <1>2, <1>3 DEF DeclaredNames, Revealed

\* Declaring a pending name, or giving it up, settles that name alone.
LEMMA Settled ==
  ASSUME NEW name \in pending, Control,
         \/ GiveUp(name)
         \/ \E metadata, reveals : Declare(name, metadata, reveals)
  PROVE  /\ Decided' = Decided \cup {name}
         /\ pending' = pending \ {name}
         /\ DeclaredNames' \cap unavailable' = {}
         /\ DOMAIN tables' \subseteq DeclaredNames'
         /\ Revealed \subseteq Revealed'
         /\ unavailable' \subseteq unavailable \cup {name}
<1>1. name \notin DeclaredNames /\ name \notin unavailable
  BY DEF Control, TypeOK, Decided
<1>2. CASE GiveUp(name)
  BY <1>1, <1>2 DEF GiveUp, Decided, DeclaredNames, Revealed, Control, TypeOK
<1>3. ASSUME NEW metadata, NEW reveals, Declare(name, metadata, reveals)
      PROVE  /\ Decided' = Decided \cup {name}
             /\ pending' = pending \ {name}
             /\ DeclaredNames' \cap unavailable' = {}
             /\ DOMAIN tables' \subseteq DeclaredNames'
             /\ Revealed \subseteq Revealed'
             /\ unavailable' = unavailable
  <2>1. /\ DeclaredNames' = DeclaredNames \cup {name}
        /\ Revealed' = Revealed \cup reveals
    BY <1>1, <1>3, RevealedGrows
  <2>2. pending' = pending \ {name} /\ unavailable' = unavailable
    BY <1>3 DEF Declare
  <2>3. DOMAIN tables' \subseteq DOMAIN tables \cup {name}
    BY <1>3, UpdatedFacts DEF Declare
  <2> QED
    BY <1>1, <2>1, <2>2, <2>3 DEF Decided, Control, TypeOK
<1> QED
  BY <1>2, <1>3

LEMMA ControlNext == Control /\ [Next]_vars => Control'
<1> SUFFICES ASSUME Control, [Next]_vars PROVE Control'
  OBVIOUS
<1> USE DEF Control, TypeOK
<1>1. CASE Link
  <2>1. pending' = {name \in NamedRelations : IsExternal(name)}
    BY <1>1 DEF Link
  <2>2. pc' \in {"declare", "resolve", "done"} /\ (pc' # "resolve" => pending' \subseteq DOMAIN resolved)
    BY <1>1 DEF Link
  <2>3. UNCHANGED <<program, changes, resolved, declarations, tables, unavailable, opened>>
    BY <1>1 DEF Link, memo, output
  <2>4. opened = Nothing
    BY <1>1 DEF Link
  <2> QED
    BY <2>1, <2>2, <2>3, <2>4 DEF IsExternal, Decided, DeclaredNames, NamedRelations, Revealed
<1>2. CASE Resolve
  <2>1. UNCHANGED <<program, changes, views, declarations, tables, unavailable, pending, opened>>
        /\ pc' = "declare" /\ pc = "resolve"
    BY <1>2 DEF Resolve, output
  <2>2. DOMAIN resolved' = DOMAIN resolved \cup Unknown
    <3>1. CASE resolved' = Updated(resolved, Answers(Unknown, Session))
      BY <3>1, UpdatedFacts DEF Answers
    <3>2. CASE resolved' = Updated(resolved, Failures(Unknown))
      BY <3>2, UpdatedFacts DEF Failures
    <3> QED
      BY <1>2, <3>1, <3>2 DEF Resolve
  <2> QED
    BY <2>1, <2>2 DEF Unknown, Decided, DeclaredNames, NamedRelations, Revealed
<1>3. CASE DeclareName
  <2>0. PICK name \in pending : \/ DeclareMissing(name) \/ DeclareIncomplete(name)
                               \/ DeclareTable(name) \/ DeclareKnownView(name)
                               \/ OpenView(name)
    BY <1>3 DEF DeclareName
  <2>1. UNCHANGED <<program, changes, resolved>> /\ pc = "declare"
    BY <1>3 DEF DeclareName
  <2>2. CASE /\ GiveUp(name) \/ (\E metadata, reveals : Declare(name, metadata, reveals))
             /\ UNCHANGED <<opened, pc>>
    <3>1. /\ Decided' = Decided \cup {name}
          /\ pending' = pending \ {name}
          /\ DeclaredNames' \cap unavailable' = {}
          /\ DOMAIN tables' \subseteq DeclaredNames'
          /\ Revealed \subseteq Revealed'
      BY <2>2, Settled
    <3> QED
      BY <2>1, <2>2, <3>1 DEF NamedRelations
  <2>3. CASE OpenView(name) /\ pc' = "body"
    <3>1. UNCHANGED <<declarations, tables, unavailable, pending>>
          /\ opened'.name = name /\ opened'.metadata = resolved[name]
      BY <2>1, <2>3 DEF OpenView, output
    <3> QED
      BY <2>1, <2>3, <3>1 DEF Decided, DeclaredNames, NamedRelations, Revealed
  <2> QED
    BY <2>0, <2>1, <2>2, <2>3 DEF DeclareMissing, DeclareIncomplete, DeclareTable,
       DeclareKnownView, OpenView
<1>4. CASE ResolveBody
  <2>1. UNCHANGED <<program, changes>> /\ pc = "body" /\ pc' = "declare"
        /\ opened' = Nothing /\ opened.name \in pending
    BY <1>4 DEF ResolveBody
  <2>2. \/ GiveUp(opened.name)
        \/ \E metadata, reveals : Declare(opened.name, metadata, reveals)
    BY <1>4 DEF ResolveBody
  <2>3. DOMAIN resolved \subseteq DOMAIN resolved'
    BY <1>4, UpdatedFacts DEF ResolveBody
  <2>4. /\ Decided' = Decided \cup {opened.name}
        /\ pending' = pending \ {opened.name}
        /\ DeclaredNames' \cap unavailable' = {}
        /\ DOMAIN tables' \subseteq DeclaredNames'
        /\ Revealed \subseteq Revealed'
    BY <2>1, <2>2, Settled
  <2> QED
    BY <2>1, <2>3, <2>4 DEF NamedRelations
<1>5. CASE Change
  <2>1. UNCHANGED <<program, resolved, declarations, tables, unavailable, pending, opened, pc>>
        /\ changes' = changes + 1 /\ changes < MaxChanges
    BY <1>5 DEF Change, memo, output
  <2> QED
    BY <2>1, MaxChangesAssumption DEF Decided, DeclaredNames, NamedRelations, Revealed
<1>6. CASE UNCHANGED vars
  BY <1>6 DEF vars, memo, output, Decided, DeclaredNames, NamedRelations, Revealed
<1> QED
  BY <1>1, <1>2, <1>3, <1>4, <1>5, <1>6 DEF Next, Run

LEMMA ControlAlways == Spec => []Control
  BY ControlInit, ControlNext, PTL DEF Spec

(***************************************************************************)
(* The types, and the control state: no name is both declared and given up, *)
(* and every name about to be declared has an answer.                       *)
(***************************************************************************)
THEOREM TypeCorrect == Spec => []TypeOK
<1>1. Control => TypeOK
  BY DEF Control
<1> QED
  BY <1>1, ControlAlways, PTL

-----------------------------------------------------------------------------
\* A nonempty set of numbers has a least one.
LEMMA LeastNumber ==
  ASSUME NEW S, S \subseteq Nat, S # {}
  PROVE  \E i \in S : \A j \in S : i <= j
<1> DEFINE R == {ss \in Nat \X Nat : ss[1] < ss[2]}
<1>1. IsWellFoundedOn(R, Nat)
  BY NatLessThanWellFounded DEF OpToRel
<1>2. PICK i \in S : \A j \in S : <<j, i>> \notin R
  BY <1>1, WFMin
<1>3. \A j \in S : ~ (j < i)
  BY <1>2
<1> QED
  BY <1>3, <1>2

\* The length of a concatenation of three sequences.
LEMMA ThreeConcatenated ==
  ASSUME NEW S, NEW a \in Seq(S), NEW b \in Seq(S), NEW c \in Seq(S)
  PROVE  /\ a \o b \o c \in Seq(S)
         /\ Len(a \o b \o c) = Len(a) + Len(b) + Len(c)
<1>1. a \o b \in Seq(S) /\ Len(a \o b) = Len(a) + Len(b)
  BY ConcatProperties
<1> DEFINE d == a \o b
<1>2. d \in Seq(S)
  BY <1>1
<1>3. d \o c \in Seq(S) /\ Len(d \o c) = Len(d) + Len(c)
  <2> HIDE DEF d
  <2> QED
    BY <1>2, ConcatProperties
<1> QED
  BY <1>1, <1>3

\* A sequence of length three is the tuple of its elements.
LEMMA ThreeParts ==
  ASSUME NEW S, NEW a \in Seq(S), Len(a) = 3
  PROVE  a = <<a[1], a[2], a[3]>>
<1>1. a[1] \in S /\ a[2] \in S /\ a[3] \in S
  BY ElementOfSeq
<1> DEFINE b == <<a[1], a[2], a[3]>>
<1>2. b \in Seq(S) /\ Len(b) = 3
  BY <1>1
<1>3. \A i \in 1..3 : b[i] = a[i]
  <2>1. b[1] = a[1] /\ b[2] = a[2] /\ b[3] = a[3]
    OBVIOUS
  <2> HIDE DEF b
  <2> QED
    BY <2>1
<1> HIDE DEF b
<1>4. b = a
  BY <1>2, <1>3, SeqEqual
<1> QED
  BY <1>4 DEF b

\* The elements of a sequence with one element after it.
LEMMA Concatenated ==
  ASSUME NEW S, NEW a \in Seq(S), NEW b \in Seq(S), Len(b) = 1
  PROVE  /\ a \o b \in Seq(S)
         /\ Len(a \o b) = Len(a) + 1
         /\ \A i \in 1..Len(a) : (a \o b)[i] = a[i]
         /\ (a \o b)[Len(a) + 1] = b[1]
<1>1. Len(a) \in Nat
  BY LenProperties
<1>2. /\ a \o b \in Seq(S)
      /\ Len(a \o b) = Len(a) + Len(b)
      /\ \A i \in 1..Len(a) + Len(b) :
            (a \o b)[i] = IF i <= Len(a) THEN a[i] ELSE b[i - Len(a)]
  BY ConcatProperties
<1>3. Len(a) + 1 \in 1..Len(a) + Len(b) /\ ~ (Len(a) + 1 <= Len(a)) /\ Len(a) + 1 - Len(a) = 1
  BY <1>1
<1>4. (a \o b)[Len(a) + 1] = b[1]
  BY <1>2, <1>3
<1>5. ASSUME NEW i \in 1..Len(a) PROVE (a \o b)[i] = a[i]
  BY <1>1, <1>2
<1> QED
  BY <1>2, <1>4, <1>5

\* Three sequences of one element, joined, are the sequence of the three.
LEMMA SinglesConcatenated ==
  ASSUME NEW x, NEW y, NEW z
  PROVE  <<x>> \o <<y>> \o <<z>> = <<x, y, z>>
<1> DEFINE S == {x, y, z}
           a == <<x>>
           b == <<y>>
           c == <<z>>
           three == <<x, y, z>>
<1>1. /\ a \in Seq(S) /\ Len(a) = 1 /\ a[1] = x
      /\ b \in Seq(S) /\ Len(b) = 1 /\ b[1] = y
      /\ c \in Seq(S) /\ Len(c) = 1 /\ c[1] = z
  OBVIOUS
<1>2. /\ three \in Seq(S) /\ Len(three) = 3
      /\ three[1] = x /\ three[2] = y /\ three[3] = z
  OBVIOUS
<1> HIDE DEF S, a, b, c, three
<1>3. a \o b \in Seq(S) /\ Len(a \o b) = 2 /\ (a \o b)[1] = x /\ (a \o b)[2] = y
  BY <1>1, Concatenated
<1>4. ASSUME NEW ab \in Seq(S), Len(ab) = 2, ab[1] = x, ab[2] = y
      PROVE  ab \o c = three
  <2>1. /\ ab \o c \in Seq(S) /\ Len(ab \o c) = Len(ab) + 1
        /\ \A i \in 1..Len(ab) : (ab \o c)[i] = ab[i]
        /\ (ab \o c)[Len(ab) + 1] = c[1]
    <3>1. c \in Seq(S) /\ Len(c) = 1
      BY <1>1
    <3> QED
      BY <3>1, Concatenated
  <2>2. 1 \in 1..2 /\ 2 \in 1..2 /\ 2 + 1 = 3
    OBVIOUS
  <2>3. Len(ab \o c) = 3 /\ (ab \o c)[1] = x /\ (ab \o c)[2] = y /\ (ab \o c)[3] = z
    BY <1>1, <1>4, <2>1, <2>2
  <2> QED
    BY <1>2, <2>1, <2>3, SeqEqual
<1>5. (a \o b) \o c = three
  BY <1>3, <1>4
<1> QED
  BY <1>5 DEF a, b, c, three

\* The identity of a path is a name of at least three parts.
LEMMA IdentityIsName ==
  ASSUME NEW path \in Paths
  PROVE  Identity(path) \in Seq(STRING) /\ Len(Identity(path)) >= 3
<1>1. /\ path[1] \in Seq(STRING) /\ Len(path[1]) >= 1
      /\ path[2] \in Seq(STRING) /\ Len(path[2]) >= 1
      /\ path[3] \in Seq(STRING) /\ Len(path[3]) >= 1
  BY PathsAssumption, EmptySeq DEF Component
<1> DEFINE a == path[1]
           b == path[2]
           c == path[3]
<1>2. Len(a) \in Nat /\ Len(b) \in Nat /\ Len(c) \in Nat
  BY <1>1, LenProperties
<1>3. /\ a \o b \o c \in Seq(STRING)
      /\ Len(a \o b \o c) = Len(a) + Len(b) + Len(c)
  BY <1>1, ThreeConcatenated
<1>4. Len(a) >= 1 /\ Len(b) >= 1 /\ Len(c) >= 1
  BY <1>1
<1>5. Len(a \o b \o c) >= 3
  <2> HIDE DEF a, b, c
  <2> QED
    BY <1>2, <1>3, <1>4
<1> QED
  BY <1>3, <1>5 DEF Identity

\* The candidates for a name are a sequence; those for three parts are that path.
LEMMA CandidatesFacts ==
  ASSUME NEW name \in Seq(STRING), NEW scope \in Paths \cup {Session},
         NEW i \in DOMAIN Candidates(name, SearchPath(scope))
  PROVE  /\ DOMAIN Candidates(name, SearchPath(scope)) \subseteq Nat
         /\ Len(name) >= 3 => Identity(Candidates(name, SearchPath(scope))[i]) = name
<1> DEFINE path == SearchPath(scope)
           tried == Candidates(name, path)
<1>1. path \in Seq(Component \X Component)
  <2>1. CASE scope = Session
    BY <2>1, SessionPathAssumption DEF SearchPath
  <2>2. CASE scope # Session
    <3>1. << <<scope[1], scope[2]>> >> \in Seq(Component \X Component)
      BY <2>2, PathsAssumption
    <3> QED
      BY <2>2, <3>1, SessionPathAssumption, ConcatProperties DEF SearchPath
  <2> QED
    BY <2>1, <2>2
<1>2. DOMAIN path = 1..Len(path) /\ Len(path) \in Nat
  BY <1>1, LenProperties
<1>3. CASE Len(name) = 1
  BY <1>2, <1>3 DEF Candidates
<1>4. CASE Len(name) = 2
  <2> DEFINE schemas == [k \in DOMAIN path |-> <<path[k][1], <<name[1]>>, <<name[2]>>>>]
             own == << <<name[1]>>, Main, <<name[2]>> >>
  <2>1. tried = Append(schemas, own)
    BY <1>4 DEF Candidates
  <2>2. schemas \in Seq({schemas[k] : k \in DOMAIN path})
    BY <1>2
  <2>3. Append(schemas, own) \in Seq({schemas[k] : k \in DOMAIN path} \cup {own})
    BY <2>2
  <2> QED
    BY <1>4, <2>1, <2>3, LenProperties
<1>5. CASE Len(name) = 3
  <2>1. tried = << << <<name[1]>>, <<name[2]>>, <<name[3]>> >> >>
    BY <1>5 DEF Candidates
  <2>2. name = <<name[1], name[2], name[3]>>
    BY <1>5, ThreeParts
  <2>3. <<name[1]>> \o <<name[2]>> \o <<name[3]>> = <<name[1], name[2], name[3]>>
    BY SinglesConcatenated
  <2>4. i = 1
    <3> DEFINE only == << <<name[1]>>, <<name[2]>>, <<name[3]>> >>
    <3>1. i \in DOMAIN <<only>>
      BY <2>1
    <3>2. ASSUME NEW x PROVE DOMAIN <<x>> = {1}
      OBVIOUS
    <3> HIDE DEF only
    <3> QED
      BY <3>1, <3>2
  <2> QED
    BY <2>1, <2>2, <2>3, <2>4 DEF Identity
<1>6. CASE Len(name) \notin {1, 2, 3}
  BY <1>6 DEF Candidates
<1> QED
  BY <1>3, <1>4, <1>5, <1>6

\* What is found is an entry of the catalog, and an identity finds its own path.
LEMMA LookupFacts ==
  ASSUME NEW c, NEW name \in Seq(STRING), NEW scope \in Paths \cup {Session},
         Lookup(c, name, scope) # NotFound
  PROVE  \E path \in Paths :
            /\ Lookup(c, name, scope) = Metadata(path, c[path])
            /\ Exists(c[path])
            /\ Len(name) >= 3 => Identity(path) = name
<1> DEFINE tried == Candidates(name, SearchPath(scope))
           hits == {i \in DOMAIN tried : Occupied(c, tried[i])}
           first(i) == /\ Occupied(c, tried[i])
                       /\ \A j \in 1..(i - 1) : ~ Occupied(c, tried[j])
           path == tried[CHOOSE i \in DOMAIN tried : first(i)]
<1>1. hits # {} /\ Lookup(c, name, scope) = Metadata(path, c[path])
  BY DEF Lookup
<1>2. DOMAIN tried \subseteq Nat /\ \A i \in DOMAIN tried : 1..i \subseteq DOMAIN tried
  BY CandidatesFacts
<1>3. \E i \in DOMAIN tried : first(i)
  <2>1. PICK i \in hits : \A j \in hits : i <= j
    <3> HIDE DEF hits
    <3>1. hits \subseteq Nat
      BY <1>2 DEF hits
    <3> QED
      BY <1>1, <3>1, LeastNumber
  <2>2. \A j \in 1..(i - 1) : j \in DOMAIN tried
    BY <1>2
  <2> QED
    BY <2>1, <2>2, <1>2
<1>4. PICK i \in DOMAIN tried : first(i) /\ path = tried[i]
  <2> HIDE DEF first, tried
  <2> QED
    BY <1>3
<1>5. path \in Paths /\ Exists(c[path])
  BY <1>4 DEF Occupied
<1>6. Len(name) >= 3 => Identity(path) = name
  BY <1>4, <1>5, CandidatesFacts
<1> QED
  BY <1>1, <1>5, <1>6

\* What one call answers, name by name.
LEMMA AnswersFacts ==
  ASSUME NEW names, names \subseteq Seq(STRING), NEW scope \in Paths \cup {Session}
  PROVE  /\ DOMAIN Answers(names, scope) = names
         /\ \A n \in names :
               \/ Answers(names, scope)[n] = NotFound
               \/ /\ Answers(names, scope)[n].path \in Paths
                  /\ Len(n) >= 3 => Identity(Answers(names, scope)[n].path) = n
<1>1. DOMAIN Answers(names, scope) = names
  BY DEF Answers
<1>2. ASSUME NEW n \in names, Answers(names, scope)[n] # NotFound
      PROVE  /\ Answers(names, scope)[n].path \in Paths
             /\ Len(n) >= 3 => Identity(Answers(names, scope)[n].path) = n
  <2>1. Answers(names, scope)[n] = Lookup(catalog, n, scope)
    BY DEF Answers
  <2>2. PICK path \in Paths :
           /\ Lookup(catalog, n, scope) = Metadata(path, catalog[path])
           /\ Len(n) >= 3 => Identity(path) = n
    BY <1>2, <2>1, LookupFacts
  <2>3. Metadata(path, catalog[path]).path = path
    BY DEF Metadata
  <2> QED
    BY <2>1, <2>2, <2>3
<1> QED
  BY <1>1, <1>2

\* Answers by identity are answers, each under the identity of its own path.
LEMMA ByIdentityFacts ==
  ASSUME NEW answers, \A n \in DOMAIN answers : answers[n] # NotFound /\ answers[n].path \in Paths
  PROVE  \A id \in DOMAIN ByIdentity(answers) :
            /\ id \in Seq(STRING)
            /\ Len(id) >= 3
            /\ ByIdentity(answers)[id] # NotFound
            /\ ByIdentity(answers)[id].path \in Paths
            /\ Identity(ByIdentity(answers)[id].path) = id
<1> TAKE id \in DOMAIN ByIdentity(answers)
<1>1. \E n \in DOMAIN answers : Identity(answers[n].path) = id
  BY DEF ByIdentity
<1> DEFINE chosen == CHOOSE n \in DOMAIN answers : Identity(answers[n].path) = id
<1>2. chosen \in DOMAIN answers /\ Identity(answers[chosen].path) = id
  BY <1>1
<1>3. ByIdentity(answers)[id] = answers[chosen]
  BY DEF ByIdentity
<1> HIDE DEF chosen
<1> QED
  BY <1>2, <1>3, IdentityIsName

-----------------------------------------------------------------------------
(***************************************************************************)
(* Every answer of the memo is either a report that nothing was found or a  *)
(* path, the name's own if the name has room for one.  An answer that       *)
(* overwrites one is of the same identity, so what was reported stays so.   *)
(***************************************************************************)
Names ==
    /\ DOMAIN catalog = Paths
    /\ \A path \in Paths : catalog[path].body \subseteq Seq(STRING)
    /\ DOMAIN resolved \subseteq Seq(STRING)
    /\ Revealed \subseteq Seq(STRING)
    /\ \A view \in DOMAIN views : views[view].reads \subseteq Seq(STRING)
    /\ opened.reads \subseteq Seq(STRING)

Answered(memoized, reported) ==
    \A n \in DOMAIN memoized :
        \/ memoized[n] = NotFound /\ n \in reported
        \/ /\ memoized[n] # NotFound
           /\ memoized[n].path \in Paths
           /\ Len(n) >= 3 => Identity(memoized[n].path) = n

Reported ==
    /\ Control
    /\ Names
    /\ Answered(resolved, diagnostics)
    /\ \A view \in DOMAIN views : views[view].known \/ view \in diagnostics
    /\ unavailable \subseteq DOMAIN resolved
    /\ UnavailableReported

LEMMA ReportedInit == Init => Reported
<1> SUFFICES ASSUME Init PROVE Reported
  OBVIOUS
<1>1. Control
  BY ControlInit
<1>2. Names
  BY CatalogsAssumption DEF Init, Names, Revealed, DeclaredNames, NoEntry, Nothing
<1> QED
  BY <1>1, <1>2 DEF Init, Reported, Answered, UnavailableReported, NoEntry

\* The names a state reaches are names.
LEMMA NamedAreNames ==
  ASSUME Control, Names
  PROVE  NamedRelations \subseteq Seq(STRING) /\ pending \subseteq Seq(STRING)
<1>1. program.reads \subseteq Seq(STRING)
  BY ProgramsAssumption DEF Control, TypeOK
<1> QED
  BY <1>1 DEF Control, Names, NamedRelations

\* Answers added to the memo are answered, if what is not found is reported.
LEMMA MemoAnswered ==
  ASSUME NEW old, NEW new, NEW before, NEW after, before \subseteq after,
         Answered(old, before), Answered(new, after)
  PROVE  Answered(Updated(old, new), after)
<1> SUFFICES ASSUME NEW n \in DOMAIN Updated(old, new)
             PROVE  \/ Updated(old, new)[n] = NotFound /\ n \in after
                    \/ /\ Updated(old, new)[n] # NotFound
                       /\ Updated(old, new)[n].path \in Paths
                       /\ Len(n) >= 3 => Identity(Updated(old, new)[n].path) = n
  BY DEF Answered
<1>1. DOMAIN Updated(old, new) = DOMAIN old \cup DOMAIN new
  BY UpdatedFacts
<1>2. CASE n \in DOMAIN new
  <2>1. Updated(old, new)[n] = new[n]
    BY <1>2 DEF Updated
  <2> QED
    BY <1>2, <2>1 DEF Answered
<1>3. CASE n \in DOMAIN old \ DOMAIN new
  <2>1. Updated(old, new)[n] = old[n]
    BY <1>3, UpdatedFacts
  <2> QED
    BY <1>3, <2>1 DEF Answered
<1> QED
  BY <1>1, <1>2, <1>3

\* A name that is declared or given up is one of those to settle, with an answer.
LEMMA PendingAnswered ==
  ASSUME Reported, pc # "resolve", NEW name \in pending
  PROVE  /\ name \in Seq(STRING) /\ name \in DOMAIN resolved
         /\ name \notin DeclaredNames
         /\ resolved[name] = NotFound => name \in diagnostics
         /\ resolved[name] # NotFound => resolved[name].path \in Paths
<1>1. name \in Seq(STRING)
  BY NamedAreNames DEF Reported
<1>2. name \in DOMAIN resolved /\ name \notin DeclaredNames
  BY DEF Reported, Control, TypeOK, Decided
<1> QED
  BY <1>1, <1>2 DEF Reported, Answered

\* Giving a name up keeps the invariant if something is reported of it.
LEMMA GivenUpReported ==
  ASSUME Reported, NEW name \in pending, name \in DOMAIN resolved,
         GiveUp(name), UNCHANGED resolved, diagnostics \subseteq diagnostics',
         name \in diagnostics' \/ Identity(resolved[name].path) \in diagnostics'
  PROVE  /\ unavailable' \subseteq DOMAIN resolved'
         /\ UnavailableReported'
         /\ Revealed' = Revealed
         /\ Answered(resolved', diagnostics')
<1>1. unavailable' = unavailable \cup {name} /\ declarations' = declarations
  BY DEF GiveUp
<1> QED
  BY <1>1 DEF Reported, UnavailableReported, Revealed, DeclaredNames, Answered

\* The memo of views, after one more view.
LEMMA RememberFacts ==
  ASSUME NEW view, NEW memoized, views' = Updated(views, [v \in {view} |-> memoized])
  PROVE  /\ DOMAIN views' = DOMAIN views \cup {view}
         /\ views'[view] = memoized
         /\ \A v \in DOMAIN views \ {view} : views'[v] = views[v]
<1> DEFINE new == [v \in {view} |-> memoized]
<1>1. DOMAIN new = {view} /\ new[view] = memoized
  OBVIOUS
<1>2. views' = Updated(views, new)
  OBVIOUS
<1> HIDE DEF new
<1>3. /\ DOMAIN Updated(views, new) = DOMAIN views \cup DOMAIN new
      /\ \A x \in DOMAIN new : Updated(views, new)[x] = new[x]
      /\ \A x \in DOMAIN views \ DOMAIN new : Updated(views, new)[x] = views[x]
  BY UpdatedFacts
<1> QED
  BY <1>1, <1>2, <1>3

\* The name in a CREATE statement is a name.
LEMMA TargetIsName ==
  ASSUME NEW name \in Seq(STRING)
  PROVE  Target(name) \in Seq(STRING)
<1>1. Len(name) \in Nat
  BY LenProperties
<1>2. CASE Len(name) > 3
  <2>1. Len(name) - 2 >= 1 /\ Len(name) - 2 \in Int
    BY <1>1, <1>2
  <2>2. \A i \in Len(name) - 2 .. Len(name) : i \in 1..Len(name)
    BY <1>1, <2>1
  <2>3. SubSeq(name, Len(name) - 2, Len(name)) \in Seq(STRING)
    BY <1>1, <2>1, <2>2, SubSeqProperties
  <2> QED
    BY <1>1, <1>2, <2>3 DEF Target
<1> QED
  BY <1>1, <1>2 DEF Target

LEMMA ReportedDeclare == Reported /\ DeclareName => Reported'
<1> SUFFICES ASSUME Reported, DeclareName PROVE Reported'
  OBVIOUS
<1>0. Control'
  BY ControlNext DEF Reported, Next, Run
<1>1. PICK name \in pending : \/ DeclareMissing(name) \/ DeclareIncomplete(name)
                             \/ DeclareTable(name) \/ DeclareKnownView(name)
                             \/ OpenView(name)
  BY DEF DeclareName
<1>2. UNCHANGED <<catalog, resolved>> /\ pc = "declare"
  BY DEF DeclareName
<1>3. /\ name \in Seq(STRING) /\ name \in DOMAIN resolved
      /\ name \notin DeclaredNames
      /\ resolved[name] = NotFound => name \in diagnostics
      /\ resolved[name] # NotFound => resolved[name].path \in Paths
  BY <1>2, PendingAnswered
<1>4. /\ \A view \in DOMAIN views : views[view].known \/ view \in diagnostics
      /\ \A view \in DOMAIN views : views[view].reads \subseteq Seq(STRING)
      /\ Revealed \subseteq Seq(STRING) /\ opened.reads \subseteq Seq(STRING)
      /\ \A path \in Paths : catalog[path].body \subseteq Seq(STRING)
      /\ DOMAIN catalog = Paths /\ DOMAIN resolved \subseteq Seq(STRING)
  BY DEF Reported, Names
<1>5. /\ Answered(resolved, diagnostics) /\ unavailable \subseteq DOMAIN resolved
      /\ UnavailableReported
  BY DEF Reported
<1>6. NotFound.entry.kind = "NONE"
  BY DEF NotFound, Metadata, Absent
<1>7. CASE DeclareMissing(name)
  <2>1. GiveUp(name) /\ name \in diagnostics /\ UNCHANGED <<views, diagnostics, opened>>
    BY <1>3, <1>7 DEF DeclareMissing
  <2>2. /\ unavailable' \subseteq DOMAIN resolved' /\ UnavailableReported'
        /\ Revealed' = Revealed /\ Answered(resolved', diagnostics')
    BY <1>2, <1>3, <2>1, GivenUpReported
  <2> QED
    BY <1>0, <1>2, <1>4, <2>1, <2>2 DEF Reported, Names
<1>8. CASE DeclareIncomplete(name)
  <2>1. GiveUp(name) /\ diagnostics' = diagnostics \cup {Identity(resolved[name].path)}
        /\ UNCHANGED <<views, opened>>
    BY <1>8 DEF DeclareIncomplete
  <2>2. /\ unavailable' \subseteq DOMAIN resolved' /\ UnavailableReported'
        /\ Revealed' = Revealed /\ Answered(resolved', diagnostics')
    BY <1>2, <1>3, <2>1, GivenUpReported
  <2> QED
    BY <1>0, <1>2, <1>4, <2>1, <2>2 DEF Reported, Names
<1>9. ASSUME NEW metadata, NEW reveals, Declare(name, metadata, reveals),
             reveals \subseteq Seq(STRING), UNCHANGED <<views, diagnostics, opened>>
      PROVE  Reported'
  <2>1. Revealed' = Revealed \cup reveals
    BY <1>3, <1>9, RevealedGrows
  <2>2. unavailable' = unavailable
    BY <1>9 DEF Declare
  <2>3. UnavailableReported'
    BY <1>2, <1>5, <1>9, <2>2 DEF UnavailableReported
  <2> QED
    BY <1>0, <1>2, <1>4, <1>5, <1>9, <2>1, <2>2, <2>3 DEF Reported, Names
<1>10. CASE DeclareTable(name)
  <2>1. Target(name) \in Seq(STRING)
    BY <1>3, TargetIsName
  <2> QED
    BY <1>9, <1>10, <2>1 DEF DeclareTable
<1>11. CASE DeclareKnownView(name)
  <2> DEFINE view == Identity(resolved[name].path)
  <2>1. view \in DOMAIN views /\ UNCHANGED <<views, diagnostics, opened>>
    BY <1>11 DEF DeclareKnownView
  <2>2. CASE views[view].known
    <3>1. Declare(name, resolved[name], views[view].reads)
      BY <1>11, <2>2 DEF DeclareKnownView
    <3>2. views[view].reads \subseteq Seq(STRING)
      BY <1>4, <2>1
    <3> QED
      BY <1>9, <2>1, <3>1, <3>2
  <2>3. CASE ~ views[view].known
    <3>1. GiveUp(name) /\ view \in diagnostics
      BY <1>4, <1>11, <2>1, <2>3 DEF DeclareKnownView
    <3>2. /\ unavailable' \subseteq DOMAIN resolved' /\ UnavailableReported'
          /\ Revealed' = Revealed /\ Answered(resolved', diagnostics')
      BY <1>2, <1>3, <2>1, <3>1, GivenUpReported
    <3> QED
      BY <1>0, <1>2, <1>4, <2>1, <3>2 DEF Reported, Names
  <2> QED
    BY <2>2, <2>3
<1>12. CASE OpenView(name)
  <2>1. resolved[name].path \in Paths
    BY <1>3, <1>6, <1>12 DEF OpenView
  <2>2. CASE /\ opened' = [name |-> name, metadata |-> resolved[name],
                          reads |-> catalog[resolved[name].path].body]
             /\ UNCHANGED <<views, output, diagnostics, pending>>
    <3>1. opened'.reads \subseteq Seq(STRING)
      BY <1>4, <2>1, <2>2
    <3>2. Revealed' = Revealed /\ unavailable' = unavailable
      BY <2>2 DEF output, Revealed, DeclaredNames
    <3>3. UnavailableReported'
      BY <1>2, <1>5, <2>2, <3>2 DEF UnavailableReported
    <3> QED
      BY <1>0, <1>2, <1>4, <1>5, <2>2, <3>1, <3>2, <3>3 DEF Reported, Names
  <2>3. CASE /\ GiveUp(name)
             /\ Remember(Identity(resolved[name].path), FALSE, {})
             /\ diagnostics' = diagnostics \cup {Identity(resolved[name].path)}
             /\ UNCHANGED opened
    <3>1. /\ unavailable' \subseteq DOMAIN resolved' /\ UnavailableReported'
          /\ Revealed' = Revealed /\ Answered(resolved', diagnostics')
      BY <1>2, <1>3, <2>3, GivenUpReported
    <3>2. \A v \in DOMAIN views' :
             /\ views'[v].known \/ v \in diagnostics'
             /\ views'[v].reads \subseteq Seq(STRING)
      <4> DEFINE view == Identity(resolved[name].path)
                 memoized == [known |-> FALSE, reads |-> {}]
      <4>1. /\ DOMAIN views' = DOMAIN views \cup {view}
            /\ views'[view] = memoized
            /\ \A v \in DOMAIN views \ {view} : views'[v] = views[v]
        BY <2>3, RememberFacts DEF Remember
      <4>2. memoized.reads = {} /\ view \in diagnostics' /\ diagnostics \subseteq diagnostics'
        BY <2>3
      <4> QED
        BY <1>4, <4>1, <4>2
    <3> QED
      BY <1>0, <1>2, <1>4, <2>3, <3>1, <3>2 DEF Reported, Names
  <2> QED
    BY <1>12, <2>2, <2>3 DEF OpenView
<1> QED
  BY <1>1, <1>7, <1>8, <1>10, <1>11, <1>12

LEMMA ReportedResolve == Reported /\ Resolve => Reported'
<1> SUFFICES ASSUME Reported, Resolve PROVE Reported'
  OBVIOUS
<1>0. Control'
  BY ControlNext DEF Reported, Next, Run
<1>1. UNCHANGED <<catalog, views, declarations, unavailable, opened>>
  BY DEF Resolve, output
<1>2. Unknown \subseteq Seq(STRING) /\ Unknown \cap DOMAIN resolved = {}
  BY NamedAreNames DEF Reported, Unknown
<1>3. PICK answers : /\ resolved' = Updated(resolved, answers)
                     /\ DOMAIN answers = Unknown
                     /\ diagnostics \subseteq diagnostics'
                     /\ Answered(answers, diagnostics')
  <2>1. CASE /\ resolved' = Updated(resolved, Answers(Unknown, Session))
             /\ diagnostics' = diagnostics \cup Missing(Answers(Unknown, Session))
    <3>1. /\ DOMAIN Answers(Unknown, Session) = Unknown
          /\ \A n \in Unknown :
                \/ Answers(Unknown, Session)[n] = NotFound
                \/ /\ Answers(Unknown, Session)[n].path \in Paths
                   /\ Len(n) >= 3 => Identity(Answers(Unknown, Session)[n].path) = n
      BY <1>2, AnswersFacts
    <3>2. Answered(Answers(Unknown, Session), diagnostics')
      BY <2>1, <3>1 DEF Answered, Missing
    <3> QED
      BY <2>1, <3>1, <3>2
  <2>2. CASE /\ resolved' = Updated(resolved, Failures(Unknown))
             /\ diagnostics' = diagnostics \cup Unknown
    <3>1. DOMAIN Failures(Unknown) = Unknown /\ Answered(Failures(Unknown), diagnostics')
      BY <2>2 DEF Failures, Answered
    <3> QED
      BY <2>2, <3>1
  <2> QED
    BY <2>1, <2>2 DEF Resolve
<1>4. Answered(resolved', diagnostics')
  BY <1>3, MemoAnswered DEF Reported
<1>5. /\ DOMAIN resolved' = DOMAIN resolved \cup Unknown
      /\ \A n \in DOMAIN resolved : resolved'[n] = resolved[n]
  BY <1>2, <1>3, UpdatedFacts, ZenonT(30)
<1>6. UnavailableReported'
  BY <1>1, <1>3, <1>5 DEF Reported, UnavailableReported
<1>7. Names'
  BY <1>1, <1>2, <1>5 DEF Reported, Names, Revealed, DeclaredNames
<1> QED
  BY <1>0, <1>1, <1>3, <1>4, <1>5, <1>6, <1>7 DEF Reported

LEMMA ReportedBody == Reported /\ ResolveBody => Reported'
<1> SUFFICES ASSUME Reported, ResolveBody PROVE Reported'
  OBVIOUS
<1> DEFINE name == opened.name
           view == Identity(opened.metadata.path)
           answers == Answers(opened.reads, opened.metadata.path)
           read == ByIdentity(answers)
<1>0. Control'
  BY ControlNext DEF Reported, Next, Run
<1>1. UNCHANGED <<program, catalog>> /\ pc = "body" /\ opened' = Nothing
  BY DEF ResolveBody
<1>2. name \in pending /\ opened.metadata = resolved[name]
  BY <1>1 DEF Reported, Control, TypeOK
<1>3. /\ name \in DOMAIN resolved /\ name \notin DeclaredNames
  BY <1>1, <1>2, PendingAnswered
<1>4. /\ \A v \in DOMAIN views : views[v].known \/ v \in diagnostics
      /\ \A v \in DOMAIN views : views[v].reads \subseteq Seq(STRING)
      /\ Revealed \subseteq Seq(STRING) /\ opened.reads \subseteq Seq(STRING)
      /\ \A path \in Paths : catalog[path].body \subseteq Seq(STRING)
      /\ DOMAIN catalog = Paths /\ DOMAIN resolved \subseteq Seq(STRING)
  BY DEF Reported, Names
<1>5. opened'.reads = {}
  BY <1>1 DEF Nothing
<1>6. CASE /\ GiveUp(name)
           /\ Remember(view, FALSE, {})
           /\ diagnostics' = diagnostics \cup {view}
           /\ UNCHANGED resolved
  <2>1. /\ unavailable' \subseteq DOMAIN resolved' /\ UnavailableReported'
        /\ Revealed' = Revealed /\ Answered(resolved', diagnostics')
    BY <1>2, <1>3, <1>6, GivenUpReported
  <2>2. \A v \in DOMAIN views' :
           /\ views'[v].known \/ v \in diagnostics'
           /\ views'[v].reads \subseteq Seq(STRING)
    <3> DEFINE memoized == [known |-> FALSE, reads |-> {}]
    <3>1. /\ DOMAIN views' = DOMAIN views \cup {view}
          /\ views'[view] = memoized
          /\ \A v \in DOMAIN views \ {view} : views'[v] = views[v]
      BY <1>6, RememberFacts DEF Remember
    <3>2. memoized.reads = {} /\ view \in diagnostics' /\ diagnostics \subseteq diagnostics'
      BY <1>6
    <3> QED
      BY <1>4, <3>1, <3>2
  <2> QED
    BY <1>0, <1>1, <1>4, <1>5, <1>6, <2>1, <2>2 DEF Reported, Names
<1>7. CASE /\ Missing(answers) = {}
           /\ resolved' = Updated(resolved, read)
           /\ Remember(view, TRUE, DOMAIN read)
           /\ Declare(name, opened.metadata, DOMAIN read)
           /\ UNCHANGED diagnostics
  <2>1. opened.metadata.path \in Paths \cup {Session}
    <3>1. opened.metadata = NotFound => opened.metadata.path = Session
      BY DEF NotFound, Metadata
    <3> QED
      BY <1>1, <1>2, <3>1, PendingAnswered
  <2>2. DOMAIN answers = opened.reads
    BY <1>4, <2>1, AnswersFacts
  <2>3. \A n \in DOMAIN answers : answers[n] # NotFound /\ answers[n].path \in Paths
    BY <1>4, <1>7, <2>1, <2>2, AnswersFacts DEF Missing
  <2> HIDE DEF answers
  <2>4. \A id \in DOMAIN read :
           /\ id \in Seq(STRING)
           /\ Len(id) >= 3
           /\ read[id] # NotFound
           /\ read[id].path \in Paths
           /\ Identity(read[id].path) = id
    BY <2>3, ByIdentityFacts
  <2> HIDE DEF read
  <2>5. Answered(read, diagnostics')
    BY <2>4 DEF Answered
  <2>6. Answered(resolved', diagnostics')
    BY <1>7, <2>5, MemoAnswered DEF Reported
  <2>7. /\ DOMAIN resolved' = DOMAIN resolved \cup DOMAIN read
        /\ \A n \in DOMAIN resolved \ DOMAIN read : resolved'[n] = resolved[n]
    BY <1>7, UpdatedFacts
  <2>8. unavailable' = unavailable /\ Revealed' = Revealed \cup DOMAIN read
    <3>1. Declare(name, opened.metadata, DOMAIN read)
      BY <1>7
    <3>2. Revealed' = Revealed \cup DOMAIN read
      BY <1>3, <3>1, RevealedGrows
    <3> QED
      BY <3>1, <3>2 DEF Declare
  <2>9. \A n \in unavailable :
           \/ n \in diagnostics
           \/ Identity(resolved'[n].path) \in diagnostics
    <3> TAKE n \in unavailable
    <3>1. n \in DOMAIN resolved /\ (n \in diagnostics \/ Identity(resolved[n].path) \in diagnostics)
      BY DEF Reported, UnavailableReported
    <3>2. CASE n \in DOMAIN read
      <4>1. \/ n \in diagnostics
            \/ Identity(resolved[n].path) = n
        BY <2>4, <3>1, <3>2 DEF Reported, Answered
      <4> QED
        BY <3>1, <4>1
    <3>3. CASE n \notin DOMAIN read
      BY <2>7, <3>1, <3>3
    <3> QED
      BY <3>2, <3>3
  <2>10. UnavailableReported'
    BY <1>7, <2>8, <2>9 DEF UnavailableReported
  <2>11. \A v \in DOMAIN views' :
           /\ views'[v].known \/ v \in diagnostics'
           /\ views'[v].reads \subseteq Seq(STRING)
    <3> DEFINE memoized == [known |-> TRUE, reads |-> DOMAIN read]
    <3>1. /\ DOMAIN views' = DOMAIN views \cup {view}
          /\ views'[view] = memoized
          /\ \A v \in DOMAIN views \ {view} : views'[v] = views[v]
      BY <1>7, RememberFacts DEF Remember
    <3>2. memoized.reads \subseteq Seq(STRING) /\ memoized.known
      BY <2>4
    <3> HIDE DEF memoized
    <3> QED
      BY <1>4, <1>7, <3>1, <3>2
  <2>12. DOMAIN resolved' \subseteq Seq(STRING) /\ Revealed' \subseteq Seq(STRING)
    BY <1>4, <2>4, <2>7, <2>8
  <2>13. unavailable' \subseteq DOMAIN resolved'
    BY <2>7, <2>8 DEF Reported
  <2> QED
    BY <1>0, <1>1, <1>4, <1>5, <2>6, <2>10, <2>11, <2>12, <2>13 DEF Reported, Names
<1> QED
  BY <1>6, <1>7 DEF ResolveBody

LEMMA ReportedNext == Reported /\ [Next]_vars => Reported'
<1> SUFFICES ASSUME Reported, [Next]_vars PROVE Reported'
  OBVIOUS
<1>0. Control'
  BY ControlNext DEF Reported
<1>1. CASE Link
  <2>1. UNCHANGED <<catalog, resolved, views, declarations, unavailable, diagnostics, opened>>
    BY <1>1 DEF Link, memo, output
  <2> QED
    BY <1>0, <2>1 DEF Reported, Names, Revealed, DeclaredNames, Answered, UnavailableReported
<1>2. CASE Resolve
  BY <1>2, ReportedResolve
<1>3. CASE DeclareName
  BY <1>3, ReportedDeclare
<1>4. CASE ResolveBody
  BY <1>4, ReportedBody
<1>5. CASE Change
  <2>1. UNCHANGED <<resolved, views, declarations, unavailable, diagnostics, opened>>
    BY <1>5 DEF Change, memo, output
  <2>2. PICK path \in Paths, entry \in Entries : catalog' = [catalog EXCEPT ![path] = entry]
    BY <1>5 DEF Change
  <2>3. DOMAIN catalog' = Paths /\ \A p \in Paths : catalog'[p].body \subseteq Seq(STRING)
    BY <2>2, EntriesAssumption DEF Reported, Names
  <2> QED
    BY <1>0, <2>1, <2>3 DEF Reported, Names, Revealed, DeclaredNames, Answered,
       UnavailableReported
<1>6. CASE UNCHANGED vars
  BY <1>0, <1>6 DEF vars, memo, output, Reported, Names, Revealed, DeclaredNames, Answered,
     UnavailableReported
<1> QED
  BY <1>1, <1>2, <1>3, <1>4, <1>5, <1>6 DEF Next, Run

(***************************************************************************)
(* A name given up was reported, under its own name or the identity it was  *)
(* found to be, whatever later answers put into the memo in its place.      *)
(***************************************************************************)
THEOREM GivenUpNamesReported == Spec => []UnavailableReported
<1>1. Reported => UnavailableReported
  BY DEF Reported
<1> QED
  BY <1>1, ReportedInit, ReportedNext, PTL DEF Spec

-----------------------------------------------------------------------------
(***************************************************************************)
(* What bind reads of a declared table: complete metadata, the columns it   *)
(* was declared with, and the name of the relation.                         *)
(***************************************************************************)
Backed(entry, columns, name) ==
    /\ entry.kind = "TABLE" /\ ~ Incomplete(entry)
    /\ columns = entry.columns
    /\ Target(name) = name

AllBacked ==
    \A name \in DOMAIN tables : Backed(tables[name].entry, declarations[name].columns, name)

\* An identity has room in a CREATE statement: no component holds a dot.
Undotted == \A path \in Paths : Len(Identity(path)) <= 3

\* A name the catalog found a relation for is no longer than an identity.
LEMMA FoundNameIsTarget ==
  ASSUME Undotted, Reported, pc # "resolve", NEW name \in pending, resolved[name] # NotFound
  PROVE  Target(name) = name
<1>1. name \in Seq(STRING) /\ name \in DOMAIN resolved /\ resolved[name].path \in Paths
  BY PendingAnswered
<1>2. Len(name) >= 3 => Identity(resolved[name].path) = name
  BY <1>1 DEF Reported, Answered
<1>3. Len(name) \in Nat
  BY <1>1, LenProperties
<1>4. Len(name) <= 3
  BY <1>1, <1>2, <1>3 DEF Undotted
<1> QED
  BY <1>4 DEF Target

\* Declaring one more name backs it, if it is a table, and no other.
LEMMA DeclareBacks ==
  ASSUME Control, AllBacked, NEW name \in pending, NEW metadata, NEW reveals,
         Declare(name, metadata, reveals),
         metadata.entry.kind = "TABLE" => ~ Incomplete(metadata.entry) /\ Target(name) = name
  PROVE  AllBacked'
<1> DEFINE new == [n \in {name} |-> Declaration(metadata, reveals)]
           table == [n \in {name} |-> metadata]
<1>1. name \notin DeclaredNames /\ DOMAIN tables \subseteq DeclaredNames
  BY DEF Control, TypeOK, Decided
<1>2. \A n \in DOMAIN tables : declarations'[n] = declarations[n]
  BY <1>1, RevealedGrows
<1>3. declarations'[name].columns = metadata.entry.columns
  <2>1. new[name].columns = metadata.entry.columns /\ DOMAIN new = {name}
    BY DEF Declaration
  <2>2. declarations' = Updated(declarations, new)
    BY DEF Declare
  <2> HIDE DEF new
  <2>3. \A n \in DOMAIN new : Updated(declarations, new)[n] = new[n]
    BY UpdatedFacts, ZenonT(30)
  <2> QED
    BY <2>1, <2>2, <2>3
<1>4. CASE metadata.entry.kind # "TABLE"
  <2>1. tables' = tables
    BY <1>4 DEF Declare
  <2> QED
    BY <1>2, <2>1 DEF AllBacked
<1>5. CASE metadata.entry.kind = "TABLE"
  <2>1. tables' = Updated(tables, table)
    BY <1>5 DEF Declare
  <2>2. DOMAIN table = {name} /\ table[name] = metadata
    OBVIOUS
  <2> HIDE DEF table
  <2>3. /\ DOMAIN tables' = DOMAIN tables \cup {name}
        /\ tables'[name] = metadata
        /\ \A n \in DOMAIN tables \ {name} : tables'[n] = tables[n]
    <3>1. /\ DOMAIN Updated(tables, table) = DOMAIN tables \cup DOMAIN table
          /\ \A n \in DOMAIN table : Updated(tables, table)[n] = table[n]
          /\ \A n \in DOMAIN tables \ DOMAIN table : Updated(tables, table)[n] = tables[n]
      BY UpdatedFacts
    <3> QED
      BY <2>1, <2>2, <3>1
  <2>4. Backed(tables'[name].entry, declarations'[name].columns, name)
    BY <1>3, <1>5, <2>3 DEF Backed
  <2>5. ASSUME NEW n \in DOMAIN tables \ {name}
        PROVE  Backed(tables'[n].entry, declarations'[n].columns, n)
    BY <1>2, <2>3 DEF AllBacked
  <2> QED
    BY <2>3, <2>4, <2>5 DEF AllBacked
<1> QED
  BY <1>4, <1>5

\* A view is opened only where the catalog has one.
ViewOpened == opened.metadata.entry.kind # "TABLE"

LEMMA BackedNext ==
  ASSUME Undotted, Reported, AllBacked, ViewOpened, [Next]_vars
  PROVE  AllBacked' /\ ViewOpened'
<1>0. Control
  BY DEF Reported
<1>1. CASE UNCHANGED <<declarations, tables, opened>>
  BY <1>1 DEF AllBacked, ViewOpened
<1>2. ASSUME NEW name, GiveUp(name)
      PROVE  AllBacked'
  BY <1>2 DEF GiveUp, AllBacked
<1>3. CASE DeclareName
  <2>1. PICK name \in pending : \/ DeclareMissing(name) \/ DeclareIncomplete(name)
                               \/ DeclareTable(name) \/ DeclareKnownView(name)
                               \/ OpenView(name)
    BY <1>3 DEF DeclareName
  <2>2. CASE DeclareTable(name)
    <3>1. /\ resolved[name].entry.kind = "TABLE" /\ ~ Incomplete(resolved[name].entry)
          /\ Declare(name, resolved[name], {Target(name)})
          /\ UNCHANGED opened
      BY <2>2 DEF DeclareTable
    <3>2. resolved[name] # NotFound
      BY <3>1 DEF NotFound, Metadata, Absent
    <3>3. Target(name) = name
      BY <1>3, <3>2, FoundNameIsTarget DEF DeclareName
    <3> QED
      BY <1>0, <3>1, <3>3, DeclareBacks DEF ViewOpened
  <2>3. CASE DeclareKnownView(name)
    <3>1. resolved[name].entry.kind = "VIEW" /\ UNCHANGED opened
      BY <2>3 DEF DeclareKnownView
    <3>2. \/ GiveUp(name)
          \/ \E reveals : Declare(name, resolved[name], reveals)
      BY <2>3 DEF DeclareKnownView
    <3> QED
      BY <1>0, <1>2, <3>1, <3>2, DeclareBacks DEF ViewOpened
  <2>4. CASE OpenView(name)
    <3>1. resolved[name].entry.kind = "VIEW"
      BY <2>4 DEF OpenView
    <3>2. \/ UNCHANGED <<declarations, tables>> /\ opened'.metadata = resolved[name]
          \/ GiveUp(name) /\ UNCHANGED opened
      <4> DEFINE stored == catalog[resolved[name].path]
      <4>1. \/ /\ opened' = [name |-> name, metadata |-> resolved[name],
                              reads |-> stored.body]
               /\ UNCHANGED output
            \/ GiveUp(name) /\ UNCHANGED opened
        BY <2>4, Zenon DEF OpenView
      <4> HIDE DEF stored
      <4> QED
        BY <4>1 DEF output
    <3>3. CASE UNCHANGED <<declarations, tables>> /\ opened'.metadata = resolved[name]
      <4>1. AllBacked'
        BY <3>3 DEF AllBacked
      <4>2. ViewOpened'
        BY <3>1, <3>3 DEF ViewOpened
      <4> QED
        BY <4>1, <4>2
    <3>4. CASE GiveUp(name) /\ UNCHANGED opened
      BY <1>2, <3>4 DEF ViewOpened
    <3> QED
      BY <3>2, <3>3, <3>4
  <2>5. CASE DeclareMissing(name) \/ DeclareIncomplete(name)
    BY <1>2, <2>5 DEF DeclareMissing, DeclareIncomplete, ViewOpened
  <2> QED
    BY <2>1, <2>2, <2>3, <2>4, <2>5
<1>4. CASE ResolveBody
  <2>1. /\ opened.name \in pending /\ opened' = Nothing
        /\ GiveUp(opened.name) \/ \E reveals : Declare(opened.name, opened.metadata, reveals)
    BY <1>0, <1>4 DEF ResolveBody, Control, TypeOK
  <2>2. ViewOpened'
    BY <2>1 DEF ViewOpened, Nothing, NotFound, Metadata, Absent
  <2>3. AllBacked'
    BY <1>0, <1>2, <2>1, DeclareBacks DEF ViewOpened
  <2> QED
    BY <2>2, <2>3
<1>5. CASE Link \/ Resolve \/ Change \/ UNCHANGED vars
  BY <1>1, <1>5 DEF Link, Resolve, Change, vars, output
<1> QED
  BY <1>3, <1>4, <1>5 DEF Next, Run

\* What is backed can be bound.
LEMMA BackedBinds == AllBacked => BindTotal
<1> SUFFICES ASSUME AllBacked, NEW fact \in KeysBound \cup ForeignKeysBound
             PROVE  fact.columns \subseteq RelationColumns(fact.relation)
  BY DEF BindTotal
<1>1. ASSUME NEW name \in Bound
      PROVE  /\ RelationColumns(name) = tables[name].entry.columns
             /\ ~ Incomplete(tables[name].entry) /\ tables[name].entry.kind = "TABLE"
  BY DEF Bound, AllBacked, Backed, RelationColumns
<1>2. CASE fact \in KeysBound
  <2>1. PICK name \in Bound : \E key \in tables[name].entry.keys :
                                fact = [relation |-> name, columns |-> key]
    BY <1>2 DEF KeysBound
  <2>2. PICK key \in tables[name].entry.keys : fact = [relation |-> name, columns |-> key]
    BY <2>1
  <2>3. key \subseteq tables[name].entry.columns
    BY <1>1, <2>2 DEF Incomplete
  <2> QED
    BY <1>1, <2>2, <2>3
<1>3. CASE fact \in ForeignKeysBound
  <2>1. PICK name \in Bound, target \in Bound : fact \in Ends(name, target)
    BY <1>3 DEF ForeignKeysBound
  <2>2. PICK fk \in tables[name].entry.foreignKeys :
          /\ ~ IncompleteReference(fk, tables[target].entry)
          /\ \/ fact = [relation |-> name, columns |-> Columns(fk.columns)]
             \/ fact = [relation |-> target, columns |-> Columns(fk.referencedColumns)]
    BY <2>1 DEF Ends
  <2>3. Columns(fk.columns) \subseteq tables[name].entry.columns
    BY <1>1, <2>2 DEF Incomplete
  <2>4. Columns(fk.referencedColumns) \subseteq tables[target].entry.columns
    BY <2>2 DEF IncompleteReference
  <2> QED
    BY <1>1, <2>2, <2>3, <2>4
<1> QED
  BY <1>2, <1>3

(***************************************************************************)
(* bind finds every column a catalog fact names, whatever changed between   *)
(* the calls that fetched the two ends of a foreign key, where no component *)
(* of a path holds a dot.                                                   *)
(***************************************************************************)
THEOREM BoundColumnsExist == ASSUME Undotted PROVE Spec => []BindTotal
<1>1. Init => AllBacked /\ ViewOpened
  BY DEF Init, AllBacked, ViewOpened, NoEntry, Nothing, NotFound, Metadata, Absent
<1>2. Reported /\ (AllBacked /\ ViewOpened) /\ [Next]_vars => (AllBacked /\ ViewOpened)'
  BY BackedNext
<1>3. AllBacked /\ ViewOpened => BindTotal
  BY BackedBinds
<1> QED
  BY <1>1, <1>2, <1>3, ReportedInit, ReportedNext, PTL DEF Spec

-----------------------------------------------------------------------------
(***************************************************************************)
(* An answer given in one scope may stand for the same name in another only *)
(* because it is memoized under the identity of what was found: without     *)
(* dots an identity is that of one path, and every scope finds that path.   *)
(***************************************************************************)
LEMMA PathOfIdentity ==
  ASSUME Undotted, NEW path \in Paths
  PROVE  LET id == Identity(path) IN
         /\ id \in Seq(STRING) /\ Len(id) = 3
         /\ path = << <<id[1]>>, <<id[2]>>, <<id[3]>> >>
<1> DEFINE a == path[1]
           b == path[2]
           c == path[3]
           id == Identity(path)
<1>1. /\ a \in Seq(STRING) /\ Len(a) >= 1
      /\ b \in Seq(STRING) /\ Len(b) >= 1
      /\ c \in Seq(STRING) /\ Len(c) >= 1
      /\ path = <<a, b, c>>
  BY PathsAssumption, EmptySeq DEF Component
<1>2. Len(a) \in Nat /\ Len(b) \in Nat /\ Len(c) \in Nat
  BY <1>1, LenProperties
<1>3. id \in Seq(STRING) /\ Len(id) = Len(a) + Len(b) + Len(c) /\ Len(id) <= 3
  <2>1. Len(id) <= 3
    BY DEF Undotted
  <2>2. a \o b \o c \in Seq(STRING) /\ Len(a \o b \o c) = Len(a) + Len(b) + Len(c)
    BY <1>1, ThreeConcatenated
  <2> QED
    BY <2>1, <2>2 DEF Identity
<1>4. ASSUME NEW s \in Seq(STRING), Len(s) = 1
      PROVE  s = <<s[1]>>
  <2>1. s[1] \in STRING
    BY <1>4, ElementOfSeq
  <2> DEFINE t == <<s[1]>>
  <2>2. t \in Seq(STRING) /\ Len(t) = 1 /\ t[1] = s[1]
    BY <2>1
  <2> HIDE DEF t
  <2>3. \A i \in 1..1 : s[i] = t[i]
    BY <2>2
  <2>4. s = t
    BY <1>4, <2>2, <2>3, SeqEqual
  <2> QED
    BY <2>4 DEF t
<1>5. Len(a) = 1 /\ Len(b) = 1 /\ Len(c) = 1
  <2>1. \A i, j, k \in Nat :
           i >= 1 /\ j >= 1 /\ k >= 1 /\ i + j + k <= 3 => i = 1 /\ j = 1 /\ k = 1
    OBVIOUS
  <2>2. Len(a) + Len(b) + Len(c) <= 3
    BY <1>3
  <2>3. Len(a) >= 1 /\ Len(b) >= 1 /\ Len(c) >= 1
    BY <1>1
  <2> HIDE DEF a, b, c, id
  <2> QED
    BY <1>2, <2>1, <2>2, <2>3
<1>6. a = <<a[1]>> /\ b = <<b[1]>> /\ c = <<c[1]>>
  BY <1>1, <1>4, <1>5
<1>7. id = <<a[1], b[1], c[1]>>
  <2>1. <<a[1]>> \o <<b[1]>> \o <<c[1]>> = <<a[1], b[1], c[1]>>
    BY SinglesConcatenated
  <2> QED
    BY <1>6, <2>1 DEF Identity
<1>8. id[1] = a[1] /\ id[2] = b[1] /\ id[3] = c[1]
  <2> HIDE DEF id
  <2> QED
    BY <1>7
<1> QED
  BY <1>1, <1>3, <1>5, <1>6, <1>8

LEMMA IdentityFindsPath ==
  ASSUME Undotted, NEW c, NEW path \in Paths, Exists(c[path])
  PROVE  Lookup(c, Identity(path), Session) = Metadata(path, c[path])
<1> DEFINE id == Identity(path)
           tried == Candidates(id, SearchPath(Session))
           first(i) == /\ Occupied(c, tried[i])
                       /\ \A j \in 1..(i - 1) : ~ Occupied(c, tried[j])
<1>1. Len(id) = 3 /\ path = << <<id[1]>>, <<id[2]>>, <<id[3]>> >>
  BY PathOfIdentity
<1>2. tried = <<path>>
  <2> HIDE DEF id
  <2> QED
    BY <1>1 DEF Candidates
<1> HIDE DEF tried
<1>3. DOMAIN tried = {1} /\ tried[1] = path
  BY <1>2
<1>4. Occupied(c, tried[1])
  BY <1>3 DEF Occupied
<1>5. (CHOOSE i \in DOMAIN tried : first(i)) = 1
  <2>1. first(1)
    BY <1>4
  <2> HIDE DEF first
  <2> QED
    BY <1>3, <2>1
<1> QED
  BY <1>3, <1>4, <1>5 DEF Lookup, tried

-----------------------------------------------------------------------------
\* What one of these catalogs says of a name, to the program.
Said(catalogs, metadata, name) ==
    \E c \in catalogs : metadata = Lookup(c, name, Session)

\* What the view at a path reads, each of its names answered in its own scope.
ReadInScope(catalogs, path, reveals) ==
    \E d, e \in catalogs :
        LET read == {Lookup(d, n, path) : n \in e[path].body}
        IN  /\ \A metadata \in read : Exists(metadata.entry)
            /\ reveals = {Identity(metadata.path) : metadata \in read}

TablesInScope == \A name \in DOMAIN tables : Said(seen, tables[name], name)

ViewsInScope ==
    \A name \in DeclaredNames : declarations[name].kind = "VIEW" =>
        \E metadata :
           /\ Said(seen, metadata, name) /\ Exists(metadata.entry)
           /\ ReadInScope(seen, metadata.path, declarations[name].reveals)

MemoInScope ==
    \A n \in DOMAIN resolved : resolved[n] = NotFound \/ Said(seen, resolved[n], n)

BodiesInScope ==
    \A path \in Paths :
        Identity(path) \in DOMAIN views /\ views[Identity(path)].known =>
            ReadInScope(seen, path, views[Identity(path)].reads)

OpenedInScope ==
    pc = "body" =>
        /\ opened.metadata.entry.kind = "VIEW"
        /\ \E e \in seen : opened.reads = e[opened.metadata.path].body

InScope ==
    /\ catalog \in seen
    /\ MemoInScope
    /\ BodiesInScope
    /\ OpenedInScope
    /\ TablesInScope
    /\ ViewsInScope

LEMMA InScopeSuffices == InScope => AnsweredInScope
<1> SUFFICES ASSUME InScope PROVE AnsweredInScope
  OBVIOUS
<1>1. \A name \in DOMAIN tables : \E c \in seen : tables[name] = Lookup(c, name, Session)
  BY DEF InScope, TablesInScope, Said
<1>2. ASSUME NEW name \in {n \in DeclaredNames : declarations[n].kind = "VIEW"}
      PROVE  \E c, d, e \in seen :
                LET view == Lookup(c, name, Session)
                    read == {Lookup(d, n, view.path) : n \in e[view.path].body}
                IN  /\ Exists(view.entry)
                    /\ \A metadata \in read : Exists(metadata.entry)
                    /\ declarations[name].reveals = {Identity(metadata.path) : metadata \in read}
  <2>1. PICK metadata : /\ Said(seen, metadata, name) /\ Exists(metadata.entry)
                        /\ ReadInScope(seen, metadata.path, declarations[name].reveals)
    BY <1>2 DEF InScope, ViewsInScope
  <2>2. PICK c \in seen : metadata = Lookup(c, name, Session)
    BY <2>1 DEF Said
  <2> DEFINE view == Lookup(c, name, Session)
  <2>3. Exists(view.entry) /\ ReadInScope(seen, view.path, declarations[name].reveals)
    BY <2>1, <2>2
  <2> HIDE DEF view
  <2>4. \E d, e \in seen :
           LET read == {Lookup(d, n, view.path) : n \in e[view.path].body}
           IN  /\ Exists(view.entry)
               /\ \A m \in read : Exists(m.entry)
               /\ declarations[name].reveals = {Identity(m.path) : m \in read}
    BY <2>3 DEF ReadInScope
  <2> QED
    BY <2>4 DEF view
<1> QED
  BY <1>1, <1>2 DEF AnsweredInScope

\* What was said once was said, however many catalogs there are later.
LEMMA SaidForGood ==
  ASSUME NEW before, NEW after, before \subseteq after
  PROVE  /\ \A metadata, name : Said(before, metadata, name) => Said(after, metadata, name)
         /\ \A path, reveals : ReadInScope(before, path, reveals) => ReadInScope(after, path, reveals)
  BY DEF Said, ReadInScope

\* Giving a name up declares nothing.
LEMMA InScopeGivenUp ==
  ASSUME TablesInScope, ViewsInScope, seen \subseteq seen', UNCHANGED <<declarations, tables>>
  PROVE  TablesInScope' /\ ViewsInScope'
<1>1. DeclaredNames' = DeclaredNames
  BY DEF DeclaredNames
<1> QED
  BY <1>1, SaidForGood DEF TablesInScope, ViewsInScope

\* Declaring a name as what was said of it.
LEMMA InScopeDeclared ==
  ASSUME TablesInScope, ViewsInScope, Control, seen \subseteq seen', NEW name \in pending,
         NEW metadata, NEW reveals, Declare(name, metadata, reveals),
         Said(seen, metadata, name), Exists(metadata.entry),
         metadata.entry.kind = "VIEW" => ReadInScope(seen', metadata.path, reveals)
  PROVE  TablesInScope' /\ ViewsInScope'
<1> DEFINE new == [n \in {name} |-> Declaration(metadata, reveals)]
           table == [n \in {name} |-> metadata]
<1>1. name \notin DeclaredNames
  BY DEF Control, TypeOK, Decided
<1>2. /\ DeclaredNames' = DeclaredNames \cup {name}
      /\ \A n \in DeclaredNames : declarations'[n] = declarations[n]
  BY <1>1, RevealedGrows
<1>3. declarations'[name] = Declaration(metadata, reveals)
  <2>1. new[name] = Declaration(metadata, reveals) /\ DOMAIN new = {name}
    OBVIOUS
  <2>2. declarations' = Updated(declarations, new)
    BY DEF Declare
  <2> HIDE DEF new
  <2>3. \A n \in DOMAIN new : Updated(declarations, new)[n] = new[n]
    BY UpdatedFacts, ZenonT(30)
  <2> QED
    BY <2>1, <2>2, <2>3
<1>4. /\ declarations'[name].kind = metadata.entry.kind
      /\ declarations'[name].reveals = reveals
  BY <1>3 DEF Declaration
<1>5. TablesInScope'
  <2>1. CASE tables' = tables
    BY <2>1, SaidForGood DEF TablesInScope
  <2>2. CASE tables' = Updated(tables, table)
    <3>1. DOMAIN table = {name} /\ table[name] = metadata
      OBVIOUS
    <3> HIDE DEF table
    <3>2. /\ DOMAIN Updated(tables, table) = DOMAIN tables \cup DOMAIN table
          /\ \A x \in DOMAIN table : Updated(tables, table)[x] = table[x]
          /\ \A x \in DOMAIN tables \ DOMAIN table : Updated(tables, table)[x] = tables[x]
      BY UpdatedFacts
    <3>3. ASSUME NEW n \in DOMAIN tables'
          PROVE  \/ n = name /\ tables'[n] = metadata
                 \/ n \in DOMAIN tables /\ tables'[n] = tables[n]
      <4>1. CASE n = name
        BY <2>2, <3>1, <3>2, <4>1
      <4>2. CASE n # name
        <5>1. n \in DOMAIN tables \ DOMAIN table
          BY <2>2, <3>1, <3>2, <4>2
        <5> QED
          BY <2>2, <3>2, <5>1
      <4> QED
        BY <4>1, <4>2
    <3> QED
      BY <3>3, SaidForGood DEF TablesInScope
  <2> QED
    BY <2>1, <2>2 DEF Declare
<1>6. ViewsInScope'
  <2> SUFFICES ASSUME NEW n \in DeclaredNames', declarations'[n].kind = "VIEW"
               PROVE  \E found :
                         /\ Said(seen', found, n) /\ Exists(found.entry)
                         /\ ReadInScope(seen', found.path, declarations'[n].reveals)
    BY DEF ViewsInScope
  <2>1. CASE n = name
    BY <1>4, <2>1, SaidForGood
  <2>2. CASE n # name
    <3>1. n \in DeclaredNames /\ declarations'[n] = declarations[n]
      BY <1>2, <2>2
    <3>2. PICK found : /\ Said(seen, found, n) /\ Exists(found.entry)
                       /\ ReadInScope(seen, found.path, declarations[n].reveals)
      BY <3>1 DEF ViewsInScope
    <3> QED
      BY <3>1, <3>2, SaidForGood
  <2> QED
    BY <2>1, <2>2
<1> QED
  BY <1>5, <1>6

\* The memo of views, after a view of a path has been decided.
LEMMA BodiesRemembered ==
  ASSUME Undotted, BodiesInScope, UNCHANGED seen, NEW path \in Paths, NEW known, NEW reads,
         Remember(Identity(path), known, reads), known => ReadInScope(seen, path, reads)
  PROVE  BodiesInScope'
<1> DEFINE view == Identity(path)
           memoized == [known |-> known, reads |-> reads]
<1>1. /\ DOMAIN views' = DOMAIN views \cup {view}
      /\ views'[view] = memoized
      /\ \A v \in DOMAIN views \ {view} : views'[v] = views[v]
  BY RememberFacts DEF Remember
<1>2. memoized.known = known /\ memoized.reads = reads
  OBVIOUS
<1> HIDE DEF memoized
<1> SUFFICES ASSUME NEW other \in Paths,
                    Identity(other) \in DOMAIN views', views'[Identity(other)].known
             PROVE  ReadInScope(seen', other, views'[Identity(other)].reads)
  BY DEF BodiesInScope
<1>3. CASE Identity(other) = view
  <2>1. other = path
    <3>1. \A p \in Paths :
             p = << <<Identity(p)[1]>>, <<Identity(p)[2]>>, <<Identity(p)[3]>> >>
      BY PathOfIdentity
    <3> QED
      BY <1>3, <3>1
  <2> QED
    BY <1>1, <1>2, <2>1
<1>4. CASE Identity(other) # view
  <2>1. Identity(other) \in DOMAIN views /\ views'[Identity(other)] = views[Identity(other)]
    BY <1>1, <1>4
  <2> QED
    BY <2>1 DEF BodiesInScope
<1> QED
  BY <1>3, <1>4

\* The answers for the names a view reads, under their identities.
LEMMA BodyAnswered ==
  ASSUME Undotted, Reported, NEW path \in Paths, NEW names, names \subseteq Seq(STRING),
         Missing(Answers(names, path)) = {}
  PROVE  LET answers == Answers(names, path)
             read == {Lookup(catalog, n, path) : n \in names}
         IN  /\ \A metadata \in read : Exists(metadata.entry)
             /\ DOMAIN ByIdentity(answers) = {Identity(metadata.path) : metadata \in read}
             /\ \A id \in DOMAIN ByIdentity(answers) :
                   ByIdentity(answers)[id] = Lookup(catalog, id, Session)
<1> DEFINE answers == Answers(names, path)
           read == {Lookup(catalog, n, path) : n \in names}
<1>1. DOMAIN answers = names /\ \A n \in names : answers[n] = Lookup(catalog, n, path)
  BY DEF Answers
<1>2. \A n \in names : answers[n] # NotFound
  BY <1>1 DEF Missing
<1>3. ASSUME NEW n \in names
      PROVE  \E p \in Paths : answers[n] = Metadata(p, catalog[p]) /\ Exists(catalog[p])
  BY <1>1, <1>2, LookupFacts
<1>4. ASSUME NEW n \in names
      PROVE  /\ Exists(answers[n].entry)
             /\ answers[n] = Lookup(catalog, Identity(answers[n].path), Session)
  <2>1. PICK p \in Paths : answers[n] = Metadata(p, catalog[p]) /\ Exists(catalog[p])
    BY <1>3
  <2>2. answers[n].path = p /\ answers[n].entry = catalog[p]
    BY <2>1 DEF Metadata
  <2>3. Lookup(catalog, Identity(p), Session) = Metadata(p, catalog[p])
    BY <2>1, IdentityFindsPath
  <2> QED
    BY <2>1, <2>2, <2>3
<1>5. read = {answers[n] : n \in names}
  BY <1>1
<1> HIDE DEF answers, read
<1>6. \A metadata \in read : Exists(metadata.entry)
  BY <1>4, <1>5
<1>7. DOMAIN ByIdentity(answers) = {Identity(metadata.path) : metadata \in read}
  BY <1>1, <1>5 DEF ByIdentity
<1>8. ASSUME NEW id \in DOMAIN ByIdentity(answers)
      PROVE  ByIdentity(answers)[id] = Lookup(catalog, id, Session)
  <2> DEFINE chosen == CHOOSE n \in DOMAIN answers : Identity(answers[n].path) = id
  <2>1. \E n \in DOMAIN answers : Identity(answers[n].path) = id
    BY DEF ByIdentity
  <2>2. chosen \in DOMAIN answers /\ Identity(answers[chosen].path) = id
    BY <2>1
  <2>3. ByIdentity(answers)[id] = answers[chosen]
    BY DEF ByIdentity
  <2> HIDE DEF chosen
  <2> QED
    BY <1>1, <1>4, <2>2, <2>3
<1> QED
  BY <1>6, <1>7, <1>8 DEF answers, read

LEMMA InScopeDeclare ==
  ASSUME Undotted, Reported, InScope, DeclareName
  PROVE  InScope'
<1>0. Control /\ pc = "declare" /\ UNCHANGED <<catalog, resolved, seen>>
  BY DEF Reported, DeclareName
<1>1. PICK name \in pending : \/ DeclareMissing(name) \/ DeclareIncomplete(name)
                             \/ DeclareTable(name) \/ DeclareKnownView(name)
                             \/ OpenView(name)
  BY DEF DeclareName
<1>2. catalog' \in seen' /\ MemoInScope'
  BY <1>0 DEF InScope, MemoInScope
<1>3. UNCHANGED views => BodiesInScope'
  BY <1>0 DEF InScope, BodiesInScope
<1>4. UNCHANGED <<opened, pc>> => OpenedInScope'
  BY <1>0 DEF OpenedInScope
<1>5. GiveUp(name) => TablesInScope' /\ ViewsInScope'
  BY <1>0, InScopeGivenUp DEF GiveUp, InScope
<1>6. NotFound.entry.kind = "NONE"
  BY DEF NotFound, Metadata, Absent
<1>7. resolved[name].entry.kind \in {"TABLE", "VIEW"} =>
         /\ resolved[name].path \in Paths
         /\ Said(seen, resolved[name], name)
         /\ Exists(resolved[name].entry)
  BY <1>0, <1>6, PendingAnswered DEF InScope, MemoInScope, Exists
<1>8. ASSUME NEW reveals, Declare(name, resolved[name], reveals),
             resolved[name].entry.kind \in {"TABLE", "VIEW"},
             resolved[name].entry.kind = "VIEW" => ReadInScope(seen, resolved[name].path, reveals)
      PROVE  TablesInScope' /\ ViewsInScope'
  BY <1>0, <1>7, <1>8, InScopeDeclared DEF InScope
<1>9. CASE DeclareMissing(name) \/ DeclareIncomplete(name)
  BY <1>2, <1>3, <1>4, <1>5, <1>9 DEF DeclareMissing, DeclareIncomplete, InScope
<1>10. CASE DeclareTable(name)
  <2>1. /\ resolved[name].entry.kind = "TABLE"
        /\ Declare(name, resolved[name], {Target(name)})
        /\ UNCHANGED <<views, opened, pc>>
    BY <1>10 DEF DeclareTable
  <2>2. TablesInScope' /\ ViewsInScope'
    BY <1>8, <2>1
  <2> QED
    BY <1>2, <1>3, <1>4, <2>1, <2>2 DEF InScope
<1>11. CASE DeclareKnownView(name)
  <2> DEFINE view == Identity(resolved[name].path)
  <2>1. /\ resolved[name].entry.kind = "VIEW" /\ view \in DOMAIN views
        /\ UNCHANGED <<views, opened, pc>>
        /\ \/ views[view].known /\ Declare(name, resolved[name], views[view].reads)
           \/ GiveUp(name)
    BY <1>11 DEF DeclareKnownView
  <2>2. views[view].known => ReadInScope(seen, resolved[name].path, views[view].reads)
    BY <1>7, <2>1 DEF InScope, BodiesInScope
  <2>3. TablesInScope' /\ ViewsInScope'
    BY <1>5, <1>8, <2>1, <2>2
  <2> QED
    BY <1>2, <1>3, <1>4, <2>1, <2>3 DEF InScope
<1>12. CASE OpenView(name)
  <2> DEFINE path == resolved[name].path
  <2>1. resolved[name].entry.kind = "VIEW" /\ path \in Paths
    BY <1>7, <1>12 DEF OpenView
  <2>2. CASE /\ opened' = [name |-> name, metadata |-> resolved[name], reads |-> catalog[path].body]
             /\ UNCHANGED <<views, output>>
    <3>1. OpenedInScope'
      BY <1>0, <1>2, <2>1, <2>2 DEF OpenedInScope, InScope
    <3>2. TablesInScope' /\ ViewsInScope'
      BY <1>0, <2>2, InScopeGivenUp DEF output, InScope
    <3> QED
      BY <1>2, <1>3, <2>2, <3>1, <3>2 DEF InScope
  <2>3. CASE /\ GiveUp(name) /\ Remember(Identity(path), FALSE, {})
             /\ UNCHANGED <<opened, pc>>
    <3>1. BodiesInScope'
      BY <1>0, <2>1, <2>3, BodiesRemembered DEF InScope
    <3> QED
      BY <1>2, <1>4, <1>5, <2>3, <3>1 DEF InScope
  <2> QED
    BY <1>12, <2>2, <2>3 DEF OpenView
<1> QED
  BY <1>1, <1>9, <1>10, <1>11, <1>12

LEMMA InScopeBody ==
  ASSUME Undotted, Reported, InScope, ResolveBody
  PROVE  InScope'
<1> DEFINE name == opened.name
           path == opened.metadata.path
           answers == Answers(opened.reads, path)
           read == ByIdentity(answers)
<1>0. /\ Control /\ UNCHANGED <<catalog, seen>> /\ pc = "body" /\ pc' = "declare"
      /\ catalog \in seen
  BY DEF Reported, ResolveBody, InScope
<1>1. OpenedInScope' /\ catalog' \in seen'
  BY <1>0 DEF OpenedInScope
<1>2. name \in pending /\ opened.metadata = resolved[name]
  BY <1>0 DEF Control, TypeOK
<1>3. /\ opened.metadata.entry.kind = "VIEW"
      /\ \E e \in seen : opened.reads = e[path].body
      /\ opened.reads \subseteq Seq(STRING)
  BY <1>0 DEF InScope, OpenedInScope, Reported, Names
<1>4. NotFound.entry.kind = "NONE"
  BY DEF NotFound, Metadata, Absent
<1>5. path \in Paths /\ Said(seen, opened.metadata, name) /\ Exists(opened.metadata.entry)
  BY <1>0, <1>2, <1>3, <1>4, PendingAnswered DEF InScope, MemoInScope, Exists, Control, TypeOK
<1>6. CASE /\ GiveUp(name) /\ Remember(Identity(path), FALSE, {}) /\ UNCHANGED resolved
  <2>1. TablesInScope' /\ ViewsInScope'
    BY <1>0, <1>6, InScopeGivenUp DEF GiveUp, InScope
  <2>2. BodiesInScope'
    BY <1>0, <1>5, <1>6, BodiesRemembered DEF InScope
  <2>3. MemoInScope'
    BY <1>0, <1>6 DEF InScope, MemoInScope
  <2> QED
    BY <1>1, <2>1, <2>2, <2>3 DEF InScope
<1>7. CASE /\ Missing(answers) = {}
           /\ resolved' = Updated(resolved, read)
           /\ Remember(Identity(path), TRUE, DOMAIN read)
           /\ Declare(name, opened.metadata, DOMAIN read)
  <2>1. /\ \A metadata \in {Lookup(catalog, n, path) : n \in opened.reads} : Exists(metadata.entry)
        /\ DOMAIN read = {Identity(metadata.path) :
                            metadata \in {Lookup(catalog, n, path) : n \in opened.reads}}
        /\ \A id \in DOMAIN read : read[id] = Lookup(catalog, id, Session)
    BY <1>3, <1>5, <1>7, BodyAnswered
  <2> HIDE DEF answers, read
  <2>2. ReadInScope(seen, path, DOMAIN read)
    <3>1. PICK e \in seen : opened.reads = e[path].body
      BY <1>3
    <3> HIDE DEF path
    <3>2. /\ \A metadata \in {Lookup(catalog, n, path) : n \in e[path].body} : Exists(metadata.entry)
          /\ DOMAIN read = {Identity(metadata.path) :
                              metadata \in {Lookup(catalog, n, path) : n \in e[path].body}}
      BY <2>1, <3>1
    <3> QED
      BY <1>0, <3>2 DEF ReadInScope
  <2>3. TablesInScope' /\ ViewsInScope'
    BY <1>0, <1>2, <1>5, <1>7, <2>2, InScopeDeclared DEF InScope
  <2>4. BodiesInScope'
    BY <1>0, <1>5, <1>7, <2>2, BodiesRemembered DEF InScope
  <2>5. MemoInScope'
    <3> SUFFICES ASSUME NEW n \in DOMAIN resolved'
                 PROVE  resolved'[n] = NotFound \/ Said(seen, resolved'[n], n)
      BY <1>0 DEF MemoInScope
    <3>1. /\ DOMAIN resolved' = DOMAIN resolved \cup DOMAIN read
          /\ \A x \in DOMAIN read : resolved'[x] = read[x]
          /\ \A x \in DOMAIN resolved \ DOMAIN read : resolved'[x] = resolved[x]
      <4>1. /\ DOMAIN Updated(resolved, read) = DOMAIN resolved \cup DOMAIN read
            /\ \A x \in DOMAIN read : Updated(resolved, read)[x] = read[x]
            /\ \A x \in DOMAIN resolved \ DOMAIN read : Updated(resolved, read)[x] = resolved[x]
        BY UpdatedFacts
      <4>2. resolved' = Updated(resolved, read)
        BY <1>7
      <4> QED
        BY <4>1, <4>2
    <3>2. CASE n \in DOMAIN read
      BY <1>0, <2>1, <3>1, <3>2 DEF Said
    <3>3. CASE n \notin DOMAIN read
      BY <3>1, <3>3 DEF InScope, MemoInScope
    <3> QED
      BY <3>2, <3>3
  <2> QED
    BY <1>1, <2>3, <2>4, <2>5 DEF InScope
<1> QED
  BY <1>6, <1>7 DEF ResolveBody

LEMMA InScopeNext ==
  ASSUME Undotted, Reported, InScope, [Next]_vars
  PROVE  InScope'
<1>1. ASSUME catalog' \in seen', seen \subseteq seen', UNCHANGED <<resolved, views, output>>,
             OpenedInScope'
      PROVE  InScope'
  <2>1. TablesInScope' /\ ViewsInScope'
    BY <1>1, InScopeGivenUp DEF output, InScope
  <2>2. MemoInScope' /\ BodiesInScope'
    BY <1>1, SaidForGood DEF InScope, MemoInScope, BodiesInScope
  <2> QED
    BY <1>1, <2>1, <2>2 DEF InScope
<1>2. CASE Link
  <2>1. /\ UNCHANGED <<catalog, seen, resolved, views, output>>
        /\ pc' \in {"declare", "resolve", "done"}
    BY <1>2 DEF Link, memo
  <2> QED
    BY <1>1, <2>1 DEF InScope, OpenedInScope
<1>3. CASE Resolve
  <2>1. UNCHANGED <<catalog, seen, views, output>> /\ pc' = "declare"
    BY <1>3 DEF Resolve
  <2>2. PICK answers : /\ resolved' = Updated(resolved, answers)
                       /\ \A n \in DOMAIN answers :
                             answers[n] \in {NotFound, Lookup(catalog, n, Session)}
    <3>1. \A n \in DOMAIN Answers(Unknown, Session) :
             Answers(Unknown, Session)[n] = Lookup(catalog, n, Session)
      BY DEF Answers
    <3>2. \A n \in DOMAIN Failures(Unknown) : Failures(Unknown)[n] = NotFound
      BY DEF Failures
    <3> QED
      BY <1>3, <3>1, <3>2 DEF Resolve
  <2>3. MemoInScope'
    <3> SUFFICES ASSUME NEW n \in DOMAIN resolved'
                 PROVE  resolved'[n] = NotFound \/ Said(seen, resolved'[n], n)
      BY <2>1 DEF MemoInScope
    <3>1. /\ DOMAIN resolved' = DOMAIN resolved \cup DOMAIN answers
          /\ \A x \in DOMAIN answers : resolved'[x] = answers[x]
          /\ \A x \in DOMAIN resolved \ DOMAIN answers : resolved'[x] = resolved[x]
      <4>1. /\ DOMAIN Updated(resolved, answers) = DOMAIN resolved \cup DOMAIN answers
            /\ \A x \in DOMAIN answers : Updated(resolved, answers)[x] = answers[x]
            /\ \A x \in DOMAIN resolved \ DOMAIN answers : Updated(resolved, answers)[x] = resolved[x]
        BY UpdatedFacts
      <4>2. resolved' = Updated(resolved, answers)
        BY <2>2
      <4> QED
        BY <4>1, <4>2
    <3>2. CASE n \in DOMAIN answers
      BY <2>2, <3>1, <3>2 DEF InScope, Said
    <3>3. CASE n \notin DOMAIN answers
      BY <3>1, <3>3 DEF InScope, MemoInScope
    <3> QED
      BY <3>2, <3>3
  <2>4. TablesInScope' /\ ViewsInScope'
    BY <2>1, InScopeGivenUp DEF output, InScope
  <2> QED
    BY <2>1, <2>3, <2>4 DEF InScope, BodiesInScope, OpenedInScope
<1>4. CASE DeclareName
  BY <1>4, InScopeDeclare
<1>5. CASE ResolveBody
  BY <1>5, InScopeBody
<1>6. CASE Change
  <2>1. UNCHANGED <<resolved, views, output, opened, pc>> /\ seen' = seen \cup {catalog'}
    BY <1>6 DEF Change, memo
  <2>2. OpenedInScope'
    BY <2>1 DEF OpenedInScope, InScope
  <2> QED
    BY <1>1, <2>1, <2>2
<1>7. CASE UNCHANGED vars
  <2>1. UNCHANGED <<catalog, seen, resolved, views, output, opened, pc>>
    BY <1>7 DEF vars, memo
  <2> QED
    BY <1>1, <2>1 DEF InScope, OpenedInScope
<1> QED
  BY <1>2, <1>3, <1>4, <1>5, <1>6, <1>7 DEF Next, Run

(***************************************************************************)
(* Every name was declared as what the catalog, at some moment, said of it  *)
(* in the scope it is written in, and a view reads what its own scope makes *)
(* of its names, although all scopes share one memo: where no component of  *)
(* a path holds a dot, an identity means the same in each.                  *)
(***************************************************************************)
THEOREM ScopesNeverMix == ASSUME Undotted PROVE Spec => []AnsweredInScope
<1>1. Init => InScope
  BY DEF Init, InScope, MemoInScope, BodiesInScope, OpenedInScope, TablesInScope, ViewsInScope,
     NoEntry, DeclaredNames
<1>2. Reported /\ InScope /\ [Next]_vars => InScope'
  BY InScopeNext
<1>3. InScope => AnsweredInScope
  BY InScopeSuffices
<1> QED
  BY <1>1, <1>2, <1>3, ReportedInit, ReportedNext, PTL DEF Spec

-----------------------------------------------------------------------------
\* Deciding a pending name is a step of the abstract expansion.
LEMMA SettlesOne ==
  ASSUME Control, NEW name \in pending, pc # "done", pc' # "done", UNCHANGED program,
         \/ GiveUp(name)
         \/ \E metadata, reveals : Declare(name, metadata, reveals)
  PROVE  ExpansionOfProgram!Next
<1>1. Decided' = Decided \cup {name} /\ Revealed \subseteq Revealed'
  BY Settled
<1>2. name \in ExpansionOfProgram!Frontier
  BY DEF Control, TypeOK, NamedRelations, ExpansionOfProgram!Frontier
<1>3. ExpansionOfProgram!Decide(name)
  BY <1>1 DEF ExpansionOfProgram!Decide
<1> QED
  BY <1>2, <1>3 DEF ExpansionOfProgram!Next

LEMMA ExpansionInit == Init => ExpansionOfProgram!Init
  BY DEF Init, ExpansionOfProgram!Init, Decided, Revealed, DeclaredNames, NoEntry

LEMMA ExpansionNext ==
  Control /\ [Next]_vars => [ExpansionOfProgram!Next]_(ExpansionOfProgram!vars)
<1> SUFFICES ASSUME Control, [Next]_vars
             PROVE  [ExpansionOfProgram!Next]_(ExpansionOfProgram!vars)
  OBVIOUS
<1>0. ASSUME UNCHANGED <<program, declarations, unavailable>>, (pc' = "done") = (pc = "done")
      PROVE  UNCHANGED ExpansionOfProgram!vars
  BY <1>0 DEF ExpansionOfProgram!vars, Decided, Revealed, DeclaredNames
<1>1. CASE Link
  <2>1. UNCHANGED <<program, declarations, unavailable>> /\ pc = "declare"
        /\ pending' = {name \in NamedRelations : IsExternal(name)}
    BY <1>1 DEF Link, output
  <2>2. CASE pending' = {}
    <3>1. pc' = "done"
      BY <1>1, <2>2 DEF Link
    <3>2. ExpansionOfProgram!Frontier = {}
      BY <2>1, <2>2 DEF ExpansionOfProgram!Frontier, NamedRelations, IsExternal, Decided
    <3>3. Decided' = Decided /\ Revealed' = Revealed
      BY <2>1 DEF Decided, Revealed, DeclaredNames
    <3> QED
      BY <2>1, <3>1, <3>2, <3>3 DEF ExpansionOfProgram!Next, ExpansionOfProgram!Finish
  <2>3. CASE pending' # {}
    <3>1. pc' # "done"
      BY <1>1, <2>3 DEF Link
    <3> QED
      BY <1>0, <2>1, <3>1
  <2> QED
    BY <2>2, <2>3
<1>2. CASE Resolve
  <2>1. UNCHANGED <<program, declarations, unavailable>> /\ pc' # "done" /\ pc # "done"
    BY <1>2 DEF Resolve, output
  <2> QED
    BY <1>0, <2>1
<1>3. CASE DeclareName
  <2>1. PICK name \in pending : \/ DeclareMissing(name) \/ DeclareIncomplete(name)
                               \/ DeclareTable(name) \/ DeclareKnownView(name)
                               \/ OpenView(name)
    BY <1>3 DEF DeclareName
  <2>2. UNCHANGED program /\ pc = "declare"
    BY <1>3 DEF DeclareName
  <2>3. CASE /\ GiveUp(name) \/ (\E metadata, reveals : Declare(name, metadata, reveals))
             /\ UNCHANGED pc
    BY <2>2, <2>3, SettlesOne
  <2>4. CASE UNCHANGED output /\ pc' = "body"
    BY <1>0, <2>2, <2>4 DEF output
  <2> QED
    BY <2>1, <2>3, <2>4 DEF DeclareMissing, DeclareIncomplete, DeclareTable,
       DeclareKnownView, OpenView
<1>4. CASE ResolveBody
  <2>1. UNCHANGED program /\ pc = "body" /\ pc' = "declare" /\ opened.name \in pending
    BY <1>4 DEF ResolveBody, Control, TypeOK
  <2>2. \/ GiveUp(opened.name)
        \/ \E metadata, reveals : Declare(opened.name, metadata, reveals)
    BY <1>4 DEF ResolveBody
  <2> QED
    BY <2>1, <2>2, SettlesOne
<1>5. CASE Change
  <2>1. UNCHANGED <<program, declarations, unavailable, pc>>
    BY <1>5 DEF Change, output
  <2> QED
    BY <1>0, <2>1
<1>6. CASE UNCHANGED vars
  BY <1>0, <1>6 DEF vars, output
<1> QED
  BY <1>1, <1>2, <1>3, <1>4, <1>5, <1>6 DEF Next, Run

(***************************************************************************)
(* Discovery implements the abstract expansion: only names the program      *)
(* reaches are decided, each once, and nothing reachable is left at the end.*)
(***************************************************************************)
THEOREM DiscoveryExpands == Spec => Implements
  BY ExpansionInit, ExpansionNext, ControlAlways, PTL
     DEF Spec, Implements, ExpansionOfProgram!Spec
=============================================================================
