---------------------------- MODULE ClosureProofs ----------------------------
(***************************************************************************)
(* Proofs about the worklist of Closure.tla, for every relation, every     *)
(* facts about it and every call.                                          *)
(***************************************************************************)
EXTENDS Closure, FiniteSetTheorems, TLAPS

\* What a set of attributes implies are attributes of the same relation.
LEMMA ConsequencesType ==
  ASSUME NEW c, NEW s
  PROVE  /\ OfDependencies(c, s) \subseteq AttributesOf(c.relation)
         /\ OfIdentity(c, s) \subseteq AttributesOf(c.relation)
         /\ \A d : Delegated(c, d, s) \subseteq AttributesOf(c.relation)
  BY DEF OfDependencies, OfIdentity, Delegated, AttributesOf

\* reach() adds attributes, and pops nothing but what `left` gave up.
LEMMA ReachPops ==
  ASSUME NEW attributes, NEW left, left \subseteq queue, queue \subseteq reached,
         Reach(attributes, left)
  PROVE  /\ queue' \subseteq reached'
         /\ reached \subseteq reached'
         /\ attributes \subseteq reached'
         /\ Popped' = Popped \union (queue \ left)
         /\ queue' = {} => reached' = reached /\ left = {}
  BY DEF Reach, Popped

-----------------------------------------------------------------------------
(* Type correctness *)

\* Initially nothing is reached and each dependency waits for its whole determinant.
LEMMA InitType == Init => TypeOK
<1> SUFFICES ASSUME Init PROVE TypeOK
  OBVIOUS
<1>1. IsCall(call)
  BY CallsAssumption DEF Init
<1>2. \A d \in Deps : IsFiniteSet(d.determinant)
  BY <1>1, RulesAssumption DEF Deps, IsCall, IsDependencyOf
<1>3. waiting \in [Deps -> Int]
  BY <1>2, FS_CardinalityType DEF Init, Deps
<1>4. Len(Inputs) \in Nat
  BY <1>1, RulesAssumption DEF Inputs, IsCall
<1> QED
  BY <1>1, <1>3, <1>4 DEF Init, TypeOK

\* No step leaves the types.
LEMMA NextType == TypeOK /\ [Next]_vars => TypeOK'
<1> SUFFICES ASSUME TypeOK, [Next]_vars PROVE TypeOK'
  OBVIOUS
<1> USE DEF TypeOK
<1>0. /\ Len(Inputs) \in Nat
      /\ \A d \in Deps : d.dependent \in AttributesOf(call.relation)
      /\ call.columns \subseteq AttributesOf(call.relation)
      /\ RowAttributes[call.relation] \subseteq AttributesOf(call.relation)
  BY RulesAssumption DEF Inputs, Deps, IsCall, IsDependencyOf, AttributesOf
<1>1. CASE Seed
  BY <1>0, <1>1 DEF Seed, Reach, Deps, Inputs
<1>2. ASSUME NEW a \in queue, Pop(a) PROVE TypeOK'
  <2>1. waiting' \in [Deps' -> Int]
    BY <1>2 DEF Pop, Deps
  <2> QED
    BY <1>0, <1>2, <2>1 DEF Pop, Reach, Deps, Inputs, Uses
<1>3. CASE Drained
  BY <1>0, <1>3 DEF Drained, Deps, Inputs
<1>4. CASE Delegate
  <2> DEFINE found == Delegated(call, Inputs[turn], reached)
  <2>1. found \subseteq AttributesOf(call.relation)
    BY ConsequencesType
  <2>2. Reach(found, queue) /\ turn <= Len(Inputs) /\ turn' = turn + 1 /\ UNCHANGED <<call, waiting, pc>>
    BY <1>4 DEF Delegate
  <2> HIDE DEF found
  <2> QED
    BY <1>0, <2>1, <2>2 DEF Reach, Deps, Inputs
<1>5. CASE EndPass
  BY <1>5 DEF EndPass, Deps, Inputs
<1>6. CASE UNCHANGED vars
  BY <1>6 DEF vars, Deps, Inputs
<1> QED
  BY <1>1, <1>2, <1>3, <1>4, <1>5, <1>6 DEF Next

\* Reached attributes are the relation's own, and every count is a number.
THEOREM TypeCorrect == Spec => []TypeOK
  BY InitType, NextType, PTL DEF Spec

-----------------------------------------------------------------------------
(* The counters *)

\* What each step pops.
LEMMA StepPops ==
  ASSUME TypeOK, WorklistInv
  PROVE  /\ Seed => Popped' = Popped
         /\ \A a \in queue : Pop(a) => Popped' = Popped \union {a}
         /\ Drained \/ Delegate \/ EndPass => Popped' = Popped
<1>0. queue \subseteq reached
  BY DEF TypeOK
<1>1. ASSUME Seed PROVE Popped' = Popped
  BY <1>0, <1>1, ReachPops DEF Seed
<1>2. ASSUME NEW a \in queue, Pop(a) PROVE Popped' = Popped \union {a}
  BY <1>0, <1>2, ReachPops DEF Pop
<1>3. ASSUME Delegate PROVE Popped' = Popped
  BY <1>0, <1>3, ReachPops DEF Delegate
<1>4. ASSUME Drained \/ EndPass PROVE Popped' = Popped
  BY <1>4 DEF Drained, EndPass, Popped
<1> QED
  BY <1>1, <1>2, <1>3, <1>4

\* The determinants a relation's dependencies count are finite.
LEMMA FiniteDeterminants == TypeOK => \A d \in Deps : IsFiniteSet(d.determinant)
  BY RulesAssumption DEF TypeOK, IsCall, Deps, IsDependencyOf

\* Nothing is popped yet, so each counter is the size of its determinant.
LEMMA InitCounters == Init => CountersExact
<1> SUFFICES ASSUME Init, NEW d \in Deps PROVE waiting[d] = Cardinality(d.determinant \ Popped)
  BY DEF CountersExact
<1> QED
  BY DEF Init, Popped, Deps

\* A pop decrements exactly the counters of the dependencies that use it.
LEMMA NextCounters == TypeOK /\ WorklistInv /\ CountersExact /\ [Next]_vars => CountersExact'
<1> SUFFICES ASSUME TypeOK, WorklistInv, CountersExact, [Next]_vars PROVE CountersExact'
  OBVIOUS
<1>1. CASE Seed
  BY <1>1, StepPops DEF Seed, CountersExact, Deps
<1>2. ASSUME NEW a \in queue, Pop(a) PROVE CountersExact'
  <2> SUFFICES ASSUME NEW d \in Deps PROVE waiting'[d] = Cardinality(d.determinant \ Popped')
    BY <1>2 DEF CountersExact, Pop, Deps
  <2>1. Popped' = Popped \union {a} /\ a \notin Popped
    BY <1>2, StepPops DEF Popped
  <2>2. waiting[d] = Cardinality(d.determinant \ Popped) /\ IsFiniteSet(d.determinant \ Popped)
    BY FiniteDeterminants, FS_Subset DEF CountersExact
  <2>3. d.determinant \ Popped' = (d.determinant \ Popped) \ {a}
    BY <2>1
  <2>4. waiting'[d] = IF a \in d.determinant THEN waiting[d] - 1 ELSE waiting[d]
    BY <1>2 DEF Pop, Uses
  <2> QED
    BY <2>1, <2>2, <2>3, <2>4, FS_RemoveElement
<1>3. CASE Drained \/ Delegate \/ EndPass
  BY <1>3, StepPops DEF Drained, Delegate, EndPass, CountersExact, Deps
<1>4. CASE UNCHANGED vars
  BY <1>4 DEF vars, CountersExact, Deps, Popped
<1> QED
  BY <1>1, <1>2, <1>3, <1>4 DEF Next

-----------------------------------------------------------------------------
(* The inductive invariant *)

IInv == TypeOK /\ CountersExact /\ WorklistInv

\* Nothing is reached yet, so nothing has to have fired.
LEMMA InitInv == Init => IInv
<1> SUFFICES ASSUME Init PROVE WorklistInv
  BY InitType, InitCounters DEF IInv
<1>1. Popped = {} /\ RowIdentity[call.relation] \notin Popped
  BY DEF Init, Popped
<1> QED
  BY <1>1 DEF Init, WorklistInv, OfIdentity

\* A step leaves every dependency of popped attributes fired.
LEMMA NextFired ==
  ASSUME IInv, [Next]_vars, CountersExact', pc' # "seed"
  PROVE  call'.columns \subseteq reached' /\ OfDependencies(call', Popped') \subseteq reached'
<1> USE DEF IInv
<1>1. CASE Seed
  <2>1. Popped' = {} /\ call' = call
    BY <1>1, StepPops DEF Seed, WorklistInv, Popped
  <2>2. \A d \in Deps : d.determinant \subseteq {} => waiting[d] = 0
    <3>1. reached = {}
      BY <1>1 DEF Seed, WorklistInv
    <3> QED
      BY <3>1, FiniteDeterminants, FS_EmptySet DEF CountersExact, Popped
  <2>3. call.columns \union {d.dependent : d \in {d \in Deps : waiting[d] = 0 /\ Fires(call, d)}} \subseteq reached'
    BY <1>1 DEF Seed, Reach
  <2> QED
    BY <2>1, <2>2, <2>3 DEF OfDependencies, Deps
<1>2. ASSUME NEW a \in queue, Pop(a) PROVE call'.columns \subseteq reached' /\ OfDependencies(call', Popped') \subseteq reached'
  <2>1. Popped' = Popped \union {a} /\ call' = call
    BY <1>2, StepPops DEF Pop
  <2>2. reached \subseteq reached'
    BY <1>2 DEF Pop, Reach
  <2>3. call.columns \subseteq reached /\ OfDependencies(call, Popped) \subseteq reached
    BY <1>2 DEF Pop, WorklistInv
  <2>4. ASSUME NEW d \in Deps, a \in d.determinant, d.determinant \subseteq Popped', Fires(call, d)
        PROVE  d.dependent \in reached'
    <3>1. d.determinant \ Popped' = {}
      BY <2>4
    <3>2. waiting'[d] = 0
      BY <3>1, <2>1, FS_EmptySet DEF CountersExact, Deps
    <3> QED
      BY <3>2, <2>4, <1>2 DEF Pop, Uses, Reach
  <2>5. \A d \in Deps : a \notin d.determinant /\ d.determinant \subseteq Popped' => d.determinant \subseteq Popped
    BY <2>1
  <2> QED
    BY <2>1, <2>2, <2>3, <2>4, <2>5 DEF OfDependencies, Deps
<1>3. CASE Drained \/ Delegate \/ EndPass
  <2>1. Popped' = Popped /\ call' = call /\ reached \subseteq reached' /\ pc # "seed"
    BY <1>3, StepPops DEF Drained, Delegate, EndPass, Reach
  <2> QED
    BY <2>1 DEF WorklistInv
<1>4. CASE UNCHANGED vars
  BY <1>4 DEF vars, WorklistInv, Popped
<1> QED
  BY <1>1, <1>2, <1>3, <1>4 DEF Next

\* A popped row identity has given its columns.
LEMMA NextIdentity ==
  ASSUME IInv, [Next]_vars
  PROVE  OfIdentity(call', Popped') \subseteq reached'
<1> USE DEF IInv
<1>1. ASSUME NEW a \in queue, Pop(a) PROVE OfIdentity(call', Popped') \subseteq reached'
  <2>1. Popped' = Popped \union {a} /\ call' = call /\ reached \subseteq reached'
    BY <1>1, StepPops DEF Pop, Reach
  <2>2. CASE a = RowIdentity[call.relation]
    BY <2>1, <2>2, <1>1 DEF Pop, Reach, OfIdentity
  <2>3. CASE a # RowIdentity[call.relation]
    BY <2>1, <2>3 DEF OfIdentity, WorklistInv
  <2> QED
    BY <2>2, <2>3
<1>2. CASE Seed \/ Drained \/ Delegate \/ EndPass
  <2>1. Popped' = Popped /\ call' = call /\ reached \subseteq reached'
    BY <1>2, StepPops DEF Seed, Drained, Delegate, EndPass, Reach
  <2> QED
    BY <2>1 DEF WorklistInv
<1>3. CASE UNCHANGED vars
  BY <1>3 DEF vars, WorklistInv, Popped
<1> QED
  BY <1>1, <1>2, <1>3 DEF Next

\* As long as a pass over the inputs finds nothing, the inputs asked so far
\* have nothing more to say.
LEMMA NextPass ==
  ASSUME IInv, [Next]_vars, pc' \in {"delegate", "done"}, queue' = {}
  PROVE  \A i \in 1..(turn' - 1) : Delegated(call', Inputs'[i], reached') \subseteq reached'
<1> USE DEF IInv
<1>0. turn \in Nat /\ Len(Inputs) \in Nat
  BY RulesAssumption DEF TypeOK, IsCall, Inputs
<1>1. CASE Delegate
  <2> DEFINE found == Delegated(call, Inputs[turn], reached)
  <2>1. Reach(found, queue) /\ turn' = turn + 1 /\ call' = call /\ pc = "delegate"
    BY <1>1 DEF Delegate
  <2>2. queue = {} /\ reached' = reached /\ found \subseteq reached
    <3> HIDE DEF found
    <3> QED
      BY <2>1, ReachPops DEF TypeOK
  <2>3. \A i \in 1..(turn - 1) : Delegated(call, Inputs[i], reached) \subseteq reached
    BY <2>1, <2>2 DEF WorklistInv
  <2>4. ASSUME NEW i \in 1..(turn' - 1) PROVE Delegated(call, Inputs[i], reached) \subseteq reached
    <3>1. i = turn \/ i \in 1..(turn - 1)
      BY <1>0, <2>1
    <3> QED
      BY <3>1, <2>2, <2>3
  <2> QED
    BY <2>1, <2>2, <2>4 DEF Inputs
<1>2. CASE Drained
  BY <1>0, <1>2 DEF Drained
<1>3. CASE EndPass
  BY <1>3 DEF EndPass, WorklistInv, Inputs
<1>4. CASE UNCHANGED vars
  BY <1>4 DEF vars, WorklistInv, Inputs
<1>5. CASE Seed \/ \E a \in queue : Pop(a)
  BY <1>5 DEF Seed, Pop
<1> QED
  BY <1>1, <1>2, <1>3, <1>4, <1>5 DEF Next

\* Every step of the worklist keeps the invariant.
LEMMA NextInv == IInv /\ [Next]_vars => IInv'
<1> SUFFICES ASSUME IInv, [Next]_vars PROVE IInv'
  OBVIOUS
<1>1. TypeOK' /\ CountersExact'
  BY NextType, NextCounters DEF IInv
<1>2. pc' # "seed"  \/ UNCHANGED vars
  BY DEF Next, Seed, Pop, Drained, Delegate, EndPass, IInv, TypeOK
<1>3. pc' = "seed" => reached' = {}
  BY <1>2 DEF IInv, WorklistInv, vars
<1>4. pc' = "done" => queue' = {} /\ turn' = Len(Inputs') + 1
  <2>1. CASE EndPass
    BY <2>1, RulesAssumption DEF EndPass, IInv, TypeOK, IsCall, Inputs
  <2>2. CASE Seed \/ Drained \/ Delegate \/ \E a \in queue : Pop(a)
    BY <2>2 DEF Seed, Drained, Delegate, Pop
  <2>3. CASE UNCHANGED vars
    BY <2>3 DEF vars, IInv, WorklistInv, Inputs
  <2> QED
    BY <2>1, <2>2, <2>3 DEF Next
<1> QED
  BY <1>1, <1>3, <1>4, NextFired, NextIdentity, NextPass DEF IInv, WorklistInv

\* The counters stay exact however attributes are popped.
THEOREM CountersCorrect == Spec => []CountersExact
<1>1. IInv => CountersExact
  BY DEF IInv
<1> QED
  BY <1>1, InitInv, NextInv, PTL DEF Spec

\* Whatever is popped has fired, and a pass over the inputs loses no question.
THEOREM WorklistCorrect == Spec => []WorklistInv
<1>1. IInv => WorklistInv
  BY DEF IInv
<1> QED
  BY <1>1, InitInv, NextInv, PTL DEF Spec

-----------------------------------------------------------------------------
(* The loop stops only when nothing more follows *)

\* At the end everything reached is popped, and a whole pass found nothing.
LEMMA InvReturnsClosed == IInv => ReturnsClosed
<1> SUFFICES ASSUME IInv, pc = "done" PROVE IsClosed(call, reached)
  BY DEF ReturnsClosed
<1>1. Popped = reached /\ queue = {} /\ turn = Len(Inputs) + 1 /\ Len(Inputs) \in Nat
  BY RulesAssumption DEF IInv, TypeOK, IsCall, WorklistInv, Popped, Inputs
<1>2. \A i \in 1..Len(Inputs) : Delegated(call, Inputs[i], reached) \subseteq reached
  BY <1>1 DEF IInv, WorklistInv
<1>3. OfInputs(call, reached) \subseteq reached
  BY <1>2 DEF OfInputs, Inputs
<1>4. /\ call.columns \subseteq reached
      /\ OfDependencies(call, reached) \subseteq reached
      /\ OfIdentity(call, reached) \subseteq reached
  BY <1>1 DEF IInv, WorklistInv
<1> QED
  BY <1>3, <1>4 DEF IsClosed, Consequences

\* A returned closure is closed: no dependency, row identity or input of the
\* relation has anything to add to it.
THEOREM ReturnedClosureIsClosed == Spec => []ReturnsClosed
  BY InitInv, NextInv, InvReturnsClosed, PTL DEF Spec

-----------------------------------------------------------------------------
(* Nothing is invented *)

\* More attributes, and more of them known to be non-null, imply more.
LEMMA ConsequencesMonotone ==
  ASSUME NEW c, NEW m, IsCall(c), m.relation = c.relation, c.given \subseteq m.given,
         NEW s, NEW t, s \subseteq t
  PROVE  Consequences(c, s) \subseteq Consequences(m, t)
<1> USE DEF IsDefinite
<1>1. OfIdentity(c, s) \subseteq OfIdentity(m, t)
  BY DEF OfIdentity
<1>2. OfDependencies(c, s) \subseteq OfDependencies(m, t)
  BY DEF OfDependencies, Fires
<1>3. ASSUME NEW i \in 1..Len(Delegations[c.relation])
      PROVE  Delegated(c, Delegations[c.relation][i], s) \subseteq Delegated(m, Delegations[c.relation][i], t)
  <2> DEFINE d == Delegations[c.relation][i]
  <2>1. Valid(c, d, s) => Valid(m, d, t)
    BY DEF Valid
  <2>2. Below(c, d, s) \subseteq Below(m, d, t)
    <3> DEFINE S == Mapped(d, s)
               T == Mapped(d, t)
               G == Mapped(d, {a \in s : IsDefinite(c, a)})
               H == Mapped(d, {a \in t : IsDefinite(m, a)})
    <3>1. S \subseteq T /\ G \subseteq H /\ G \subseteq S /\ H \subseteq T
      BY DEF Mapped
    <3>2. T \subseteq {d.down[a] : a \in DOMAIN d.down}
      BY DEF Mapped
    <3>3. InputClosure(d.input, S, G) \subseteq InputClosure(d.input, T, H)
      <4> c.relation \in Relation
        BY DEF IsCall
      <4> HIDE DEF S, T, G, H
      <4> QED
        BY <3>1, <3>2, InputsMonotone
    <3> QED
      BY <3>3 DEF Below
  <2> QED
    BY <2>1, <2>2, AttributesOf(m.relation) = AttributesOf(c.relation) DEF Delegated
<1>4. OfInputs(c, s) \subseteq OfInputs(m, t)
  BY <1>3 DEF OfInputs
<1> QED
  BY <1>1, <1>2, <1>4 DEF Consequences

\* A step learns only what follows from the requested columns and from what
\* was reached before it.
LEMMA StepLearns ==
  ASSUME IInv, [Next]_vars
  PROVE  reached' \subseteq reached \union call.columns \union Consequences(call, reached)
<1> USE DEF IInv
<1>1. CASE Seed
  <2>1. \A d \in Deps : waiting[d] = 0 => d.determinant \subseteq reached
    <3>1. Popped = {}
      BY <1>1 DEF Seed, WorklistInv, Popped
    <3>2. \A d \in Deps : d.determinant \ Popped = d.determinant
      BY <3>1
    <3> QED
      BY <3>2, FiniteDeterminants, FS_EmptySet DEF CountersExact
  <2>2. {d.dependent : d \in {d \in Deps : waiting[d] = 0 /\ Fires(call, d)}} \subseteq OfDependencies(call, reached)
    BY <2>1, RulesAssumption DEF OfDependencies, Deps, TypeOK, IsCall, IsDependencyOf
  <2> QED
    BY <1>1, <2>2 DEF Seed, Reach, Consequences
<1>2. ASSUME NEW a \in queue, Pop(a)
      PROVE  reached' \subseteq reached \union call.columns \union Consequences(call, reached)
  <2>1. Popped' = Popped \union {a} /\ Popped' \subseteq reached /\ Deps' = Deps
    BY <1>2, StepPops DEF Pop, TypeOK, Popped, Deps
  <2>2. ASSUME NEW d \in Deps, waiting'[d] = 0 PROVE d.determinant \subseteq reached
    <3>1. CountersExact'
      BY NextCounters
    <3>2. Cardinality(d.determinant \ Popped') = 0 /\ IsFiniteSet(d.determinant \ Popped')
      BY <2>1, <2>2, <3>1, FiniteDeterminants, FS_Subset DEF CountersExact
    <3> QED
      BY <2>1, <3>2, FS_EmptySet
  <2>3. {d.dependent : d \in {d \in Uses(a) : waiting'[d] = 0 /\ Fires(call, d)}} \subseteq OfDependencies(call, reached)
    BY <2>2, RulesAssumption DEF OfDependencies, Uses, Deps, TypeOK, IsCall, IsDependencyOf
  <2>4. a = RowIdentity[call.relation] => RowAttributes[call.relation] \subseteq OfIdentity(call, reached)
    BY DEF OfIdentity, TypeOK
  <2> QED
    BY <1>2, <2>3, <2>4 DEF Pop, Reach, Consequences
<1>3. CASE Delegate
  <2>1. turn \in 1..Len(Inputs)
    BY <1>3, RulesAssumption DEF Delegate, TypeOK, IsCall, Inputs
  <2>2. Delegated(call, Inputs[turn], reached) \subseteq OfInputs(call, reached)
    BY <2>1, ConsequencesType DEF OfInputs, Inputs
  <2> QED
    BY <1>3, <2>2 DEF Delegate, Reach, Consequences
<1>4. CASE Drained \/ EndPass \/ UNCHANGED vars
  BY <1>4 DEF Drained, EndPass, vars
<1> QED
  BY <1>1, <1>2, <1>3, <1>4 DEF Next

\* Whatever a call that asks for as much or more may stop at holds all of reached.
Least ==
  \A m, s : /\ m.relation = call.relation
            /\ call.columns \subseteq m.columns /\ call.given \subseteq m.given
            /\ IsClosed(m, s)
            => reached \subseteq s

\* A step stays within every set that is closed for the call or a larger one.
LEMMA NextLeast == IInv /\ Least /\ [Next]_vars => Least'
<1> SUFFICES ASSUME IInv, Least, [Next]_vars,
                    NEW m, NEW s, m.relation = call'.relation,
                    call'.columns \subseteq m.columns, call'.given \subseteq m.given, IsClosed(m, s)
             PROVE  reached' \subseteq s
  BY DEF Least
<1>1. call' = call
  BY DEF Next, Seed, Pop, Drained, Delegate, EndPass, vars
<1>2. reached \subseteq s
  BY <1>1 DEF Least
<1>3. Consequences(call, reached) \subseteq Consequences(m, s)
  BY <1>1, <1>2, ConsequencesMonotone DEF IInv, TypeOK
<1> QED
  BY <1>1, <1>2, <1>3, StepLearns DEF IsClosed

\* In every reachable state, reached lies within every such set.
LEMMA AlwaysLeast == Spec => [](IInv /\ Least)
<1>1. Init => IInv /\ Least
  BY InitInv DEF Init, Least
<1> QED
  BY <1>1, NextInv, NextLeast, PTL DEF Spec

\* A returned closure is the least set closed under the rules: it concludes
\* nothing the dependencies and the inputs do not imply.
THEOREM NothingIsInvented == Spec => []NothingInvented
<1>1. Least => NothingInvented
  BY DEF Least, NothingInvented
<1> QED
  BY <1>1, AlwaysLeast, PTL

\* A superset of a Unique Set is one: what minimal_keys skips and what its
\* shrinking drops rest on this.
THEOREM ClosureIsMonotone == Spec => []AskingMoreGetsMore
<1>1. Least => AskingMoreGetsMore
  BY DEF Least, AskingMoreGetsMore
<1> QED
  BY <1>1, AlwaysLeast, PTL

\* A popped attribute stays popped.
THEOREM PopsAreFinal == Spec => PoppedForGood
<1>1. IInv /\ [Next]_vars => [Popped \subseteq Popped']_vars
  <2> SUFFICES ASSUME IInv, Next PROVE Popped \subseteq Popped'
    OBVIOUS
  <2> QED
    BY StepPops DEF Next, IInv
<1> QED
  BY <1>1, InitInv, NextInv, PTL DEF Spec, PoppedForGood

-----------------------------------------------------------------------------
(* The worklist implements DependencyClosure *)

\* The worklist starts as DependencyClosure does, knowing nothing.
LEMMA InitImplements == Init => Abstract!Init
  BY CallsAssumption DEF Init, Abstract!Init, Abstract!IsCall, IsCall, Abstract!AttributesOf, AttributesOf

\* Both modules read the same rules: one definition, instantiated.
LEMMA SameConsequences ==
  ASSUME NEW c, NEW s
  PROVE  /\ Abstract!Consequences(c, s) = Consequences(c, s)
         /\ Abstract!OfDependencies(c, s) = OfDependencies(c, s)
         /\ Abstract!IsClosed(c, s) <=> IsClosed(c, s)
  BY DEF Consequences, OfDependencies, OfIdentity, OfInputs, IsClosed, Delegated, Valid, Below, Mapped, Fires, IsDefinite,
         AttributesOf, Abstract!Consequences, Abstract!OfDependencies, Abstract!OfIdentity, Abstract!OfInputs,
         Abstract!IsClosed, Abstract!Delegated, Abstract!Valid, Abstract!Below, Abstract!Mapped, Abstract!Fires,
         Abstract!IsDefinite, Abstract!AttributesOf

\* Each step is a Request, a Learn, an Answer or a stutter of DependencyClosure.
LEMMA NextImplements == IInv /\ [Next]_vars => [Abstract!Next]_<<call, reached, pc = "done">>
<1> SUFFICES ASSUME IInv, [Next]_vars PROVE [Abstract!Next]_<<call, reached, pc = "done">>
  OBVIOUS
<1> USE DEF IInv
<1>1. CASE Seed
  <2>1. \A d \in Deps : waiting[d] = 0 <=> d.determinant \subseteq {}
    <3>1. \A d \in Deps : d.determinant \ Popped = d.determinant
      BY <1>1 DEF Seed, WorklistInv, Popped
    <3> QED
      BY <3>1, FiniteDeterminants, FS_EmptySet DEF CountersExact
  <2>2. {d.dependent : d \in {d \in Deps : waiting[d] = 0 /\ Fires(call, d)}} = OfDependencies(call, {})
    BY <2>1, RulesAssumption DEF OfDependencies, Deps, TypeOK, IsCall, IsDependencyOf
  <2>3. reached' = reached \union call.columns \union OfDependencies(call, {})
    BY <1>1, <2>2 DEF Seed, Reach
  <2> QED
    BY <1>1, <2>3, SameConsequences DEF Seed, Abstract!Next, Abstract!Request
<1>2. CASE Delegate \/ \E a \in queue : Pop(a)
  <2>1. pc \in {"drain", "delegate"} /\ pc' = pc /\ call' = call /\ reached \subseteq reached'
    BY <1>2 DEF Delegate, Pop, Reach
  <2> DEFINE more == reached' \ reached
  <2>2. more \in SUBSET Abstract!Consequences(call, reached) /\ reached' = reached \union more
    BY <2>1, StepLearns, SameConsequences DEF WorklistInv
  <2> HIDE DEF more
  <2> QED
    BY <2>1, <2>2 DEF Abstract!Next, Abstract!Learn
<1>3. CASE EndPass
  <2>1. CASE queue = {}
    <3>1. pc' = "done" /\ pc # "done" /\ UNCHANGED <<call, reached>>
      BY <1>3, <2>1 DEF EndPass
    <3>2. IsClosed(call, reached)
      <4>1. IInv' => ReturnsClosed'
        BY InvReturnsClosed, PTL
      <4> QED
        BY <3>1, <4>1, NextInv DEF ReturnsClosed
    <3> QED
      BY <3>1, <3>2, SameConsequences DEF Abstract!Next, Abstract!Answer
  <2>2. CASE queue # {}
    BY <1>3, <2>2 DEF EndPass
  <2> QED
    BY <2>1, <2>2
<1>4. CASE Drained \/ UNCHANGED vars
  BY <1>4 DEF Drained, vars
<1> QED
  BY <1>1, <1>2, <1>3, <1>4 DEF Next

\* Every run of the worklist is a run of DependencyClosure: it learns only
\* what follows and answers only when nothing more does.
THEOREM WorklistImplements == Spec => Implements
<1>1. Spec => []IInv
  BY InitInv, NextInv, PTL DEF Spec
<1> QED
  BY <1>1, InitImplements, NextImplements, PTL DEF Spec, Implements, Abstract!Spec
=============================================================================
