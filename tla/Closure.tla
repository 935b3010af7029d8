------------------------------- MODULE Closure -------------------------------
(***************************************************************************)
(* The worklist of _closure in rules/uniqueness.py (Paulley's FD-graph     *)
(* closure).  Each dependency counts the determinant attributes not yet    *)
(* processed and fires when none is left; when the queue is empty, every   *)
(* input is asked once, and the loop ends with a pass that found nothing.  *)
(* The queue is filled by iterating over sets, so any attribute of it may  *)
(* be popped next.                                                         *)
(***************************************************************************)
EXTENDS ClosureRules

CONSTANT Calls

ASSUME CallsAssumption == \A c \in Calls : IsCall(c)

VARIABLES
  call,      \* the arguments
  reached,   \* the keys of `reached`
  queue,     \* reached and not yet popped
  waiting,   \* per dependency, the determinant attributes not yet popped
  pc,        \* "seed", "drain", "delegate" or "done"
  turn       \* the delegation asked next

vars == <<call, reached, queue, waiting, pc, turn>>

Deps   == Dependencies[call.relation]
Inputs == Delegations[call.relation]

Popped == reached \ queue

\* Mutation: an attribute is queued again whenever something reaches it.
ReachAgain(attributes, left) ==
  /\ reached' = reached \union attributes
  /\ queue' = left \union attributes

\* Mutation: a queued attribute is not recorded as reached.
ReachLater(attributes, left) ==
  /\ reached' = reached \union left
  /\ queue' = left \union (attributes \ reached)

\* reach(): an attribute already reached keeps its place, only its evidence grows.
Reach(attributes, left) ==
  /\ reached' = reached \union attributes
  /\ queue' = left \union (attributes \ reached)

Init ==
  /\ call \in Calls
  /\ reached = {} /\ queue = {}
  /\ waiting = [d \in Dependencies[call.relation] |-> Cardinality(d.determinant)]
  /\ pc = "seed" /\ turn = 1

\* Mutation: dependencies that wait for nothing are never fired.
SeedColumns ==
  /\ pc = "seed"
  /\ Reach(call.columns, queue)
  /\ pc' = "drain"
  /\ UNCHANGED <<call, waiting, turn>>

\* The requested columns, and the dependencies that wait for nothing.
Seed ==
  /\ pc = "seed"
  /\ Reach(call.columns \union {d.dependent : d \in {d \in Deps : waiting[d] = 0 /\ Fires(call, d)}}, queue)
  /\ pc' = "drain"
  /\ UNCHANGED <<call, waiting, turn>>

Uses(a) == {d \in Deps : a \in d.determinant}

\* Mutation: off by one, a dependency fires when one attribute is missing.
PopEarly(a) ==
  /\ pc = "drain" /\ a \in queue
  /\ waiting' = [d \in Deps |-> IF d \in Uses(a) THEN waiting[d] - 1 ELSE waiting[d]]
  /\ LET ready == {d \in Uses(a) : waiting'[d] <= 1 /\ Fires(call, d)}
     IN Reach((IF a = RowIdentity[call.relation] THEN RowAttributes[call.relation] ELSE {})
                \union {d.dependent : d \in ready},
              queue \ {a})
  /\ UNCHANGED <<call, pc, turn>>

Pop(a) ==
  /\ pc = "drain" /\ a \in queue
  /\ waiting' = [d \in Deps |-> IF d \in Uses(a) THEN waiting[d] - 1 ELSE waiting[d]]
  /\ LET ready == {d \in Uses(a) : waiting'[d] = 0 /\ Fires(call, d)}
     IN Reach((IF a = RowIdentity[call.relation] THEN RowAttributes[call.relation] ELSE {})
                \union {d.dependent : d \in ready},
              queue \ {a})
  /\ UNCHANGED <<call, pc, turn>>

Drained ==
  /\ pc = "drain" /\ queue = {}
  /\ pc' = "delegate" /\ turn' = 1
  /\ UNCHANGED <<call, reached, queue, waiting>>

\* One input, asked with everything reached so far in this pass.
Delegate ==
  /\ pc = "delegate" /\ turn <= Len(Inputs)
  /\ Reach(Delegated(call, Inputs[turn], reached), queue)
  /\ turn' = turn + 1
  /\ UNCHANGED <<call, waiting, pc>>

\* Mutation: the inputs are asked once only.
EndAtOnce ==
  /\ pc = "delegate" /\ turn > Len(Inputs)
  /\ pc' = "done"
  /\ UNCHANGED <<call, reached, queue, waiting, turn>>

\* Mutation: a pass that found nothing is followed by another.
EndNever ==
  /\ pc = "delegate" /\ turn > Len(Inputs)
  /\ pc' = "drain"
  /\ UNCHANGED <<call, reached, queue, waiting, turn>>

EndPass ==
  /\ pc = "delegate" /\ turn > Len(Inputs)
  /\ pc' = IF queue = {} THEN "done" ELSE "drain"
  /\ UNCHANGED <<call, reached, queue, waiting, turn>>

Next == Seed \/ (\E a \in queue : Pop(a)) \/ Drained \/ Delegate \/ EndPass

Spec == Init /\ [][Next]_vars /\ WF_vars(Next)

-----------------------------------------------------------------------------
(* Properties *)

TypeOK ==
  /\ IsCall(call)
  /\ reached \subseteq AttributesOf(call.relation)
  /\ queue \subseteq reached
  /\ waiting \in [Deps -> Int]
  /\ pc \in {"seed", "drain", "delegate", "done"}
  /\ turn \in 1..(Len(Inputs) + 1)

\* A dependency counts exactly the determinant attributes still to be popped:
\* a missed or doubled decrement would lose or invent a conclusion.
CountersExact ==
  \A d \in Deps : waiting[d] = Cardinality(d.determinant \ Popped)

\* Every dependency whose determinant was popped has fired, a popped row
\* identity has given its columns, and while the queue stays empty the inputs
\* asked in this pass have nothing more to say.
WorklistInv ==
  /\ pc = "seed" => reached = {}
  /\ pc # "seed" => call.columns \subseteq reached /\ OfDependencies(call, Popped) \subseteq reached
  /\ OfIdentity(call, Popped) \subseteq reached
  /\ pc \in {"delegate", "done"} /\ queue = {} =>
       \A i \in 1..(turn - 1) : Delegated(call, Inputs[i], reached) \subseteq reached
  /\ pc = "done" => queue = {} /\ turn = Len(Inputs) + 1

\* When it returns, nothing more follows from the reached attributes: the
\* loop may not stop while a dependency or an input still has something to say.
ReturnsClosed == pc = "done" => IsClosed(call, reached)

\* Whatever set of attributes is closed under the rules holds all of reached:
\* nothing is concluded that the dependencies do not imply.
NothingInvented ==
  pc = "done" => \A s \in SUBSET AttributesOf(call.relation) : IsClosed(call, s) => reached \subseteq s

\* A call that asks for more, or assumes more non-null, never gets less.
\* minimal_keys relies on it: a superset of a key is skipped, and dropping
\* columns one at a time finds a minimal set.
AskingMoreGetsMore ==
  pc = "done" =>
    \A more \in Calls, s \in SUBSET AttributesOf(call.relation) :
      /\ more.relation = call.relation
      /\ call.columns \subseteq more.columns /\ call.given \subseteq more.given
      /\ IsClosed(more, s)
      => reached \subseteq s

\* No attribute is ever queued twice: a pop is final, so the loop makes progress.
PoppedForGood == [][Popped \subseteq Popped']_vars

\* The worklist returns, whatever order it pops attributes in.
Returns == <>(pc = "done")

Abstract == INSTANCE DependencyClosure WITH known <- reached, answered <- (pc = "done")

\* The worklist implements the promise of DependencyClosure.
Implements == Abstract!Spec
=============================================================================
