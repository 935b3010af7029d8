-------------------------------- MODULE Arena --------------------------------
(***************************************************************************)
(* The demand-driven engine of sqlassert/python_engine.py: one session at  *)
(* a time owns an Arena, in which analyses call each other depth first.    *)
(* A call is looked up in the cache, then among the calls being evaluated, *)
(* then its Stratum is checked against every active analysis about the     *)
(* same relation; accepted Knowledge answers it without running its body.  *)
(* Any body may raise, and the caller of the session may go on after it.   *)
(*                                                                         *)
(* A key is an analysis function with its arguments.                       *)
(***************************************************************************)
EXTENDS Integers, Sequences, FiniteSets

CONSTANTS
  Key,
  Callees,       \* of each key, the keys its body calls, in order
  Subject,       \* of each key, the relation it is about, NoRelation if none
  NoRelation,
  StratumOf,     \* of each key, its Stratum
  Rule(_, _),    \* the value a body returns, from its callees' values
  Acceptable     \* the keys Knowledge may accept

Value == BOOLEAN

ASSUME ArenaAssumption ==
  /\ \A k \in Key : /\ Callees[k] \in Seq(Key)
                    /\ StratumOf[k] \in Nat
                    /\ \A results \in [1..Len(Callees[k]) -> Value] : Rule(k, results) \in Value
  /\ Acceptable \subseteq Key

VARIABLES
  open,        \* whether a session is active
  accepted,    \* the keys its Knowledge accepts
  cache,       \* cached keys with their values
  evaluating,
  active,      \* the keys of arena.active, innermost last
  stack,       \* the Python call stack: frames [key, admitted, results]
  raising      \* the exception propagating out of the top frame, or "none"

vars == <<open, accepted, cache, evaluating, active, stack, raising>>

Frame == [key : Key, admitted : BOOLEAN, results : Seq(Value)]

Errors == {"cycle", "stratum", "failure"}

Top     == stack[Len(stack)]
Front(s) == SubSeq(s, 1, Len(s) - 1)

\* The frame that is running its body.
Running == open /\ raising = "none" /\ stack # <<>> /\ Top.admitted

Finished(f) == f.key \in accepted \/ Len(f.results) = Len(Callees[f.key])

\* The key the top frame's body calls next.
NextCall == Callees[Top.key][Len(Top.results) + 1]

NoAnswers == [k \in {} |-> FALSE]

\* An analysis may be called while these run: facts about one relation use
\* only facts of their own Stratum or a lower one.
Allowed(k, running) ==
  \A a \in running : Subject[a] = Subject[k] /\ Subject[k] # NoRelation => StratumOf[k] <= StratumOf[a]

RangeOf(s) == {s[i] : i \in DOMAIN s}

\* `frames` once the value v of its last call has come back.
Delivered(frames, v) ==
  IF frames = <<>> THEN frames
  ELSE [frames EXCEPT ![Len(frames)].results = Append(@, v)]

-----------------------------------------------------------------------------
Init ==
  /\ open = FALSE /\ accepted = {} /\ cache = NoAnswers
  /\ evaluating = {} /\ active = <<>> /\ stack = <<>> /\ raising = "none"

\* Engine.session: a new Arena for one program and its Knowledge.
Open ==
  /\ ~open
  /\ open' = TRUE
  /\ accepted' \in SUBSET Acceptable
  /\ cache' = NoAnswers /\ evaluating' = {} /\ active' = <<>>
  /\ UNCHANGED <<stack, raising>>

\* The session ends, normally or by an exception: the Arena is released.
Close ==
  /\ open /\ stack = <<>>
  /\ open' = FALSE
  /\ accepted' = {} /\ cache' = NoAnswers /\ evaluating' = {} /\ active' = <<>>
  /\ UNCHANGED <<stack, raising>>

Push(k) ==
  /\ k \notin DOMAIN cache /\ k \notin evaluating
  /\ evaluating' = evaluating \union {k}
  /\ stack' = Append(stack, [key |-> k, admitted |-> FALSE, results |-> <<>>])
  /\ UNCHANGED <<open, accepted, cache, active, raising>>

\* A request from outside; a cached one has no effect.
Ask(k) == open /\ stack = <<>> /\ Push(k)

\* The top frame's body makes its next call.
Hit ==
  /\ Running /\ ~Finished(Top) /\ NextCall \in DOMAIN cache
  /\ stack' = Delivered(stack, cache[NextCall])
  /\ UNCHANGED <<open, accepted, cache, evaluating, active, raising>>

Miss == Running /\ ~Finished(Top) /\ Push(NextCall)

\* Mutation: a circular call is made again and again.
CycleUnnoticed ==
  /\ Running /\ ~Finished(Top) /\ NextCall \notin DOMAIN cache /\ NextCall \in evaluating
  /\ UNCHANGED vars

Cycle ==
  /\ Running /\ ~Finished(Top) /\ NextCall \notin DOMAIN cache /\ NextCall \in evaluating
  /\ raising' = "cycle"
  /\ UNCHANGED <<open, accepted, cache, evaluating, active, stack>>

\* evaluate(): the Stratum check, then the analysis is active.
Entering == open /\ raising = "none" /\ stack # <<>> /\ ~Top.admitted

\* Mutation: only the caller is looked at.
AdmitUnderCaller ==
  /\ Entering /\ Allowed(Top.key, {active[i] : i \in DOMAIN active \intersect {Len(active)}})
  /\ active' = Append(active, Top.key)
  /\ stack' = [stack EXCEPT ![Len(stack)].admitted = TRUE]
  /\ UNCHANGED <<open, accepted, cache, evaluating, raising>>

Admit ==
  /\ Entering /\ Allowed(Top.key, RangeOf(active))
  /\ active' = Append(active, Top.key)
  /\ stack' = [stack EXCEPT ![Len(stack)].admitted = TRUE]
  /\ UNCHANGED <<open, accepted, cache, evaluating, raising>>

Reject ==
  /\ Entering /\ ~Allowed(Top.key, RangeOf(active))
  /\ raising' = "stratum"
  /\ UNCHANGED <<open, accepted, cache, evaluating, active, stack>>

\* Mutation: an answer is cached for the relation, whatever was asked of it.
ReturnForSubject ==
  /\ Running /\ Finished(Top)
  /\ LET value == Top.key \in accepted \/ Rule(Top.key, Top.results) IN
     /\ cache' = [k \in DOMAIN cache \union {Subject[Top.key]} |->
                    IF k = Subject[Top.key] THEN value ELSE cache[k]]
     /\ stack' = Delivered(Front(stack), value)
  /\ evaluating' = evaluating \ {Top.key}
  /\ active' = Front(active)
  /\ UNCHANGED <<open, accepted, raising>>

\* Accepted Knowledge, or the value of the body, is cached and handed back.
Return ==
  /\ Running /\ Finished(Top)
  /\ LET value == Top.key \in accepted \/ Rule(Top.key, Top.results) IN
     /\ cache' = [k \in DOMAIN cache \union {Top.key} |-> IF k = Top.key THEN value ELSE cache[k]]
     /\ stack' = Delivered(Front(stack), value)
  /\ evaluating' = evaluating \ {Top.key}
  /\ active' = Front(active)
  /\ UNCHANGED <<open, accepted, raising>>

\* A body raises; accepted Knowledge runs no body.
Fail ==
  /\ Running /\ Top.key \notin accepted
  /\ raising' = "failure"
  /\ UNCHANGED <<open, accepted, cache, evaluating, active, stack>>

\* Mutation: the call stays among those being evaluated.
UnwindForgetfully ==
  /\ raising # "none" /\ stack # <<>>
  /\ active' = IF Top.admitted THEN Front(active) ELSE active
  /\ stack' = Front(stack)
  /\ raising' = IF Len(stack) = 1 THEN "none" ELSE raising
  /\ UNCHANGED <<open, accepted, cache, evaluating>>

\* Mutation: a call that never became active is popped from there as well.
UnwindBoth ==
  /\ raising # "none" /\ stack # <<>>
  /\ evaluating' = evaluating \ {Top.key}
  /\ active' = IF active = <<>> THEN active ELSE Front(active)
  /\ stack' = Front(stack)
  /\ raising' = IF Len(stack) = 1 THEN "none" ELSE raising
  /\ UNCHANGED <<open, accepted, cache>>

\* Mutation: a failed evaluation is remembered as not proved.
UnwindCaching ==
  /\ raising # "none" /\ stack # <<>>
  /\ cache' = [k \in DOMAIN cache \union {Top.key} |-> k # Top.key /\ cache[k]]
  /\ evaluating' = evaluating \ {Top.key}
  /\ active' = IF Top.admitted THEN Front(active) ELSE active
  /\ stack' = Front(stack)
  /\ raising' = IF Len(stack) = 1 THEN "none" ELSE raising
  /\ UNCHANGED <<open, accepted>>

\* The finally blocks of one frame; out of the last one the exception leaves.
Unwind ==
  /\ raising # "none" /\ stack # <<>>
  /\ evaluating' = evaluating \ {Top.key}
  /\ active' = IF Top.admitted THEN Front(active) ELSE active
  /\ stack' = Front(stack)
  /\ raising' = IF Len(stack) = 1 THEN "none" ELSE raising
  /\ UNCHANGED <<open, accepted, cache>>

Evaluate == Hit \/ Miss \/ Cycle \/ Admit \/ Reject \/ Return \/ Unwind

Next == Open \/ Close \/ (\E k \in Key : Ask(k)) \/ Evaluate \/ Fail

\* Python runs an evaluation that was asked for; nobody has to ask, and no
\* body has to raise.
Spec == Init /\ [][Next]_vars /\ WF_vars(Evaluate)

-----------------------------------------------------------------------------
TypeOK ==
  /\ open \in BOOLEAN
  /\ accepted \subseteq Acceptable
  /\ DOMAIN cache \subseteq Key /\ \A k \in DOMAIN cache : cache[k] \in Value
  /\ evaluating \subseteq Key
  /\ active \in Seq(Key)
  /\ stack \in Seq(Frame)
  /\ raising \in Errors \union {"none"}

(***************************************************************************)
(* The two records the Arena keeps of the running calls, the set            *)
(* `evaluating` (cache) and the list `active` (analysis), are exactly the   *)
(* calls on the Python stack, each of them once, whatever raised before:    *)
(* no failed evaluation leaves a frame that a later request would run into. *)
(***************************************************************************)
StacksAgree ==
  /\ evaluating = {stack[i].key : i \in DOMAIN stack}
  /\ \A i, j \in DOMAIN stack : stack[i].key = stack[j].key => i = j
  /\ \A i \in DOMAIN stack : i < Len(stack) => stack[i].admitted
  /\ Len(active) = IF stack # <<>> /\ ~Top.admitted THEN Len(stack) - 1 ELSE Len(stack)
  /\ \A i \in DOMAIN active : active[i] = stack[i].key
  /\ stack = <<>> => raising = "none"
  /\ stack # <<>> => open

\* What a key's body was handed so far is what its callees returned.
HandedOver(f) ==
  /\ Len(f.results) <= Len(Callees[f.key])
  /\ \A i \in DOMAIN f.results : /\ Callees[f.key][i] \in DOMAIN cache
                                /\ f.results[i] = cache[Callees[f.key][i]]

(***************************************************************************)
(* A cached answer is one this session's Knowledge accepts, or the rule's   *)
(* value on answers that are cached as well: nothing is left in the cache   *)
(* by an evaluation that raised, nor by a session with other Knowledge.     *)
(***************************************************************************)
CacheConsistent ==
  /\ \A k \in DOMAIN cache :
        IF k \in accepted THEN cache[k]
        ELSE /\ \A i \in DOMAIN Callees[k] : Callees[k][i] \in DOMAIN cache
             /\ cache[k] = Rule(k, [i \in DOMAIN Callees[k] |-> cache[Callees[k][i]]])
  /\ \A i \in DOMAIN stack : HandedOver(stack[i])

(***************************************************************************)
(* A body runs only under analyses that may use its answer: the assertion   *)
(* in `analysis` looks through every active analysis, not just the caller.  *)
(***************************************************************************)
OnlyAllowedRun ==
  \A i, j \in DOMAIN stack :
    i < j /\ stack[j].admitted => Allowed(stack[j].key, {stack[i].key})

(***************************************************************************)
(* The Stratum rule, "facts about R only at its own or a lower stratum",    *)
(* for every answer a running body has received: the answer is one it was   *)
(* allowed to ask for under every analysis then active.                     *)
(***************************************************************************)
OnlyAllowedResults ==
  \A i \in DOMAIN stack : \A n \in DOMAIN stack[i].results :
    Allowed(Callees[stack[i].key][n], {stack[j].key : j \in 1..i})

(***************************************************************************)
(* Every request ends, with an answer or an exception, even when the rules  *)
(* call each other in a circle.                                             *)
(***************************************************************************)
Terminates == stack # <<>> ~> stack = <<>>
=============================================================================
