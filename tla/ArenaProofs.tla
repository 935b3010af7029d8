----------------------------- MODULE ArenaProofs -----------------------------
(***************************************************************************)
(* Theorems about the engine of Arena, for every set of analyses, every     *)
(* call graph and every value their bodies may return.                      *)
(***************************************************************************)
EXTENDS OrderedArena, SequenceTheorems, TLAPS

\* A prefix of a sequence.
LEMMA PrefixFacts ==
  ASSUME NEW S, NEW s, NEW n \in Nat, \A i \in 1..n : s[i] \in S
  PROVE  /\ SubSeq(s, 1, n) \in Seq(S)
         /\ Len(SubSeq(s, 1, n)) = n
         /\ \A i \in 1..n : SubSeq(s, 1, n)[i] = s[i]
<1>1. /\ SubSeq(s, 1, n) \in Seq(S)
      /\ Len(SubSeq(s, 1, n)) = n
  BY SubSeqProperties, SMT
<1>2. \A i \in 1..n : SubSeq(s, 1, n)[i] = s[i]
  BY SubSeqProperties, SMT
<1> QED
  BY <1>1, <1>2

\* Popping a sequence keeps all elements but the last.
LEMMA FrontFacts ==
  ASSUME NEW S, NEW s \in Seq(S), s # <<>>
  PROVE  /\ Front(s) \in Seq(S)
         /\ Len(s) \in Nat \ {0}
         /\ Len(Front(s)) = Len(s) - 1
         /\ DOMAIN Front(s) = 1..(Len(s) - 1)
         /\ \A i \in 1..(Len(s) - 1) : Front(s)[i] = s[i]
         /\ DOMAIN s = 1..Len(s)
         /\ s[Len(s)] \in S
<1>1. Len(s) \in Nat \ {0}
  BY EmptySeq
<1>2. DOMAIN s = 1..Len(s)
  BY LenProperties
<1>3. /\ SubSeq(s, 1, Len(s) - 1) \in Seq(S)
      /\ Len(SubSeq(s, 1, Len(s) - 1)) = Len(s) - 1
      /\ \A i \in 1..(Len(s) - 1) : SubSeq(s, 1, Len(s) - 1)[i] = s[i]
  <2>1. \A i \in 1..(Len(s) - 1) : s[i] \in S
    BY <1>1, <1>2, LenProperties
  <2> DEFINE n == Len(s) - 1
  <2>2. n \in Nat
    BY <1>1
  <2>3. \A i \in 1..n : s[i] \in S
    BY <2>1
  <2> HIDE DEF n
  <2>4. /\ SubSeq(s, 1, n) \in Seq(S)
        /\ Len(SubSeq(s, 1, n)) = n
        /\ \A i \in 1..n : SubSeq(s, 1, n)[i] = s[i]
    BY <2>2, <2>3, PrefixFacts
  <2> QED
    BY <2>4 DEF n
<1>4. DOMAIN SubSeq(s, 1, Len(s) - 1) = 1..(Len(s) - 1)
  BY <1>3, LenProperties
<1>5. s[Len(s)] \in S
  BY <1>1, LenProperties
<1> QED
  BY <1>1, <1>2, <1>3, <1>4, <1>5 DEF Front

\* Delivering an answer changes only the results of the last frame.
LEMMA DeliveredFacts ==
  ASSUME NEW s \in Seq(Frame), NEW v \in Value
  PROVE  /\ Delivered(s, v) \in Seq(Frame)
         /\ Len(Delivered(s, v)) = Len(s)
         /\ DOMAIN Delivered(s, v) = DOMAIN s
         /\ \A i \in DOMAIN s : /\ Delivered(s, v)[i].key = s[i].key
                                /\ Delivered(s, v)[i].admitted = s[i].admitted
                                /\ i # Len(s) => Delivered(s, v)[i].results = s[i].results
         /\ s # <<>> => Delivered(s, v)[Len(s)].results = Append(s[Len(s)].results, v)
<1>1. CASE s = <<>>
  BY <1>1 DEF Delivered
<1>2. CASE s # <<>>
  <2>1. Len(s) \in DOMAIN s /\ DOMAIN s = 1..Len(s) /\ Len(s) \in Nat \ {0}
    BY <1>2, FrontFacts
  <2> DEFINE last == [s[Len(s)] EXCEPT !.results = Append(@, v)]
  <2>2. s[Len(s)] \in Frame
    BY <2>1
  <2>3. /\ last \in Frame
        /\ last.key = s[Len(s)].key
        /\ last.admitted = s[Len(s)].admitted
        /\ last.results = Append(s[Len(s)].results, v)
    <3> DEFINE rs == Append(s[Len(s)].results, v)
    <3>1. rs \in Seq(Value)
      BY <2>2, AppendProperties DEF Frame
    <3>2. last = [s[Len(s)] EXCEPT !.results = rs]
      OBVIOUS
    <3> HIDE DEF rs
    <3>3. /\ last \in Frame
          /\ last.key = s[Len(s)].key
          /\ last.admitted = s[Len(s)].admitted
          /\ last.results = rs
      BY <2>2, <3>1, <3>2 DEF Frame
    <3> QED
      BY <3>3 DEF rs
  <2>4. Delivered(s, v) = [s EXCEPT ![Len(s)] = last]
    BY <1>2 DEF Delivered
  <2> HIDE DEF last
  <2>5. /\ Delivered(s, v) \in Seq(Frame)
        /\ Len(Delivered(s, v)) = Len(s)
    BY <2>1, <2>3, <2>4, ExceptSeq
  <2> QED
    BY <1>2, <2>1, <2>3, <2>4, <2>5
<1> QED
  BY <1>1, <1>2

\* A request pushes a frame that is not yet admitted and has no results.
LEMMA PushFacts ==
  ASSUME NEW k \in Key, TypeOK, Push(k)
  PROVE  /\ stack' \in Seq(Frame)
         /\ Len(stack') = Len(stack) + 1
         /\ Len(stack) \in Nat
         /\ DOMAIN stack = 1..Len(stack) /\ DOMAIN stack' = 1..(Len(stack) + 1)
         /\ \A i \in 1..Len(stack) : stack'[i] = stack[i]
         /\ stack'[Len(stack) + 1] = [key |-> k, admitted |-> FALSE, results |-> <<>>]
<1> DEFINE f == [key |-> k, admitted |-> FALSE, results |-> <<>>]
<1>1. f \in Frame
  BY DEF Frame
<1>2. stack \in Seq(Frame) /\ stack' = Append(stack, f)
  BY DEF TypeOK, Push
<1> HIDE DEF f
<1>3. /\ stack' \in Seq(Frame)
      /\ Len(stack') = Len(stack) + 1
      /\ \A i \in 1..Len(stack) : stack'[i] = stack[i]
      /\ stack'[Len(stack) + 1] = f
  BY <1>1, <1>2, AppendProperties
<1>4. /\ Len(stack) \in Nat /\ DOMAIN stack = 1..Len(stack)
      /\ DOMAIN stack' = 1..Len(stack')
  BY <1>2, <1>3, LenProperties
<1> QED
  BY <1>3, <1>4 DEF f

\* The next call of a body that has not finished is one of its callees.
LEMMA NextCallFacts ==
  ASSUME TypeOK, Running, ~Finished(Top), Len(Top.results) <= Len(Callees[Top.key])
  PROVE  /\ Len(Top.results) + 1 \in DOMAIN Callees[Top.key]
         /\ NextCall \in Key
         /\ Top.key \in Key
<1>1. Top \in Frame
  BY FrontFacts DEF TypeOK, Running, Top
<1>2. Len(Top.results) \in Nat /\ Top.key \in Key
  BY <1>1 DEF Frame
<1>3. Callees[Top.key] \in Seq(Key)
  BY <1>2, ArenaAssumption
<1>4. Len(Callees[Top.key]) \in Nat /\ DOMAIN Callees[Top.key] = 1..Len(Callees[Top.key])
  BY <1>3, LenProperties
<1>5. Len(Top.results) # Len(Callees[Top.key])
  BY DEF Finished
<1>6. Len(Top.results) + 1 \in 1..Len(Callees[Top.key])
  BY <1>2, <1>4, <1>5
<1>7. Callees[Top.key][Len(Top.results) + 1] \in Key
  BY <1>3, <1>6, LenProperties
<1> QED
  BY <1>2, <1>4, <1>6, <1>7 DEF NextCall

\* The calls still running are not cached, and each was made by the one below.
Nested ==
  /\ \A i \in DOMAIN stack : stack[i].key \notin DOMAIN cache
  /\ \A i \in DOMAIN stack :
       i < Len(stack) =>
         /\ Len(stack[i].results) < Len(Callees[stack[i].key])
         /\ stack[i + 1].key = Callees[stack[i].key][Len(stack[i].results) + 1]

Inv == TypeOK /\ StacksAgree /\ CacheConsistent /\ Nested

\* The parts of the invariant a step that leaves the stack and the cache keeps.
LEMMA RaiseKeepsInv ==
  ASSUME Inv, stack # <<>>, raising' \in Errors,
         UNCHANGED <<open, accepted, cache, evaluating, active, stack>>
  PROVE  Inv'
<1>1. TypeOK'
  BY DEF Inv, TypeOK
<1>2. StacksAgree'
  BY DEF Inv, StacksAgree, Top
<1>3. CacheConsistent'
  BY DEF Inv, CacheConsistent, HandedOver
<1>4. Nested'
  BY DEF Inv, Nested
<1> QED
  BY <1>1, <1>2, <1>3, <1>4 DEF Inv

\* A session begins or ends with nothing running.
LEMMA SessionKeepsInv ==
  ASSUME Inv, stack = <<>>, UNCHANGED <<stack, raising>>, open' \in BOOLEAN,
         accepted' \subseteq Acceptable, cache' = NoAnswers, evaluating' = {}, active' = <<>>
  PROVE  Inv'
<1>0. stack' = <<>> /\ raising' = "none" /\ DOMAIN cache' = {}
  BY DEF Inv, StacksAgree, NoAnswers
<1>1. TypeOK'
  BY <1>0 DEF Inv, TypeOK, NoAnswers
<1>2. StacksAgree'
  BY <1>0 DEF StacksAgree
<1>3. CacheConsistent'
  BY <1>0 DEF CacheConsistent
<1>4. Nested'
  BY <1>0 DEF Nested
<1> QED
  BY <1>1, <1>2, <1>3, <1>4 DEF Inv

\* A new call is on top of the calls that wait for it.
LEMMA PushKeepsInv ==
  ASSUME NEW k \in Key, Inv, open, raising = "none", Push(k),
         stack # <<>> => /\ Top.admitted
                         /\ Len(Top.results) < Len(Callees[Top.key])
                         /\ k = NextCall
  PROVE  Inv'
<1> DEFINE n == Len(stack)
<1>1. /\ stack' \in Seq(Frame) /\ Len(stack') = n + 1 /\ n \in Nat
      /\ DOMAIN stack = 1..n /\ DOMAIN stack' = 1..(n + 1)
      /\ \A i \in 1..n : stack'[i] = stack[i]
      /\ stack'[n + 1].key = k /\ stack'[n + 1].admitted = FALSE /\ stack'[n + 1].results = <<>>
  <2>1. TypeOK
    BY DEF Inv
  <2> DEFINE f == [key |-> k, admitted |-> FALSE, results |-> <<>>]
  <2>2. /\ stack' \in Seq(Frame) /\ Len(stack') = n + 1 /\ n \in Nat
        /\ DOMAIN stack = 1..n /\ DOMAIN stack' = 1..(n + 1)
        /\ \A i \in 1..n : stack'[i] = stack[i]
        /\ stack'[n + 1] = f
    BY <2>1, PushFacts
  <2>3. f.key = k /\ f.admitted = FALSE /\ f.results = <<>>
    OBVIOUS
  <2> HIDE DEF f, n
  <2> QED
    BY <2>2, <2>3
<1>2. /\ k \notin DOMAIN cache /\ k \notin evaluating /\ evaluating' = evaluating \union {k}
      /\ UNCHANGED <<open, accepted, cache, active, raising>>
  BY DEF Push
<1>3. TypeOK'
  BY <1>1, <1>2 DEF Inv, TypeOK
<1>4. stack = <<>> <=> n = 0
  BY EmptySeq DEF Inv, TypeOK
<1>5. n # 0 => stack[n] = Top
  BY DEF Top
<1> HIDE DEF n
<1>6. StacksAgree'
  <2>1. /\ evaluating = {stack[i].key : i \in 1..n}
        /\ \A i, j \in 1..n : stack[i].key = stack[j].key => i = j
        /\ \A i \in 1..n : i < n => stack[i].admitted
        /\ Len(active) = IF n # 0 /\ ~Top.admitted THEN n - 1 ELSE n
        /\ \A i \in DOMAIN active : active[i] = stack[i].key
    BY <1>1, <1>4 DEF Inv, StacksAgree, n
  <2>2. Len(active) = n /\ DOMAIN active = 1..n
    BY <1>1, <1>4, <2>1, LenProperties DEF Inv, TypeOK
  <2>3. evaluating' = {stack'[i].key : i \in 1..(n + 1)}
    BY <1>1, <1>2, <2>1
  <2>4. \A i, j \in 1..(n + 1) : stack'[i].key = stack'[j].key => i = j
    BY <1>1, <1>2, <2>1
  <2>5. \A i \in 1..(n + 1) : i < n + 1 => stack'[i].admitted
    BY <1>1, <1>4, <1>5, <2>1
  <2>6. stack' # <<>> /\ Top'.admitted = FALSE
    BY <1>1, EmptySeq DEF Top
  <2>7. \A i \in DOMAIN active' : active'[i] = stack'[i].key
    BY <1>1, <1>2, <2>1, <2>2
  <2> QED
    BY <1>1, <1>2, <2>2, <2>3, <2>4, <2>5, <2>6, <2>7, SMTT(30) DEF StacksAgree
<1>7. CacheConsistent'
  <2>1. ASSUME NEW i \in 1..(n + 1)
        PROVE  HandedOver(stack[i])'
    <3>1. CASE i \in 1..n
      <4>1. HandedOver(stack[i]) /\ stack'[i] = stack[i] /\ cache' = cache
        BY <1>1, <1>2, <3>1 DEF Inv, CacheConsistent
      <4> QED
        BY <4>1 DEF HandedOver
    <3>2. CASE i = n + 1
      <4>1. Len(Callees[k]) \in Nat
        BY ArenaAssumption, LenProperties
      <4> QED
        BY <1>1, <1>2, <3>2, <4>1 DEF HandedOver
    <3> QED
      BY <1>1, <3>1, <3>2
  <2> QED
    BY <1>1, <1>2, <2>1 DEF Inv, CacheConsistent
<1>8. Nested'
  <2>1. \A i \in 1..n : stack[i].key \notin DOMAIN cache
    BY <1>1 DEF Inv, Nested
  <2>2. \A i \in 1..n : i < n =>
          /\ Len(stack[i].results) < Len(Callees[stack[i].key])
          /\ stack[i + 1].key = Callees[stack[i].key][Len(stack[i].results) + 1]
    BY <1>1 DEF Inv, Nested, n
  <2>3. n # 0 => /\ Len(stack[n].results) < Len(Callees[stack[n].key])
                 /\ k = Callees[stack[n].key][Len(stack[n].results) + 1]
    BY <1>4, <1>5 DEF NextCall
  <2>4. ASSUME NEW i \in 1..(n + 1), i < n + 1
        PROVE  /\ Len(stack'[i].results) < Len(Callees[stack'[i].key])
               /\ stack'[i + 1].key = Callees[stack'[i].key][Len(stack'[i].results) + 1]
    <3>1. i \in 1..n /\ stack'[i] = stack[i]
      BY <1>1, <2>4
    <3>2. CASE i < n
      <4>1. stack'[i + 1] = stack[i + 1]
        BY <1>1, <3>1, <3>2
      <4> QED
        BY <2>2, <3>1, <3>2, <4>1
    <3>3. CASE i = n
      BY <1>1, <2>3, <3>1, <3>3
    <3> QED
      BY <1>1, <3>1, <3>2, <3>3
  <2>5. \A i \in DOMAIN stack' : stack'[i].key \notin DOMAIN cache'
    BY <1>1, <1>2, <2>1
  <2>6. Len(stack') = n + 1 /\ DOMAIN stack' = 1..(n + 1)
    BY <1>1
  <2> QED
    BY <2>4, <2>5, <2>6 DEF Nested
<1> QED
  BY <1>3, <1>6, <1>7, <1>8 DEF Inv

\* Popping the top call leaves the two records of the others.
LEMMA PopFacts ==
  ASSUME Inv, stack # <<>>,
         NEW a, a = IF Top.admitted THEN Front(active) ELSE active
  PROVE  /\ Len(stack) \in Nat \ {0}
         /\ DOMAIN stack = 1..Len(stack)
         /\ evaluating \ {Top.key} = {stack[i].key : i \in 1..(Len(stack) - 1)}
         /\ a \in Seq(Key)
         /\ Len(a) = Len(stack) - 1
         /\ DOMAIN a = 1..(Len(stack) - 1)
         /\ \A i \in 1..(Len(stack) - 1) : a[i] = stack[i].key
<1> DEFINE n == Len(stack)
<1>1. n \in Nat \ {0} /\ DOMAIN stack = 1..n
  BY FrontFacts DEF Inv, TypeOK
<1>2. Top = stack[n]
  BY DEF Top
<1>3. /\ active \in Seq(Key)
      /\ Len(active) = IF ~Top.admitted THEN n - 1 ELSE n
      /\ \A i \in DOMAIN active : active[i] = stack[i].key
      /\ evaluating = {stack[i].key : i \in 1..n}
      /\ \A i, j \in 1..n : stack[i].key = stack[j].key => i = j
  BY <1>1 DEF Inv, TypeOK, StacksAgree
<1>4. DOMAIN active = 1..Len(active)
  BY <1>3, LenProperties
<1> HIDE DEF n
<1>5. evaluating \ {Top.key} = {stack[i].key : i \in 1..(n - 1)}
  BY <1>1, <1>2, <1>3
<1>6. CASE ~Top.admitted
  BY <1>1, <1>3, <1>4, <1>5, <1>6 DEF n
<1>7. CASE Top.admitted
  <2>1. active # <<>>
    BY <1>1, <1>3, <1>7, EmptySeq
  <2>2. /\ a \in Seq(Key) /\ Len(a) = n - 1
        /\ DOMAIN a = 1..(n - 1)
        /\ \A i \in 1..(n - 1) : a[i] = active[i]
    <3>1. a = Front(active) /\ Len(active) = n /\ active \in Seq(Key)
      BY <1>3, <1>7
    <3>2. /\ Front(active) \in Seq(Key)
          /\ Len(Front(active)) = Len(active) - 1
          /\ DOMAIN Front(active) = 1..(Len(active) - 1)
          /\ \A i \in 1..(Len(active) - 1) : Front(active)[i] = active[i]
      BY <2>1, <3>1, FrontFacts, Zenon
    <3> QED
      BY <3>1, <3>2
  <2>3. \A i \in 1..(n - 1) : a[i] = stack[i].key
    BY <1>1, <1>3, <1>4, <1>7, <2>2
  <2> QED
    BY <1>1, <1>5, <2>2, <2>3 DEF n
<1> QED
  BY <1>6, <1>7

\* The records still agree once the top call is forgotten, raised or answered.
LEMMA PopKeepsStacks ==
  ASSUME Inv, stack # <<>>,
         stack' \in Seq(Frame), Len(stack') = Len(stack) - 1,
         \A i \in 1..(Len(stack) - 1) : /\ stack'[i].key = stack[i].key
                                       /\ stack'[i].admitted = stack[i].admitted,
         evaluating' = evaluating \ {Top.key},
         active' = IF Top.admitted THEN Front(active) ELSE active,
         Len(stack) = 1 => raising' = "none",
         UNCHANGED open
  PROVE  StacksAgree'
<1> DEFINE n == Len(stack)
<1>2. /\ n \in Nat \ {0} /\ DOMAIN stack = 1..n
      /\ evaluating' = {stack[i].key : i \in 1..(n - 1)}
      /\ active' \in Seq(Key) /\ Len(active') = n - 1 /\ DOMAIN active' = 1..(n - 1)
      /\ \A i \in 1..(n - 1) : active'[i] = stack[i].key
  BY PopFacts
<1>3. /\ Len(stack') = n - 1 /\ DOMAIN stack' = 1..(n - 1)
      /\ \A i \in 1..(n - 1) : stack'[i].key = stack[i].key /\ stack'[i].admitted = stack[i].admitted
      /\ n = 1 => raising' = "none"
      /\ stack' \in Seq(Frame)
      /\ open' = open
  <2>1. DOMAIN stack' = 1..Len(stack')
    BY LenProperties
  <2> QED
    BY <2>1
<1> HIDE DEF n
<1>4. /\ \A i, j \in 1..n : stack[i].key = stack[j].key => i = j
      /\ \A i \in 1..n : i < n => stack[i].admitted
      /\ open
  BY <1>2 DEF Inv, StacksAgree, n
<1>5. stack' = <<>> => n = 1
  BY <1>2, <1>3, EmptySeq
<1>6. stack' # <<>> => Top'.admitted
  <2>1. SUFFICES ASSUME stack' # <<>> PROVE Top'.admitted
    OBVIOUS
  <2>2. n - 1 \in 1..(n - 1)
    BY <1>2, <1>3, <2>1, EmptySeq
  <2>3. stack'[n - 1].admitted
    BY <1>2, <1>3, <1>4, <2>2
  <2> QED
    BY <1>3, <2>3 DEF Top
<1>7. evaluating' = {stack'[i].key : i \in DOMAIN stack'}
  <2>1. \A i \in 1..(n - 1) : stack'[i].key = stack[i].key
    BY <1>3
  <2>2. {stack'[i].key : i \in 1..(n - 1)} = {stack[i].key : i \in 1..(n - 1)}
    BY <2>1
  <2> QED
    BY <1>2, <1>3, <2>2
<1>8. \A i, j \in DOMAIN stack' : stack'[i].key = stack'[j].key => i = j
  BY <1>2, <1>3, <1>4
<1>9. \A i \in DOMAIN stack' : stack'[i].admitted
  BY <1>2, <1>3, <1>4
<1>10. \A i \in DOMAIN active' : active'[i] = stack'[i].key
  BY <1>2, <1>3
<1> QED
  BY <1>2, <1>3, <1>4, <1>5, <1>6, <1>7, <1>8, <1>9, <1>10 DEF StacksAgree

\* An exception leaves a frame: its finally blocks forget the call.
LEMMA UnwindKeepsInv == Inv /\ Unwind => Inv'
<1> SUFFICES ASSUME Inv, Unwind PROVE Inv'
  OBVIOUS
<1> DEFINE n == Len(stack)
<1>1. /\ stack # <<>> /\ stack' = Front(stack) /\ raising # "none"
      /\ evaluating' = evaluating \ {Top.key}
      /\ active' = IF Top.admitted THEN Front(active) ELSE active
      /\ raising' = IF n = 1 THEN "none" ELSE raising
      /\ UNCHANGED <<open, accepted, cache>>
  BY DEF Unwind
<1>2. /\ n \in Nat \ {0} /\ DOMAIN stack = 1..n
      /\ evaluating' = {stack[i].key : i \in 1..(n - 1)}
      /\ active' \in Seq(Key) /\ Len(active') = n - 1 /\ DOMAIN active' = 1..(n - 1)
      /\ \A i \in 1..(n - 1) : active'[i] = stack[i].key
  BY <1>1, PopFacts
<1>3. /\ stack' \in Seq(Frame) /\ Len(stack') = n - 1 /\ DOMAIN stack' = 1..(n - 1)
      /\ \A i \in 1..(n - 1) : stack'[i] = stack[i]
  BY <1>1, FrontFacts DEF Inv, TypeOK
<1> HIDE DEF n
<1>4. TypeOK'
  BY <1>1, <1>2, <1>3 DEF Inv, TypeOK, Errors
<1>5. StacksAgree'
  BY <1>1, <1>2, <1>3, PopKeepsStacks DEF n
<1>6. CacheConsistent'
  <2>1. \A i \in DOMAIN stack' : HandedOver(stack[i]) /\ stack'[i] = stack[i]
    BY <1>2, <1>3 DEF Inv, CacheConsistent
  <2>2. \A i \in DOMAIN stack' : HandedOver(stack[i])'
    BY <1>1, <2>1 DEF HandedOver
  <2> QED
    BY <1>1, <2>2 DEF Inv, CacheConsistent
<1>7. Nested'
  <2>1. /\ \A i \in 1..n : stack[i].key \notin DOMAIN cache
        /\ \A i \in 1..n : i < n =>
             /\ Len(stack[i].results) < Len(Callees[stack[i].key])
             /\ stack[i + 1].key = Callees[stack[i].key][Len(stack[i].results) + 1]
    BY <1>2 DEF Inv, Nested, n
  <2>2. \A i \in 1..(n - 1) : stack'[i].key \notin DOMAIN cache'
    BY <1>1, <1>2, <1>3, <2>1
  <2>3. ASSUME NEW i \in 1..(n - 1), i < n - 1
        PROVE  /\ Len(stack'[i].results) < Len(Callees[stack'[i].key])
               /\ stack'[i + 1].key = Callees[stack'[i].key][Len(stack'[i].results) + 1]
    <3>1. i \in 1..n /\ i < n /\ stack'[i] = stack[i] /\ stack'[i + 1] = stack[i + 1]
      BY <1>2, <1>3, <2>3
    <3> QED
      BY <2>1, <3>1
  <2> QED
    BY <1>3, <2>2, <2>3 DEF Nested
<1> QED
  BY <1>4, <1>5, <1>6, <1>7 DEF Inv

\* A call that passes the Stratum check becomes active.
LEMMA AdmitKeepsInv == Inv /\ Admit => Inv'
<1> SUFFICES ASSUME Inv, Admit PROVE Inv'
  OBVIOUS
<1> DEFINE n == Len(stack)
<1>1. /\ stack # <<>> /\ open /\ raising = "none" /\ ~Top.admitted
      /\ active' = Append(active, Top.key)
      /\ stack' = [stack EXCEPT ![n].admitted = TRUE]
      /\ UNCHANGED <<open, accepted, cache, evaluating, raising>>
  BY DEF Admit, Entering
<1>2. /\ n \in Nat \ {0} /\ DOMAIN stack = 1..n /\ stack[n] \in Frame /\ Top = stack[n]
  BY <1>1, FrontFacts DEF Inv, TypeOK, Top
<1>21. n = Len(stack)
  OBVIOUS
<1> HIDE DEF n
<1>3. /\ stack' \in Seq(Frame) /\ Len(stack') = n /\ DOMAIN stack' = 1..n
      /\ \A i \in 1..n : /\ stack'[i].key = stack[i].key
                         /\ stack'[i].results = stack[i].results
                         /\ i < n => stack'[i] = stack[i]
      /\ stack'[n].admitted = TRUE
  <2> DEFINE f == [stack[n] EXCEPT !.admitted = TRUE]
  <2>1. f \in Frame /\ f.key = stack[n].key /\ f.results = stack[n].results /\ f.admitted = TRUE
    BY <1>2 DEF Frame
  <2>2. stack' = [stack EXCEPT ![n] = f] /\ stack \in Seq(Frame) /\ n \in 1..n
    BY <1>1, <1>2 DEF Inv, TypeOK
  <2> HIDE DEF f
  <2>3. /\ stack' \in Seq(Frame) /\ Len(stack') = n
        /\ \A i \in 1..n : stack'[i] = IF i = n THEN f ELSE stack[i]
    BY <1>21, <2>1, <2>2, ExceptSeq
  <2>4. /\ \A i \in 1..n : /\ stack'[i].key = stack[i].key
                           /\ stack'[i].results = stack[i].results
                           /\ i < n => stack'[i] = stack[i]
        /\ stack'[n].admitted = TRUE
    <3>1. stack'[n] = f
      BY <1>2, <2>3
    <3>2. \A i \in 1..n : i # n => stack'[i] = stack[i]
      BY <1>2, <2>3
    <3>3. \A i \in 1..n : i < n => i # n
      BY <1>2
    <3> QED
      BY <2>1, <3>1, <3>2, <3>3
  <2>5. DOMAIN stack' = 1..n
    BY <2>3, LenProperties
  <2> QED
    BY <2>3, <2>4, <2>5
<1>4. /\ active \in Seq(Key) /\ Len(active) = n - 1 /\ Top.key \in Key
      /\ \A i \in 1..(n - 1) : active[i] = stack[i].key
  <2>1. active \in Seq(Key) /\ Len(active) = n - 1 /\ Top.key \in Key
    BY <1>1, <1>2 DEF Inv, TypeOK, StacksAgree, Frame, n
  <2>2. DOMAIN active = 1..(n - 1)
    BY <2>1, LenProperties
  <2> QED
    BY <2>1, <2>2 DEF Inv, StacksAgree
<1>5. /\ active' \in Seq(Key) /\ Len(active') = n /\ DOMAIN active' = 1..n
      /\ \A i \in 1..n : active'[i] = stack[i].key
  <2>1. /\ active' \in Seq(Key) /\ Len(active') = n - 1 + 1
        /\ \A i \in 1..(n - 1) : active'[i] = active[i]
        /\ active'[n - 1 + 1] = Top.key
    BY <1>1, <1>4, AppendProperties
  <2>2. n - 1 + 1 = n /\ \A i \in 1..n : i = n \/ i \in 1..(n - 1)
    BY <1>2
  <2> QED
    BY <1>2, <1>4, <2>1, <2>2, LenProperties
<1>6. TypeOK'
  BY <1>1, <1>3, <1>5 DEF Inv, TypeOK
<1>7. StacksAgree'
  <2>1. /\ evaluating = {stack[i].key : i \in 1..n}
        /\ \A i, j \in 1..n : stack[i].key = stack[j].key => i = j
        /\ \A i \in 1..n : i < n => stack[i].admitted
    BY <1>2 DEF Inv, StacksAgree, n
  <2>2. stack' # <<>> /\ Top'.admitted
    BY <1>2, <1>3, EmptySeq DEF Top
  <2>3. evaluating' = {stack'[i].key : i \in DOMAIN stack'}
    BY <1>1, <1>3, <2>1
  <2>4. \A i, j \in DOMAIN stack' : stack'[i].key = stack'[j].key => i = j
    BY <1>3, <2>1
  <2>5. \A i \in DOMAIN stack' : stack'[i].admitted
    BY <1>2, <1>3, <2>1
  <2>6. \A i \in DOMAIN active' : active'[i] = stack'[i].key
    BY <1>3, <1>5
  <2> QED
    BY <1>1, <1>3, <1>5, <2>2, <2>3, <2>4, <2>5, <2>6 DEF StacksAgree
<1>8. CacheConsistent'
  <2>1. \A i \in 1..n : HandedOver(stack[i])
    BY <1>2 DEF Inv, CacheConsistent
  <2>2. \A i \in DOMAIN stack' : HandedOver(stack[i])'
    BY <1>1, <1>3, <2>1 DEF HandedOver
  <2> QED
    BY <1>1, <2>2 DEF Inv, CacheConsistent
<1>9. Nested'
  BY <1>1, <1>2, <1>3, SMTT(30) DEF Inv, Nested, n
<1> QED
  BY <1>6, <1>7, <1>8, <1>9 DEF Inv

\* HandedOver for a cache c.
Given(c, f) ==
  /\ Len(f.results) <= Len(Callees[f.key])
  /\ \A i \in DOMAIN f.results : /\ Callees[f.key][i] \in DOMAIN c
                                /\ f.results[i] = c[Callees[f.key][i]]

\* A body is handed the cached value of the call it made.
LEMMA GivenStep ==
  ASSUME NEW c, NEW f \in Frame, NEW g, Given(c, f),
         Len(f.results) < Len(Callees[f.key]),
         Callees[f.key][Len(f.results) + 1] \in DOMAIN c,
         c[Callees[f.key][Len(f.results) + 1]] \in Value,
         g.key = f.key,
         g.results = Append(f.results, c[Callees[f.key][Len(f.results) + 1]])
  PROVE  Given(c, g)
<1> DEFINE r == Len(f.results)
           v == c[Callees[f.key][r + 1]]
<1>1. f.results \in Seq(Value) /\ r \in Nat /\ DOMAIN f.results = 1..r
  BY LenProperties DEF Frame
<1>2. Callees[f.key] \in Seq(Key) /\ Len(Callees[f.key]) \in Nat
  BY ArenaAssumption, LenProperties DEF Frame
<1>3. v \in Value
  OBVIOUS
<1> HIDE DEF v
<1>4. /\ g.results \in Seq(Value) /\ Len(g.results) = r + 1
      /\ \A i \in 1..r : g.results[i] = f.results[i]
      /\ g.results[r + 1] = v
  BY <1>1, <1>3, AppendProperties DEF v
<1>5. DOMAIN g.results = 1..(r + 1)
  BY <1>4, LenProperties
<1>6. Len(g.results) <= Len(Callees[g.key])
  BY <1>1, <1>2, <1>4
<1>7. ASSUME NEW i \in 1..(r + 1)
      PROVE  /\ Callees[g.key][i] \in DOMAIN c
             /\ g.results[i] = c[Callees[g.key][i]]
  <2>1. CASE i \in 1..r
    BY <1>1, <1>4, <2>1 DEF Given
  <2>2. CASE i = r + 1
    BY <1>4, <2>2 DEF v
  <2> QED
    BY <1>1, <2>1, <2>2
<1> QED
  BY <1>5, <1>6, <1>7 DEF Given

\* A cached call answers at once.
LEMMA HitKeepsInv == Inv /\ Hit => Inv'
<1> SUFFICES ASSUME Inv, Hit PROVE Inv'
  OBVIOUS
<1> DEFINE n == Len(stack)
           v == cache[NextCall]
<1>1. /\ stack # <<>> /\ open /\ raising = "none" /\ Top.admitted /\ ~Finished(Top)
      /\ NextCall \in DOMAIN cache
      /\ stack' = Delivered(stack, v)
      /\ UNCHANGED <<open, accepted, cache, evaluating, active, raising>>
  BY DEF Hit, Running
<1>2. /\ stack \in Seq(Frame) /\ n \in Nat \ {0} /\ DOMAIN stack = 1..n
      /\ stack[n] \in Frame /\ Top = stack[n] /\ v \in Value
  BY <1>1, FrontFacts DEF Inv, TypeOK, Top
<1>3. /\ stack' \in Seq(Frame) /\ Len(stack') = n /\ DOMAIN stack' = 1..n
      /\ \A i \in 1..n : /\ stack'[i].key = stack[i].key
                         /\ stack'[i].admitted = stack[i].admitted
                         /\ i # n => stack'[i].results = stack[i].results
      /\ stack'[n].results = Append(stack[n].results, v)
  <2> HIDE DEF n, v
  <2>1. /\ Delivered(stack, v) \in Seq(Frame)
        /\ Len(Delivered(stack, v)) = Len(stack)
        /\ DOMAIN Delivered(stack, v) = DOMAIN stack
        /\ \A i \in DOMAIN stack :
             /\ Delivered(stack, v)[i].key = stack[i].key
             /\ Delivered(stack, v)[i].admitted = stack[i].admitted
             /\ i # Len(stack) => Delivered(stack, v)[i].results = stack[i].results
        /\ Delivered(stack, v)[Len(stack)].results = Append(stack[Len(stack)].results, v)
    BY <1>1, <1>2, DeliveredFacts
  <2> QED
    BY <1>1, <1>2, <2>1, Zenon DEF n
<1>4. n = Len(stack) /\ v = cache[NextCall]
  OBVIOUS
<1> HIDE DEF n, v
<1>5. TypeOK'
  BY <1>1, <1>3 DEF Inv, TypeOK
<1>6. StacksAgree'
  <2>1. /\ evaluating = {stack[i].key : i \in 1..n}
        /\ \A i, j \in 1..n : stack[i].key = stack[j].key => i = j
        /\ \A i \in 1..n : i < n => stack[i].admitted
        /\ Len(active) = n
        /\ \A i \in DOMAIN active : active[i] = stack[i].key
    BY <1>1, <1>2, <1>4 DEF Inv, StacksAgree
  <2>2. DOMAIN active = 1..n
    BY <2>1, LenProperties DEF Inv, TypeOK
  <2>3. stack' # <<>> /\ Top'.admitted
    BY <1>1, <1>2, <1>3, EmptySeq DEF Top
  <2>4. {stack'[i].key : i \in 1..n} = {stack[i].key : i \in 1..n}
    BY <1>3
  <2>5. evaluating' = {stack'[i].key : i \in DOMAIN stack'}
    BY <1>1, <1>3, <2>1, <2>4
  <2>6. \A i, j \in DOMAIN stack' : stack'[i].key = stack'[j].key => i = j
    BY <1>3, <2>1
  <2>7. \A i \in DOMAIN stack' : i < n => stack'[i].admitted
    BY <1>3, <2>1
  <2>8. \A i \in DOMAIN active' : active'[i] = stack'[i].key
    BY <1>1, <1>3, <2>1, <2>2
  <2>9. /\ DOMAIN stack' = 1..n /\ Len(stack') = n /\ Len(active') = n
        /\ open' /\ raising' = "none"
    BY <1>1, <1>3, <2>1
  <2> QED
    BY <2>3, <2>5, <2>6, <2>7, <2>8, <2>9 DEF StacksAgree
<1>7. Len(stack[n].results) < Len(Callees[stack[n].key])
  <2>1. /\ Len(stack[n].results) <= Len(Callees[stack[n].key])
        /\ Len(stack[n].results) # Len(Callees[stack[n].key])
    BY <1>1, <1>2 DEF Inv, CacheConsistent, HandedOver, Finished
  <2>2. Len(stack[n].results) \in Nat /\ Len(Callees[stack[n].key]) \in Nat
    BY <1>2, ArenaAssumption, LenProperties DEF Frame
  <2> QED
    BY <2>1, <2>2
<1>8. CacheConsistent'
  <2>1. \A i \in 1..n : Given(cache, stack[i])
    BY <1>2 DEF Inv, CacheConsistent, HandedOver, Given
  <2>2. ASSUME NEW i \in 1..n
        PROVE  Given(cache, stack'[i])
    <3>1. CASE i = n
      <4>1. NextCall = Callees[stack[n].key][Len(stack[n].results) + 1]
        BY <1>2 DEF NextCall
      <4>2. /\ stack[n] \in Frame /\ Given(cache, stack[n])
            /\ stack'[n].key = stack[n].key /\ n \in 1..n
            /\ stack'[n].results = Append(stack[n].results, cache[NextCall])
            /\ NextCall \in DOMAIN cache /\ cache[NextCall] \in Value
        <5>1. n \in 1..n
          BY <1>2
        <5> QED
          BY <1>1, <1>2, <1>3, <1>4, <2>1, <5>1, Zenon
      <4> QED
        BY <1>7, <3>1, <4>1, <4>2, GivenStep
    <3>2. CASE i # n
      BY <1>3, <2>1, <3>2, SMTT(30) DEF Given
    <3> QED
      BY <3>1, <3>2
  <2>3. \A i \in DOMAIN stack' : HandedOver(stack[i])'
    BY <1>1, <1>3, <2>2 DEF Given, HandedOver
  <2> QED
    BY <1>1, <2>3 DEF Inv, CacheConsistent
<1>9. Nested'
  <2>1. /\ \A i \in 1..n : stack[i].key \notin DOMAIN cache
        /\ \A i \in 1..n : i < n =>
             /\ Len(stack[i].results) < Len(Callees[stack[i].key])
             /\ stack[i + 1].key = Callees[stack[i].key][Len(stack[i].results) + 1]
    BY <1>2, <1>4 DEF Inv, Nested
  <2>2. \A i \in 1..n : i < n => i + 1 \in 1..n /\ i # n
    BY <1>2
  <2>3. ASSUME NEW i \in 1..n, i < n
        PROVE  /\ Len(stack'[i].results) < Len(Callees[stack'[i].key])
               /\ stack'[i + 1].key = Callees[stack'[i].key][Len(stack'[i].results) + 1]
    <3>1. /\ stack'[i].key = stack[i].key /\ stack'[i].results = stack[i].results
          /\ stack'[i + 1].key = stack[i + 1].key
      BY <1>3, <2>2, <2>3
    <3> QED
      BY <2>1, <2>3, <3>1
  <2>4. \A i \in 1..n : stack'[i].key \notin DOMAIN cache'
    BY <1>1, <1>3, <2>1
  <2>5. DOMAIN stack' = 1..n /\ Len(stack') = n
    BY <1>3
  <2> QED
    BY <2>3, <2>4, <2>5 DEF Nested
<1> QED
  BY <1>5, <1>6, <1>8, <1>9 DEF Inv

\* A call returns: its value is cached and handed to its caller.
LEMMA ReturnKeepsInv == Inv /\ Return => Inv'
<1> SUFFICES ASSUME Inv, Return PROVE Inv'
  OBVIOUS
<1> DEFINE n == Len(stack)
           top == Top.key
           value == top \in accepted \/ Rule(top, Top.results)
<1>1. /\ stack # <<>> /\ open /\ raising = "none" /\ Top.admitted /\ Finished(Top)
      /\ cache' = [k \in DOMAIN cache \union {top} |-> IF k = top THEN value ELSE cache[k]]
      /\ stack' = Delivered(Front(stack), value)
      /\ evaluating' = evaluating \ {top} /\ active' = Front(active)
      /\ UNCHANGED <<open, accepted, raising>>
  BY DEF Return, Running
<1>2. /\ stack \in Seq(Frame) /\ n \in Nat \ {0} /\ DOMAIN stack = 1..n
      /\ stack[n] \in Frame /\ Top = stack[n] /\ n \in 1..n
  BY <1>1, FrontFacts DEF Inv, TypeOK, Top
<1>3. /\ top \in Key /\ top = stack[n].key /\ stack[n].results \in Seq(Value)
      /\ top \notin DOMAIN cache
  BY <1>2 DEF Frame, Inv, Nested
<1>4. value \in Value
  BY DEF Value
<1>5. value = (top \in accepted \/ Rule(top, stack[n].results))
  BY <1>2
<1>6. n = Len(stack) /\ top = Top.key
  OBVIOUS
<1> HIDE DEF n, top, value
<1>7. /\ stack' \in Seq(Frame) /\ Len(stack') = n - 1 /\ DOMAIN stack' = 1..(n - 1)
      /\ \A i \in 1..(n - 1) : /\ stack'[i].key = stack[i].key
                               /\ stack'[i].admitted = stack[i].admitted
                               /\ i # n - 1 => stack'[i].results = stack[i].results
      /\ n # 1 => stack'[n - 1].results = Append(stack[n - 1].results, value)
  <2> DEFINE s == Front(stack)
  <2>1. /\ s \in Seq(Frame) /\ Len(s) = n - 1 /\ DOMAIN s = 1..(n - 1)
        /\ \A i \in 1..(n - 1) : s[i] = stack[i]
    BY <1>1, <1>2, <1>6, FrontFacts
  <2>2. stack' = Delivered(s, value)
    BY <1>1
  <2> HIDE DEF s
  <2>3. /\ Delivered(s, value) \in Seq(Frame)
        /\ Len(Delivered(s, value)) = Len(s)
        /\ DOMAIN Delivered(s, value) = DOMAIN s
        /\ \A i \in DOMAIN s : /\ Delivered(s, value)[i].key = s[i].key
                               /\ Delivered(s, value)[i].admitted = s[i].admitted
                               /\ i # Len(s) => Delivered(s, value)[i].results = s[i].results
        /\ s # <<>> => Delivered(s, value)[Len(s)].results = Append(s[Len(s)].results, value)
    BY <1>4, <2>1, DeliveredFacts
  <2>4. n # 1 => s # <<>> /\ n - 1 \in 1..(n - 1)
    BY <1>2, <2>1, EmptySeq
  <2> QED
    BY <2>1, <2>2, <2>3, <2>4, Zenon
<1>8. /\ DOMAIN cache' = DOMAIN cache \union {top} /\ cache'[top] = value
      /\ \A k \in DOMAIN cache : cache'[k] = cache[k]
  BY <1>1, <1>3
<1>9. /\ active' = (IF Top.admitted THEN Front(active) ELSE active)
      /\ evaluating' = evaluating \ {Top.key}
  BY <1>1, <1>6
<1>10. StacksAgree'
  <2>1. raising' = "none" /\ UNCHANGED open
    BY <1>1
  <2> QED
    BY <1>1, <1>6, <1>7, <1>9, <2>1, PopKeepsStacks
<1>11. TypeOK'
  <2>1. active' \in Seq(Key)
    BY <1>1, <1>9, PopFacts
  <2>2. DOMAIN cache' \subseteq Key /\ \A k \in DOMAIN cache' : cache'[k] \in Value
    BY <1>3, <1>4, <1>8 DEF Inv, TypeOK
  <2>3. evaluating' \subseteq Key
    BY <1>1 DEF Inv, TypeOK
  <2> QED
    BY <1>1, <1>7, <2>1, <2>2, <2>3 DEF Inv, TypeOK
<1>12. \A i \in 1..n : Given(cache, stack[i]) /\ Given(cache', stack[i])
  <2>1. \A i \in 1..n : Given(cache, stack[i])
    BY <1>2 DEF Inv, CacheConsistent, HandedOver, Given
  <2> QED
    BY <1>8, <2>1 DEF Given
<1>13. CacheConsistent'
  <2>1. ASSUME NEW k \in DOMAIN cache, k \notin accepted
        PROVE  /\ \A i \in DOMAIN Callees[k] : Callees[k][i] \in DOMAIN cache'
               /\ cache'[k] = Rule(k, [i \in DOMAIN Callees[k] |-> cache'[Callees[k][i]]])
    <3>1. /\ \A i \in DOMAIN Callees[k] : Callees[k][i] \in DOMAIN cache
          /\ cache[k] = Rule(k, [i \in DOMAIN Callees[k] |-> cache[Callees[k][i]]])
      BY <2>1 DEF Inv, CacheConsistent
    <3>2. [i \in DOMAIN Callees[k] |-> cache'[Callees[k][i]]]
            = [i \in DOMAIN Callees[k] |-> cache[Callees[k][i]]]
      BY <1>8, <3>1
    <3> QED
      BY <1>8, <3>1, <3>2
  <2>2. ASSUME top \notin accepted
        PROVE  /\ \A i \in DOMAIN Callees[top] : Callees[top][i] \in DOMAIN cache'
               /\ cache'[top] = Rule(top, [i \in DOMAIN Callees[top] |-> cache'[Callees[top][i]]])
    <3>1. Len(stack[n].results) = Len(Callees[top])
      BY <1>1, <1>2, <1>3, <2>2 DEF Finished
    <3>2. /\ Callees[top] \in Seq(Key) /\ DOMAIN Callees[top] = 1..Len(Callees[top])
          /\ DOMAIN stack[n].results = 1..Len(Callees[top])
      BY <1>3, <3>1, ArenaAssumption, LenProperties
    <3>3. stack[n].results \in [1..Len(Callees[top]) -> Value]
      BY <1>3, <3>1, LenProperties
    <3>4. \A i \in DOMAIN Callees[top] : /\ Callees[top][i] \in DOMAIN cache'
                                         /\ stack[n].results[i] = cache'[Callees[top][i]]
      BY <1>2, <1>3, <1>12, <3>2 DEF Given
    <3>5. stack[n].results = [i \in DOMAIN Callees[top] |-> cache'[Callees[top][i]]]
      BY <3>2, <3>3, <3>4
    <3>6. Rule(top, stack[n].results) \in BOOLEAN
      BY <1>3, <3>3, ArenaAssumption DEF Value
    <3>7. value = Rule(top, stack[n].results)
      BY <1>5, <2>2, <3>6
    <3> QED
      BY <1>8, <3>4, <3>5, <3>7
  <2>3. \A k \in DOMAIN cache' : k \in accepted => cache'[k]
    BY <1>5, <1>8 DEF Inv, CacheConsistent
  <2>4. ASSUME NEW k \in DOMAIN cache'
        PROVE  IF k \in accepted' THEN cache'[k]
               ELSE /\ \A i \in DOMAIN Callees[k] : Callees[k][i] \in DOMAIN cache'
                    /\ cache'[k] = Rule(k, [i \in DOMAIN Callees[k] |-> cache'[Callees[k][i]]])
    <3>1. CASE k \in accepted
      BY <1>1, <2>3, <3>1
    <3>2. CASE k \notin accepted
      <4>1. k \in DOMAIN cache \/ k = top
        BY <1>8
      <4>2. /\ \A i \in DOMAIN Callees[k] : Callees[k][i] \in DOMAIN cache'
            /\ cache'[k] = Rule(k, [i \in DOMAIN Callees[k] |-> cache'[Callees[k][i]]])
        BY <2>1, <2>2, <3>2, <4>1, Zenon
      <4>3. k \notin accepted'
        BY <1>1, <3>2
      <4> QED
        BY <4>2, <4>3
    <3> QED
      BY <3>1, <3>2
  <2>5. ASSUME NEW i \in 1..(n - 1)
        PROVE  Given(cache', stack'[i])
    <3>1. i \in 1..n /\ i < n
      BY <1>2
    <3>2. CASE i # n - 1
      <4>1. stack'[i].key = stack[i].key /\ stack'[i].results = stack[i].results
        BY <1>7, <3>2
      <4>2. Given(cache', stack[i])
        BY <1>12, <3>1
      <4> QED
        BY <4>1, <4>2 DEF Given
    <3>3. CASE i = n - 1
      <4>1. i + 1 = n /\ i \in DOMAIN stack /\ i < Len(stack) /\ n # 1
        BY <1>2, <1>6, <3>1, <3>3
      <4>2. /\ Len(stack[i].results) < Len(Callees[stack[i].key])
            /\ stack[i + 1].key = Callees[stack[i].key][Len(stack[i].results) + 1]
        BY <4>1 DEF Inv, Nested
      <4>3. top = Callees[stack[i].key][Len(stack[i].results) + 1]
        BY <1>3, <4>1, <4>2
      <4>4. top \in DOMAIN cache' /\ cache'[top] = value /\ cache'[top] \in Value
        BY <1>4, <1>8
      <4>5. stack[i] \in Frame /\ Given(cache', stack[i])
        BY <1>2, <1>12, <3>1, LenProperties
      <4>6. stack'[i].key = stack[i].key
        BY <1>7
      <4>7. stack'[i].results = Append(stack[i].results, cache'[top])
        BY <1>7, <3>3, <4>1, <4>4
      <4> QED
        BY <4>2, <4>3, <4>4, <4>5, <4>6, <4>7, GivenStep
    <3> QED
      BY <3>2, <3>3
  <2>6. \A i \in DOMAIN stack' : HandedOver(stack[i])'
    BY <1>7, <2>5 DEF Given, HandedOver
  <2> QED
    BY <2>4, <2>6 DEF CacheConsistent
<1>14. Nested'
  <2>1. /\ \A i \in 1..n : stack[i].key \notin DOMAIN cache
        /\ \A i \in 1..n : i < n =>
             /\ Len(stack[i].results) < Len(Callees[stack[i].key])
             /\ stack[i + 1].key = Callees[stack[i].key][Len(stack[i].results) + 1]
        /\ \A i \in 1..n : i < n => stack[i].key # stack[n].key
    <3>1. \A i \in 1..n : i < n => i # n
      BY <1>2
    <3>2. \A i \in 1..n : i # n => stack[i].key # stack[n].key
      BY <1>2 DEF Inv, StacksAgree
    <3> QED
      BY <1>2, <1>6, <3>1, <3>2 DEF Inv, Nested
  <2>2. \A i \in 1..(n - 1) : stack'[i].key \notin DOMAIN cache'
    <3>1. \A i \in 1..(n - 1) : i \in 1..n /\ i < n
      BY <1>2
    <3> QED
      BY <1>3, <1>7, <1>8, <2>1, <3>1
  <2>3. ASSUME NEW i \in 1..(n - 1), i < n - 1
        PROVE  /\ Len(stack'[i].results) < Len(Callees[stack'[i].key])
               /\ stack'[i + 1].key = Callees[stack'[i].key][Len(stack'[i].results) + 1]
    <3>1. i \in 1..n /\ i < n /\ i + 1 \in 1..(n - 1) /\ i # n - 1
      BY <1>2, <2>3
    <3>2. /\ stack'[i].key = stack[i].key /\ stack'[i].results = stack[i].results
          /\ stack'[i + 1].key = stack[i + 1].key
      BY <1>7, <3>1
    <3> QED
      BY <2>1, <3>1, <3>2
  <2>4. DOMAIN stack' = 1..(n - 1) /\ Len(stack') = n - 1
    BY <1>7
  <2> QED
    BY <2>2, <2>3, <2>4 DEF Nested
<1> QED
  BY <1>10, <1>11, <1>13, <1>14 DEF Inv

-----------------------------------------------------------------------------
\* A session starts with nothing asked.
LEMMA InitInv == Init => Inv
<1> SUFFICES ASSUME Init PROVE Inv
  OBVIOUS
<1>1. DOMAIN cache = {} /\ stack = <<>> /\ active = <<>> /\ evaluating = {} /\ raising = "none"
  BY DEF Init, NoAnswers
<1>2. TypeOK
  <2>1. /\ open \in BOOLEAN /\ accepted \subseteq Acceptable
        /\ evaluating \subseteq Key /\ raising \in Errors \union {"none"}
    BY <1>1 DEF Init
  <2>2. active \in Seq(Key) /\ stack \in Seq(Frame)
    BY <1>1, EmptySeq
  <2>3. DOMAIN cache \subseteq Key /\ \A k \in DOMAIN cache : cache[k] \in Value
    BY <1>1
  <2> QED
    BY <2>1, <2>2, <2>3 DEF TypeOK
<1>3. StacksAgree
  BY <1>1 DEF StacksAgree
<1>4. CacheConsistent /\ Nested
  BY <1>1 DEF CacheConsistent, Nested
<1> QED
  BY <1>2, <1>3, <1>4 DEF Inv

\* A call, made by a body or from outside, that is not cached yet.
LEMMA CallFacts ==
  ASSUME Inv, Running, ~Finished(Top)
  PROVE  NextCall \in Key /\ Len(Top.results) < Len(Callees[Top.key])
<1>1. stack \in Seq(Frame) /\ stack # <<>> /\ Len(stack) \in DOMAIN stack /\ Top \in Frame
  BY FrontFacts DEF Inv, TypeOK, Running, Top
<1>2. Len(Top.results) <= Len(Callees[Top.key])
  BY <1>1 DEF Inv, CacheConsistent, HandedOver, Top
<1>3. NextCall \in Key
  BY <1>2, NextCallFacts DEF Inv
<1>4. Len(Top.results) \in Nat /\ Len(Callees[Top.key]) \in Nat
  BY <1>1, ArenaAssumption, LenProperties DEF Frame
<1>5. Len(Top.results) # Len(Callees[Top.key])
  BY DEF Finished
<1> QED
  BY <1>2, <1>3, <1>4, <1>5

\* Every step keeps the invariant.
LEMMA NextInv == Inv /\ [Next]_vars => Inv'
<1> SUFFICES ASSUME Inv, [Next]_vars PROVE Inv'
  OBVIOUS
<1>1. CASE Open
  <2>1. stack = <<>>
    BY <1>1 DEF Open, Inv, StacksAgree
  <2> QED
    BY <1>1, <2>1, SessionKeepsInv DEF Open
<1>2. CASE Close
  <2>1. open' \in BOOLEAN /\ accepted' \subseteq Acceptable
    BY <1>2 DEF Close
  <2> QED
    BY <1>2, <2>1, SessionKeepsInv DEF Close
<1>3. ASSUME NEW k \in Key, Ask(k)
      PROVE  Inv'
  <2>1. stack = <<>> /\ open /\ raising = "none" /\ Push(k)
    BY <1>3 DEF Ask, Inv, StacksAgree
  <2> QED
    BY <2>1, PushKeepsInv
<1>4. CASE Hit
  BY <1>4, HitKeepsInv
<1>5. CASE Miss
  <2>1. /\ stack # <<>> /\ open /\ raising = "none" /\ Top.admitted
        /\ ~Finished(Top) /\ Running /\ Push(NextCall)
    BY <1>5 DEF Miss, Running
  <2>2. NextCall \in Key /\ Len(Top.results) < Len(Callees[Top.key])
    BY <2>1, CallFacts
  <2> QED
    BY <2>1, <2>2, PushKeepsInv
<1>6. CASE Cycle
  BY <1>6, RaiseKeepsInv DEF Cycle, Running, Errors
<1>7. CASE Admit
  BY <1>7, AdmitKeepsInv
<1>8. CASE Reject
  BY <1>8, RaiseKeepsInv DEF Reject, Entering, Errors
<1>9. CASE Return
  BY <1>9, ReturnKeepsInv
<1>10. CASE Fail
  BY <1>10, RaiseKeepsInv DEF Fail, Running, Errors
<1>11. CASE Unwind
  BY <1>11, UnwindKeepsInv
<1>12. CASE UNCHANGED vars
  <2>1. TypeOK' /\ StacksAgree'
    BY <1>12 DEF vars, Inv, TypeOK, StacksAgree, Top
  <2>2. CacheConsistent' /\ Nested'
    BY <1>12 DEF vars, Inv, CacheConsistent, HandedOver, Nested
  <2> QED
    BY <2>1, <2>2 DEF Inv
<1> QED
  BY <1>1, <1>2, <1>3, <1>4, <1>5, <1>6, <1>7, <1>8, <1>9, <1>10, <1>11, <1>12
  DEF Next, Evaluate

\* The invariant holds in every reachable state.
THEOREM InvHolds == Spec => []Inv
<1>1. Init => Inv
  BY InitInv
<1>2. Inv /\ [Next]_vars => Inv'
  BY NextInv
<1> QED
  BY <1>1, <1>2, PTL DEF Spec

\* Every variable of the engine keeps its type.
THEOREM EngineTypeCorrect == Spec => []TypeOK
<1>1. Inv => TypeOK
  BY DEF Inv
<1> QED
  BY <1>1, InvHolds, PTL

\* `evaluating` and `active` are the calls on the Python stack, whatever raised.
THEOREM StacksAlwaysAgree == Spec => []StacksAgree
<1>1. Inv => StacksAgree
  BY DEF Inv
<1> QED
  BY <1>1, InvHolds, PTL

\* Every cached answer is accepted or the rule's value on cached answers.
THEOREM CacheAlwaysConsistent == Spec => []CacheConsistent
<1>1. Inv => CacheConsistent
  BY DEF Inv
<1> QED
  BY <1>1, InvHolds, PTL

\* Only a new call adds a frame, no step changes the call a frame is for, and
\* only Admit admits it.
LEMMA OtherStepsShrink ==
  ASSUME Inv,
         \/ Open \/ Close \/ Hit \/ Cycle \/ Admit \/ Reject
         \/ Return \/ Fail \/ Unwind \/ UNCHANGED vars
  PROVE  /\ DOMAIN stack' \subseteq DOMAIN stack
         /\ \A i \in DOMAIN stack' :
               /\ stack'[i].key = stack[i].key
               /\ Admit \/ stack'[i].admitted = stack[i].admitted
<1>0. TypeOK /\ stack \in Seq(Frame)
  BY DEF Inv, TypeOK
<1>1. CASE Hit
  <2>1. cache[NextCall] \in Value /\ stack' = Delivered(stack, cache[NextCall])
    BY <1>0, <1>1 DEF Hit, TypeOK
  <2> QED
    BY <1>0, <2>1, DeliveredFacts
<1>2. CASE Admit
  BY <1>0, <1>2, LenProperties DEF Admit
<1>3. ASSUME stack # <<>>
      PROVE  /\ DOMAIN Front(stack) \subseteq DOMAIN stack
             /\ Front(stack) \in Seq(Frame)
             /\ \A i \in DOMAIN Front(stack) : Front(stack)[i] = stack[i]
  <2>1. /\ Len(stack) \in Nat \ {0} /\ DOMAIN stack = 1..Len(stack)
        /\ DOMAIN Front(stack) = 1..(Len(stack) - 1) /\ Front(stack) \in Seq(Frame)
        /\ \A i \in 1..(Len(stack) - 1) : Front(stack)[i] = stack[i]
    BY <1>0, <1>3, FrontFacts
  <2> QED
    BY <2>1
<1>4. CASE Unwind
  BY <1>3, <1>4 DEF Unwind
<1>5. CASE Return
  <2> DEFINE v == Top.key \in accepted \/ Rule(Top.key, Top.results)
  <2>1. stack # <<>> /\ stack' = Delivered(Front(stack), v)
    BY <1>5 DEF Return, Running
  <2>2. v \in Value
    BY DEF Value
  <2> HIDE DEF v
  <2> QED
    BY <1>3, <2>1, <2>2, DeliveredFacts
<1>6. CASE Open \/ Close \/ Cycle \/ Reject \/ Fail \/ UNCHANGED vars
  BY <1>6 DEF Open, Close, Cycle, Reject, Fail, vars
<1> QED
  BY <1>1, <1>2, <1>4, <1>5, <1>6

\* What runs under a call was allowed under it when it was admitted.
LEMMA NextAllowed ==
  ASSUME Inv, OnlyAllowedRun, [Next]_vars
  PROVE  OnlyAllowedRun'
<1>0. TypeOK /\ StacksAgree /\ stack \in Seq(Frame)
  BY DEF Inv, TypeOK
<1> DEFINE n == Len(stack)
<1>1. n \in Nat /\ DOMAIN stack = 1..n
  BY <1>0, LenProperties
<1>2. ASSUME NEW k \in Key, Push(k)
      PROVE  OnlyAllowedRun'
  <2> DEFINE f == [key |-> k, admitted |-> FALSE, results |-> <<>>]
  <2>1. /\ DOMAIN stack' = 1..(n + 1)
        /\ \A i \in 1..n : stack'[i] = stack[i]
        /\ stack'[n + 1] = f
    BY <1>0, <1>2, PushFacts
  <2>2. ~f.admitted
    OBVIOUS
  <2> HIDE DEF f, n
  <2>3. ASSUME NEW i \in DOMAIN stack', NEW j \in DOMAIN stack', i < j, stack'[j].admitted
        PROVE  Allowed(stack'[j].key, {stack'[i].key})
    <3>1. i \in 1..n /\ j \in 1..n
      BY <1>1, <2>1, <2>2, <2>3
    <3>2. stack'[i] = stack[i] /\ stack'[j] = stack[j]
      BY <2>1, <3>1
    <3> QED
      BY <1>1, <2>3, <3>1, <3>2 DEF OnlyAllowedRun
  <2> QED
    BY <2>3 DEF OnlyAllowedRun, Allowed
<1>3. ASSUME DOMAIN stack' \subseteq DOMAIN stack,
             \A i \in DOMAIN stack' : /\ stack'[i].key = stack[i].key
                                      /\ stack'[i].admitted = stack[i].admitted
      PROVE  OnlyAllowedRun'
  BY <1>3 DEF OnlyAllowedRun, Allowed
<1>4. CASE Admit
  <2>1. /\ n # 0 /\ Top = stack[n] /\ ~Top.admitted /\ Allowed(Top.key, RangeOf(active))
        /\ stack' = [stack EXCEPT ![n].admitted = TRUE]
    BY <1>0, <1>4, EmptySeq DEF Admit, Entering, Top
  <2>2. /\ DOMAIN stack' = 1..n
        /\ \A i \in 1..n : stack'[i].key = stack[i].key
        /\ \A i \in 1..n : i # n => stack'[i].admitted = stack[i].admitted
    <3>1. DOMAIN stack' \subseteq DOMAIN stack /\ \A i \in DOMAIN stack' : stack'[i].key = stack[i].key
      BY <1>4, OtherStepsShrink
    <3>2. DOMAIN stack' = DOMAIN stack
      BY <2>1
    <3>3. \A i \in DOMAIN stack : i # n => stack'[i] = stack[i]
      BY <2>1
    <3> QED
      BY <1>1, <3>1, <3>2, <3>3
  <2>3. ASSUME NEW i \in 1..n, i < n
        PROVE  stack[i].key \in RangeOf(active)
    <3>1. active \in Seq(Key) /\ Len(active) = n - 1 /\ \A m \in DOMAIN active : active[m] = stack[m].key
      BY <1>0, <2>1, EmptySeq DEF TypeOK, StacksAgree
    <3>2. DOMAIN active = 1..(n - 1)
      BY <3>1, LenProperties
    <3> HIDE DEF n
    <3>3. i \in DOMAIN active
      BY <1>1, <2>3, <3>2
    <3> QED
      BY <3>1, <3>3 DEF RangeOf
  <2> HIDE DEF n
  <2>4. ASSUME NEW i \in 1..n, NEW j \in 1..n, i < j, stack'[j].admitted
        PROVE  Allowed(stack'[j].key, {stack'[i].key})
    <3>1. CASE j = n
      <4>1. stack[i].key \in RangeOf(active)
        BY <2>3, <2>4, <3>1
      <4>2. Allowed(stack[n].key, {stack[i].key})
        BY <2>1, <4>1 DEF Allowed
      <4> QED
        BY <2>2, <3>1, <4>2
    <3>2. CASE j # n
      BY <1>1, <2>2, <2>4, <3>2 DEF OnlyAllowedRun
    <3> QED
      BY <3>1, <3>2
  <2> QED
    BY <2>2, <2>4 DEF OnlyAllowedRun, Allowed
<1>5. ASSUME NEW k \in Key, Ask(k)
      PROVE  OnlyAllowedRun'
  BY <1>2, <1>5 DEF Ask
<1>6. CASE Miss
  BY <1>2, <1>6, CallFacts DEF Miss
<1>7. CASE (\/ Open \/ Close \/ Hit \/ Cycle \/ Reject
            \/ Return \/ Fail \/ Unwind \/ UNCHANGED vars) /\ ~Admit
  BY <1>3, <1>7, OtherStepsShrink
<1> QED
  BY <1>4, <1>5, <1>6, <1>7 DEF Next, Evaluate

\* A body runs only under analyses that may use its answer, however the rules
\* call each other: none runs before the assertion has seen all active ones.
THEOREM OnlyAllowedBodiesRun == Spec => []OnlyAllowedRun
<1>1. Init => OnlyAllowedRun
  BY DEF Init, OnlyAllowedRun
<1>2. Inv /\ OnlyAllowedRun /\ [Next]_vars => OnlyAllowedRun'
  BY NextAllowed
<1> QED
  BY <1>1, <1>2, InvHolds, PTL DEF Spec

-----------------------------------------------------------------------------
\* The order of calls is transitive and no call is below itself.
LEMMA BelowIsAnOrder ==
  /\ \A a, b, c \in Key : Below(a, b) /\ Below(b, c) => Below(a, c)
  /\ \A a \in Key : ~Below(a, a)
<1>1. \A k \in Key : Height[Subject[k]] \in Nat /\ StratumOf[k] \in Nat /\ Level[k] \in Nat
  BY OrderedAssumption, ArenaAssumption
<1>2. ASSUME NEW a \in Key, NEW b \in Key, NEW c \in Key, Below(a, b), Below(b, c)
      PROVE  Below(a, c)
  BY <1>1, <1>2 DEF Below
<1>3. \A a \in Key : ~Below(a, a)
  BY <1>1 DEF Below
<1> QED
  BY <1>2, <1>3

\* A new call below the top frame's is below every running call's.
LEMMA PushDescends ==
  ASSUME NEW k \in Key, Inv, Descending, Push(k),
         stack # <<>> => Below(k, Top.key)
  PROVE  Descending'
<1> DEFINE n == Len(stack)
<1>1. /\ n \in Nat /\ DOMAIN stack = 1..n /\ DOMAIN stack' = 1..(n + 1)
      /\ \A i \in 1..n : stack'[i] = stack[i] /\ stack[i].key \in Key
      /\ stack'[n + 1].key = k
  <2>1. TypeOK
    BY DEF Inv
  <2>2. \A i \in DOMAIN stack : stack[i].key \in Key
    <3>1. \A i \in DOMAIN stack : stack[i] \in Frame
      BY <2>1, LenProperties DEF TypeOK
    <3> QED
      BY <3>1 DEF Frame
  <2> DEFINE f == [key |-> k, admitted |-> FALSE, results |-> <<>>]
  <2>3. f.key = k
    OBVIOUS
  <2>4. /\ n \in Nat /\ DOMAIN stack = 1..n /\ DOMAIN stack' = 1..(n + 1)
        /\ \A i \in 1..n : stack'[i] = stack[i]
        /\ stack'[n + 1] = f
    BY <2>1, PushFacts
  <2> HIDE DEF f, n
  <2> QED
    BY <2>2, <2>3, <2>4
<1>2. n # 0 => Below(k, stack[n].key)
  BY EmptySeq DEF Inv, TypeOK, Top
<1> HIDE DEF n
<1>3. \A i, j \in 1..n : i < j => Below(stack[j].key, stack[i].key)
  BY <1>1 DEF Descending
<1>4. ASSUME NEW i \in 1..n PROVE Below(k, stack[i].key)
  <2>1. n \in 1..n /\ (i = n \/ i < n)
    BY <1>1
  <2>2. CASE i = n
    BY <1>1, <1>2, <2>2
  <2>3. CASE i < n
    <3>1. Below(k, stack[n].key) /\ Below(stack[n].key, stack[i].key)
      BY <1>1, <1>2, <1>3, <2>1, <2>3
    <3> QED
      BY <1>1, <2>1, <3>1, BelowIsAnOrder
  <2> QED
    BY <2>1, <2>2, <2>3
<1>5. ASSUME NEW i \in 1..(n + 1), NEW j \in 1..(n + 1), i < j
      PROVE  Below(stack'[j].key, stack'[i].key)
  <2>1. i \in 1..n
    BY <1>1, <1>5
  <2>2. CASE j = n + 1
    BY <1>1, <1>4, <2>1, <2>2
  <2>3. CASE j \in 1..n
    BY <1>1, <1>3, <1>5, <2>1, <2>3
  <2> QED
    BY <1>1, <2>2, <2>3
<1> QED
  BY <1>1, <1>5 DEF Descending

\* Steps that push no call keep the frames that remain.
LEMMA ShrinkDescends ==
  ASSUME Descending, DOMAIN stack' \subseteq DOMAIN stack,
         \A i \in DOMAIN stack' : stack'[i].key = stack[i].key
  PROVE  Descending'
BY DEF Descending

\* The calls of an ordered graph descend, so none repeats and none is refused.
LEMMA NextDescends ==
  ASSUME Inv, Descending, NoInternalError, [Next]_vars
  PROVE  Descending' /\ NoInternalError'
<1>0. TypeOK /\ StacksAgree
  BY DEF Inv
<1>1. ASSUME Running, ~Finished(Top)
      PROVE  /\ stack # <<>> /\ NextCall \in Key /\ Below(NextCall, Top.key)
             /\ \A i \in DOMAIN stack : Below(NextCall, stack[i].key)
  <2>1. stack # <<>> /\ Len(stack) \in DOMAIN stack /\ DOMAIN stack = 1..Len(stack)
        /\ Len(stack) \in Nat
    BY <1>0, <1>1, FrontFacts DEF TypeOK, Running
  <2>2. Len(Top.results) <= Len(Callees[Top.key])
    BY <2>1 DEF Inv, CacheConsistent, HandedOver, Top
  <2>3. /\ NextCall \in Key /\ Top.key \in Key
        /\ Len(Top.results) + 1 \in DOMAIN Callees[Top.key]
    BY <1>0, <1>1, <2>2, NextCallFacts
  <2>4. Below(NextCall, Top.key)
    BY <2>3, OrderedAssumption DEF NextCall
  <2>5. ASSUME NEW i \in DOMAIN stack
        PROVE  Below(NextCall, stack[i].key)
    <3>1. i = Len(stack) \/ i < Len(stack)
      BY <2>1
    <3>2. stack[i].key \in Key
      <4>1. stack[i] \in Frame
        BY <1>0, LenProperties DEF TypeOK
      <4> QED
        BY <4>1 DEF Frame
    <3>3. i < Len(stack) => Below(Top.key, stack[i].key)
      BY <2>1 DEF Descending, Top
    <3> QED
      BY <2>3, <2>4, <3>1, <3>2, <3>3, BelowIsAnOrder DEF Top
  <2> QED
    BY <2>1, <2>3, <2>4, <2>5
<1>2. ~Cycle
  <2>1. SUFFICES ASSUME Cycle PROVE FALSE
    OBVIOUS
  <2>2. Running /\ ~Finished(Top) /\ NextCall \in evaluating
    BY <2>1 DEF Cycle
  <2>3. PICK i \in DOMAIN stack : NextCall = stack[i].key
    BY <1>0, <2>2 DEF StacksAgree
  <2> QED
    BY <1>1, <2>2, <2>3, BelowIsAnOrder
<1>3. ~Reject
  <2>1. SUFFICES ASSUME Entering PROVE Allowed(Top.key, RangeOf(active))
    BY DEF Reject
  <2>2. stack # <<>> /\ ~Top.admitted
    BY <2>1 DEF Entering
  <2>3. /\ stack \in Seq(Frame) /\ Len(stack) \in Nat \ {0} /\ DOMAIN stack = 1..Len(stack)
        /\ active \in Seq(Key) /\ Len(active) = Len(stack) - 1
        /\ \A i \in DOMAIN active : active[i] = stack[i].key
    BY <1>0, <2>2, FrontFacts DEF TypeOK, StacksAgree
  <2>4. DOMAIN active = 1..(Len(stack) - 1)
    BY <2>3, LenProperties
  <2>5. ASSUME NEW a \in RangeOf(active)
        PROVE  Below(Top.key, a) /\ a \in Key /\ Top.key \in Key
    <3>1. PICK i \in 1..(Len(stack) - 1) : a = stack[i].key
      BY <2>3, <2>4 DEF RangeOf
    <3>2. i \in DOMAIN stack /\ Len(stack) \in DOMAIN stack /\ i < Len(stack)
      BY <2>3
    <3>3. stack[i] \in Frame /\ stack[Len(stack)] \in Frame
      BY <2>3, <3>2, LenProperties
    <3> QED
      BY <3>1, <3>2, <3>3 DEF Descending, Top, Frame
  <2>6. \A k \in Key : StratumOf[k] \in Nat /\ Height[Subject[k]] \in Nat
    BY ArenaAssumption, OrderedAssumption
  <2> QED
    BY <2>5, <2>6 DEF Allowed, Below
<1>4. NoInternalError'
  BY <1>2, <1>3
  DEF NoInternalError, Next, Evaluate, Open, Close, Ask, Push, Hit, Miss, Admit, Return, Fail, Unwind, vars
<1>5. Descending'
  <2>1. ASSUME NEW k \in Key, Ask(k)
        PROVE  Descending'
    BY <2>1, PushDescends DEF Ask
  <2>2. CASE Miss
    <3>1. Running /\ ~Finished(Top) /\ Push(NextCall)
      BY <2>2 DEF Miss
    <3> QED
      BY <1>1, <3>1, PushDescends
  <2>3. CASE \/ Open \/ Close \/ Hit \/ Cycle \/ Admit \/ Reject
             \/ Return \/ Fail \/ Unwind \/ UNCHANGED vars
    BY <2>3, OtherStepsShrink, ShrinkDescends
  <2> QED
    BY <2>1, <2>2, <2>3 DEF Next, Evaluate
<1> QED
  BY <1>4, <1>5

\* With rules in Stratum order, neither internal error is ever raised.
THEOREM OrderSuffices == Spec => []NoInternalError
<1>1. Init => Descending /\ NoInternalError
  BY DEF Init, Descending, NoInternalError
<1>2. Inv /\ (Descending /\ NoInternalError) /\ [Next]_vars
        => (Descending /\ NoInternalError)'
  BY NextDescends
<1> QED
  BY <1>1, <1>2, InvHolds, PTL DEF Spec

=============================================================================
