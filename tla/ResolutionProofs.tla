-------------------------- MODULE ResolutionProofs --------------------------
(***************************************************************************)
(* Proofs about Resolution, for any relations read in any order: relations  *)
(* are lowered once, what was linked is a DAG, and only reads that close a  *)
(* cycle are cut.                                                           *)
(***************************************************************************)
EXTENDS Resolution, TLAPS

\* A kept read starts at a relation that was started.
ReadersStarted ==
    \A s, t \in known : <<s, t>> \in kept => s \in Elements(stack) \cup Elements(done)

\* Of the kept reads of a relation being lowered, one may be unfinished: the
\* one it waits for.
WaitsForOne ==
    \A i \in DOMAIN stack : \A t \in known :
        <<stack[i], t>> \in kept =>
            t \in Elements(done) \/ (i < Len(stack) /\ t = stack[i + 1])

\* Each relation being lowered is read by the one before it.
StackLinked == IsPath(stack)

\* Why the invariants below are inductive: kept reads lead down the stack or
\* to finished relations.
IInv ==
    /\ TypeOK
    /\ LoweredOnce
    /\ ReadersStarted
    /\ WaitsForOne
    /\ StackLinked
    /\ Acyclic
    /\ CutsOnCycles

-----------------------------------------------------------------------------
\* Appending adds one element.
LEMMA AppendFacts ==
    ASSUME NEW S, NEW q \in Seq(S), NEW x \in S
    PROVE  /\ Append(q, x) \in Seq(S)
           /\ Len(Append(q, x)) = Len(q) + 1
           /\ DOMAIN Append(q, x) = 1..(Len(q) + 1)
           /\ \A i \in 1..Len(q) : Append(q, x)[i] = q[i]
           /\ Append(q, x)[Len(q) + 1] = x
           /\ Elements(Append(q, x)) = Elements(q) \cup {x}
<1>1. /\ Append(q, x) \in Seq(S)
      /\ Len(Append(q, x)) = Len(q) + 1
      /\ DOMAIN Append(q, x) = 1..(Len(q) + 1)
      /\ \A i \in 1..Len(q) : Append(q, x)[i] = q[i]
      /\ Append(q, x)[Len(q) + 1] = x
  OBVIOUS
<1>2. DOMAIN q = 1..Len(q) /\ Len(q) \in Nat
  OBVIOUS
<1>3. Elements(Append(q, x)) = Elements(q) \cup {x}
  BY <1>1, <1>2 DEF Elements
<1> QED
  BY <1>1, <1>3

\* The elements of a sequence, and of all of it but the last.
LEMMA FrontFacts ==
    ASSUME NEW S, NEW q \in Seq(S), q # <<>>
    PROVE  LET front == SubSeq(q, 1, Len(q) - 1) IN
           /\ front \in Seq(S)
           /\ Len(front) = Len(q) - 1
           /\ Len(q) \in Nat \ {0}
           /\ DOMAIN front = 1..(Len(q) - 1)
           /\ \A i \in 1..(Len(q) - 1) : front[i] = q[i]
           /\ q[Len(q)] \in S
           /\ Elements(q) = Elements(front) \cup {q[Len(q)]}
<1> DEFINE front == SubSeq(q, 1, Len(q) - 1)
<1>1. Len(q) \in Nat \ {0} /\ DOMAIN q = 1..Len(q) /\ q[Len(q)] \in S
  OBVIOUS
<1>2. /\ front \in Seq(S)
      /\ Len(front) = Len(q) - 1
      /\ DOMAIN front = 1..(Len(q) - 1)
      /\ \A i \in 1..(Len(q) - 1) : front[i] = q[i]
  BY <1>1
<1>3. Elements(front) \cup {q[Len(q)]} \subseteq Elements(q)
  BY <1>1, <1>2 DEF Elements
<1>4. ASSUME NEW x \in Elements(q)
      PROVE  x \in Elements(front) \cup {q[Len(q)]}
  <2>1. PICK i \in 1..Len(q) : x = q[i]
    BY <1>1 DEF Elements
  <2>2. CASE i = Len(q)
    BY <2>1, <2>2
  <2>3. CASE i # Len(q)
    <3>1. i \in 1..(Len(q) - 1)
      <4> DEFINE n == Len(q)
      <4>1. n \in Nat /\ i \in 1..n /\ i # n
        BY <1>1, <2>1, <2>3
      <4> HIDE DEF n
      <4>2. i \in 1..(n - 1)
        BY <4>1
      <4> QED
        BY <4>2 DEF n
    <3>2. x = front[i] /\ i \in DOMAIN front
      BY <1>2, <2>1, <3>1
    <3> QED
      BY <3>2 DEF Elements
  <2> QED
    BY <2>2, <2>3
<1> HIDE DEF front
<1>5. Elements(q) = Elements(front) \cup {q[Len(q)]}
  BY <1>3, <1>4
<1> QED
  BY <1>1, <1>2, <1>5 DEF front

\* The relation on top of the stack is one that is being lowered.
LEMMA TopFacts ==
    ASSUME TypeOK, stack # <<>>
    PROVE  /\ Len(stack) \in DOMAIN stack
           /\ Len(stack) \in Nat \ {0}
           /\ DOMAIN stack = 1..Len(stack)
           /\ Top \in known
           /\ Top \in Elements(stack)
<1>1. stack \in Seq(known)
  BY DEF TypeOK
<1>2. Len(stack) \in DOMAIN stack /\ Len(stack) \in Nat \ {0} /\ DOMAIN stack = 1..Len(stack)
  BY <1>1
<1>3. Top \in known /\ Top \in Elements(stack)
  BY <1>1, <1>2 DEF Top, Elements
<1> QED
  BY <1>2, <1>3

\* Linking a read adds at most the read of the relation on top of the stack.
LEMMA LinkFacts ==
    ASSUME TypeOK, NEW s \in known, Link(s)
    PROVE  /\ kept \subseteq kept'
           /\ kept' \subseteq known \X known
           /\ \A a, b \in known : <<a, b>> \in kept' =>
                 <<a, b>> \in kept \/ (stack # <<>> /\ a = Top /\ b = s)
           /\ stack # <<>> => <<Top, s>> \in kept'
<1>1. CASE stack = <<>>
  BY <1>1 DEF TypeOK, Link
<1>2. CASE stack # <<>>
  <2>1. Top \in known
    BY <1>2, TopFacts
  <2>2. kept' = kept \cup {<<Top, s>>}
    BY <1>2 DEF Link
  <2>3. kept \subseteq known \X known
    BY DEF TypeOK
  <2> QED
    BY <1>2, <2>1, <2>2, <2>3
<1> QED
  BY <1>1, <1>2

\* More kept reads leave the cut ones on cycles.
LEMMA CutsStay ==
    ASSUME TypeOK, CutsOnCycles, kept \subseteq kept', known \subseteq known', cut' = cut
    PROVE  CutsOnCycles'
<1> SUFFICES ASSUME NEW s \in known', NEW t \in known', <<s, t>> \in cut
             PROVE  \E path \in Seq(known') :
                      path # <<>> /\ path[1] = t /\ path[Len(path)] = s /\ IsPath(path)'
  BY DEF CutsOnCycles
<1>1. s \in known /\ t \in known
  BY DEF TypeOK
<1>2. PICK path \in Seq(known) : path # <<>> /\ path[1] = t /\ path[Len(path)] = s /\ IsPath(path)
  BY <1>1 DEF CutsOnCycles
<1>3. path \in Seq(known')
  OBVIOUS
<1>4. IsPath(path)'
  BY <1>2 DEF IsPath
<1> QED
  BY <1>2, <1>3, <1>4

-----------------------------------------------------------------------------
(***************************************************************************)
(* Each action preserves the invariant.                                     *)
(***************************************************************************)
LEMMA MeetInv ==
    ASSUME IInv, Meet
    PROVE  IInv'
<1> USE DEF Meet
<1>1. TypeOK'
  BY DEF IInv, TypeOK
<1>2. /\ LoweredOnce' /\ StackLinked'
  BY DEF IInv, LoweredOnce, StackLinked, IsPath, Elements
<1>3. \A a, b : <<a, b>> \in kept => a \in known /\ b \in known
  BY DEF IInv, TypeOK
<1>4. ReadersStarted'
  BY <1>3 DEF IInv, ReadersStarted, Elements
<1>5. WaitsForOne'
  BY <1>3 DEF IInv, WaitsForOne, Elements
<1>6. Acyclic'
  BY <1>3 DEF IInv, Acyclic
<1>7. CutsOnCycles'
  BY CutsStay DEF IInv
<1> QED
  BY <1>1, <1>2, <1>4, <1>5, <1>6, <1>7 DEF IInv

LEMMA EnterInv ==
    ASSUME IInv, NEW s \in known, Enter(s)
    PROVE  IInv'
<1>0. /\ s \in known /\ s \notin Elements(stack) /\ s \notin Elements(done)
      /\ stack' = Append(stack, s)
      /\ known' = known /\ done' = done /\ cut' = cut
      /\ Link(s)
      /\ stack \in Seq(known) /\ done \in Seq(known)
  BY DEF Enter, Unstarted, IInv, TypeOK
<1>1. /\ stack' \in Seq(known)
      /\ Len(stack') = Len(stack) + 1
      /\ DOMAIN stack' = 1..(Len(stack) + 1)
      /\ \A i \in 1..Len(stack) : stack'[i] = stack[i]
      /\ stack'[Len(stack) + 1] = s
      /\ Elements(stack') = Elements(stack) \cup {s}
  BY <1>0, AppendFacts
<1>2. Len(stack) \in Nat /\ DOMAIN stack = 1..Len(stack)
  BY <1>0
<1>3. /\ kept \subseteq kept'
      /\ kept' \subseteq known \X known
      /\ \A a, b \in known : <<a, b>> \in kept' =>
            <<a, b>> \in kept \/ (stack # <<>> /\ a = Top /\ b = s)
      /\ stack # <<>> => <<Top, s>> \in kept'
  BY <1>0, LinkFacts DEF IInv
<1>4. stack # <<>> => Top = stack[Len(stack)] /\ Len(stack) \in DOMAIN stack /\ Top \in Elements(stack)
  BY TopFacts DEF IInv, Top
<1>5. TypeOK'
  BY <1>0, <1>1, <1>3 DEF IInv, TypeOK
<1>6. \A i \in 1..Len(stack) : stack[i] # s
  BY <1>0, <1>2 DEF Elements
<1>7. LoweredOnce'
  <2>1. Elements(stack)' \cap Elements(done)' = {}
    BY <1>0, <1>1, SMTT(30) DEF IInv, LoweredOnce, Elements
  <2>2. ASSUME NEW i \in DOMAIN stack', NEW j \in DOMAIN stack', stack'[i] = stack'[j]
        PROVE  i = j
    <3>1. CASE i \in 1..Len(stack) /\ j \in 1..Len(stack)
      BY <1>1, <1>2, <2>2, <3>1 DEF IInv, LoweredOnce
    <3>2. CASE i = Len(stack) + 1 /\ j = Len(stack) + 1
      BY <3>2
    <3>3. CASE i \in 1..Len(stack) /\ j = Len(stack) + 1
      BY <1>1, <1>6, <2>2, <3>3
    <3>4. CASE i = Len(stack) + 1 /\ j \in 1..Len(stack)
      BY <1>1, <1>6, <2>2, <3>4
    <3> QED
      BY <1>1, <1>2, <2>2, <3>1, <3>2, <3>3, <3>4
  <2> QED
    BY <1>0, <2>1, <2>2 DEF IInv, LoweredOnce
<1>8. ReadersStarted'
  <2> SUFFICES ASSUME NEW a \in known, NEW b \in known, <<a, b>> \in kept'
               PROVE  a \in Elements(stack') \cup Elements(done)
    BY <1>0 DEF ReadersStarted, Elements
  <2> QED
    BY <1>1, <1>3, <1>4 DEF IInv, ReadersStarted
<1>9. WaitsForOne'
  <2> SUFFICES ASSUME NEW i \in DOMAIN stack', NEW t \in known, <<stack'[i], t>> \in kept'
               PROVE  t \in Elements(done) \/ (i < Len(stack') /\ t = stack'[i + 1])
    BY <1>0 DEF WaitsForOne, Elements
  <2>1. CASE i = Len(stack) + 1
    <3>1. <<s, t>> \in kept'
      BY <1>1, <2>1
    <3>2. <<s, t>> \notin kept
      BY <1>0 DEF IInv, ReadersStarted
    <3> QED
      BY <1>0, <1>3, <1>4, <3>1, <3>2
  <2>2. CASE i \in 1..Len(stack)
    <3>1. stack'[i] = stack[i] /\ stack[i] \in known
      BY <1>0, <1>1, <1>2, <2>2
    <3>2. CASE <<stack[i], t>> \in kept
      <4>1. t \in Elements(done) \/ (i < Len(stack) /\ t = stack[i + 1])
        BY <1>2, <2>2, <3>2 DEF IInv, WaitsForOne
      <4>2. i < Len(stack) => i + 1 \in 1..Len(stack)
        BY <1>2, <2>2
      <4> QED
        BY <1>1, <1>2, <2>2, <4>1, <4>2
    <3>3. CASE stack # <<>> /\ stack[i] = Top /\ t = s
      <4>1. i = Len(stack)
        BY <1>2, <1>4, <2>2, <3>3 DEF IInv, LoweredOnce
      <4> QED
        BY <1>1, <1>2, <3>3, <4>1
    <3> QED
      BY <1>3, <3>1, <3>2, <3>3
  <2> QED
    BY <1>1, <1>2, <2>1, <2>2
<1>10. StackLinked'
  <2> SUFFICES ASSUME NEW i \in 1..(Len(stack') - 1)
               PROVE  <<stack'[i], stack'[i + 1]>> \in kept'
    BY DEF StackLinked, IsPath
  <2>1. CASE i = Len(stack)
    <3>1. stack # <<>>
      BY <1>1, <1>2, <2>1
    <3> QED
      BY <1>1, <1>2, <1>3, <1>4, <2>1, <3>1
  <2>2. CASE i \in 1..(Len(stack) - 1)
    <3>1. <<stack[i], stack[i + 1]>> \in kept
      BY <2>2 DEF IInv, StackLinked, IsPath
    <3>2. i \in 1..Len(stack) /\ i + 1 \in 1..Len(stack)
      BY <1>2, <2>2
    <3> QED
      BY <1>1, <1>3, <3>1, <3>2
  <2>3. i \in 1..Len(stack)
    BY <1>1, <1>2
  <2>4. i = Len(stack) \/ i \in 1..(Len(stack) - 1)
    <3> DEFINE n == Len(stack)
    <3>1. n \in Nat /\ i \in 1..n
      BY <1>2, <2>3
    <3> HIDE DEF n
    <3>2. i = n \/ i \in 1..(n - 1)
      BY <3>1
    <3> QED
      BY <3>2 DEF n
  <2> QED
    BY <2>1, <2>2, <2>4
<1>11. Acyclic'
  <2> SUFFICES ASSUME NEW i \in DOMAIN done, NEW t \in known, <<done[i], t>> \in kept'
               PROVE  \E j \in 1..(i - 1) : done[j] = t
    BY <1>0 DEF Acyclic
  <2>1. done[i] \in known /\ done[i] \in Elements(done)
    BY <1>0 DEF Elements
  <2>2. stack # <<>> => done[i] # Top
    BY <1>4, <2>1 DEF IInv, LoweredOnce
  <2>3. <<done[i], t>> \in kept
    BY <1>3, <2>1, <2>2
  <2> QED
    BY <2>3 DEF IInv, Acyclic
<1>12. CutsOnCycles'
  BY <1>0, <1>3, CutsStay DEF IInv
<1> QED
  BY <1>5, <1>7, <1>8, <1>9, <1>10, <1>11, <1>12 DEF IInv

LEMMA LeaveInv ==
    ASSUME IInv, Leave
    PROVE  IInv'
<1>0. /\ stack # <<>>
      /\ stack' = SubSeq(stack, 1, Len(stack) - 1)
      /\ done' = Append(done, Top)
      /\ known' = known /\ kept' = kept /\ cut' = cut
      /\ stack \in Seq(known) /\ done \in Seq(known)
      /\ Top \in known /\ Top = stack[Len(stack)] /\ Top \in Elements(stack)
  BY TopFacts DEF Leave, IInv, TypeOK, Top
<1>1. /\ stack' \in Seq(known)
      /\ Len(stack') = Len(stack) - 1
      /\ Len(stack) \in Nat \ {0}
      /\ DOMAIN stack' = 1..(Len(stack) - 1)
      /\ \A i \in 1..(Len(stack) - 1) : stack'[i] = stack[i]
      /\ Elements(stack) = Elements(stack') \cup {Top}
  BY <1>0, FrontFacts
<1>2. /\ done' \in Seq(known)
      /\ DOMAIN done' = 1..(Len(done) + 1)
      /\ \A i \in 1..Len(done) : done'[i] = done[i]
      /\ done'[Len(done) + 1] = Top
      /\ Elements(done') = Elements(done) \cup {Top}
  BY <1>0, AppendFacts
<1>3. /\ DOMAIN stack = 1..Len(stack)
      /\ Len(done) \in Nat /\ DOMAIN done = 1..Len(done)
  BY <1>0
<1>4. \A i \in 1..(Len(stack) - 1) : i \in 1..Len(stack) /\ i # Len(stack)
  BY <1>1
<1>5. TypeOK'
  BY <1>0, <1>1, <1>2 DEF IInv, TypeOK
<1>6. Top \notin Elements(stack')
  <2> SUFFICES ASSUME NEW i \in 1..(Len(stack) - 1), stack'[i] = Top
               PROVE  FALSE
    BY <1>1 DEF Elements
  <2>1. i \in DOMAIN stack /\ Len(stack) \in DOMAIN stack /\ i # Len(stack)
    BY <1>1, <1>3, <1>4
  <2>2. stack[i] = stack[Len(stack)]
    BY <1>0, <1>1
  <2> QED
    BY <2>1, <2>2 DEF IInv, LoweredOnce
<1>7. LoweredOnce'
  <2>1. Elements(stack') \cap Elements(done') = {}
    BY <1>1, <1>2, <1>6 DEF IInv, LoweredOnce
  <2>2. ASSUME NEW i \in DOMAIN stack', NEW j \in DOMAIN stack', stack'[i] = stack'[j]
        PROVE  i = j
    BY <1>1, <1>3, <1>4, <2>2 DEF IInv, LoweredOnce
  <2>3. \A i \in 1..Len(done) : done[i] # Top
    BY <1>0, <1>3, ZenonT(30) DEF IInv, LoweredOnce, Elements
  <2>4. ASSUME NEW i \in DOMAIN done', NEW j \in DOMAIN done', done'[i] = done'[j]
        PROVE  i = j
    <3>1. CASE i \in 1..Len(done) /\ j \in 1..Len(done)
      BY <1>2, <1>3, <2>4, <3>1 DEF IInv, LoweredOnce
    <3>2. CASE i = Len(done) + 1 /\ j = Len(done) + 1
      BY <3>2
    <3>3. CASE i \in 1..Len(done) /\ j = Len(done) + 1
      BY <1>2, <2>3, <2>4, <3>3
    <3>4. CASE i = Len(done) + 1 /\ j \in 1..Len(done)
      BY <1>2, <2>3, <2>4, <3>4
    <3> QED
      BY <1>2, <1>3, <2>4, <3>1, <3>2, <3>3, <3>4
  <2> QED
    BY <2>1, <2>2, <2>4 DEF LoweredOnce, Elements
<1>8. ReadersStarted'
  BY <1>0, <1>1, <1>2 DEF IInv, ReadersStarted, Elements
<1>9. WaitsForOne'
  <2> SUFFICES ASSUME NEW i \in DOMAIN stack', NEW t \in known, <<stack'[i], t>> \in kept
               PROVE  t \in Elements(done') \/ (i < Len(stack') /\ t = stack'[i + 1])
    BY <1>0 DEF WaitsForOne, Elements
  <2>1. i \in 1..(Len(stack) - 1) /\ i \in DOMAIN stack /\ <<stack[i], t>> \in kept
    BY <1>1, <1>3, <1>4
  <2>2. t \in Elements(done) \/ t = stack[i + 1]
    BY <2>1 DEF IInv, WaitsForOne
  <2>3. CASE i + 1 = Len(stack)
    BY <1>0, <1>2, <2>2, <2>3
  <2>4. CASE i + 1 # Len(stack)
    <3>1. i + 1 \in 1..(Len(stack) - 1) /\ i < Len(stack')
      BY <1>1, <2>1, <2>4
    <3> QED
      BY <1>1, <1>2, <2>2, <3>1
  <2> QED
    BY <2>3, <2>4
<1>10. StackLinked'
  <2> SUFFICES ASSUME NEW i \in 1..(Len(stack') - 1)
               PROVE  <<stack'[i], stack'[i + 1]>> \in kept
    BY <1>0 DEF StackLinked, IsPath
  <2>1. i \in 1..(Len(stack) - 1) /\ i + 1 \in 1..(Len(stack) - 1)
    BY <1>1
  <2>2. <<stack[i], stack[i + 1]>> \in kept
    BY <2>1 DEF IInv, StackLinked, IsPath
  <2> QED
    BY <1>1, <2>1, <2>2
<1>11. Acyclic'
  <2> SUFFICES ASSUME NEW i \in DOMAIN done', NEW t \in known, <<done'[i], t>> \in kept
               PROVE  \E j \in 1..(i - 1) : done'[j] = t
    BY <1>0, SMTT(30) DEF Acyclic
  <2>1. CASE i \in 1..Len(done)
    <3>1. PICK j \in 1..(i - 1) : done[j] = t
      BY <1>2, <1>3, <2>1 DEF IInv, Acyclic
    <3>2. j \in 1..Len(done)
      BY <1>3, <2>1
    <3> QED
      BY <1>2, <3>1, <3>2
  <2>2. CASE i = Len(done) + 1
    <3>1. <<stack[Len(stack)], t>> \in kept /\ Len(stack) \in DOMAIN stack
      <4>1. done'[i] = stack[Len(stack)]
        BY <1>0, <1>2, <2>2
      <4>2. <<done'[i], t>> \in kept
        BY <1>0
      <4>3. Len(stack) \in DOMAIN stack
        BY <1>1, <1>3
      <4> QED
        BY <4>1, <4>2, <4>3
    <3>2. t \in Elements(done)
      <4>1. t \in Elements(done) \/ Len(stack) < Len(stack)
        BY <3>1 DEF IInv, WaitsForOne
      <4> QED
        BY <1>1, <4>1
    <3>3. PICK j \in 1..Len(done) : done[j] = t
      BY <1>3, <3>2 DEF Elements
    <3>4. j \in 1..(i - 1)
      BY <1>3, <2>2
    <3> QED
      BY <1>2, <3>3, <3>4
  <2> QED
    BY <1>2, <1>3, <2>1, <2>2
<1>12. CutsOnCycles'
  BY <1>0, CutsStay DEF IInv
<1> QED
  BY <1>5, <1>7, <1>8, <1>9, <1>10, <1>11, <1>12 DEF IInv

\* A leaf is finished without being started; Read adds a read of what is
\* finished already.
LEMMA LeafInv ==
    ASSUME IInv, NEW s \in known, Leaf(s)
    PROVE  IInv'
<1>0. /\ s \notin Elements(stack) /\ s \notin Elements(done)
      /\ done' = Append(done, s)
      /\ known' = known /\ stack' = stack /\ cut' = cut
      /\ Link(s)
      /\ stack \in Seq(known) /\ done \in Seq(known)
  BY DEF Leaf, Unstarted, IInv, TypeOK
<1>1. /\ done' \in Seq(known)
      /\ DOMAIN done' = 1..(Len(done) + 1)
      /\ \A i \in 1..Len(done) : done'[i] = done[i]
      /\ done'[Len(done) + 1] = s
      /\ Elements(done') = Elements(done) \cup {s}
  BY <1>0, AppendFacts
<1>2. /\ Len(stack) \in Nat /\ DOMAIN stack = 1..Len(stack)
      /\ Len(done) \in Nat /\ DOMAIN done = 1..Len(done)
  BY <1>0
<1>3. /\ kept \subseteq kept'
      /\ kept' \subseteq known \X known
      /\ \A a, b \in known : <<a, b>> \in kept' =>
            <<a, b>> \in kept \/ (stack # <<>> /\ a = Top /\ b = s)
  BY <1>0, LinkFacts DEF IInv
<1>4. stack # <<>> => Top \in Elements(stack)
  BY TopFacts DEF IInv
<1>5. TypeOK'
  BY <1>0, <1>1, <1>3 DEF IInv, TypeOK
<1>6. LoweredOnce'
  <2>1. Elements(stack') \cap Elements(done') = {}
    BY <1>0, <1>1 DEF IInv, LoweredOnce
  <2>2. \A i \in 1..Len(done) : done[i] # s
    BY <1>0, <1>2 DEF Elements
  <2>3. ASSUME NEW i \in DOMAIN done', NEW j \in DOMAIN done', done'[i] = done'[j]
        PROVE  i = j
    <3>1. CASE i \in 1..Len(done) /\ j \in 1..Len(done)
      BY <1>1, <1>2, <2>3, <3>1 DEF IInv, LoweredOnce
    <3>2. CASE i = Len(done) + 1 /\ j = Len(done) + 1
      BY <3>2
    <3>3. CASE i \in 1..Len(done) /\ j = Len(done) + 1
      BY <1>1, <2>2, <2>3, <3>3
    <3>4. CASE i = Len(done) + 1 /\ j \in 1..Len(done)
      BY <1>1, <2>2, <2>3, <3>4
    <3> QED
      BY <1>1, <1>2, <2>3, <3>1, <3>2, <3>3, <3>4
  <2> QED
    BY <1>0, <2>1, <2>3 DEF IInv, LoweredOnce, Elements
<1>7. ReadersStarted'
  <2> SUFFICES ASSUME NEW a \in known, NEW b \in known, <<a, b>> \in kept'
               PROVE  a \in Elements(stack) \cup Elements(done')
    BY <1>0 DEF ReadersStarted, Elements
  <2> QED
    BY <1>1, <1>3, <1>4 DEF IInv, ReadersStarted
<1>8. WaitsForOne'
  <2> SUFFICES ASSUME NEW i \in DOMAIN stack, NEW t \in known, <<stack[i], t>> \in kept'
               PROVE  t \in Elements(done') \/ (i < Len(stack) /\ t = stack[i + 1])
    BY <1>0 DEF WaitsForOne, Elements
  <2>1. stack[i] \in known
    BY <1>0
  <2> QED
    BY <1>1, <1>3, <2>1 DEF IInv, WaitsForOne
<1>9. StackLinked'
  BY <1>0, <1>3 DEF IInv, StackLinked, IsPath
<1>10. Acyclic'
  <2> SUFFICES ASSUME NEW i \in DOMAIN done', NEW t \in known, <<done'[i], t>> \in kept'
               PROVE  \E j \in 1..(i - 1) : done'[j] = t
    BY <1>0 DEF Acyclic
  <2>1. <<done'[i], t>> \in kept
    <3>1. done'[i] \in Elements(done') /\ done'[i] \in known
      BY <1>1 DEF Elements
    <3>2. stack # <<>> => done'[i] # Top
      BY <1>0, <1>1, <1>4, <3>1 DEF IInv, LoweredOnce
    <3> QED
      BY <1>3, <3>1, <3>2
  <2>2. i # Len(done) + 1
    BY <1>0, <1>1, <2>1 DEF IInv, ReadersStarted
  <2>3. i \in 1..Len(done)
    BY <1>1, <1>2, <2>2
  <2>4. PICK j \in 1..(i - 1) : done[j] = t
    BY <1>1, <1>2, <2>1, <2>3 DEF IInv, Acyclic
  <2>5. j \in 1..Len(done)
    BY <1>2, <2>3
  <2> QED
    BY <1>1, <2>4, <2>5
<1>11. CutsOnCycles'
  BY <1>0, <1>3, CutsStay DEF IInv
<1> QED
  BY <1>5, <1>6, <1>7, <1>8, <1>9, <1>10, <1>11 DEF IInv

LEMMA ReadInv ==
    ASSUME IInv, NEW s \in known, Read(s)
    PROVE  IInv'
<1>0. /\ s \in Elements(done) /\ Link(s)
      /\ known' = known /\ stack' = stack /\ done' = done /\ cut' = cut
      /\ stack \in Seq(known) /\ done \in Seq(known)
  BY DEF Read, IInv, TypeOK
<1>1. /\ kept \subseteq kept'
      /\ kept' \subseteq known \X known
      /\ \A a, b \in known : <<a, b>> \in kept' =>
            <<a, b>> \in kept \/ (stack # <<>> /\ a = Top /\ b = s)
  BY <1>0, LinkFacts DEF IInv
<1>2. stack # <<>> => Top \in Elements(stack)
  BY TopFacts DEF IInv
<1>3. TypeOK' /\ LoweredOnce'
  BY <1>0, <1>1 DEF IInv, TypeOK, LoweredOnce, Elements
<1>4. ReadersStarted'
  <2> SUFFICES ASSUME NEW a \in known, NEW b \in known, <<a, b>> \in kept'
               PROVE  a \in Elements(stack) \cup Elements(done)
    BY <1>0 DEF ReadersStarted, Elements
  <2> QED
    BY <1>1, <1>2 DEF IInv, ReadersStarted
<1>5. WaitsForOne'
  <2> SUFFICES ASSUME NEW i \in DOMAIN stack, NEW t \in known, <<stack[i], t>> \in kept'
               PROVE  t \in Elements(done) \/ (i < Len(stack) /\ t = stack[i + 1])
    BY <1>0 DEF WaitsForOne, Elements
  <2>1. stack[i] \in known
    BY <1>0
  <2> QED
    BY <1>0, <1>1, <2>1 DEF IInv, WaitsForOne
<1>6. StackLinked'
  BY <1>0, <1>1 DEF IInv, StackLinked, IsPath
<1>7. Acyclic'
  <2> SUFFICES ASSUME NEW i \in DOMAIN done, NEW t \in known, <<done[i], t>> \in kept'
               PROVE  \E j \in 1..(i - 1) : done[j] = t
    BY <1>0 DEF Acyclic
  <2>1. done[i] \in known /\ done[i] \in Elements(done)
    BY <1>0 DEF Elements
  <2>2. stack # <<>> => done[i] # Top
    BY <1>2, <2>1 DEF IInv, LoweredOnce
  <2> QED
    BY <1>1, <2>1, <2>2 DEF IInv, Acyclic
<1>8. CutsOnCycles'
  BY <1>0, <1>1, CutsStay DEF IInv
<1> QED
  BY <1>3, <1>4, <1>5, <1>6, <1>7, <1>8 DEF IInv

\* The path of a cut read is the part of the stack from the relation read.
LEMMA CutInv ==
    ASSUME IInv, NEW s \in known, Cut(s)
    PROVE  IInv'
<1>0. /\ s \in Elements(stack)
      /\ cut' = cut \cup {<<Top, s>>}
      /\ known' = known /\ stack' = stack /\ done' = done /\ kept' = kept
      /\ stack \in Seq(known)
  BY DEF Cut, IInv, TypeOK
<1>1. PICK k \in DOMAIN stack : stack[k] = s
  BY <1>0 DEF Elements
<1>2. stack # <<>>
  BY <1>1
<1>3. /\ Len(stack) \in Nat \ {0} /\ DOMAIN stack = 1..Len(stack)
      /\ Top \in known /\ Top = stack[Len(stack)]
  BY <1>2, TopFacts DEF IInv, Top
<1>4. TypeOK'
  BY <1>0, <1>3 DEF IInv, TypeOK
<1>5. LoweredOnce' /\ ReadersStarted' /\ WaitsForOne' /\ StackLinked' /\ Acyclic'
  BY <1>0, SMTT(30) DEF IInv, LoweredOnce, ReadersStarted, WaitsForOne, StackLinked, Acyclic, IsPath, Elements
<1>6. \E path \in Seq(known) :
         path # <<>> /\ path[1] = s /\ path[Len(path)] = Top /\ IsPath(path)
  <2> DEFINE n == Len(stack)
             path == SubSeq(stack, k, n)
  <2>1. k \in 1..n /\ n \in Nat
    BY <1>3
  <2>2. /\ path \in Seq(known) /\ Len(path) = n - k + 1
        /\ \A i \in 1..(n - k + 1) : path[i] = stack[k + i - 1]
    BY <1>0, <1>3, <2>1
  <2>3. path # <<>> /\ path[1] = s /\ path[Len(path)] = Top
    BY <1>1, <1>3, <2>1, <2>2
  <2>4. IsPath(path)
    <3> SUFFICES ASSUME NEW i \in 1..(n - k)
                 PROVE  <<path[i], path[i + 1]>> \in kept
      BY <2>1, <2>2 DEF IsPath
    <3>1. k + i - 1 \in 1..(n - 1) /\ i \in 1..(n - k + 1) /\ i + 1 \in 1..(n - k + 1)
      BY <2>1
    <3>2. path[i] = stack[k + i - 1] /\ path[i + 1] = stack[(k + i - 1) + 1]
      BY <2>1, <2>2, <3>1, SMTT(30)
    <3>3. <<stack[k + i - 1], stack[(k + i - 1) + 1]>> \in kept
      BY <3>1 DEF IInv, StackLinked, IsPath
    <3> QED
      BY <3>2, <3>3
  <2> QED
    BY <2>2, <2>3, <2>4
<1>7. CutsOnCycles'
  <2> SUFFICES ASSUME NEW a \in known, NEW b \in known, <<a, b>> \in cut'
               PROVE  \E path \in Seq(known) :
                        path # <<>> /\ path[1] = b /\ path[Len(path)] = a /\ IsPath(path)
    BY <1>0 DEF CutsOnCycles, IsPath
  <2>1. CASE <<a, b>> \in cut
    BY <2>1 DEF IInv, CutsOnCycles
  <2>2. CASE a = Top /\ b = s
    BY <1>6, <2>2
  <2> QED
    BY <1>0, <2>1, <2>2
<1> QED
  BY <1>4, <1>5, <1>7 DEF IInv

-----------------------------------------------------------------------------
LEMMA InitInv == Init => IInv
<1> SUFFICES ASSUME Init PROVE IInv
  OBVIOUS
<1> USE DEF Init
<1>1. TypeOK /\ LoweredOnce
  BY DEF TypeOK, LoweredOnce, Elements
<1>2. ReadersStarted /\ WaitsForOne /\ StackLinked /\ Acyclic /\ CutsOnCycles
  BY DEF ReadersStarted, WaitsForOne, StackLinked, IsPath, Acyclic, CutsOnCycles
<1> QED
  BY <1>1, <1>2 DEF IInv

LEMMA NextInv == IInv /\ [Next]_vars => IInv'
<1> SUFFICES ASSUME IInv, [Next]_vars PROVE IInv'
  OBVIOUS
<1>1. CASE Meet
  BY <1>1, MeetInv
<1>2. CASE Leave
  BY <1>2, LeaveInv
<1>3. CASE \E s \in known : Enter(s) \/ Leaf(s) \/ Read(s) \/ Cut(s)
  <2>1. PICK s \in known : Enter(s) \/ Leaf(s) \/ Read(s) \/ Cut(s)
    BY <1>3
  <2> QED
    BY <2>1, EnterInv, LeafInv, ReadInv, CutInv
<1>4. CASE UNCHANGED vars
  <2>1. Meet
    BY <1>4 DEF vars, Meet
  <2> QED
    BY <2>1, MeetInv
<1> QED
  BY <1>1, <1>2, <1>3, <1>4 DEF Next

(***************************************************************************)
(* The inductive invariant holds of every behaviour of name resolution.     *)
(***************************************************************************)
THEOREM Invariant == Spec => []IInv
BY InitInv, NextInv, PTL DEF Spec

(***************************************************************************)
(* Stacks, finished relations and reads are of relations that were met: a   *)
(* read is never linked to a relation the program does not have.            *)
(***************************************************************************)
THEOREM TypeCorrect == Spec => []TypeOK
<1>1. IInv => TypeOK
  BY DEF IInv
<1> QED
  BY <1>1, Invariant, PTL

(***************************************************************************)
(* _named_relations and _resolving: each relation is lowered at most once,  *)
(* whoever reads it first, and never while it is being lowered.             *)
(***************************************************************************)
THEOREM OnlyLoweredOnce == Spec => []LoweredOnce
<1>1. IInv => LoweredOnce
  BY DEF IInv
<1> QED
  BY <1>1, Invariant, PTL

(***************************************************************************)
(* The linked IR is a DAG, which every rule that walks it relies on: the    *)
(* kept reads of a relation are of relations finished before it.            *)
(***************************************************************************)
THEOREM LinkedAcyclic == Spec => []Acyclic
<1>1. IInv => Acyclic
  BY DEF IInv
<1> QED
  BY <1>1, Invariant, PTL

(***************************************************************************)
(* _recursive_relation and _report_cycle: a read is replaced by an opaque   *)
(* recursive relation, and a view reported as recursive, only when kept     *)
(* reads lead from the relation read back to the one that reads it.         *)
(***************************************************************************)
THEOREM OnlyCyclesCut == Spec => []CutsOnCycles
<1>1. IInv => CutsOnCycles
  BY DEF IInv
<1> QED
  BY <1>1, Invariant, PTL
=============================================================================
