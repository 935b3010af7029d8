----------------------------- MODULE Resolution -----------------------------
(***************************************************************************)
(* What linking names promises.  Relations are lowered one inside another:  *)
(* a body that reads a relation not lowered yet lowers it first, and a read *)
(* of a relation that is still being lowered is cut, because the IR is a    *)
(* DAG.  So reads are kept or cut, and the kept ones never lead back to     *)
(* where they start, while a cut one always does: it closes a cycle the     *)
(* program really wrote.                                                    *)
(***************************************************************************)
EXTENDS Naturals, Sequences

VARIABLES
    known,   \* the relations met so far
    stack,   \* those being lowered, outermost first
    done,    \* those lowered, in the order they were finished
    kept,    \* <<reader, read>>: the reads between relations that were linked
    cut      \* <<reader, read>>: the reads that were replaced by opaque relations

vars == <<known, stack, done, kept, cut>>

Elements(s) == {s[i] : i \in DOMAIN s}
Top == stack[Len(stack)]
Unstarted == known \ (Elements(stack) \cup Elements(done))

\* A read by the root select, or by no one, is not between relations.
Link(s) == kept' = IF stack = <<>> THEN kept ELSE kept \cup {<<Top, s>>}

Init ==
    /\ known = {} /\ stack = <<>> /\ done = <<>>
    /\ kept = {} /\ cut = {}

Meet ==
    /\ known \subseteq known'
    /\ UNCHANGED <<stack, done, kept, cut>>

\* A relation with a body is started where it is first read.
Enter(s) ==
    /\ s \in Unstarted
    /\ stack' = Append(stack, s)
    /\ Link(s)
    /\ UNCHANGED <<known, done, cut>>

Leave ==
    /\ stack # <<>>
    /\ stack' = SubSeq(stack, 1, Len(stack) - 1)
    /\ done' = Append(done, Top)
    /\ UNCHANGED <<known, kept, cut>>

\* A relation without a body is done at once.
Leaf(s) ==
    /\ s \in Unstarted
    /\ done' = Append(done, s)
    /\ Link(s)
    /\ UNCHANGED <<known, stack, cut>>

Read(s) ==
    /\ s \in Elements(done)
    /\ Link(s)
    /\ UNCHANGED <<known, stack, done, cut>>

Cut(s) ==
    /\ s \in Elements(stack)
    /\ cut' = cut \cup {<<Top, s>>}
    /\ UNCHANGED <<known, stack, done, kept>>

Next ==
    \/ Meet
    \/ Leave
    \/ \E s \in known : Enter(s) \/ Leaf(s) \/ Read(s) \/ Cut(s)

Spec == Init /\ [][Next]_vars

-----------------------------------------------------------------------------
TypeOK ==
    /\ stack \in Seq(known)
    /\ done \in Seq(known)
    /\ kept \subseteq known \X known
    /\ cut \subseteq known \X known

(***************************************************************************)
(* Every relation is lowered once: no two entries are the same relation.    *)
(***************************************************************************)
LoweredOnce ==
    /\ \A i, j \in DOMAIN done : done[i] = done[j] => i = j
    /\ \A i, j \in DOMAIN stack : stack[i] = stack[j] => i = j
    /\ Elements(stack) \cap Elements(done) = {}

(***************************************************************************)
(* The kept reads of a finished relation are of relations finished before   *)
(* it, so following them ends: the linked program is a DAG.                 *)
(***************************************************************************)
Acyclic ==
    \A i \in DOMAIN done : \A s \in known :
        <<done[i], s>> \in kept => \E j \in 1..(i - 1) : done[j] = s

\* A path of kept reads.
IsPath(path) == \A i \in 1..(Len(path) - 1) : <<path[i], path[i + 1]>> \in kept

(***************************************************************************)
(* A cut read closes a cycle of the program: kept reads lead from the       *)
(* relation that was read back to its reader.                               *)
(***************************************************************************)
CutsOnCycles ==
    \A s, t \in known : <<s, t>> \in cut =>
        \E path \in Seq(known) :
            path # <<>> /\ path[1] = t /\ path[Len(path)] = s /\ IsPath(path)
=============================================================================
