-------------------------- MODULE TaskTree_proofs --------------------------
(***************************************************************************)
(* Theorems about the tree of tasks and its two readers: for every number  *)
(* of tasks, any memory that cannot be read and any bound on the list,     *)
(* _walk_rcore_tree and the plan of the manifest list every task of the    *)
(* kernel, once, in one order, or tell that they could not.  First comes   *)
(* what the kernel keeps between any two words it writes (TreeInv); then   *)
(* what a reader gets of one Vec, what the loops of the readers keep and   *)
(* that they end, and last that both do the same walk.                     *)
(***************************************************************************)
EXTENDS TaskTree, Counting, SequenceTheorems, FiniteSetTheorems, TLAPS

---------------------------------------------------------------------------
(* What the kernel keeps of its tree of tasks.                              *)

\* A word of a Vec; while its buffer moves, the first word is what the kernel keeps.
WordAt(t, i) == IF op.do = "move" /\ t = op.into /\ i = 1 THEN op.kept ELSE vec[t].buf[i]
\* The children a Vec holds.
Kids(t) == {WordAt(t, i) : i \in 1 .. vec[t].len}

\* What the records of the model range over.
VecRec == [buf : Seq(Task \cup {Null, FreeBlock}), len : Nat]
OpRec == [do : {"nothing", "push", "move", "count", "exit", "shift", "drop"},
          into : Task \cup {Null}, new : Task \cup {Null}, kept : Task \cup {Null},
          exiting : Task \cup {Null}, child : Nat]

\* Every variable stays in its range.
TreeTypeOK ==
  /\ booted \in BOOLEAN
  /\ life \in [Task -> {"none", "alive", "zombie"}]
  /\ parent \in [Task -> Task \cup {Null}]
  /\ vec \in [Task -> VecRec]
  /\ op \in OpRec
  /\ lost \subseteq {"block", "buffer"} \X Task
  /\ cap \in Caps

\* Every word below len is a task, other than INITPROC, that exists; a Vec holds no task
\* twice but for the word that is being shifted, and no task holds itself.
VecInv(t) ==
  /\ vec[t].len <= Len(vec[t].buf) /\ vec[t].len <= Cardinality(Task)
  /\ \A i \in 1 .. vec[t].len :
       WordAt(t, i) \in Task \ {InitProc, t} /\ life[WordAt(t, i)] # "none"
  /\ \A i, j \in 1 .. vec[t].len :
       i < j /\ WordAt(t, i) = WordAt(t, j) =>
         op.do = "shift" /\ t = op.into /\ j = op.child /\ i = j - 1

\* INITPROC is the tree's root while it lives; a task that does not exist has no parent
\* and holds nothing, and a zombie holds nothing once it has exited.
LifeInv ==
  /\ life[InitProc] = (IF booted THEN "alive" ELSE "none")
  /\ parent[InitProc] = Null
  /\ ~booted => op.do = "nothing" /\ \A t \in Task : life[t] = "none"
  /\ \A t \in Task : /\ life[t] = "none" => vec[t] = EmptyVec /\ parent[t] = Null
                     /\ life[t] = "zombie" /\ t # op.exiting => vec[t].len = 0

\* A child is held by its parent, and by the exiting task until that forgets its children.
HoldInv ==
  /\ \A t \in Task : t # op.exiting => \A c \in Kids(t) : parent[c] = t
  /\ op.exiting # Null =>
       \A i \in 1 .. vec[op.exiting].len :
         LET c == WordAt(op.exiting, i)
         IN IF i < op.child
            THEN /\ parent[c] = InitProc
                 /\ c \in Kids(InitProc) \/ (op.do \in {"push", "move", "count"} /\ c = op.new)
            ELSE parent[c] = op.exiting

\* While a child is put into a Vec it is already the child of its parent, and held by nobody
\* else; the buffer that moves was full, and the word behind the last one is then written.
Pushing ==
  op.do \in {"push", "move", "count"} =>
    /\ op.into \in Task /\ op.new \in Task \ {InitProc, op.into}
    /\ life[op.into] = "alive" /\ life[op.new] # "none"
    /\ parent[op.new] = op.into /\ op.new \notin Kids(op.into)
    /\ op.exiting = Null => op.child = 0
    /\ op.exiting # Null => op.into = InitProc
    /\ op.do = "move" => op.kept \in Task /\ vec[op.into].len = Len(vec[op.into].buf)
                         /\ vec[op.into].len > 0
    /\ op.do = "count" => vec[op.into].len < Len(vec[op.into].buf)
                          /\ vec[op.into].buf[vec[op.into].len + 1] = op.new

\* An exiting task is a zombie that counts its way through its children.
Exiting ==
  /\ op.do \in {"nothing", "shift", "drop"} => op.exiting = Null
  /\ op.do = "exit" => op.exiting # Null /\ op.new = Null
  /\ op.exiting # Null => /\ life[op.exiting] = "zombie" /\ op.exiting # InitProc
                          /\ op.child \in 1 .. vec[op.exiting].len + 1

\* While a child is taken out of a Vec, it is there once, or its place holds a copy of the
\* word before it; once the Vec is shorter, nobody holds it.
Removing ==
  /\ op.do = "shift" =>
       /\ op.into \in Task /\ life[op.into] = "alive" /\ op.new \in Task \ {InitProc}
       /\ life[op.new] = "zombie" /\ parent[op.new] = op.into /\ op.child \in 1 .. vec[op.into].len
       /\ \A i \in 1 .. vec[op.into].len : i # op.child => vec[op.into].buf[i] # op.new
       /\ \/ vec[op.into].buf[op.child] = op.new
          \/ op.child > 1 /\ vec[op.into].buf[op.child] = vec[op.into].buf[op.child - 1]
  /\ op.do = "drop" =>
       /\ op.new \in Task \ {InitProc} /\ life[op.new] = "zombie" /\ \A t \in Task : op.new \notin Kids(t)

\* Every task, but the one in transit, is reached from INITPROC by the Vecs.
ReachInv ==
  \A S \in SUBSET Task :
    InitProc \in S /\ (\A t \in S : Kids(t) \subseteq S) => Existing \ InTransit \subseteq S

\* The inductive invariant.
TreeInv ==
  /\ TreeTypeOK /\ LifeInv /\ HoldInv /\ Pushing /\ Exiting /\ Removing /\ ReachInv
  /\ \A t \in Task : VecInv(t)

---------------------------------------------------------------------------
(* The tree: lemmas about a Vec.                                            *)

\* A write of one word of a Vec.
LEMMA WordWritten ==
  ASSUME NEW f \in [Task -> VecRec], NEW g, NEW p \in Task, NEW i, NEW w,
         g = [f EXCEPT ![p].buf[i] = w]
  PROVE  /\ g[p].buf = [f[p].buf EXCEPT ![i] = w] /\ g[p].len = f[p].len
         /\ \A t \in Task : t # p => g[t] = f[t]
<1>1. g[p] = [f[p] EXCEPT !.buf = [f[p].buf EXCEPT ![i] = w]]
  OBVIOUS
<1>2. f[p] \in VecRec
  OBVIOUS
<1>3. \A t \in Task : t # p => g[t] = f[t]
  OBVIOUS
<1> QED BY <1>1, <1>2, <1>3 DEF VecRec

\* What a Vec is made of.
LEMMA VecFacts ==
  ASSUME TreeTypeOK, NEW t \in Task
  PROVE  /\ vec[t].buf \in Seq(Task \cup {Null, FreeBlock}) /\ vec[t].len \in Nat
         /\ Len(vec[t].buf) \in Nat /\ DOMAIN vec[t].buf = 1 .. Len(vec[t].buf)
         /\ \A i \in 1 .. Len(vec[t].buf) : vec[t].buf[i] \in Task \cup {Null, FreeBlock}
         /\ vec[t] = [buf |-> vec[t].buf, len |-> vec[t].len]
<1>1. vec[t] \in VecRec
  BY DEF TreeTypeOK
<1> QED BY <1>1 DEF VecRec

\* Forgetting words leaves a Vec.
LEMMA ForgetType ==
  ASSUME NEW v \in VecRec, NEW n \in Nat
  PROVE  /\ Forget(v, n) \in VecRec /\ Forget(v, n).len = n
         /\ Len(Forget(v, n).buf) = Len(v.buf)
         /\ \A i \in 1 .. Len(v.buf) : i <= n => Forget(v, n).buf[i] = v.buf[i]
<1> DEFINE b == [i \in DOMAIN v.buf |-> IF i <= n THEN v.buf[i] ELSE Null]
<1>1. v.buf \in Seq(Task \cup {Null, FreeBlock}) /\ DOMAIN v.buf = 1 .. Len(v.buf) /\ Len(v.buf) \in Nat
      /\ \A i \in 1 .. Len(v.buf) : v.buf[i] \in Task \cup {Null, FreeBlock}
  BY DEF VecRec
<1>2. b \in [1 .. Len(v.buf) -> Task \cup {Null, FreeBlock}]
  BY <1>1
<1>3. b \in Seq(Task \cup {Null, FreeBlock}) /\ Len(b) = Len(v.buf)
  BY <1>1, <1>2
<1>4. Forget(v, n) = [buf |-> b, len |-> n]
  BY DEF Forget
<1>5. \A i \in 1 .. Len(v.buf) : i <= n => b[i] = v.buf[i]
  BY <1>1
<1> HIDE DEF b
<1> QED BY <1>3, <1>4, <1>5 DEF VecRec

\* A grown buffer keeps its words.
LEMMA GrownType ==
  ASSUME NEW b \in Seq(Task \cup {Null, FreeBlock})
  PROVE  /\ Grown(b) \in Seq(Task \cup {Null, FreeBlock}) /\ Len(Grown(b)) > Len(b)
         /\ \A i \in 1 .. Len(b) : Grown(b)[i] = b[i]
<1> DEFINE more == [i \in 1 .. (IF Len(b) < FirstCap THEN FirstCap ELSE Len(b)) |-> Null]
<1>1. Len(b) \in Nat /\ FirstCap \in Nat \ {0}
  BY TreeAssumption
<1>2. more \in Seq(Task \cup {Null, FreeBlock}) /\ Len(more) > 0 /\ Len(more) \in Nat
  BY <1>1
<1>3. Grown(b) = b \o more
  BY DEF Grown
<1> HIDE DEF more
<1> QED BY <1>1, <1>2, <1>3

\* The variables keep their types.
LEMMA TreeTypeNext == ASSUME TreeInv, TreeNext PROVE TreeTypeOK'
<1> USE DEF TreeInv
<1>0. TreeTypeOK /\ InitProc \in Task /\ Null \notin Task
  BY TreeAssumption DEF InitProc, Null
<1>a. \A t \in Task : vec[t] \in VecRec
  BY <1>0 DEF TreeTypeOK
<1>b. Quiet \in OpRec /\ EmptyVec \in VecRec
  BY DEF Quiet, OpRec, EmptyVec, VecRec
<1>1. CASE Boot
  BY <1>0, <1>1 DEF Boot, TreeTypeOK
<1>2. ASSUME NEW p \in Task, NEW c \in Task, Fork(p, c) PROVE TreeTypeOK'
  <2>1. op' = [do |-> "push", into |-> p, new |-> c, kept |-> Null, exiting |-> Null, child |-> 0]
    BY <1>2 DEF Fork, Quiet
  <2>2. op' \in OpRec
    BY <2>1 DEF OpRec
  <2> QED BY <1>0, <1>2, <2>2 DEF Fork, TreeTypeOK
<1>3. CASE ReallocFrees
  <2>1. op.into \in Task /\ vec[op.into].len = Len(vec[op.into].buf) /\ vec[op.into].len > 0
    BY <1>3 DEF ReallocFrees, Pushing
  <2>2. vec[op.into].buf[1] \in Task
    <3>1. 1 \in 1 .. vec[op.into].len
      BY <1>0, <2>1, VecFacts
    <3>2. WordAt(op.into, 1) \in Task
      BY <2>1, <3>1 DEF VecInv
    <3>3. op.do # "move"
      BY <1>3 DEF ReallocFrees
    <3> QED BY <3>2, <3>3 DEF WordAt
  <2>3. op' \in OpRec
    BY <1>0, <1>3, <2>2 DEF ReallocFrees, OpRec, TreeTypeOK
  <2>4. PICK link \in {Null, FreeBlock} : vec' = [vec EXCEPT ![op.into].buf[1] = link]
    BY <1>3 DEF ReallocFrees
  <2>5. [vec[op.into].buf EXCEPT ![1] = link] \in Seq(Task \cup {Null, FreeBlock})
    <3>1. 1 \in 1 .. Len(vec[op.into].buf) /\ vec[op.into].buf \in Seq(Task \cup {Null, FreeBlock})
      <4>1. vec[op.into].len \in Nat /\ Len(vec[op.into].buf) \in Nat
            /\ vec[op.into].buf \in Seq(Task \cup {Null, FreeBlock})
        BY <1>0, <2>1, VecFacts
      <4> QED BY <2>1, <4>1
    <3> QED BY <3>1, ExceptSeq
  <2>6. [vec[op.into] EXCEPT !.buf[1] = link] \in VecRec
    BY <1>a, <2>1, <2>5 DEF VecRec
  <2>7. vec' \in [Task -> VecRec]
    BY <1>0, <2>4, <2>6 DEF TreeTypeOK
  <2> QED BY <1>0, <1>3, <2>3, <2>7 DEF ReallocFrees, TreeTypeOK
<1>4. CASE ReallocMoves
  <2>1. op.into \in Task /\ op.do \in {"push", "move"}
    BY <1>4 DEF ReallocMoves, Pushing
  <2>2. op' \in OpRec
    BY <1>0, <1>4 DEF ReallocMoves, OpRec, TreeTypeOK
  <2>3. PICK b \in Seq(Task \cup {Null, FreeBlock}) : vec' = [vec EXCEPT ![op.into].buf = Grown(b)]
    <3>1. CASE op.do = "push"
      BY <1>0, <1>4, <2>1, <3>1, VecFacts DEF ReallocMoves
    <3>2. CASE op.do = "move"
      <4>1. op.kept \in Task
        BY <3>2 DEF Pushing
      <4>2. [vec[op.into].buf EXCEPT ![1] = op.kept] \in Seq(Task \cup {Null, FreeBlock})
        <5>1. /\ 1 \in 1 .. Len(vec[op.into].buf)
              /\ vec[op.into].buf \in Seq(Task \cup {Null, FreeBlock})
          <6>1. vec[op.into].len \in Nat /\ Len(vec[op.into].buf) \in Nat
                /\ vec[op.into].buf \in Seq(Task \cup {Null, FreeBlock})
            BY <1>0, <2>1, VecFacts
          <6>2. vec[op.into].len = Len(vec[op.into].buf) /\ vec[op.into].len > 0
            BY <3>2 DEF Pushing
          <6> QED BY <6>1, <6>2
        <5> QED BY <4>1, <5>1, ExceptSeq
      <4> QED BY <1>4, <3>2, <4>2 DEF ReallocMoves
    <3> QED BY <2>1, <3>1, <3>2
  <2>4. [vec[op.into] EXCEPT !.buf = Grown(b)] \in VecRec
    BY <1>a, <2>1, GrownType DEF VecRec
  <2>5. vec' \in [Task -> VecRec]
    BY <1>0, <2>3, <2>4 DEF TreeTypeOK
  <2> QED BY <1>0, <1>4, <2>2, <2>5 DEF ReallocMoves, TreeTypeOK
<1>5. CASE PushWrites
  <2>1. op.into \in Task /\ op.new \in Task /\ vec[op.into].len < Len(vec[op.into].buf)
    BY <1>5 DEF PushWrites, Pushing
  <2>2. op' \in OpRec
    BY <1>0, <1>5 DEF PushWrites, OpRec, TreeTypeOK
  <2>3. [vec[op.into].buf EXCEPT ![vec[op.into].len + 1] = op.new] \in Seq(Task \cup {Null, FreeBlock})
    <3>1. /\ vec[op.into].len + 1 \in 1 .. Len(vec[op.into].buf)
          /\ vec[op.into].buf \in Seq(Task \cup {Null, FreeBlock})
      <4>1. vec[op.into].len \in Nat /\ Len(vec[op.into].buf) \in Nat
            /\ vec[op.into].buf \in Seq(Task \cup {Null, FreeBlock})
        BY <1>0, <2>1, VecFacts
      <4> QED BY <2>1, <4>1
    <3> QED BY <2>1, <3>1, ExceptSeq
  <2>4. [vec[op.into] EXCEPT !.buf[vec[op.into].len + 1] = op.new] \in VecRec
    BY <1>a, <2>1, <2>3 DEF VecRec
  <2>5. vec' \in [Task -> VecRec]
    BY <1>0, <1>5, <2>4 DEF TreeTypeOK, PushWrites
  <2> QED BY <1>0, <1>5, <2>2, <2>5 DEF PushWrites, TreeTypeOK
<1>6. CASE PushCounts
  <2>1. op' \in OpRec
    BY <1>0, <1>6, <1>b DEF PushCounts, OpRec, TreeTypeOK
  <2>2. op.into \in Task
    BY <1>6 DEF PushCounts, Pushing
  <2>3. [vec[op.into] EXCEPT !.len = @ + 1] \in VecRec
    BY <1>a, <2>2 DEF VecRec
  <2>4. vec' \in [Task -> VecRec]
    BY <1>0, <1>6, <2>3 DEF TreeTypeOK, PushCounts
  <2> QED BY <1>0, <1>6, <2>1, <2>4 DEF PushCounts, TreeTypeOK
<1>7. ASSUME NEW t \in Task, ExitTask(t) PROVE TreeTypeOK'
  <2>1. op' = [do |-> "exit", into |-> Null, new |-> Null, kept |-> Null, exiting |-> t, child |-> 1]
    BY <1>7 DEF ExitTask, Quiet
  <2>2. op' \in OpRec
    BY <2>1 DEF OpRec
  <2> QED BY <1>0, <1>7, <2>2 DEF ExitTask, TreeTypeOK
<1>8. CASE HandOver
  <2>1. op.exiting \in Task /\ op.child \in 1 .. vec[op.exiting].len /\ op.do = "exit"
    <3>1. op.exiting \in Task /\ op.do = "exit" /\ op.child \in 1 .. vec[op.exiting].len + 1
          /\ op.child <= vec[op.exiting].len
      BY <1>0, <1>8 DEF HandOver, Exiting, TreeTypeOK, OpRec
    <3>2. vec[op.exiting].len \in Nat
      BY <1>0, <3>1, VecFacts
    <3> QED BY <3>1, <3>2
  <2>2. vec[op.exiting].buf[op.child] \in Task
    BY <2>1 DEF VecInv, WordAt
  <2>3. op' \in OpRec
    <3>1. op' = [op EXCEPT !.do = "push", !.into = InitProc, !.new = vec[op.exiting].buf[op.child],
                           !.child = @ + 1]
      BY <1>8 DEF HandOver
    <3>2. op \in OpRec /\ op.child + 1 \in Nat
      BY <1>0, <2>1 DEF TreeTypeOK, OpRec
    <3> QED BY <1>0, <2>2, <3>1, <3>2 DEF OpRec
  <2> QED BY <1>0, <1>8, <2>2, <2>3 DEF HandOver, TreeTypeOK
<1>9. CASE ClearChildren
  <2>1. op.exiting \in Task
    BY <1>0, <1>9 DEF ClearChildren, Exiting, TreeTypeOK, OpRec
  <2>2. Forget(vec[op.exiting], 0) \in VecRec
    BY <1>a, <2>1, ForgetType
  <2> QED BY <1>0, <1>9, <1>b, <2>2 DEF ClearChildren, TreeTypeOK
<1>10. ASSUME NEW p \in Task, NEW i \in 1 .. Cardinality(Task), Wait(p, i) PROVE TreeTypeOK'
  <2>1. i \in 1 .. vec[p].len /\ op.do = "nothing"
    BY <1>10 DEF Wait
  <2>2. vec[p].buf[i] \in Task
    BY <2>1 DEF VecInv, WordAt
  <2>3. op' = [do |-> "shift", into |-> p, new |-> vec[p].buf[i], kept |-> Null, exiting |-> Null, child |-> i]
    BY <1>10 DEF Wait, Quiet
  <2>4. i \in Nat
    BY <1>0, <2>1, VecFacts
  <2>5. op' \in OpRec
    BY <2>2, <2>3, <2>4 DEF OpRec
  <2> QED BY <1>0, <1>10, <2>5 DEF Wait, TreeTypeOK
<1>11. CASE Shift
  <2>1. op.into \in Task /\ op.child \in 1 .. vec[op.into].len /\ op.child < vec[op.into].len
        /\ vec[op.into].len <= Len(vec[op.into].buf)
    BY <1>11 DEF Shift, Removing, VecInv
  <2>2. op' \in OpRec
    BY <1>0, <1>11 DEF Shift, OpRec, TreeTypeOK
  <2>3. [vec[op.into].buf EXCEPT ![op.child] = vec[op.into].buf[op.child + 1]]
          \in Seq(Task \cup {Null, FreeBlock})
    <3>1. op.child + 1 \in 1 .. Len(vec[op.into].buf) /\ vec[op.into].buf \in Seq(Task \cup {Null, FreeBlock})
      <4>1. vec[op.into].len \in Nat /\ Len(vec[op.into].buf) \in Nat
            /\ vec[op.into].buf \in Seq(Task \cup {Null, FreeBlock})
        BY <1>0, <2>1, VecFacts
      <4> QED BY <2>1, <4>1
    <3>2. vec[op.into].buf[op.child + 1] \in Task \cup {Null, FreeBlock}
      BY <1>0, <2>1, <3>1, VecFacts
    <3>3. op.child \in 1 .. Len(vec[op.into].buf)
      <4>1. vec[op.into].len \in Nat /\ Len(vec[op.into].buf) \in Nat
        BY <1>0, <2>1, VecFacts
      <4> QED BY <2>1, <4>1
    <3> QED BY <3>1, <3>2, <3>3, ExceptSeq
  <2>4. [vec[op.into] EXCEPT !.buf[op.child] = vec[op.into].buf[op.child + 1]] \in VecRec
    BY <1>a, <2>1, <2>3 DEF VecRec
  <2>5. vec' \in [Task -> VecRec]
    BY <1>0, <1>11, <2>4 DEF TreeTypeOK, Shift
  <2> QED BY <1>0, <1>11, <2>2, <2>5 DEF Shift, TreeTypeOK
<1>12. CASE RemoveCounts
  <2>1. op.into \in Task /\ vec[op.into].len - 1 \in Nat
    BY <1>0, <1>12, VecFacts DEF RemoveCounts, Removing
  <2>2. op' \in OpRec
    BY <1>0, <1>12 DEF RemoveCounts, OpRec, TreeTypeOK
  <2>3. Forget(vec[op.into], vec[op.into].len - 1) \in VecRec
    BY <1>a, <2>1, ForgetType
  <2>4. vec' \in [Task -> VecRec]
    BY <1>0, <1>12, <2>3 DEF TreeTypeOK, RemoveCounts
  <2> QED BY <1>0, <1>12, <2>2, <2>4 DEF RemoveCounts, TreeTypeOK
<1>13. CASE DropTask
  BY <1>0, <1>13, <1>b DEF DropTask, TreeTypeOK, Removing
<1> QED BY <1>1, <1>2, <1>3, <1>4, <1>5, <1>6, <1>7, <1>8, <1>9, <1>10, <1>11, <1>12, <1>13 DEF TreeNext

---------------------------------------------------------------------------
(* Steps that leave every word of a Vec as it was.                          *)

\* The Vecs hold what they held.
Keeps ==
  \A t \in Task :
    /\ vec'[t].len = vec[t].len /\ Len(vec[t].buf) <= Len(vec'[t].buf)
    /\ \A i \in 1 .. vec[t].len : WordAt(t, i)' = WordAt(t, i)

\* The sizes of a Vec.
LEMMA Sizes ==
  ASSUME TreeInv, NEW t \in Task
  PROVE  /\ vec[t].len \in Nat /\ Len(vec[t].buf) \in Nat /\ vec[t].len <= Len(vec[t].buf)
         /\ \A i \in 1 .. vec[t].len : i \in Nat /\ i \in 1 .. Len(vec[t].buf)
<1>1. vec[t].len \in Nat /\ Len(vec[t].buf) \in Nat /\ vec[t].len <= Len(vec[t].buf)
  BY VecFacts DEF TreeInv, VecInv
<1> QED BY <1>1

\* A buffer may change beyond the words it holds.
LEMMA BufferKeeps ==
  ASSUME TreeInv, op.into \in Task, NEW b, Len(vec[op.into].buf) <= Len(b),
         vec' = [vec EXCEPT ![op.into].buf = b],
         \A i \in 1 .. vec[op.into].len : b[i] = WordAt(op.into, i) \/ (i = 1 /\ op'.do = "move"),
         op'.into = op.into, op'.do = "move" => op'.kept = WordAt(op.into, 1)
  PROVE  Keeps
<1> USE DEF TreeInv
<1>1. ASSUME NEW t \in Task, t # op.into
      PROVE  vec'[t] = vec[t] /\ \A i : WordAt(t, i)' = WordAt(t, i)
  BY <1>1 DEF WordAt, TreeTypeOK
<1>2. vec'[op.into].len = vec[op.into].len /\ vec'[op.into].buf = b
  BY DEF TreeTypeOK, VecRec
<1>3. ASSUME NEW i \in 1 .. vec[op.into].len PROVE WordAt(op.into, i)' = WordAt(op.into, i)
  <2>1. WordAt(op.into, i)' = IF op'.do = "move" /\ i = 1 THEN op'.kept ELSE b[i]
    BY <1>2 DEF WordAt
  <2> QED BY <2>1
<1>4. \A t \in Task : Len(vec[t].buf) \in Nat
  BY Sizes
<1>5. \A t \in Task : Len(vec[t].buf) <= Len(vec'[t].buf)
  BY <1>1, <1>2, <1>4
<1> QED BY <1>1, <1>2, <1>3, <1>5 DEF Keeps

\* The steps that keep the words.
LEMMA WordsKept ==
  ASSUME TreeInv,
         \/ Boot \/ ReallocFrees \/ ReallocMoves \/ PushWrites \/ HandOver
         \/ \E p \in Task : ExitTask(p) \/ (\E c \in Task : Fork(p, c))
                            \/ (\E i \in 1 .. Cardinality(Task) : Wait(p, i))
  PROVE  Keeps
<1> USE DEF TreeInv
<1>0. TreeTypeOK /\ \A t \in Task : Len(vec[t].buf) \in Nat
  BY Sizes
<1>1. ASSUME vec' = vec, op.do # "move", op'.do # "move" PROVE Keeps
  BY <1>0, <1>1 DEF Keeps, WordAt
<1>2. CASE Boot
  <2>1. op.do # "move"
    BY <1>2 DEF Boot, LifeInv
  <2> QED BY <1>1, <1>2, <2>1 DEF Boot
<1>3. CASE \E p, c \in Task : Fork(p, c)
  BY <1>1, <1>3 DEF Fork, Quiet
<1>4. CASE \E p \in Task : ExitTask(p)
  BY <1>1, <1>4 DEF ExitTask, Quiet
<1>5. CASE \E p \in Task : \E i \in 1 .. Cardinality(Task) : Wait(p, i)
  BY <1>1, <1>5 DEF Wait, Quiet
<1>6. CASE HandOver
  <2>1. op.do = "exit" /\ vec' = vec
    BY <1>6 DEF HandOver
  <2>2. op'.do = "push"
    BY <1>0, <1>6 DEF HandOver, TreeTypeOK, OpRec
  <2> QED BY <1>1, <2>1, <2>2
<1>7. CASE ReallocFrees
  <2>1. op.into \in Task /\ op.do = "push"
    BY <1>7 DEF ReallocFrees, Pushing
  <2>2. PICK link \in {Null, FreeBlock} : vec' = [vec EXCEPT ![op.into].buf[1] = link]
    BY <1>7 DEF ReallocFrees
  <2> DEFINE b == [vec[op.into].buf EXCEPT ![1] = link]
  <2>3. vec' = [vec EXCEPT ![op.into].buf = b]
    BY <2>2
  <2>4. op'.into = op.into /\ op'.do = "move" /\ op'.kept = vec[op.into].buf[1]
    BY <1>0, <1>7 DEF ReallocFrees, TreeTypeOK, OpRec
  <2>5. Len(b) = Len(vec[op.into].buf) /\ \A i \in 1 .. vec[op.into].len : b[i] = vec[op.into].buf[i] \/ i = 1
    <3>1. vec[op.into].buf \in Seq(Task \cup {Null, FreeBlock}) /\ vec[op.into].len \in Nat
          /\ vec[op.into].len = Len(vec[op.into].buf) /\ vec[op.into].len > 0
      BY <1>0, <1>7, <2>1, VecFacts DEF ReallocFrees
    <3>2. 1 \in 1 .. Len(vec[op.into].buf) /\ link \in Task \cup {Null, FreeBlock}
      BY <3>1
    <3> QED BY <3>1, <3>2, ExceptSeq
  <2>6. \A i : WordAt(op.into, i) = vec[op.into].buf[i]
    BY <2>1 DEF WordAt
  <2> HIDE DEF b
  <2>7. Len(vec[op.into].buf) <= Len(b)
    BY <1>0, <2>1, <2>5
  <2> QED BY <2>1, <2>3, <2>4, <2>5, <2>6, <2>7, BufferKeeps
<1>8. CASE ReallocMoves
  <2>1. op.into \in Task /\ op.do \in {"push", "move"}
    BY <1>8 DEF ReallocMoves, Pushing
  <2>2. op'.into = op.into /\ op'.do = "push"
    BY <1>0, <1>8 DEF ReallocMoves, TreeTypeOK, OpRec
  <2>3. /\ vec[op.into].buf \in Seq(Task \cup {Null, FreeBlock}) /\ vec[op.into].len \in Nat
        /\ vec[op.into].len <= Len(vec[op.into].buf) /\ Len(vec[op.into].buf) \in Nat
    BY <1>0, <2>1, VecFacts, Sizes
  <2>4. PICK b \in Seq(Task \cup {Null, FreeBlock}) :
          /\ vec' = [vec EXCEPT ![op.into].buf = Grown(b)] /\ Len(b) = Len(vec[op.into].buf)
          /\ \A i \in 1 .. vec[op.into].len : b[i] = WordAt(op.into, i)
    <3>1. CASE op.do = "push"
      <4>1. vec' = [vec EXCEPT ![op.into].buf = Grown(vec[op.into].buf)]
        BY <1>8, <3>1 DEF ReallocMoves
      <4> QED BY <2>3, <3>1, <4>1 DEF WordAt
    <3>2. CASE op.do = "move"
      <4> DEFINE d == [vec[op.into].buf EXCEPT ![1] = op.kept]
      <4>1. vec' = [vec EXCEPT ![op.into].buf = Grown(d)]
        BY <1>8, <3>2 DEF ReallocMoves
      <4>2. op.kept \in Task /\ vec[op.into].len = Len(vec[op.into].buf) /\ vec[op.into].len > 0
        BY <3>2 DEF Pushing
      <4>3. 1 \in 1 .. Len(vec[op.into].buf)
        BY <2>3, <4>2
      <4>4. d \in Seq(Task \cup {Null, FreeBlock}) /\ Len(d) = Len(vec[op.into].buf)
            /\ \A i \in 1 .. vec[op.into].len : d[i] = IF i = 1 THEN op.kept ELSE vec[op.into].buf[i]
        BY <2>3, <4>2, <4>3, ExceptSeq
      <4> HIDE DEF d
      <4>5. \A i \in 1 .. vec[op.into].len : d[i] = WordAt(op.into, i)
        BY <3>2, <4>4 DEF WordAt
      <4> QED BY <4>1, <4>4, <4>5
    <3> QED BY <2>1, <3>1, <3>2
  <2>5. /\ Len(vec[op.into].buf) <= Len(Grown(b))
        /\ \A i \in 1 .. vec[op.into].len : Grown(b)[i] = WordAt(op.into, i)
    <3>1. Len(Grown(b)) > Len(b) /\ (\A i \in 1 .. Len(b) : Grown(b)[i] = b[i]) /\ Len(Grown(b)) \in Nat
      BY GrownType
    <3> QED BY <2>3, <2>4, <3>1
  <2> QED BY <2>1, <2>2, <2>4, <2>5, BufferKeeps
<1>9. CASE PushWrites
  <2>1. op.into \in Task /\ op.do = "push" /\ vec[op.into].len < Len(vec[op.into].buf) /\ op.new \in Task
    BY <1>9 DEF PushWrites, Pushing
  <2> DEFINE b == [vec[op.into].buf EXCEPT ![vec[op.into].len + 1] = op.new]
  <2>2. vec' = [vec EXCEPT ![op.into].buf = b]
    BY <1>9 DEF PushWrites
  <2>3. op'.into = op.into /\ op'.do = "count"
    BY <1>0, <1>9 DEF PushWrites, TreeTypeOK, OpRec
  <2>4. Len(b) = Len(vec[op.into].buf) /\ \A i \in 1 .. vec[op.into].len : b[i] = vec[op.into].buf[i]
    <3>1. vec[op.into].buf \in Seq(Task \cup {Null, FreeBlock}) /\ vec[op.into].len \in Nat
          /\ Len(vec[op.into].buf) \in Nat
      BY <1>0, <2>1, VecFacts
    <3>2. vec[op.into].len + 1 \in 1 .. Len(vec[op.into].buf)
      BY <2>1, <3>1
    <3> QED BY <2>1, <3>1, <3>2, ExceptSeq
  <2>5. \A i : WordAt(op.into, i) = vec[op.into].buf[i]
    BY <2>1 DEF WordAt
  <2> HIDE DEF b
  <2>6. Len(vec[op.into].buf) <= Len(b)
    BY <1>0, <2>1, <2>4
  <2> QED BY <2>1, <2>2, <2>3, <2>4, <2>5, <2>6, BufferKeeps
<1> QED BY <1>2, <1>3, <1>4, <1>5, <1>6, <1>7, <1>8, <1>9

\* What follows for the Vecs.
LEMMA KeptVecs ==
  ASSUME TreeInv, Keeps, op.do # "shift",
         \A t \in Task : life[t] # "none" => life'[t] # "none"
  PROVE  /\ \A t \in Task : Kids(t)' = Kids(t)
         /\ \A t \in Task : VecInv(t)'
<1>1. ASSUME NEW t \in Task PROVE Kids(t)' = Kids(t)
  BY DEF Keeps, Kids
<1>2. ASSUME NEW t \in Task PROVE VecInv(t)'
  <2>1. VecInv(t) /\ vec'[t].len = vec[t].len /\ vec[t].len \in Nat
    BY Sizes DEF TreeInv, Keeps
  <2>2. vec'[t].len <= Len(vec'[t].buf) /\ vec'[t].len <= Cardinality(Task)
    <3>1. Len(vec[t].buf) <= Len(vec'[t].buf) /\ Len(vec[t].buf) \in Nat /\ vec[t].len <= Len(vec[t].buf)
      BY Sizes DEF Keeps
    <3>2. vec[t].len <= Cardinality(Task)
      BY <2>1 DEF VecInv
    <3> QED BY <2>1, <3>1, <3>2, TreeAssumption, FS_CardinalityType
  <2>3. \A i \in 1 .. vec[t].len :
          WordAt(t, i)' \in Task \ {InitProc, t} /\ life'[WordAt(t, i)'] # "none"
    BY <2>1 DEF VecInv, Keeps
  <2>4. \A i, j \in 1 .. vec[t].len : ~(i < j /\ WordAt(t, i)' = WordAt(t, j)')
    BY <2>1 DEF VecInv, Keeps
  <2> QED BY <2>1, <2>2, <2>3, <2>4 DEF VecInv
<1> QED BY <1>1, <1>2

\* The rest of the invariant.
TreeRest == LifeInv /\ HoldInv /\ Pushing /\ Exiting /\ Removing /\ ReachInv

\* What is reached stays so when the Vecs hold what they held.
LEMMA ReachKept ==
  ASSUME TreeInv, \A t \in Task : Kids(t)' = Kids(t),
         (Existing \ InTransit)' \subseteq (Existing \ InTransit) \cup {InitProc}
  PROVE  ReachInv'
<1> SUFFICES ASSUME NEW S \in SUBSET Task, InitProc \in S, \A t \in S : Kids(t)' \subseteq S
             PROVE  (Existing \ InTransit)' \subseteq S
  BY DEF ReachInv
<1>1. \A t \in S : Kids(t) \subseteq S
  OBVIOUS
<1>2. Existing \ InTransit \subseteq S
  BY <1>1 DEF TreeInv, ReachInv
<1> QED BY <1>2

\* What is held is a task that exists, and its holder exists.
LEMMA KidsExist ==
  ASSUME TreeInv, NEW t \in Task, NEW c \in Kids(t)
  PROVE  c \in Task \ {InitProc, t} /\ life[c] # "none" /\ life[t] # "none"
<1>1. PICK i \in 1 .. vec[t].len : c = WordAt(t, i)
  BY DEF Kids
<1>2. c \in Task \ {InitProc, t} /\ life[c] # "none"
  BY <1>1 DEF TreeInv, VecInv
<1>3. life[t] # "none"
  <2>1. SUFFICES ASSUME life[t] = "none" PROVE FALSE
    OBVIOUS
  <2>2. vec[t].len = 0
    BY <2>1 DEF TreeInv, LifeInv, EmptyVec
  <2> QED BY <1>1, <2>2
<1> QED BY <1>2, <1>3

\* INITPROC comes to life.
LEMMA BootRest == ASSUME TreeInv, Boot PROVE TreeRest'
<1>0. Keeps /\ op.do = "nothing" /\ TreeTypeOK /\ op.exiting = Null
      /\ \A t \in Task : life[t] = "none"
  BY WordsKept DEF Boot, TreeInv, LifeInv, Exiting
<1>1. \A t \in Task : vec[t] = EmptyVec /\ parent[t] = Null /\ Kids(t)' = Kids(t)
  <2>1. op.do # "shift" /\ \A t \in Task : life[t] # "none" => life'[t] # "none"
    BY <1>0
  <2> QED BY <1>0, <2>1, KeptVecs DEF TreeInv, LifeInv
<1>2. LifeInv'
  BY <1>0, <1>1, TreeAssumption DEF Boot, LifeInv, TreeTypeOK, InitProc, EmptyVec
<1>3. HoldInv'
  BY <1>0, <1>1 DEF Boot, HoldInv, Kids, EmptyVec
<1>4. Pushing' /\ Exiting' /\ Removing'
  BY <1>0 DEF Boot, Pushing, Exiting, Removing
<1>5. ReachInv'
  <2>1. (Existing \ InTransit)' \subseteq {InitProc}
    BY <1>0 DEF Boot, Existing, TreeTypeOK
  <2> QED BY <1>1, <2>1, ReachKept
<1> QED BY <1>2, <1>3, <1>4, <1>5 DEF TreeRest

\* A child is created.
LEMMA ForkRest == ASSUME TreeInv, NEW p \in Task, NEW c \in Task, Fork(p, c) PROVE TreeRest'
<1>0. /\ Keeps /\ op.do = "nothing" /\ TreeTypeOK /\ op.exiting = Null /\ Null \notin Task
      /\ life[p] = "alive" /\ life[c] = "none" /\ c # InitProc /\ p # c
      /\ op' = [do |-> "push", into |-> p, new |-> c, kept |-> Null, exiting |-> Null, child |-> 0]
      /\ life' = [life EXCEPT ![c] = "alive"] /\ parent' = [parent EXCEPT ![c] = p]
      /\ booted' = booted /\ vec' = vec
  BY WordsKept, TreeAssumption DEF Fork, TreeInv, Exiting, Quiet, Null
<1>1. \A t \in Task : Kids(t)' = Kids(t)
  <2>1. op.do # "shift" /\ \A t \in Task : life[t] # "none" => life'[t] # "none"
    BY <1>0 DEF TreeTypeOK
  <2> QED BY <1>0, <2>1, KeptVecs
<1>2. \A t \in Task : c \notin Kids(t)
  BY <1>0, KidsExist
<1>3. LifeInv'
  BY <1>0, TreeAssumption DEF LifeInv, TreeTypeOK, InitProc, TreeInv
<1>4. HoldInv'
  <2>1. ASSUME NEW t \in Task, NEW d \in Kids(t) PROVE parent'[d] = t
    <3>1. d \in Task /\ d # c /\ parent[d] = t
      BY <1>0, <1>2, KidsExist DEF HoldInv, TreeInv
    <3> QED BY <1>0, <3>1 DEF TreeTypeOK
  <2> QED BY <1>0, <1>1, <2>1 DEF HoldInv
<1>5. Pushing' /\ Exiting' /\ Removing'
  <2>1. c \notin Kids(p)'
    BY <1>1, <1>2
  <2> QED BY <1>0, <2>1 DEF Pushing, Exiting, Removing, TreeTypeOK
<1>6. ReachInv'
  <2>1. (Existing \ InTransit)' \subseteq Existing \ InTransit
    BY <1>0 DEF Existing, InTransit, TreeTypeOK
  <2> QED BY <1>1, <2>1, ReachKept
<1> QED BY <1>3, <1>4, <1>5, <1>6 DEF TreeRest

\* A task exits.
LEMMA ExitRest == ASSUME TreeInv, NEW t \in Task, ExitTask(t) PROVE TreeRest'
<1>0. /\ Keeps /\ op.do = "nothing" /\ TreeTypeOK /\ op.exiting = Null /\ Null \notin Task
      /\ life[t] = "alive" /\ t # InitProc
      /\ op' = [do |-> "exit", into |-> Null, new |-> Null, kept |-> Null, exiting |-> t, child |-> 1]
      /\ life' = [life EXCEPT ![t] = "zombie"] /\ parent' = parent
      /\ booted' = booted /\ vec' = vec
  BY WordsKept, TreeAssumption DEF ExitTask, TreeInv, Exiting, Quiet, Null
<1>1. \A s \in Task : Kids(s)' = Kids(s)
  <2>1. op.do # "shift" /\ \A s \in Task : life[s] # "none" => life'[s] # "none"
    BY <1>0 DEF TreeTypeOK
  <2> QED BY <1>0, <2>1, KeptVecs
<1>2. LifeInv'
  <2>1. booted
    BY <1>0 DEF LifeInv, TreeInv
  <2> QED BY <1>0, <2>1, TreeAssumption DEF LifeInv, TreeTypeOK, InitProc, TreeInv
<1>3. HoldInv'
  <2>1. ASSUME NEW s \in Task, NEW d \in Kids(s) PROVE parent'[d] = s
    BY <1>0 DEF HoldInv, TreeInv
  <2>2. ASSUME NEW i \in 1 .. vec'[t].len
        PROVE  parent'[WordAt(t, i)'] = t /\ ~(i < 1)
    <3>1. vec'[t].len = vec[t].len /\ vec[t].len \in Nat
      BY <1>0, Sizes
    <3>2. WordAt(t, i)' \in Kids(t)'
      BY DEF Kids
    <3> QED BY <1>1, <2>1, <3>1, <3>2
  <2>3. op'.exiting = t /\ op'.child = 1
    BY <1>0
  <2>4. \A s \in Task : s # t => \A d \in Kids(s)' : parent'[d] = s
    BY <1>1, <2>1
  <2>5. \A i \in 1 .. vec'[op'.exiting].len : parent'[WordAt(t, i)'] = op'.exiting /\ ~(i < op'.child)
    BY <2>2, <2>3
  <2>6. \A i : WordAt(op.exiting, i)' = WordAt(t, i)'
    BY <2>3 DEF WordAt
  <2> QED BY <2>3, <2>4, <2>5, <2>6 DEF HoldInv
<1>4. Pushing' /\ Exiting' /\ Removing'
  <2>1. vec[t].len \in Nat
    BY Sizes
  <2>2. 1 \in 1 .. vec[t].len + 1
    BY <2>1
  <2> QED BY <1>0, <2>2 DEF Pushing, Exiting, Removing, TreeTypeOK
<1>5. ReachInv'
  <2>1. (Existing \ InTransit)' \subseteq Existing \ InTransit
    BY <1>0 DEF Existing, InTransit, TreeTypeOK
  <2> QED BY <1>1, <2>1, ReachKept
<1> QED BY <1>2, <1>3, <1>4, <1>5 DEF TreeRest

\* waitpid finds a zombie.
LEMMA WaitRest ==
  ASSUME TreeInv, NEW p \in Task, NEW i \in 1 .. Cardinality(Task), Wait(p, i)
  PROVE  TreeRest'
<1>0. /\ Keeps /\ op.do = "nothing" /\ TreeTypeOK /\ op.exiting = Null /\ Null \notin Task
      /\ life[p] = "alive" /\ i \in 1 .. vec[p].len /\ life[vec[p].buf[i]] = "zombie"
      /\ op' = [do |-> "shift", into |-> p, new |-> vec[p].buf[i], kept |-> Null,
                exiting |-> Null, child |-> i]
      /\ life' = life /\ parent' = parent /\ booted' = booted /\ vec' = vec
  BY WordsKept, TreeAssumption DEF Wait, TreeInv, Exiting, Quiet, Null
<1>1. \A t \in Task : Kids(t)' = Kids(t)
  <2>1. op.do # "shift" /\ \A t \in Task : life[t] # "none" => life'[t] # "none"
    BY <1>0
  <2> QED BY <1>0, <2>1, KeptVecs
<1>2. LifeInv'
  BY <1>0 DEF LifeInv, TreeInv
<1>3. HoldInv'
  BY <1>0, <1>1 DEF HoldInv, TreeInv
<1>4. Pushing' /\ Exiting'
  BY <1>0 DEF Pushing, Exiting
<1>5. Removing'
  <2>1. \A j \in 1 .. vec[p].len : WordAt(p, j) = vec[p].buf[j]
    BY <1>0 DEF WordAt
  <2>2. vec[p].buf[i] \in Task \ {InitProc}
    BY <1>0, <2>1 DEF TreeInv, VecInv
  <2>3. ASSUME NEW j \in 1 .. vec[p].len, j # i PROVE vec[p].buf[j] # vec[p].buf[i]
    <3>1. j < i \/ i < j
      BY <1>0, <2>3, Sizes
    <3> QED BY <1>0, <2>1, <3>1 DEF TreeInv, VecInv
  <2>4. parent[vec[p].buf[i]] = p
    <3>1. vec[p].buf[i] \in Kids(p)
      BY <1>0, <2>1 DEF Kids
    <3> QED BY <1>0, <3>1 DEF TreeInv, HoldInv
  <2> QED BY <1>0, <2>2, <2>3, <2>4 DEF Removing
<1>6. ReachInv'
  <2>1. (Existing \ InTransit)' \subseteq Existing \ InTransit
    BY <1>0 DEF Existing, InTransit
  <2> QED BY <1>1, <2>1, ReachKept
<1> QED BY <1>2, <1>3, <1>4, <1>5, <1>6 DEF TreeRest

\* A push goes on.
LEMMA PushRest ==
  ASSUME TreeInv, ReallocFrees \/ ReallocMoves \/ PushWrites
  PROVE  TreeRest'
<1>0. /\ Keeps /\ op.do \in {"push", "move"} /\ op'.do \in {"push", "move", "count"} /\ TreeTypeOK
      /\ op'.into = op.into /\ op'.new = op.new /\ op'.exiting = op.exiting /\ op'.child = op.child
      /\ life' = life /\ parent' = parent /\ booted' = booted
  <2>1. Keeps /\ TreeTypeOK
    BY WordsKept DEF TreeInv
  <2> QED BY <2>1 DEF ReallocFrees, ReallocMoves, PushWrites, TreeTypeOK, OpRec
<1>a. /\ op.into \in Task /\ op.new \in Task \ {InitProc, op.into}
      /\ life[op.into] = "alive" /\ life[op.new] # "none"
      /\ parent[op.new] = op.into /\ op.new \notin Kids(op.into)
  BY <1>0 DEF TreeInv, Pushing
<1>1. \A t \in Task : Kids(t)' = Kids(t)
  <2>1. op.do # "shift" /\ \A t \in Task : life[t] # "none" => life'[t] # "none"
    BY <1>0
  <2> QED BY <1>0, <2>1, KeptVecs
<1>2. LifeInv'
  <2>1. \A t \in Task : life[t] # "none" \/ t # op.into
    BY <1>a
  <2>2. \A t \in Task : t # op.into => vec'[t] = vec[t]
    BY <1>0 DEF ReallocFrees, ReallocMoves, PushWrites, TreeTypeOK
  <2>3. \A t \in Task : vec'[t].len = vec[t].len
    BY <1>0 DEF Keeps
  <2>4. booted
    BY <1>0 DEF TreeInv, LifeInv
  <2> QED BY <1>0, <2>1, <2>2, <2>3, <2>4 DEF LifeInv, TreeInv
<1>3. HoldInv'
  <2>1. \A t \in Task : t # op'.exiting => \A c \in Kids(t)' : parent'[c] = t
    BY <1>0, <1>1 DEF HoldInv, TreeInv
  <2>2. ASSUME op'.exiting # Null, NEW i \in 1 .. vec'[op'.exiting].len
        PROVE  IF i < op'.child
               THEN /\ parent'[WordAt(op.exiting, i)'] = InitProc
                    /\ \/ WordAt(op.exiting, i)' \in Kids(InitProc)'
                       \/ op'.do \in {"push", "move", "count"} /\ WordAt(op.exiting, i)' = op'.new
               ELSE parent'[WordAt(op.exiting, i)'] = op'.exiting
    <3>1. op.exiting \in Task /\ i \in 1 .. vec[op.exiting].len /\ op.exiting # Null
      BY <1>0, <2>2 DEF Keeps, TreeTypeOK, OpRec
    <3>2. WordAt(op.exiting, i)' = WordAt(op.exiting, i)
      <4>1. WordAt(op.exiting, i)' = IF op'.do = "move" /\ op'.exiting = op'.into /\ i = 1 THEN op'.kept
                                     ELSE vec'[op'.exiting].buf[i]
        BY DEF WordAt
      <4>2. \A t : t = op.exiting => WordAt(t, i)' = WordAt(t, i)
        BY <1>0, <3>1 DEF Keeps
      <4>3. PICK t \in Task : t = op.exiting
        BY <3>1
      <4>4. WordAt(t, i)' = IF op'.do = "move" /\ t = op'.into /\ i = 1 THEN op'.kept
                            ELSE vec'[t].buf[i]
        BY DEF WordAt
      <4> QED BY <1>0, <4>1, <4>2, <4>3, <4>4
    <3>3. InitProc \in Task /\ Kids(InitProc)' = Kids(InitProc)
      BY <1>1, TreeAssumption DEF InitProc
    <3>4. op.child' = op.child
      BY <1>0
    <3>5. LET c == WordAt(op.exiting, i)
          IN IF i < op.child
             THEN /\ parent[c] = InitProc
                  /\ c \in Kids(InitProc) \/ (op.do \in {"push", "move", "count"} /\ c = op.new)
             ELSE parent[c] = op.exiting
      BY <3>1 DEF HoldInv, TreeInv
    <3> QED BY <1>0, <3>2, <3>3, <3>5
  <2> QED BY <2>1, <2>2 DEF HoldInv
<1>4. Pushing'
  <2>1. Kids(op.into)' = Kids(op.into)
    <3>1. PICK t \in Task : t = op.into /\ t = op'.into
      BY <1>0, <1>a
    <3>2. Kids(t)' = Kids(op.into)'
      BY <3>1 DEF Kids, WordAt
    <3> QED BY <1>1, <3>1, <3>2
  <2>2. op'.do = "move" => op'.kept \in Task /\ vec'[op'.into].len = Len(vec'[op'.into].buf)
                           /\ vec'[op'.into].len > 0
    <3>1. SUFFICES ASSUME ReallocFrees
                   PROVE  op'.kept \in Task /\ vec'[op.into].len = Len(vec'[op.into].buf)
                          /\ vec'[op.into].len > 0
      BY <1>0 DEF ReallocMoves, PushWrites, TreeTypeOK, OpRec
    <3>2. op.do = "push" /\ vec[op.into].len = Len(vec[op.into].buf) /\ vec[op.into].len > 0
          /\ op'.kept = vec[op.into].buf[1]
      BY <1>0, <3>1 DEF ReallocFrees, TreeTypeOK, OpRec
    <3>3. 1 \in 1 .. vec[op.into].len
      BY <1>a, <3>2, Sizes
    <3>4. op'.kept \in Task
      BY <1>a, <3>2, <3>3 DEF TreeInv, VecInv, WordAt
    <3>5. PICK link \in {Null, FreeBlock} : vec' = [vec EXCEPT ![op.into].buf[1] = link]
      BY <3>1 DEF ReallocFrees
    <3>6. vec'[op.into].buf = [vec[op.into].buf EXCEPT ![1] = link]
      BY <1>0, <1>a, <3>5 DEF TreeTypeOK, VecRec
    <3>7. Len(vec'[op.into].buf) = Len(vec[op.into].buf)
      <4>1. vec[op.into].buf \in Seq(Task \cup {Null, FreeBlock})
        BY <1>0, <1>a, VecFacts
      <4>2. 1 \in 1 .. Len(vec[op.into].buf)
        BY <3>2, <3>3
      <4> QED BY <3>6, <4>1, <4>2, ExceptSeq
    <3> QED BY <1>0, <1>a, <3>2, <3>4, <3>7 DEF Keeps
  <2>3. op'.do = "count" => vec'[op'.into].len < Len(vec'[op'.into].buf)
                            /\ vec'[op'.into].buf[vec'[op'.into].len + 1] = op'.new
    <3>1. SUFFICES ASSUME PushWrites
                   PROVE  vec'[op.into].len < Len(vec'[op.into].buf)
                          /\ vec'[op.into].buf[vec'[op.into].len + 1] = op.new
      BY <1>0 DEF ReallocMoves, ReallocFrees, TreeTypeOK, OpRec
    <3>2. vec'[op.into].buf = [vec[op.into].buf EXCEPT ![vec[op.into].len + 1] = op.new]
          /\ vec'[op.into].len = vec[op.into].len /\ vec[op.into].len < Len(vec[op.into].buf)
      <4>1. /\ vec' = [vec EXCEPT ![op.into].buf[vec[op.into].len + 1] = op.new]
            /\ vec[op.into].len < Len(vec[op.into].buf)
        BY <3>1 DEF PushWrites
      <4>2. vec \in [Task -> VecRec]
        BY <1>0 DEF TreeTypeOK
      <4> QED BY <1>a, <4>1, <4>2, WordWritten
    <3>3. vec[op.into].buf \in Seq(Task \cup {Null, FreeBlock}) /\ vec[op.into].len \in Nat
          /\ Len(vec[op.into].buf) \in Nat
      BY <1>0, <1>a, VecFacts
    <3>4. vec[op.into].len + 1 \in 1 .. Len(vec[op.into].buf)
      BY <3>2, <3>3
    <3> QED BY <1>a, <3>2, <3>3, <3>4, ExceptSeq
  <2>4. op'.into \in Task /\ op'.new \in Task \ {InitProc, op'.into}
        /\ life'[op'.into] = "alive" /\ life'[op'.new] # "none" /\ parent'[op'.new] = op'.into
    BY <1>0, <1>a
  <2>5. (op'.exiting = Null => op'.child = 0) /\ (op'.exiting # Null => op'.into = InitProc)
    BY <1>0 DEF TreeInv, Pushing
  <2>6. op'.new \notin Kids(op.into)'
    BY <1>0, <1>a, <2>1
  <2> QED BY <2>2, <2>3, <2>4, <2>5, <2>6 DEF Pushing
<1>5. Exiting' /\ Removing'
  <2>1. op'.exiting # Null => /\ life'[op'.exiting] = "zombie" /\ op'.exiting # InitProc
                              /\ op'.child \in 1 .. vec'[op'.exiting].len + 1
    BY <1>0 DEF TreeInv, Exiting, Keeps, TreeTypeOK, OpRec
  <2> QED BY <1>0, <2>1 DEF Exiting, Removing
<1>6. ReachInv'
  <2>1. (Existing \ InTransit)' \subseteq Existing \ InTransit
    BY <1>0 DEF Existing, InTransit
  <2> QED BY <1>1, <2>1, ReachKept
<1> QED BY <1>2, <1>3, <1>4, <1>5, <1>6 DEF TreeRest

\* The exiting task hands a child over.
LEMMA HandOverRest == ASSUME TreeInv, HandOver PROVE TreeRest'
<1> DEFINE e == op.exiting
           c == vec[e].buf[op.child]
<1>0. /\ Keeps /\ op.do = "exit" /\ TreeTypeOK /\ Null \notin Task /\ InitProc \in Task
      /\ e \in Task \ {InitProc} /\ life[e] = "zombie" /\ op.new = Null
      /\ op.child \in 1 .. vec[e].len
      /\ op'.do = "push" /\ op'.into = InitProc /\ op'.new = c /\ op'.exiting = e
      /\ op'.child = op.child + 1
      /\ parent' = [parent EXCEPT ![c] = InitProc] /\ life' = life /\ booted' = booted /\ vec' = vec
  <2>1. Keeps /\ TreeTypeOK /\ Null \notin Task /\ InitProc \in Task
    BY WordsKept, TreeAssumption DEF TreeInv, Null, InitProc
  <2>2. op.do = "exit" /\ op.child <= vec[e].len /\ life' = life /\ booted' = booted /\ vec' = vec
        /\ parent' = [parent EXCEPT ![c] = InitProc]
        /\ op' = [op EXCEPT !.do = "push", !.into = InitProc, !.new = c, !.child = @ + 1]
    BY DEF HandOver
  <2>3. e \in Task \ {InitProc} /\ life[e] = "zombie" /\ op.new = Null
        /\ op.child \in 1 .. vec[e].len + 1
    BY <2>1, <2>2 DEF TreeInv, Exiting, TreeTypeOK, OpRec
  <2>4. vec[e].len \in Nat
    BY <2>3, Sizes
  <2>5. op.child \in 1 .. vec[e].len
    BY <2>2, <2>3, <2>4
  <2>6. op \in OpRec
    BY <2>1 DEF TreeTypeOK
  <2>7. op'.do = "push" /\ op'.into = InitProc /\ op'.new = c /\ op'.exiting = e
        /\ op'.child = op.child + 1
    BY <2>2, <2>6 DEF OpRec
  <2> QED BY <2>1, <2>2, <2>3, <2>5, <2>7
<1>a. /\ \A i : WordAt(e, i) = vec[e].buf[i] /\ WordAt(e, i)' = vec[e].buf[i]
      /\ \A i : WordAt(op.exiting, i)' = vec[e].buf[i]
  BY <1>0 DEF WordAt
<1>b. c \in Kids(e) /\ c \in Task \ {InitProc, e} /\ life[c] # "none"
  <2>1. c \in Kids(e)
    BY <1>0, <1>a DEF Kids
  <2> QED BY <1>0, <2>1, KidsExist
<1>c. parent[c] = e
  BY <1>0, <1>a DEF TreeInv, HoldInv
<1> HIDE DEF e
<1>1. \A t \in Task : Kids(t)' = Kids(t)
  <2>1. op.do # "shift" /\ \A t \in Task : life[t] # "none" => life'[t] # "none"
    BY <1>0
  <2> QED BY <1>0, <2>1, KeptVecs
<1>d. c \notin Kids(InitProc)
  BY <1>0, <1>c DEF TreeInv, HoldInv, e
<1> HIDE DEF c
<1>2. LifeInv'
  BY <1>0, <1>b DEF LifeInv, TreeInv, TreeTypeOK, e
<1>3. HoldInv'
  <2>1. ASSUME NEW t \in Task, t # e, NEW d \in Kids(t) PROVE parent'[d] = t
    <3>1. d \in Task /\ parent[d] = t
      BY <2>1, KidsExist DEF TreeInv, HoldInv, e
    <3>2. d # c
      BY <1>c, <2>1, <3>1
    <3> QED BY <1>0, <3>1, <3>2 DEF TreeTypeOK
  <2>2. ASSUME NEW i \in 1 .. vec[e].len
        PROVE  LET d == vec[e].buf[i]
               IN IF i < op.child + 1
                  THEN parent'[d] = InitProc /\ (d \in Kids(InitProc) \/ d = c)
                  ELSE parent'[d] = e
    <3> DEFINE d == vec[e].buf[i]
    <3>1. d \in Task
      BY <1>0, <1>a DEF TreeInv, VecInv
    <3>2. IF i < op.child THEN parent[d] = InitProc /\ d \in Kids(InitProc) ELSE parent[d] = e
      BY <1>0, <1>a DEF TreeInv, HoldInv, e
    <3>3. i > op.child => d # c
      BY <1>0, <1>a DEF TreeInv, VecInv, c
    <3>4. i = op.child => d = c
      BY DEF c
    <3>5. parent'[d] = IF d = c THEN InitProc ELSE parent[d]
      BY <1>0, <3>1 DEF TreeTypeOK
    <3>6. i \in Nat /\ op.child \in Nat
      BY <1>0, Sizes
    <3> HIDE DEF d
    <3>7. IF i < op.child + 1
          THEN parent'[d] = InitProc /\ (d \in Kids(InitProc) \/ d = c)
          ELSE parent'[d] = e
      <4>1. CASE i < op.child
        BY <3>2, <3>5, <3>6, <4>1
      <4>2. CASE i = op.child
        BY <3>4, <3>5, <3>6, <4>2
      <4>3. CASE i > op.child
        BY <3>2, <3>3, <3>5, <3>6, <4>3
      <4> QED BY <3>6, <4>1, <4>2, <4>3
    <3> QED BY <3>7 DEF d
  <2> QED BY <1>0, <1>1, <1>a, <2>1, <2>2 DEF HoldInv
<1>4. Pushing'
  <2>1. life[InitProc] = "alive"
    BY <1>0 DEF TreeInv, LifeInv
  <2>2. c \notin Kids(InitProc)'
    BY <1>0, <1>1, <1>d
  <2>3. parent'[c] = InitProc
    BY <1>0, <1>b DEF TreeTypeOK
  <2>4. Kids(op.into)' = Kids(InitProc)'
    BY <1>0 DEF Kids, WordAt
  <2> QED BY <1>0, <1>b, <2>1, <2>2, <2>3, <2>4 DEF Pushing
<1>5. Exiting' /\ Removing'
  <2>1. op.child + 1 \in 1 .. vec[e].len + 1
    BY <1>0, Sizes
  <2> QED BY <1>0, <2>1 DEF Exiting, Removing
<1>6. ReachInv'
  <2>1. (Existing \ InTransit)' \subseteq Existing \ InTransit
    BY <1>0 DEF Existing, InTransit
  <2> QED BY <1>1, <2>1, ReachKept
<1> QED BY <1>2, <1>3, <1>4, <1>5, <1>6 DEF TreeRest

\* As many different tasks as there are words: there are no more than tasks.
LEMMA NoMoreThanTasks ==
  ASSUME NEW n \in Nat, NEW g \in [1 .. n -> Task], \A i, j \in 1 .. n : i < j => g[i] # g[j]
  PROVE  n <= Cardinality(Task)
<1>1. IsFiniteSet(Task)
  BY TreeAssumption
<1>2. g \in Injection(1 .. n, Task)
  BY DEF Injection, IsInjective
<1>3. Cardinality(1 .. n) = n /\ IsFiniteSet(1 .. n)
  BY FS_Interval
<1>4. Cardinality(1 .. n) <= Cardinality(Task)
  BY <1>1, <1>2, FS_Injection
<1> QED BY <1>3, <1>4

\* The invariant of a Vec whose words are b, all different.
LEMMA DistinctVec ==
  ASSUME NEW t \in Task, NEW n, NEW b, vec'[t].len = n, n <= Len(vec'[t].buf),
         n <= Cardinality(Task), \A i : WordAt(t, i)' = b[i],
         \A i \in 1 .. n : b[i] \in Task \ {InitProc, t} /\ life'[b[i]] # "none",
         \A i, j \in 1 .. n : ~(i < j /\ b[i] = b[j])
  PROVE  VecInv(t)'
<1>1. \A i, j \in 1 .. n : ~(i < j /\ WordAt(t, i)' = WordAt(t, j)')
  OBVIOUS
<1>2. \A i \in 1 .. n : WordAt(t, i)' \in Task \ {InitProc, t} /\ life'[WordAt(t, i)'] # "none"
  OBVIOUS
<1> QED BY <1>1, <1>2 DEF VecInv

\* A push is counted.
LEMMA CountsRest == ASSUME TreeInv, PushCounts PROVE TreeRest' /\ \A t \in Task : VecInv(t)'
<1>0. /\ TreeTypeOK /\ op.do = "count" /\ Null \notin Task /\ InitProc \in Task
      /\ op.into \in Task /\ op.new \in Task \ {InitProc, op.into}
      /\ life[op.into] = "alive" /\ life[op.new] # "none"
      /\ parent[op.new] = op.into /\ op.new \notin Kids(op.into)
      /\ vec[op.into].len < Len(vec[op.into].buf) /\ vec[op.into].buf[vec[op.into].len + 1] = op.new
      /\ vec' = [vec EXCEPT ![op.into].len = @ + 1]
      /\ life' = life /\ parent' = parent /\ booted' = booted
  BY TreeAssumption DEF TreeInv, PushCounts, Pushing, Null, InitProc
<1>a. PICK p \in Task, n \in Nat, c \in Task :
        p = op.into /\ n = vec[p].len /\ c = op.new
  BY <1>0, Sizes
<1>b. /\ vec'[p].len = n + 1 /\ vec'[p].buf = vec[p].buf
      /\ \A t \in Task : t # p => vec'[t] = vec[t]
  BY <1>0, <1>a DEF TreeTypeOK, VecRec
<1>c. /\ op'.do \in {"nothing", "exit"} /\ op'.new = Null /\ op'.exiting = op.exiting
      /\ op'.exiting # Null => op'.do = "exit" /\ op'.child = op.child
      /\ op'.exiting = Null => op'.do = "nothing"
  BY <1>0 DEF PushCounts, Quiet, TreeTypeOK, OpRec
<1>d. /\ \A t, i : WordAt(t, i) = vec[t].buf[i]
      /\ \A t \in Task : \A i : WordAt(t, i)' = vec[t].buf[i]
  <2>1. \A t \in Task : vec'[t].buf = vec[t].buf
    BY <1>b
  <2> QED BY <1>0, <1>c, <2>1 DEF WordAt
<1>1. /\ Kids(p)' = Kids(p) \cup {c} /\ \A t \in Task : t # p => Kids(t)' = Kids(t)
  <2>1. 1 .. n + 1 = (1 .. n) \cup {n + 1}
    BY <1>a
  <2>2. Kids(p)' = {vec[p].buf[i] : i \in 1 .. n + 1}
    BY <1>b, <1>d DEF Kids
  <2>3. Kids(p) = {vec[p].buf[i] : i \in 1 .. n}
    BY <1>a, <1>d DEF Kids
  <2>4. vec[p].buf[n + 1] = c
    BY <1>0, <1>a
  <2>5. ASSUME NEW t \in Task, t # p PROVE Kids(t)' = Kids(t)
    BY <1>b, <1>d, <2>5 DEF Kids
  <2> QED BY <2>1, <2>2, <2>3, <2>4, <2>5
<1>2. ASSUME NEW t \in Task PROVE VecInv(t)'
  <2>1. CASE t # p
    <3>1. VecInv(t) /\ vec'[t] = vec[t]
      BY <1>b, <2>1 DEF TreeInv
    <3>2. \A i, j \in 1 .. vec[t].len : ~(i < j /\ vec[t].buf[i] = vec[t].buf[j])
      BY <1>0, <1>d, <3>1 DEF VecInv
    <3>3. /\ vec[t].len <= Len(vec[t].buf) /\ vec[t].len <= Cardinality(Task)
          /\ \A i \in 1 .. vec[t].len :
               vec[t].buf[i] \in Task \ {InitProc, t} /\ life'[vec[t].buf[i]] # "none"
      BY <1>0, <1>d, <3>1 DEF VecInv
    <3> QED BY <1>d, <3>1, <3>2, <3>3, DistinctVec
  <2>2. CASE t = p
    <3>1. VecInv(p)
      BY DEF TreeInv
    <3>2. \A i \in 1 .. n + 1 : vec[p].buf[i] \in Task \ {InitProc, p} /\ life[vec[p].buf[i]] # "none"
      <4>1. ASSUME NEW i \in 1 .. n + 1 PROVE i \in 1 .. n \/ i = n + 1
        BY <1>a
      <4> QED BY <1>0, <1>a, <1>d, <3>1, <4>1 DEF VecInv
    <3>3. \A i, j \in 1 .. n + 1 : i < j => vec[p].buf[i] # vec[p].buf[j]
      <4>1. SUFFICES ASSUME NEW i \in 1 .. n + 1, NEW j \in 1 .. n + 1, i < j,
                            vec[p].buf[i] = vec[p].buf[j]
                     PROVE  FALSE
        OBVIOUS
      <4>2. i \in 1 .. n /\ (j \in 1 .. n \/ j = n + 1)
        BY <1>a, <4>1
      <4>3. CASE j \in 1 .. n
        BY <1>0, <1>a, <1>d, <3>1, <4>1, <4>2, <4>3 DEF VecInv
      <4>4. CASE j = n + 1
        <5>1. WordAt(p, i) \in Kids(p)
          BY <1>a, <4>2 DEF Kids
        <5>2. vec[p].buf[i] = op.new
          BY <1>0, <1>a, <4>1, <4>4
        <5> QED BY <1>0, <1>a, <1>d, <5>1, <5>2
      <4> QED BY <4>2, <4>3, <4>4
    <3>4. n + 1 <= Cardinality(Task)
      <4> DEFINE g == [i \in 1 .. n + 1 |-> vec[p].buf[i]]
      <4>1. g \in [1 .. n + 1 -> Task] /\ \A i, j \in 1 .. n + 1 : i < j => g[i] # g[j]
        BY <3>2, <3>3
      <4>2. n + 1 \in Nat
        BY <1>a
      <4> HIDE DEF g
      <4> QED BY <4>1, <4>2, NoMoreThanTasks
    <3>5. n + 1 <= Len(vec[p].buf)
      BY <1>0, <1>a, Sizes
    <3>6. VecInv(p)'
      <4>1. n + 1 <= Len(vec'[p].buf) /\ vec'[p].len = n + 1
        BY <1>b, <3>5
      <4>2. \A i : WordAt(p, i)' = vec[p].buf[i]
        BY <1>d
      <4>3. \A i, j \in 1 .. n + 1 : ~(i < j /\ vec[p].buf[i] = vec[p].buf[j])
        BY <3>3
      <4>4. \A i \in 1 .. n + 1 : vec[p].buf[i] \in Task \ {InitProc, p} /\ life'[vec[p].buf[i]] # "none"
        BY <1>0, <3>2
      <4> QED BY <3>4, <4>1, <4>2, <4>3, <4>4, DistinctVec
    <3> QED BY <2>2, <3>6
  <2> QED BY <2>1, <2>2
<1>3. LifeInv'
  <2>1. booted
    BY <1>0 DEF TreeInv, LifeInv
  <2> QED BY <1>0, <1>a, <1>b, <1>c, <2>1 DEF LifeInv, TreeInv
<1>4. HoldInv'
  <2>1. ASSUME NEW t \in Task, t # op.exiting, NEW d \in Kids(t)' PROVE parent[d] = t
    <3>1. d \in Kids(t) \/ (t = p /\ d = c)
      BY <1>1, <2>1
    <3> QED BY <1>0, <1>a, <2>1, <3>1 DEF TreeInv, HoldInv
  <2>2. ASSUME op.exiting # Null, NEW i \in 1 .. vec'[op.exiting].len
        PROVE  IF i < op.child
               THEN parent[vec[op.exiting].buf[i]] = InitProc /\ vec[op.exiting].buf[i] \in Kids(InitProc)'
               ELSE parent[vec[op.exiting].buf[i]] = op.exiting
    <3>1. op.exiting \in Task /\ op.exiting # InitProc /\ p = InitProc
      BY <1>0, <1>a, <2>2 DEF TreeInv, Exiting, Pushing, TreeTypeOK, OpRec
    <3>2. vec'[op.exiting] = vec[op.exiting]
      BY <1>b, <3>1
    <3>3. IF i < op.child
          THEN /\ parent[vec[op.exiting].buf[i]] = InitProc
               /\ vec[op.exiting].buf[i] \in Kids(InitProc) \/ vec[op.exiting].buf[i] = c
          ELSE parent[vec[op.exiting].buf[i]] = op.exiting
      BY <1>a, <1>d, <2>2, <3>2 DEF TreeInv, HoldInv
    <3>4. Kids(InitProc)' = Kids(InitProc) \cup {c}
      BY <1>1, <3>1
    <3> QED BY <3>3, <3>4
  <2>3. op.exiting # Null => op.exiting \in Task
    BY <1>0 DEF TreeTypeOK, OpRec
  <2>4. op.exiting # Null => \A i : WordAt(op.exiting, i)' = vec[op.exiting].buf[i]
    <3>1. SUFFICES ASSUME op.exiting # Null PROVE \A i : WordAt(op.exiting, i)' = vec[op.exiting].buf[i]
      OBVIOUS
    <3>2. \A i : WordAt(op.exiting, i)' = vec'[op.exiting].buf[i]
      BY <1>c DEF WordAt
    <3> QED BY <1>b, <2>3, <3>1, <3>2
  <2> QED BY <1>0, <1>c, <2>1, <2>2, <2>4 DEF HoldInv
<1>5. Pushing' /\ Exiting' /\ Removing'
  <2>1. op.exiting # Null => /\ life[op.exiting] = "zombie" /\ op.exiting # InitProc
                             /\ op.child \in 1 .. vec'[op.exiting].len + 1
    <3>1. SUFFICES ASSUME op.exiting # Null
                   PROVE  /\ life[op.exiting] = "zombie" /\ op.exiting # InitProc
                          /\ op.child \in 1 .. vec'[op.exiting].len + 1
      OBVIOUS
    <3>2. op.exiting \in Task /\ op.exiting # InitProc /\ p = InitProc /\ life[op.exiting] = "zombie"
          /\ op.child \in 1 .. vec[op.exiting].len + 1
      BY <1>0, <1>a, <3>1 DEF TreeInv, Exiting, Pushing, TreeTypeOK, OpRec
    <3> QED BY <1>b, <3>2
  <2> QED BY <1>0, <1>c, <2>1 DEF Pushing, Exiting, Removing
<1>6. ReachInv'
  <2>1. SUFFICES ASSUME NEW S \in SUBSET Task, InitProc \in S, \A t \in S : Kids(t)' \subseteq S
                 PROVE  (Existing \ InTransit)' \subseteq S
    BY DEF ReachInv
  <2>2. \A t \in S : Kids(t) \subseteq S
    BY <1>1, <2>1
  <2>3. Existing \ {c} \subseteq S
    BY <1>0, <1>a, <2>1, <2>2 DEF TreeInv, ReachInv, InTransit
  <2>4. p \in S
    BY <1>0, <1>a, <2>3 DEF Existing
  <2>5. c \in S
    BY <1>1, <2>1, <2>4
  <2>6. Existing' = Existing
    BY <1>0 DEF Existing
  <2> QED BY <2>3, <2>5, <2>6
<1> QED BY <1>2, <1>3, <1>4, <1>5, <1>6 DEF TreeRest

\* A zombie that has exited holds nothing.
LEMMA ZombieIsEmpty ==
  ASSUME TreeInv, NEW t \in Task, life[t] = "zombie", t # op.exiting
  PROVE  vec[t].len = 0 /\ Kids(t) = {}
BY DEF TreeInv, LifeInv, Kids

\* A Vec that is not touched, and whose words live on.
LEMMA OtherVec ==
  ASSUME TreeInv, NEW t \in Task, vec'[t] = vec[t], op.do # "move", op'.do # "move",
         op.do = "shift" => t # op.into,
         \A c \in Kids(t) : life'[c] # "none"
  PROVE  VecInv(t)' /\ Kids(t)' = Kids(t)
<1>1. \A i : WordAt(t, i)' = vec[t].buf[i] /\ WordAt(t, i) = vec[t].buf[i]
  BY DEF WordAt
<1>2. VecInv(t)
  BY DEF TreeInv
<1>3. \A i, j \in 1 .. vec[t].len : ~(i < j /\ vec[t].buf[i] = vec[t].buf[j])
  BY <1>1, <1>2 DEF VecInv
<1>4. /\ vec[t].len <= Len(vec[t].buf) /\ vec[t].len <= Cardinality(Task)
      /\ \A i \in 1 .. vec[t].len : vec[t].buf[i] \in Task \ {InitProc, t}
  BY <1>1, <1>2 DEF VecInv
<1>5. \A i \in 1 .. vec[t].len : vec[t].buf[i] \in Kids(t)
  BY <1>1 DEF Kids
<1>6. VecInv(t)'
  BY <1>1, <1>3, <1>4, <1>5, DistinctVec
<1>7. Kids(t)' = Kids(t)
  BY <1>1 DEF Kids
<1> QED BY <1>6, <1>7

\* The exiting task forgets its children.
LEMMA ClearRest == ASSUME TreeInv, ClearChildren PROVE TreeRest' /\ \A t \in Task : VecInv(t)'
<1>0. /\ TreeTypeOK /\ op.do = "exit" /\ Null \notin Task /\ InitProc \in Task
      /\ op.exiting \in Task \ {InitProc} /\ life[op.exiting] = "zombie" /\ op.new = Null
      /\ op.child \in 1 .. vec[op.exiting].len + 1 /\ op.child > vec[op.exiting].len
      /\ vec' = [vec EXCEPT ![op.exiting] = Forget(@, 0)]
      /\ life' = life /\ parent' = parent /\ booted' = booted
      /\ op'.do = "nothing" /\ op'.exiting = Null /\ op'.new = Null
  BY TreeAssumption DEF TreeInv, ClearChildren, Exiting, Null, InitProc, TreeTypeOK, OpRec, Quiet
<1>a. PICK e \in Task : e = op.exiting /\ e # InitProc
  BY <1>0
<1>b. vec'[e].len = 0 /\ Len(vec'[e].buf) \in Nat /\ \A t \in Task : t # e => vec'[t] = vec[t]
  <2>1. vec[e] \in VecRec /\ vec'[e] = Forget(vec[e], 0)
    BY <1>0, <1>a DEF TreeTypeOK
  <2>2. Forget(vec[e], 0).len = 0 /\ Len(Forget(vec[e], 0).buf) = Len(vec[e].buf)
    BY <2>1, ForgetType
  <2>3. Len(vec[e].buf) \in Nat
    BY <1>a, Sizes
  <2> QED BY <1>0, <1>a, <2>1, <2>2, <2>3 DEF TreeTypeOK
<1>1. Kids(e)' = {}
  BY <1>b DEF Kids
<1>2. \A t \in Task : t # e => VecInv(t)' /\ Kids(t)' = Kids(t)
  <2>1. SUFFICES ASSUME NEW t \in Task, t # e PROVE VecInv(t)' /\ Kids(t)' = Kids(t)
    OBVIOUS
  <2>2. \A c \in Kids(t) : life'[c] # "none"
    BY <1>0, KidsExist
  <2> QED BY <1>0, <1>b, <2>1, <2>2, OtherVec
<1>3. VecInv(e)'
  <2>1. Cardinality(Task) \in Nat
    BY TreeAssumption, FS_CardinalityType
  <2> QED BY <1>b, <2>1 DEF VecInv
<1>4. LifeInv'
  BY <1>0, <1>a, <1>b DEF LifeInv, TreeInv
<1>5. HoldInv'
  <2>1. ASSUME NEW t \in Task, NEW c \in Kids(t)' PROVE parent[c] = t
    <3>1. t # e /\ c \in Kids(t)
      BY <1>1, <1>2, <2>1
    <3> QED BY <1>a, <3>1 DEF TreeInv, HoldInv
  <2> QED BY <1>0, <2>1 DEF HoldInv
<1>6. Pushing' /\ Exiting' /\ Removing'
  BY <1>0 DEF Pushing, Exiting, Removing
<1>7. ReachInv'
  <2>1. SUFFICES ASSUME NEW S \in SUBSET Task, InitProc \in S, \A t \in S : Kids(t)' \subseteq S
                 PROVE  (Existing \ InTransit)' \subseteq S
    BY DEF ReachInv
  <2>2. Kids(e) \subseteq Kids(InitProc)
    <3>1. SUFFICES ASSUME NEW i \in 1 .. vec[e].len PROVE WordAt(e, i) \in Kids(InitProc)
      BY DEF Kids
    <3>2. i < op.child
      BY <1>0, <1>a, Sizes
    <3> QED BY <1>0, <1>a, <3>2 DEF TreeInv, HoldInv
  <2>3. Kids(InitProc) \subseteq S
    BY <1>0, <1>2, <1>a, <2>1
  <2>4. \A t \in S : Kids(t) \subseteq S
    BY <1>2, <2>1, <2>2, <2>3
  <2>5. Existing \ InTransit \subseteq S
    BY <2>1, <2>4 DEF TreeInv, ReachInv
  <2>6. (Existing \ InTransit)' \subseteq Existing \ InTransit
    BY <1>0 DEF Existing, InTransit
  <2> QED BY <2>5, <2>6
<1> QED BY <1>2, <1>3, <1>4, <1>5, <1>6, <1>7 DEF TreeRest

\* A word of the Vec is shifted down.
LEMMA ShiftRest == ASSUME TreeInv, Shift PROVE TreeRest' /\ \A t \in Task : VecInv(t)'
<1>0. /\ TreeTypeOK /\ op.do = "shift" /\ op.exiting = Null /\ Null \notin Task /\ InitProc \in Task
      /\ op.into \in Task /\ op.new \in Task \ {InitProc} /\ life[op.into] = "alive"
      /\ life[op.new] = "zombie" /\ parent[op.new] = op.into
      /\ op.child \in 1 .. vec[op.into].len /\ op.child < vec[op.into].len
      /\ \A i \in 1 .. vec[op.into].len : i # op.child => vec[op.into].buf[i] # op.new
      /\ \/ vec[op.into].buf[op.child] = op.new
         \/ op.child > 1 /\ vec[op.into].buf[op.child] = vec[op.into].buf[op.child - 1]
      /\ vec' = [vec EXCEPT ![op.into].buf[op.child] = vec[op.into].buf[op.child + 1]]
      /\ life' = life /\ parent' = parent /\ booted' = booted
      /\ op'.do = "shift" /\ op'.exiting = Null /\ op'.new = op.new /\ op'.into = op.into
      /\ op'.child = op.child + 1
  <2>1. TreeTypeOK /\ op \in OpRec
    BY DEF TreeInv, TreeTypeOK
  <2>2. op.do = "shift" /\ op.child < vec[op.into].len /\ op' = [op EXCEPT !.child = @ + 1]
        /\ vec' = [vec EXCEPT ![op.into].buf[op.child] = vec[op.into].buf[op.child + 1]]
        /\ life' = life /\ parent' = parent /\ booted' = booted
    BY DEF Shift
  <2>3. op'.do = "shift" /\ op'.exiting = op.exiting /\ op'.new = op.new /\ op'.into = op.into
        /\ op'.child = op.child + 1
    BY <2>1, <2>2 DEF OpRec
  <2>4. op.exiting = Null
    BY <2>2 DEF TreeInv, Exiting
  <2>5. Null \notin Task /\ InitProc \in Task
    BY TreeAssumption DEF Null, InitProc
  <2>6. Removing
    BY DEF TreeInv
  <2> QED BY <2>1, <2>2, <2>3, <2>4, <2>5, <2>6 DEF Removing
<1>a. PICK p \in Task, z \in Task, n \in Nat, j \in Nat :
        p = op.into /\ z = op.new /\ n = vec[p].len /\ j = op.child
  BY <1>0, Sizes DEF TreeTypeOK, OpRec
<1>b. /\ vec'[p].len = n /\ \A t \in Task : t # p => vec'[t] = vec[t]
      /\ Len(vec'[p].buf) = Len(vec[p].buf)
      /\ \A i \in 1 .. n : vec'[p].buf[i] = IF i = j THEN vec[p].buf[j + 1] ELSE vec[p].buf[i]
  <2>1. vec'[p].buf = [vec[p].buf EXCEPT ![j] = vec[p].buf[j + 1]] /\ vec'[p].len = n
        /\ \A t \in Task : t # p => vec'[t] = vec[t]
    <3>1. vec' = [vec EXCEPT ![p].buf[j] = vec[p].buf[j + 1]] /\ vec[p].len = n
      BY <1>0, <1>a
    <3>2. vec \in [Task -> VecRec]
      BY <1>0 DEF TreeTypeOK
    <3> QED BY <3>1, <3>2, WordWritten
  <2>2. /\ vec[p].buf \in Seq(Task \cup {Null, FreeBlock}) /\ Len(vec[p].buf) \in Nat
        /\ \A i \in 1 .. Len(vec[p].buf) : vec[p].buf[i] \in Task \cup {Null, FreeBlock}
    BY <1>0, VecFacts
  <2>3. n <= Len(vec[p].buf)
    BY <1>a, Sizes
  <2>4. j \in 1 .. Len(vec[p].buf) /\ j + 1 \in 1 .. Len(vec[p].buf)
    BY <1>0, <1>a, <2>2, <2>3
  <2>5. vec[p].buf[j + 1] \in Task \cup {Null, FreeBlock}
    BY <2>2, <2>4
  <2>6. \A i \in 1 .. n : i \in 1 .. Len(vec[p].buf)
    BY <1>a, <2>2, <2>3
  <2> QED BY <2>1, <2>2, <2>4, <2>5, <2>6, ExceptSeq
<1>c. \A i : WordAt(p, i) = vec[p].buf[i] /\ WordAt(p, i)' = vec'[p].buf[i]
  BY <1>0 DEF WordAt
<1>d. /\ j \in 1 .. n /\ j < n /\ j + 1 \in 1 .. n
      /\ \A i \in 1 .. n : i # j => vec[p].buf[i] # z
      /\ vec[p].buf[j] = z \/ (j > 1 /\ vec[p].buf[j] = vec[p].buf[j - 1])
  BY <1>0, <1>a
<1>e. /\ n <= Len(vec[p].buf) /\ n <= Cardinality(Task)
      /\ \A i \in 1 .. n : vec[p].buf[i] \in Task \ {InitProc, p} /\ life[vec[p].buf[i]] # "none"
      /\ \A i, k \in 1 .. n : i < k /\ vec[p].buf[i] = vec[p].buf[k] => k = j /\ i = k - 1
  BY <1>a, <1>c DEF TreeInv, VecInv
<1>1. \A t \in Task : t # p => VecInv(t)' /\ Kids(t)' = Kids(t)
  <2>1. SUFFICES ASSUME NEW t \in Task, t # p PROVE VecInv(t)' /\ Kids(t)' = Kids(t)
    OBVIOUS
  <2>2. \A c \in Kids(t) : life'[c] # "none"
    BY <1>0, KidsExist
  <2> QED BY <1>0, <1>a, <1>b, <2>1, <2>2, OtherVec
<1>2. VecInv(p)'
  <2>1. \A i \in 1 .. n : vec'[p].buf[i] \in Task \ {InitProc, p} /\ life[vec'[p].buf[i]] # "none"
    <3>1. SUFFICES ASSUME NEW i \in 1 .. n
                   PROVE  vec'[p].buf[i] \in Task \ {InitProc, p} /\ life[vec'[p].buf[i]] # "none"
      OBVIOUS
    <3>2. PICK k \in 1 .. n : vec'[p].buf[i] = vec[p].buf[k]
      BY <1>b, <1>d
    <3> QED BY <1>e, <3>2
  <2>2. ASSUME NEW i \in 1 .. n, NEW k \in 1 .. n, i < k, vec'[p].buf[i] = vec'[p].buf[k]
        PROVE  k = j + 1 /\ i = k - 1
    <3>1. CASE k = j
      <4>1. i \in Nat /\ i < j + 1 /\ i # j /\ j + 1 # j
        BY <1>a, <2>2, <3>1
      <4>2. vec[p].buf[i] = vec[p].buf[j + 1]
        BY <1>b, <1>d, <2>2, <3>1, <4>1
      <4> QED BY <1>d, <1>e, <4>1, <4>2
    <3>2. CASE i = j
      <4>1. vec[p].buf[j + 1] = vec[p].buf[k]
        BY <1>b, <2>2, <3>2
      <4>2. k = j + 1 \/ j + 1 < k
        BY <1>a, <2>2, <3>2
      <4>3. ~(j + 1 < k)
        BY <1>a, <1>d, <1>e, <3>2, <4>1
      <4> QED BY <1>a, <3>2, <4>2, <4>3
    <3>3. CASE i # j /\ k # j
      BY <1>b, <1>e, <2>2, <3>3
    <3> QED BY <3>1, <3>2, <3>3
  <2>3. \A i, k \in 1 .. vec'[p].len :
          i < k /\ WordAt(p, i)' = WordAt(p, k)' =>
            op'.do = "shift" /\ p = op'.into /\ k = op'.child /\ i = k - 1
    BY <1>0, <1>a, <1>b, <1>c, <2>2
  <2>4. \A i \in 1 .. vec'[p].len :
          WordAt(p, i)' \in Task \ {InitProc, p} /\ life'[WordAt(p, i)'] # "none"
    <3>1. \A i \in 1 .. n :
            vec'[p].buf[i] \in Task \ {InitProc, p} /\ life'[vec'[p].buf[i]] # "none"
      BY <1>0, <2>1
    <3> QED BY ONLY <1>b, <1>c, <3>1
  <2> QED BY <1>b, <1>e, <2>3, <2>4 DEF VecInv
<1>3. Kids(p)' \subseteq Kids(p) /\ Kids(p) \subseteq Kids(p)' \cup {z}
  <2>1. Kids(p) = {vec[p].buf[i] : i \in 1 .. n} /\ Kids(p)' = {vec'[p].buf[i] : i \in 1 .. n}
    BY <1>a, <1>b, <1>c DEF Kids
  <2>2. \A i \in 1 .. n : vec'[p].buf[i] \in Kids(p)
    BY <1>b, <1>d, <2>1
  <2>3. \A i \in 1 .. n : vec[p].buf[i] \in Kids(p)' \cup {z}
    <3>1. \A i \in 1 .. n : i # j => vec[p].buf[i] \in Kids(p)'
      BY <1>b, <2>1
    <3>2. j > 1 => j - 1 \in 1 .. n /\ j - 1 # j
      BY <1>a, <1>d
    <3> QED BY <1>d, <3>1, <3>2
  <2> QED BY <2>1, <2>2, <2>3
<1>4. LifeInv'
  <2>1. booted
    BY <1>0 DEF LifeInv, TreeInv
  <2> QED BY <1>0, <1>a, <1>b, <2>1 DEF LifeInv, TreeInv
<1>5. HoldInv'
  <2>1. ASSUME NEW t \in Task, NEW c \in Kids(t)' PROVE parent[c] = t
    <3>1. c \in Kids(t)
      BY <1>1, <1>3, <2>1
    <3> QED BY <1>0, <3>1 DEF TreeInv, HoldInv
  <2> QED BY <1>0, <2>1 DEF HoldInv
<1>6. Pushing' /\ Exiting'
  BY <1>0 DEF Pushing, Exiting
<1>7. Removing'
  <2>1. \A i \in 1 .. n : i # j + 1 => vec'[p].buf[i] # z
    BY <1>a, <1>b, <1>d
  <2>2. vec'[p].buf[j + 1] = vec'[p].buf[j + 1 - 1] /\ j + 1 > 1
    <3>1. j + 1 - 1 = j /\ j + 1 # j /\ j + 1 > 1
      BY <1>a, <1>d
    <3> QED BY <1>b, <1>d, <3>1
  <2>3. /\ op'.do = "shift" /\ op'.into = p /\ op'.new = z /\ op'.child = j + 1
        /\ p \in Task /\ life'[p] = "alive" /\ z \in Task \ {InitProc} /\ life'[z] = "zombie"
        /\ parent'[z] = p /\ j + 1 \in 1 .. vec'[p].len
    BY <1>0, <1>a, <1>b, <1>d
  <2>4. \A i \in 1 .. vec'[p].len : i # j + 1 => vec'[p].buf[i] # z
    BY <1>b, <2>1
  <2> QED BY <2>2, <2>3, <2>4 DEF Removing
<1>8. ReachInv'
  <2>1. SUFFICES ASSUME NEW S \in SUBSET Task, InitProc \in S, \A t \in S : Kids(t)' \subseteq S
                 PROVE  (Existing \ InTransit)' \subseteq S
    BY DEF ReachInv
  <2>2. Kids(z) = {}
    BY <1>0, <1>a, ZombieIsEmpty
  <2>3. \A t \in S \cup {z} : Kids(t) \subseteq S \cup {z}
    BY <1>1, <1>3, <2>1, <2>2
  <2>4. S \cup {z} \in SUBSET Task /\ InitProc \in S \cup {z}
    BY <1>a, <2>1
  <2>5. Existing \ InTransit \subseteq S \cup {z}
    BY <2>3, <2>4 DEF TreeInv, ReachInv
  <2>6. InTransit = {z} /\ (Existing \ InTransit)' = Existing \ InTransit
    BY <1>0, <1>a DEF Existing, InTransit
  <2> QED BY <2>5, <2>6
<1> QED BY <1>1, <1>2, <1>4, <1>5, <1>6, <1>7, <1>8 DEF TreeRest

\* The Vec is one word shorter.
LEMMA RemoveRest == ASSUME TreeInv, RemoveCounts PROVE TreeRest' /\ \A t \in Task : VecInv(t)'
<1>0. /\ TreeTypeOK /\ op.do = "shift" /\ op.exiting = Null /\ Null \notin Task /\ InitProc \in Task
      /\ op.into \in Task /\ op.new \in Task \ {InitProc} /\ life[op.into] = "alive"
      /\ life[op.new] = "zombie" /\ parent[op.new] = op.into
      /\ op.child \in 1 .. vec[op.into].len /\ op.child = vec[op.into].len
      /\ \A i \in 1 .. vec[op.into].len : i # op.child => vec[op.into].buf[i] # op.new
      /\ \/ vec[op.into].buf[op.child] = op.new
         \/ op.child > 1 /\ vec[op.into].buf[op.child] = vec[op.into].buf[op.child - 1]
      /\ vec' = [vec EXCEPT ![op.into] = Forget(@, @.len - 1)]
      /\ life' = life /\ parent' = parent /\ booted' = booted
      /\ op'.do = "drop" /\ op'.exiting = Null /\ op'.new = op.new
  <2>1. TreeTypeOK /\ op \in OpRec
    BY DEF TreeInv, TreeTypeOK
  <2>2. op.do = "shift" /\ op.child = vec[op.into].len /\ op' = [op EXCEPT !.do = "drop"]
        /\ vec' = [vec EXCEPT ![op.into] = Forget(@, @.len - 1)]
        /\ life' = life /\ parent' = parent /\ booted' = booted
    BY DEF RemoveCounts
  <2>3. op'.do = "drop" /\ op'.exiting = op.exiting /\ op'.new = op.new
    BY <2>1, <2>2 DEF OpRec
  <2>4. op.exiting = Null
    BY <2>2 DEF TreeInv, Exiting
  <2>5. Null \notin Task /\ InitProc \in Task
    BY TreeAssumption DEF Null, InitProc
  <2>6. Removing
    BY DEF TreeInv
  <2> QED BY <2>1, <2>2, <2>3, <2>4, <2>5, <2>6 DEF Removing
<1>a. PICK p \in Task, z \in Task, n \in Nat : p = op.into /\ z = op.new /\ n = vec[p].len /\ n = op.child
  BY <1>0, Sizes
<1>d. /\ n > 0 /\ n - 1 \in Nat /\ n \in 1 .. n /\ \A i \in 1 .. n - 1 : i \in 1 .. n /\ i # n
      /\ \A i \in 1 .. n : i \in 1 .. n - 1 \/ i = n
      /\ \A i \in 1 .. n - 1 : vec[p].buf[i] # z
      /\ vec[p].buf[n] = z \/ (n > 1 /\ vec[p].buf[n] = vec[p].buf[n - 1])
  BY <1>0, <1>a
<1>b. /\ vec'[p].len = n - 1 /\ \A t \in Task : t # p => vec'[t] = vec[t]
      /\ Len(vec'[p].buf) = Len(vec[p].buf)
      /\ \A i \in 1 .. n - 1 : vec'[p].buf[i] = vec[p].buf[i]
  <2>1. vec[p] \in VecRec /\ vec'[p] = Forget(vec[p], n - 1) /\ \A t \in Task : t # p => vec'[t] = vec[t]
    BY <1>0, <1>a DEF TreeTypeOK
  <2>2. Forget(vec[p], n - 1).len = n - 1 /\ Len(Forget(vec[p], n - 1).buf) = Len(vec[p].buf)
        /\ \A i \in 1 .. Len(vec[p].buf) : i <= n - 1 => Forget(vec[p], n - 1).buf[i] = vec[p].buf[i]
    BY <1>d, <2>1, ForgetType
  <2>3. \A i \in 1 .. n - 1 : i \in 1 .. Len(vec[p].buf) /\ i <= n - 1
    <3>1. n <= Len(vec[p].buf) /\ Len(vec[p].buf) \in Nat
      BY <1>a, Sizes
    <3> QED BY <1>a, <3>1
  <2> QED BY <2>1, <2>2, <2>3
<1>c. \A i : WordAt(p, i) = vec[p].buf[i] /\ WordAt(p, i)' = vec'[p].buf[i]
  BY <1>0 DEF WordAt
<1>e. /\ n <= Len(vec[p].buf) /\ n <= Cardinality(Task)
      /\ \A i \in 1 .. n : vec[p].buf[i] \in Task \ {InitProc, p} /\ life[vec[p].buf[i]] # "none"
      /\ \A i, k \in 1 .. n : i < k /\ vec[p].buf[i] = vec[p].buf[k] => k = n
  <2>1. VecInv(p)
    BY DEF TreeInv
  <2>2. \A i, k \in 1 .. n : i < k /\ vec[p].buf[i] = vec[p].buf[k] => k = op.child
    BY <1>a, <1>c, <2>1 DEF VecInv
  <2>3. n <= Len(vec[p].buf) /\ n <= Cardinality(Task)
    BY <1>a, <2>1 DEF VecInv
  <2>4. \A i \in 1 .. n : vec[p].buf[i] \in Task \ {InitProc, p} /\ life[vec[p].buf[i]] # "none"
    BY <1>a, <1>c, <2>1 DEF VecInv
  <2> QED BY <1>a, <2>2, <2>3, <2>4
<1>1. \A t \in Task : t # p => VecInv(t)' /\ Kids(t)' = Kids(t)
  <2>1. SUFFICES ASSUME NEW t \in Task, t # p PROVE VecInv(t)' /\ Kids(t)' = Kids(t)
    OBVIOUS
  <2>2. \A c \in Kids(t) : life'[c] # "none"
    BY <1>0, KidsExist
  <2> QED BY <1>0, <1>a, <1>b, <2>1, <2>2, OtherVec
<1>2. VecInv(p)'
  <2>1. \A i \in 1 .. n - 1 : vec'[p].buf[i] \in Task \ {InitProc, p} /\ life'[vec'[p].buf[i]] # "none"
    BY <1>0, <1>b, <1>d, <1>e
  <2>2. \A i, k \in 1 .. n - 1 : ~(i < k /\ vec'[p].buf[i] = vec'[p].buf[k])
    BY <1>b, <1>d, <1>e
  <2>3. n - 1 <= Len(vec'[p].buf) /\ n - 1 <= Cardinality(Task)
    <3>1. Len(vec[p].buf) \in Nat /\ Cardinality(Task) \in Nat
      BY Sizes, TreeAssumption, FS_CardinalityType
    <3> QED BY <1>a, <1>b, <1>e, <3>1
  <2>4. \A i : WordAt(p, i)' = vec'[p].buf[i]
    BY <1>c
  <2> QED BY <1>b, <2>1, <2>2, <2>3, <2>4, DistinctVec
<1>3. /\ Kids(p)' \subseteq Kids(p) /\ Kids(p) \subseteq Kids(p)' \cup {z} /\ z \notin Kids(p)'
  <2>1. Kids(p) = {vec[p].buf[i] : i \in 1 .. n} /\ Kids(p)' = {vec'[p].buf[i] : i \in 1 .. n - 1}
    BY <1>a, <1>b, <1>c DEF Kids
  <2>2. \A i \in 1 .. n - 1 : vec'[p].buf[i] \in Kids(p) /\ vec'[p].buf[i] # z
    BY <1>b, <1>d, <2>1
  <2>3. \A i \in 1 .. n : vec[p].buf[i] \in Kids(p)' \cup {z}
    <3>1. \A i \in 1 .. n - 1 : vec[p].buf[i] \in Kids(p)'
      BY <1>b, <2>1
    <3>2. n > 1 => n - 1 \in 1 .. n - 1
      BY <1>a
    <3> QED BY <1>d, <3>1, <3>2
  <2> QED BY <2>1, <2>2, <2>3
<1>4. LifeInv'
  <2>1. booted
    BY <1>0 DEF LifeInv, TreeInv
  <2> QED BY <1>0, <1>a, <1>b, <2>1 DEF LifeInv, TreeInv
<1>5. HoldInv'
  <2>1. ASSUME NEW t \in Task, NEW c \in Kids(t)' PROVE parent[c] = t
    <3>1. c \in Kids(t)
      BY <1>1, <1>3, <2>1
    <3> QED BY <1>0, <3>1 DEF TreeInv, HoldInv
  <2> QED BY <1>0, <2>1 DEF HoldInv
<1>6. Pushing' /\ Exiting'
  BY <1>0 DEF Pushing, Exiting
<1>7. Removing'
  <2>1. ASSUME NEW t \in Task PROVE z \notin Kids(t)'
    <3>1. CASE t = p
      BY <1>3, <3>1
    <3>2. CASE t # p
      <4>1. z \in Kids(t) => parent[z] = t
        BY <1>0 DEF TreeInv, HoldInv
      <4> QED BY <1>0, <1>1, <1>a, <3>2, <4>1
    <3> QED BY <3>1, <3>2
  <2> QED BY <1>0, <1>a, <2>1 DEF Removing
<1>8. ReachInv'
  <2>1. SUFFICES ASSUME NEW S \in SUBSET Task, InitProc \in S, \A t \in S : Kids(t)' \subseteq S
                 PROVE  (Existing \ InTransit)' \subseteq S
    BY DEF ReachInv
  <2>2. Kids(z) = {}
    BY <1>0, <1>a, ZombieIsEmpty
  <2>3. \A t \in S \cup {z} : Kids(t) \subseteq S \cup {z}
    BY <1>1, <1>3, <2>1, <2>2
  <2>4. S \cup {z} \in SUBSET Task /\ InitProc \in S \cup {z}
    BY <1>a, <2>1
  <2>5. Existing \ InTransit \subseteq S \cup {z}
    BY <2>3, <2>4 DEF TreeInv, ReachInv
  <2>6. InTransit = {z} /\ (Existing \ InTransit)' = Existing \ InTransit
    BY <1>0, <1>a DEF Existing, InTransit
  <2> QED BY <2>5, <2>6
<1> QED BY <1>1, <1>2, <1>4, <1>5, <1>6, <1>7, <1>8 DEF TreeRest

\* The task is dropped.
LEMMA DropRest == ASSUME TreeInv, DropTask PROVE TreeRest' /\ \A t \in Task : VecInv(t)'
<1>0. /\ TreeTypeOK /\ op.do = "drop" /\ op.exiting = Null /\ Null \notin Task /\ InitProc \in Task
      /\ op.new \in Task \ {InitProc} /\ life[op.new] = "zombie" /\ \A t \in Task : op.new \notin Kids(t)
      /\ vec' = [vec EXCEPT ![op.new] = EmptyVec]
      /\ life' = [life EXCEPT ![op.new] = "none"] /\ parent' = [parent EXCEPT ![op.new] = Null]
      /\ booted' = booted /\ op'.do = "nothing" /\ op'.exiting = Null
  BY TreeAssumption DEF TreeInv, DropTask, Exiting, Removing, Quiet, Null, InitProc
<1>a. PICK z \in Task : z = op.new /\ z # InitProc
  BY <1>0
<1>b. vec'[z] = EmptyVec /\ (\A t \in Task : t # z => vec'[t] = vec[t])
      /\ (\A t \in Task : life'[t] = IF t = z THEN "none" ELSE life[t])
      /\ (\A t \in Task : parent'[t] = IF t = z THEN Null ELSE parent[t])
  BY <1>0, <1>a DEF TreeTypeOK
<1>1. \A t \in Task : t # z => VecInv(t)' /\ Kids(t)' = Kids(t)
  <2>1. SUFFICES ASSUME NEW t \in Task, t # z PROVE VecInv(t)' /\ Kids(t)' = Kids(t)
    OBVIOUS
  <2>2. \A c \in Kids(t) : life'[c] # "none"
    BY <1>0, <1>a, <1>b, KidsExist
  <2> QED BY <1>0, <1>b, <2>1, <2>2, OtherVec
<1>2. VecInv(z)' /\ Kids(z)' = {} /\ Kids(z) = {}
  <2>1. Cardinality(Task) \in Nat
    BY TreeAssumption, FS_CardinalityType
  <2>2. vec'[z].len = 0 /\ Len(vec'[z].buf) = 0
    BY <1>b DEF EmptyVec
  <2>3. VecInv(z)'
    BY <2>1, <2>2 DEF VecInv
  <2>4. Kids(z)' = {}
    BY <2>2 DEF Kids
  <2> QED BY <1>0, <1>a, <2>3, <2>4, ZombieIsEmpty
<1>3. LifeInv'
  BY <1>0, <1>a, <1>b DEF LifeInv, TreeInv
<1>4. HoldInv'
  <2>1. ASSUME NEW t \in Task, NEW c \in Kids(t)' PROVE parent'[c] = t
    <3>1. c \in Kids(t) /\ c # z
      BY <1>0, <1>1, <1>2, <1>a, <2>1
    <3>2. parent[c] = t
      BY <1>0, <3>1 DEF TreeInv, HoldInv
    <3>3. c \in Task
      BY <3>1, KidsExist
    <3> QED BY <1>b, <3>1, <3>2, <3>3
  <2> QED BY <1>0, <2>1 DEF HoldInv
<1>5. Pushing' /\ Exiting' /\ Removing'
  BY <1>0 DEF Pushing, Exiting, Removing
<1>6. ReachInv'
  <2>1. SUFFICES ASSUME NEW S \in SUBSET Task, InitProc \in S, \A t \in S : Kids(t)' \subseteq S
                 PROVE  (Existing \ InTransit)' \subseteq S
    BY DEF ReachInv
  <2>2. \A t \in S : Kids(t) \subseteq S
    BY <1>1, <1>2, <2>1
  <2>3. Existing \ InTransit \subseteq S
    BY <2>1, <2>2 DEF TreeInv, ReachInv
  <2>4. (Existing \ InTransit)' \subseteq Existing \ InTransit
    BY <1>0, <1>a, <1>b DEF Existing, InTransit
  <2> QED BY <2>3, <2>4
<1> QED BY <1>1, <1>2, <1>3, <1>4, <1>5, <1>6 DEF TreeRest

\* The invariant holds at the start,
LEMMA TreeInitially == ASSUME TreeInit PROVE TreeInv
<1>0. InitProc \in Task /\ Null \notin Task /\ IsFiniteSet(Task) /\ Cardinality(Task) \in Nat
  BY TreeAssumption, FS_CardinalityType DEF InitProc, Null
<1>1. /\ booted = FALSE /\ life = [t \in Task |-> "none"] /\ parent = [t \in Task |-> Null]
      /\ vec = [t \in Task |-> EmptyVec] /\ op = Quiet /\ cap \in Caps
      /\ lost \subseteq {"block", "buffer"} \X Task
  BY DEF TreeInit
<1>2. TreeTypeOK
  <2>1. EmptyVec \in VecRec /\ Quiet \in OpRec
    BY DEF EmptyVec, VecRec, Quiet, OpRec
  <2> QED BY <1>1, <2>1 DEF TreeTypeOK
<1>3. \A t \in Task : vec[t] = EmptyVec /\ EmptyVec.len = 0 /\ Len(EmptyVec.buf) = 0 /\ Kids(t) = {}
  <2>1. EmptyVec.len = 0 /\ Len(EmptyVec.buf) = 0 /\ 1 .. 0 = {}
    BY DEF EmptyVec
  <2> QED BY <1>1, <2>1 DEF Kids
<1>4. op.do = "nothing" /\ op.exiting = Null
  BY <1>1 DEF Quiet
<1>5. LifeInv
  BY <1>0, <1>1, <1>3, <1>4 DEF LifeInv
<1>6. HoldInv /\ Pushing /\ Exiting /\ Removing
  BY <1>3, <1>4 DEF HoldInv, Pushing, Exiting, Removing
<1>7. ReachInv
  BY <1>1 DEF ReachInv, Existing
<1>8. \A t \in Task : VecInv(t)
  BY <1>0, <1>3 DEF VecInv
<1> QED BY <1>2, <1>5, <1>6, <1>7, <1>8 DEF TreeInv

\* and every step keeps it.
LEMMA TreeInvNext == ASSUME TreeInv, TreeNext PROVE TreeInv'
<1>1. TreeTypeOK'
  BY TreeTypeNext
<1>2. ASSUME Keeps, op.do # "shift", \A t \in Task : life[t] # "none" => life'[t] # "none"
      PROVE  \A t \in Task : VecInv(t)'
  BY <1>2, KeptVecs
<1>3. TreeRest' /\ \A t \in Task : VecInv(t)'
  <2>0. TreeTypeOK
    BY DEF TreeInv
  <2>1. CASE Boot
    <3>1. Keeps /\ op.do = "nothing"
      BY <2>1, WordsKept DEF TreeInv, LifeInv, Boot
    <3>2. \A t \in Task : life[t] # "none" => life'[t] # "none"
      BY <2>0, <2>1 DEF Boot, TreeTypeOK
    <3> QED BY <1>2, <2>1, <3>1, <3>2, BootRest
  <2>2. ASSUME NEW p \in Task, NEW c \in Task, Fork(p, c) PROVE TreeRest' /\ \A t \in Task : VecInv(t)'
    <3>1. Keeps /\ op.do = "nothing"
      BY <2>2, WordsKept DEF Fork
    <3>2. \A t \in Task : life[t] # "none" => life'[t] # "none"
      BY <2>0, <2>2 DEF Fork, TreeTypeOK
    <3> QED BY <1>2, <2>2, <3>1, <3>2, ForkRest
  <2>3. ASSUME NEW p \in Task, ExitTask(p) PROVE TreeRest' /\ \A t \in Task : VecInv(t)'
    <3>1. Keeps /\ op.do = "nothing"
      BY <2>3, WordsKept DEF ExitTask
    <3>2. \A t \in Task : life[t] # "none" => life'[t] # "none"
      BY <2>0, <2>3 DEF ExitTask, TreeTypeOK
    <3> QED BY <1>2, <2>3, <3>1, <3>2, ExitRest
  <2>4. ASSUME NEW p \in Task, NEW i \in 1 .. Cardinality(Task), Wait(p, i)
        PROVE  TreeRest' /\ \A t \in Task : VecInv(t)'
    <3>1. Keeps /\ op.do = "nothing" /\ life' = life
      BY <2>4, WordsKept DEF Wait
    <3> QED BY <1>2, <2>4, <3>1, WaitRest
  <2>5. CASE ReallocFrees \/ ReallocMoves \/ PushWrites
    <3>1. Keeps /\ op.do # "shift" /\ life' = life
      BY <2>5, WordsKept DEF ReallocFrees, ReallocMoves, PushWrites
    <3> QED BY <1>2, <2>5, <3>1, PushRest
  <2>6. CASE HandOver
    <3>1. Keeps /\ op.do # "shift" /\ life' = life
      BY <2>6, WordsKept DEF HandOver
    <3> QED BY <1>2, <2>6, <3>1, HandOverRest
  <2> QED BY <2>1, <2>2, <2>3, <2>4, <2>5, <2>6, CountsRest, ClearRest, ShiftRest, RemoveRest, DropRest
          DEF TreeNext
<1> QED BY <1>1, <1>3 DEF TreeInv, TreeRest

\* The kernel keeps the tree as the readers need it: between any two words it writes, every
\* existing task but the one in transit is reached from INITPROC, and nobody is held twice.
THEOREM TreeInvariant == TreeSpec => []TreeInv
<1>1. TreeInit => TreeInv
  BY TreeInitially
<1>2. TreeInv /\ [TreeNext]_treeVars => TreeInv'
  <2>1. ASSUME TreeInv, UNCHANGED treeVars PROVE TreeInv'
    <3>1. /\ booted' = booted /\ life' = life /\ parent' = parent /\ vec' = vec /\ op' = op
          /\ lost' = lost /\ cap' = cap
      BY <2>1 DEF treeVars
    <3>2. TreeTypeOK' /\ LifeInv' /\ Pushing' /\ Exiting' /\ Removing' /\ HoldInv'
      BY <2>1, <3>1 DEF TreeInv, TreeTypeOK, LifeInv, Pushing, Exiting, Removing, HoldInv, Kids, WordAt
    <3>3. (\A t \in Task : VecInv(t)') /\ ReachInv'
      BY <2>1, <3>1 DEF TreeInv, VecInv, WordAt, ReachInv, Kids, Existing, InTransit
    <3> QED BY <3>2, <3>3 DEF TreeInv
  <2> QED BY <2>1, TreeInvNext
<1> QED BY <1>1, <1>2, PTL DEF TreeSpec

---------------------------------------------------------------------------
(* Sequences without some of their elements.                                *)

\* A loop whose rounds are functions has a value after each of them.
LEMMA LoopExists ==
  ASSUME NEW D, NEW a \in D, NEW n \in Nat, NEW f \in [1 .. n -> [D -> D]]
  PROVE  \E g \in [0 .. n -> D] : g[0] = a /\ \A k \in 1 .. n : g[k] = f[k][g[k - 1]]
<1> DEFINE Good == {m \in Nat : m <= n =>
                      \E g \in [0 .. m -> D] : g[0] = a /\ \A k \in 1 .. m : g[k] = f[k][g[k - 1]]}
<1>1. 0 \in Good
  <2> DEFINE g == [k \in 0 .. 0 |-> a]
  <2>1. g \in [0 .. 0 -> D] /\ g[0] = a /\ \A k \in 1 .. 0 : g[k] = f[k][g[k - 1]]
    OBVIOUS
  <2> HIDE DEF g
  <2> QED BY <2>1
<1>2. ASSUME NEW m \in Nat, m \in Good PROVE m + 1 \in Good
  <2>1. SUFFICES ASSUME m + 1 <= n
                 PROVE  \E g \in [0 .. m + 1 -> D] :
                          g[0] = a /\ \A k \in 1 .. m + 1 : g[k] = f[k][g[k - 1]]
    OBVIOUS
  <2>2. PICK g \in [0 .. m -> D] : g[0] = a /\ \A k \in 1 .. m : g[k] = f[k][g[k - 1]]
    BY <1>2, <2>1
  <2>3. PICK d \in D : d = f[m + 1][g[m]]
    <3>1. m + 1 \in 1 .. n /\ m \in 0 .. m
      BY <2>1
    <3>2. f[m + 1] \in [D -> D] /\ g[m] \in D
      BY <2>2, <3>1
    <3> QED BY <3>2
  <2> DEFINE h == [k \in 0 .. m + 1 |-> IF k = m + 1 THEN d ELSE g[k]]
  <2>4. \A k \in 0 .. m + 1 : k \in 0 .. m \/ k = m + 1
    OBVIOUS
  <2>5. h \in [0 .. m + 1 -> D]
    BY <2>2, <2>4
  <2>6. h[m + 1] = d /\ \A k \in 0 .. m : h[k] = g[k]
    <3>1. \A k \in 0 .. m : k \in 0 .. m + 1 /\ k # m + 1
      OBVIOUS
    <3> QED BY <3>1
  <2> HIDE DEF h
  <2>7. ASSUME NEW k \in 1 .. m + 1 PROVE h[k] = f[k][h[k - 1]]
    <3>1. k \in 1 .. m \/ (k = m + 1 /\ k - 1 = m)
      OBVIOUS
    <3>2. k - 1 \in 0 .. m
      OBVIOUS
    <3>3. CASE k \in 1 .. m
      <4>1. k \in 0 .. m
        BY <3>3
      <4> QED BY <2>2, <2>6, <3>2, <3>3, <4>1
    <3> QED BY <2>3, <2>6, <3>1, <3>2, <3>3
  <2>8. h[0] = a
    <3>1. 0 \in 0 .. m
      OBVIOUS
    <3> QED BY <2>2, <2>6, <3>1
  <2> QED BY <2>5, <2>7, <2>8
<1> HIDE DEF Good
<1>3. \A m \in Nat : m \in Good => m + 1 \in Good
  BY <1>2
<1>4. n \in Good
  BY <1>1, <1>3, NatSetInduction
<1> QED BY <1>4 DEF Good

\* What holds of the empty sequence and is kept by one more element holds of all.
LEMMA SeqInduction ==
  ASSUME NEW T, NEW G, << >> \in G, \A r \in Seq(T) : r \in G => \A x \in T : Append(r, x) \in G
  PROVE  Seq(T) \subseteq G
<1> DEFINE Good == {n \in Nat : \A s \in Seq(T) : Len(s) = n => s \in G}
<1>1. 0 \in Good
  BY EmptySeq
<1>2. ASSUME NEW n \in Nat, n \in Good PROVE n + 1 \in Good
  <2>1. SUFFICES ASSUME NEW s \in Seq(T), Len(s) = n + 1 PROVE s \in G
    OBVIOUS
  <2> DEFINE r == SubSeq(s, 1, n)
  <2>2. r \in Seq(T) /\ Len(r) = n /\ s[n + 1] \in T /\ s = Append(r, s[n + 1])
    <3>1. \A i \in 1 .. n : i \in 1 .. n + 1
      OBVIOUS
    <3>2. r \in Seq(T) /\ Len(r) = n /\ \A i \in 1 .. n : r[i] = s[i]
      BY <2>1, <3>1, SubSeqProperties
    <3>3. n + 1 \in 1 .. n + 1
      OBVIOUS
    <3>4. s[n + 1] \in T
      BY <2>1, <3>3, ElementOfSeq
    <3> HIDE DEF r
    <3>5. /\ Append(r, s[n + 1]) \in Seq(T) /\ Len(Append(r, s[n + 1])) = n + 1
          /\ \A i \in 1 .. n : Append(r, s[n + 1])[i] = r[i]
          /\ Append(r, s[n + 1])[n + 1] = s[n + 1]
      BY <3>2, <3>4, AppendProperties
    <3>6. \A i \in 1 .. n + 1 : i \in 1 .. n \/ i = n + 1
      OBVIOUS
    <3>7. \A i \in 1 .. n + 1 : s[i] = Append(r, s[n + 1])[i]
      BY <3>2, <3>5, <3>6
    <3> QED BY <2>1, <3>2, <3>4, <3>5, <3>7, SeqEqual
  <2> HIDE DEF r
  <2>3. r \in G
    BY <1>2, <2>2
  <2> QED BY <2>2, <2>3
<1> HIDE DEF Good
<1>3. \A n \in Nat : n \in Good => n + 1 \in Good
  BY <1>2
<1>4. Nat \subseteq Good
  BY <1>1, <1>3, NatSetInduction
<1>5. \A s \in Seq(T) : Len(s) \in Nat
  OBVIOUS
<1> QED BY <1>4, <1>5 DEF Good

\* One round of Outside.
KeepOne(s, S, g, n) ==
  IF n = 0 THEN << >> ELSE IF s[n] \in S THEN g[n - 1] ELSE Append(g[n - 1], s[n])

\* What the rounds leave.
LeftBy(g, T, s, S) ==
  /\ g \in [0 .. Len(s) -> Seq(T)] /\ Outside(s, S) = g[Len(s)]
  /\ \A n \in 0 .. Len(s) : g[n] = KeepOne(s, S, g, n)

\* The rounds of Outside.
LEMMA OutsideRounds ==
  ASSUME NEW T, NEW s \in Seq(T), NEW S
  PROVE  \E g : LeftBy(g, T, s, S)
<1> DEFINE f == [n \in 1 .. Len(s) |-> [d \in Seq(T) |-> IF s[n] \in S THEN d ELSE Append(d, s[n])]]
<1>1. Len(s) \in Nat /\ << >> \in Seq(T) /\ \A n \in 1 .. Len(s) : s[n] \in T
  BY EmptySeq, LenProperties, ElementOfSeq
<1>2. \A n \in 1 .. Len(s), d \in Seq(T) : (IF s[n] \in S THEN d ELSE Append(d, s[n])) \in Seq(T)
  BY <1>1, AppendProperties
<1>3. f \in [1 .. Len(s) -> [Seq(T) -> Seq(T)]]
  BY <1>2
<1>4. \A n \in 1 .. Len(s), d \in Seq(T) : f[n][d] = IF s[n] \in S THEN d ELSE Append(d, s[n])
  OBVIOUS
<1> HIDE DEF f
<1>5. PICK g \in [0 .. Len(s) -> Seq(T)] : g[0] = << >> /\ \A n \in 1 .. Len(s) : g[n] = f[n][g[n - 1]]
  <2>0. PICK D : D = Seq(T)
    OBVIOUS
  <2>1. PICK a \in D, m \in Nat : a = << >> /\ m = Len(s)
    BY <1>1, <2>0
  <2>2. f \in [1 .. m -> [D -> D]]
    BY <1>3, <2>0, <2>1
  <2>3. \E g \in [0 .. m -> D] : g[0] = a /\ \A n \in 1 .. m : g[n] = f[n][g[n - 1]]
    BY ONLY <2>2, LoopExists
  <2> QED BY <2>0, <2>1, <2>3
<1>6. ASSUME NEW n \in 0 .. Len(s) PROVE g[n] = KeepOne(s, S, g, n)
  <2>1. CASE n = 0
    BY <1>5, <2>1 DEF KeepOne
  <2>2. CASE n # 0
    <3>1. n \in 1 .. Len(s) /\ n - 1 \in 0 .. Len(s)
      BY <1>1, <2>2
    <3>2. g[n - 1] \in Seq(T) /\ g[n] = f[n][g[n - 1]]
      BY <1>5, <3>1
    <3> QED BY <1>4, <2>2, <3>1, <3>2 DEF KeepOne
  <2> QED BY <2>1, <2>2
<1> DEFINE Loop(h) == [n \in 0 .. Len(s) |-> KeepOne(s, S, h, n)]
           k == CHOOSE h : h = Loop(h)
<1>7. g = Loop(g)
  BY <1>6
<1>8. k = Loop(k)
  BY <1>7
<1>9. Outside(s, S) = k[Len(s)]
  BY DEF Outside, KeepOne
<1>10. \A n \in 0 .. Len(s) : k[n] = KeepOne(s, S, k, n)
  BY <1>8
<1> HIDE DEF k
<1> DEFINE Same == {n \in Nat : n <= Len(s) => k[n] = g[n]}
<1>11. 0 \in Same
  <2>1. 0 \in 0 .. Len(s)
    BY <1>1
  <2>2. k[0] = g[0]
    BY <1>6, <1>10, <2>1 DEF KeepOne
  <2> QED BY <2>2
<1>12. ASSUME NEW n \in Nat, n \in Same PROVE n + 1 \in Same
  <2>1. SUFFICES ASSUME n + 1 <= Len(s) PROVE k[n + 1] = g[n + 1]
    OBVIOUS
  <2>2. n + 1 \in 0 .. Len(s) /\ (n + 1) - 1 = n /\ n + 1 # 0 /\ n <= Len(s)
    BY <1>1, <2>1
  <2>3. k[n] = g[n]
    BY <1>12, <2>2
  <2>4. k[n + 1] = KeepOne(s, S, k, n + 1) /\ g[n + 1] = KeepOne(s, S, g, n + 1)
    BY <1>6, <1>10, <2>2
  <2> QED BY <2>2, <2>3, <2>4 DEF KeepOne
<1> HIDE DEF Same
<1>13. \A n \in Nat : n \in Same => n + 1 \in Same
  BY <1>12
<1>14. Len(s) \in Same
  BY <1>1, <1>11, <1>13, NatSetInduction
<1>15. Outside(s, S) = g[Len(s)]
  BY <1>1, <1>9, <1>14 DEF Same
<1> QED BY <1>6, <1>15 DEF LeftBy

\* Of nothing.
LEMMA OutsideEmpty == ASSUME NEW S PROVE Outside(<< >>, S) = << >>
<1>1. PICK e \in Seq({}) : e = << >> /\ Len(e) = 0
  BY EmptySeq
<1>2. PICK g : LeftBy(g, {}, e, S)
  BY ONLY e \in Seq({}), OutsideRounds
<1>3. g[0] = KeepOne(e, S, g, 0) /\ Outside(e, S) = g[0]
  BY <1>1, <1>2 DEF LeftBy
<1>4. g[0] = << >>
  BY <1>3 DEF KeepOne
<1> QED BY <1>1, <1>3, <1>4

\* Outside, one element at a time.
LEMMA OutsideAppend ==
  ASSUME NEW T, NEW r \in Seq(T), NEW x \in T, NEW S
  PROVE  /\ Outside(r, S) \in Seq(T)
         /\ Outside(Append(r, x), S) = IF x \in S THEN Outside(r, S) ELSE Append(Outside(r, S), x)
<1> DEFINE s == Append(r, x)
<1>2. /\ s \in Seq(T) /\ Len(s) = Len(r) + 1 /\ Len(r) \in Nat /\ s[Len(r) + 1] = x
      /\ \A i \in 1 .. Len(r) : s[i] = r[i]
  BY AppendProperties
<1> HIDE DEF s
<1>0. s \in Seq(T)
  BY <1>2
<1>a. PICK g : LeftBy(g, T, s, S)
  BY ONLY <1>0, OutsideRounds
<1>b. PICK k : LeftBy(k, T, r, S)
  BY ONLY r \in Seq(T), OutsideRounds
<1>3. g \in [0 .. Len(s) -> Seq(T)] /\ Outside(s, S) = g[Len(s)]
      /\ \A n \in 0 .. Len(s) : g[n] = KeepOne(s, S, g, n)
  BY <1>a DEF LeftBy
<1>4. k \in [0 .. Len(r) -> Seq(T)] /\ Outside(r, S) = k[Len(r)]
      /\ \A n \in 0 .. Len(r) : k[n] = KeepOne(r, S, k, n)
  BY <1>b DEF LeftBy
<1> DEFINE Same == {n \in Nat : n <= Len(r) => k[n] = g[n]}
<1>5. 0 \in Same
  <2>1. 0 \in 0 .. Len(s) /\ 0 \in 0 .. Len(r)
    BY <1>2
  <2>2. k[0] = g[0]
    BY <1>3, <1>4, <2>1 DEF KeepOne
  <2> QED BY <2>2
<1>6. ASSUME NEW n \in Nat, n \in Same PROVE n + 1 \in Same
  <2>1. SUFFICES ASSUME n + 1 <= Len(r) PROVE k[n + 1] = g[n + 1]
    OBVIOUS
  <2>2. n + 1 \in 0 .. Len(s) /\ n + 1 \in 0 .. Len(r) /\ n + 1 \in 1 .. Len(r)
        /\ (n + 1) - 1 = n /\ n + 1 # 0 /\ n <= Len(r)
    BY <1>2, <2>1
  <2>3. k[n] = g[n]
    BY <1>6, <2>2
  <2>4. g[n + 1] = KeepOne(s, S, g, n + 1) /\ k[n + 1] = KeepOne(r, S, k, n + 1) /\ s[n + 1] = r[n + 1]
    BY <1>2, <1>3, <1>4, <2>2
  <2> QED BY <2>2, <2>3, <2>4 DEF KeepOne
<1> HIDE DEF Same
<1>7. \A n \in Nat : n \in Same => n + 1 \in Same
  BY <1>6
<1>8. Len(r) \in Same
  BY <1>2, <1>5, <1>7, NatSetInduction
<1>9. Outside(r, S) = g[Len(r)] /\ Outside(r, S) \in Seq(T)
  <2>1. Len(r) \in 0 .. Len(r)
    BY <1>2
  <2> QED BY <1>2, <1>4, <1>8, <2>1 DEF Same
<1>10. g[Len(s)] = IF x \in S THEN g[Len(r)] ELSE Append(g[Len(r)], x)
  <2>1. Len(s) \in 0 .. Len(s) /\ Len(s) # 0 /\ Len(s) - 1 = Len(r)
    BY <1>2
  <2> QED BY <1>2, <1>3, <2>1 DEF KeepOne
<1> QED BY <1>3, <1>9, <1>10 DEF s

\* What is listed after one more element.
LEMMA ListedAppend ==
  ASSUME NEW T, NEW r \in Seq(T), NEW x \in T
  PROVE  Listed(<< >>) = {} /\ Listed(Append(r, x)) = Listed(r) \cup {x} /\ Listed(r) \subseteq T
<1>1. /\ Append(r, x) \in Seq(T) /\ Len(Append(r, x)) = Len(r) + 1 /\ Len(r) \in Nat
      /\ Append(r, x)[Len(r) + 1] = x /\ \A i \in 1 .. Len(r) : Append(r, x)[i] = r[i]
  BY AppendProperties
<1>2. DOMAIN r = 1 .. Len(r) /\ DOMAIN Append(r, x) = 1 .. Len(r) + 1 /\ DOMAIN << >> = {}
  BY <1>1, EmptySeq
<1>3. 1 .. Len(r) + 1 = (1 .. Len(r)) \cup {Len(r) + 1}
  BY <1>1
<1>4. \A i \in 1 .. Len(r) : r[i] \in T
  BY ElementOfSeq
<1> QED BY <1>1, <1>2, <1>3, <1>4 DEF Listed

\* What is left is what was listed and is not in the set; there is not more of it.
LEMMA OutsideListed ==
  ASSUME NEW T, NEW s \in Seq(T), NEW S
  PROVE  /\ Outside(s, S) \in Seq(T) /\ Listed(Outside(s, S)) = Listed(s) \ S
         /\ Len(Outside(s, S)) <= Len(s) /\ Len(Outside(s, S)) \in Nat
<1> DEFINE G == {r \in Seq(T) : /\ Outside(r, S) \in Seq(T) /\ Listed(Outside(r, S)) = Listed(r) \ S
                                /\ Len(Outside(r, S)) <= Len(r)}
<1>1. << >> \in G
  <2>1. PICK e \in Seq(T) : e = << >> /\ Len(e) = 0 /\ Len(e) \in Nat
    BY EmptySeq, LenProperties
  <2>2. Listed(e) = {}
    BY <2>1 DEF Listed
  <2>3. Outside(e, S) = e
    BY <2>1, OutsideEmpty
  <2>b. PICK l \in Nat : l = Len(e)
    BY <2>1
  <2>c. Len(Outside(e, S)) = l
    BY ONLY <2>3, <2>b
  <2>4. Outside(e, S) \in Seq(T) /\ Len(Outside(e, S)) <= Len(e)
    BY ONLY e \in Seq(T), l \in Nat, <2>3, <2>b, <2>c
  <2>5. Listed(Outside(e, S)) = Listed(e) \ S
    BY <2>2, <2>3
  <2>6. e \in G
    BY ONLY e \in Seq(T), <2>4, <2>5 DEF G
  <2> QED BY <2>1, <2>6
<1>2. ASSUME NEW r \in Seq(T), r \in G, NEW x \in T PROVE Append(r, x) \in G
  <2>1. /\ Outside(r, S) \in Seq(T) /\ Listed(Outside(r, S)) = Listed(r) \ S
        /\ Len(Outside(r, S)) <= Len(r)
    BY <1>2
  <2>2. /\ Append(r, x) \in Seq(T) /\ Len(Append(r, x)) = Len(r) + 1 /\ Len(r) \in Nat
        /\ Listed(Append(r, x)) = Listed(r) \cup {x}
    BY AppendProperties, ListedAppend
  <2>3. /\ Append(Outside(r, S), x) \in Seq(T) /\ Len(Append(Outside(r, S), x)) = Len(Outside(r, S)) + 1
        /\ Len(Outside(r, S)) \in Nat
        /\ Listed(Append(Outside(r, S), x)) = Listed(Outside(r, S)) \cup {x}
    <3>1. PICK w \in Seq(T) : w = Outside(r, S)
      BY <2>1
    <3>2. Append(w, x) \in Seq(T) /\ Len(Append(w, x)) = Len(w) + 1 /\ Len(w) \in Nat
      BY AppendProperties
    <3>3. Listed(Append(w, x)) = Listed(w) \cup {x}
      BY ListedAppend
    <3> QED BY <3>1, <3>2, <3>3
  <2>4. Outside(Append(r, x), S) = IF x \in S THEN Outside(r, S) ELSE Append(Outside(r, S), x)
    BY OutsideAppend
  <2> HIDE DEF G
  <2>5. CASE x \in S
    <3>1. Outside(Append(r, x), S) = Outside(r, S)
      BY <2>4, <2>5
    <3> QED BY <2>1, <2>2, <2>3, <2>5, <3>1 DEF G
  <2>6. CASE x \notin S
    <3>1. Outside(Append(r, x), S) = Append(Outside(r, S), x)
      BY <2>4, <2>6
    <3>2. Listed(Outside(Append(r, x), S)) = Listed(Append(r, x)) \ S
      BY <2>1, <2>2, <2>3, <2>6, <3>1
    <3>3. Outside(Append(r, x), S) \in Seq(T) /\ Len(Outside(Append(r, x), S)) <= Len(Append(r, x))
      BY <2>1, <2>2, <2>3, <3>1
    <3> QED BY <2>2, <3>2, <3>3 DEF G
  <2> QED BY <2>5, <2>6
<1> HIDE DEF G
<1>3. \A r \in Seq(T) : r \in G => \A x \in T : Append(r, x) \in G
  BY <1>2
<1>4. s \in G
  BY <1>1, <1>3, SeqInduction
<1>5. Outside(s, S) \in Seq(T)
  BY <1>4 DEF G
<1> QED BY <1>4, <1>5, LenProperties DEF G

\* Of two sequences.
LEMMA OutsideConcat ==
  ASSUME NEW T, NEW r \in Seq(T), NEW t \in Seq(T), NEW S
  PROVE  Outside(r \o t, S) = Outside(r, S) \o Outside(t, S)
<1> DEFINE G == {s \in Seq(T) : Outside(r \o s, S) = Outside(r, S) \o Outside(s, S)}
<1>0. Outside(r, S) \in Seq(T)
  BY OutsideListed
<1>1. << >> \in G
  <2>1. << >> \in Seq(T) /\ r \o << >> = r /\ Outside(r, S) \o << >> = Outside(r, S)
    BY <1>0, EmptySeq, ConcatEmptySeq
  <2>2. Outside(<< >>, S) = << >>
    BY OutsideEmpty
  <2> QED BY <2>1, <2>2
<1>2. ASSUME NEW s \in Seq(T), s \in G, NEW x \in T PROVE Append(s, x) \in G
  <2>1. Outside(r \o s, S) = Outside(r, S) \o Outside(s, S) /\ Outside(s, S) \in Seq(T)
    BY <1>2, OutsideListed
  <2>2. r \o Append(s, x) = Append(r \o s, x) /\ r \o s \in Seq(T) /\ Append(s, x) \in Seq(T)
    OBVIOUS
  <2>3. Outside(r, S) \o Append(Outside(s, S), x) = Append(Outside(r, S) \o Outside(s, S), x)
    BY <1>0, <2>1
  <2>4. Outside(Append(r \o s, x), S) =
          IF x \in S THEN Outside(r \o s, S) ELSE Append(Outside(r \o s, S), x)
    <3>1. PICK u \in Seq(T) : u = r \o s
      BY <2>2
    <3>2. Outside(Append(u, x), S) = IF x \in S THEN Outside(u, S) ELSE Append(Outside(u, S), x)
      BY OutsideAppend
    <3> QED BY <3>1, <3>2
  <2>5. Outside(Append(s, x), S) = IF x \in S THEN Outside(s, S) ELSE Append(Outside(s, S), x)
    BY OutsideAppend
  <2>6. Outside(r \o Append(s, x), S) = Outside(r, S) \o Outside(Append(s, x), S)
    BY <2>1, <2>2, <2>3, <2>4, <2>5
  <2> QED BY <2>2, <2>6
<1> HIDE DEF G
<1>3. \A s \in Seq(T) : s \in G => \A x \in T : Append(s, x) \in G
  BY <1>2
<1>4. t \in G
  BY <1>1, <1>3, SeqInduction
<1> QED BY <1>4 DEF G

\* Twice.
LEMMA OutsideTwice ==
  ASSUME NEW T, NEW r \in Seq(T), NEW A, NEW B
  PROVE  Outside(Outside(r, A), B) = Outside(r, A \cup B)
<1> DEFINE G == {s \in Seq(T) : Outside(Outside(s, A), B) = Outside(s, A \cup B)}
<1>0. \A S : Outside(<< >>, S) = << >>
  BY OutsideEmpty
<1>1. << >> \in G
  BY <1>0, EmptySeq
<1>2. ASSUME NEW s \in Seq(T), s \in G, NEW x \in T PROVE Append(s, x) \in G
  <2>1. Outside(Outside(s, A), B) = Outside(s, A \cup B) /\ Outside(s, A) \in Seq(T)
    BY <1>2, OutsideListed
  <2>2. Outside(Append(s, x), A) = IF x \in A THEN Outside(s, A) ELSE Append(Outside(s, A), x)
    BY OutsideAppend
  <2>3. Outside(Append(Outside(s, A), x), B) =
          IF x \in B THEN Outside(Outside(s, A), B) ELSE Append(Outside(Outside(s, A), B), x)
    <3>1. PICK u \in Seq(T) : u = Outside(s, A)
      BY <2>1
    <3>2. Outside(Append(u, x), B) = IF x \in B THEN Outside(u, B) ELSE Append(Outside(u, B), x)
      BY OutsideAppend
    <3> QED BY <3>1, <3>2
  <2>4. Outside(Append(s, x), A \cup B) =
          IF x \in A \cup B THEN Outside(s, A \cup B) ELSE Append(Outside(s, A \cup B), x)
    BY OutsideAppend
  <2>5. Append(s, x) \in Seq(T)
    OBVIOUS
  <2>6. Outside(Outside(Append(s, x), A), B) = Outside(Append(s, x), A \cup B)
    BY <2>1, <2>2, <2>3, <2>4
  <2> QED BY <2>5, <2>6
<1> HIDE DEF G
<1>3. \A s \in Seq(T) : s \in G => \A x \in T : Append(s, x) \in G
  BY <1>2
<1>4. r \in G
  BY <1>1, <1>3, SeqInduction
<1> QED BY <1>4 DEF G

\* Of what is not there nothing is taken away.
LEMMA OutsideNone ==
  ASSUME NEW T, NEW r \in Seq(T), NEW S, S \cap T = {}
  PROVE  Outside(r, S) = r
<1> DEFINE G == {s \in Seq(T) : Outside(s, S) = s}
<1>1. << >> \in G
  BY OutsideEmpty, EmptySeq
<1>2. ASSUME NEW s \in Seq(T), s \in G, NEW x \in T PROVE Append(s, x) \in G
  <2>1. Append(s, x) \in Seq(T) /\ Outside(Append(s, x), S) = Append(s, x)
    <3>1. x \notin S /\ Outside(s, S) = s /\ Append(s, x) \in Seq(T)
      BY <1>2, AppendProperties
    <3>2. Outside(Append(s, x), S) = IF x \in S THEN Outside(s, S) ELSE Append(Outside(s, S), x)
      BY OutsideAppend
    <3> QED BY <3>1, <3>2
  <2> QED BY <2>1
<1> HIDE DEF G
<1>3. \A s \in Seq(T) : s \in G => \A x \in T : Append(s, x) \in G
  BY <1>2
<1>4. r \in G
  BY <1>1, <1>3, SeqInduction
<1> QED BY <1>4 DEF G

\* Of one element and more.
LEMMA OutsideHead ==
  ASSUME NEW T, NEW r \in Seq(T), r # << >>, NEW S
  PROVE  /\ Head(r) \in T /\ Tail(r) \in Seq(T) /\ Len(Tail(r)) = Len(r) - 1
         /\ Listed(r) = {Head(r)} \cup Listed(Tail(r))
         /\ Outside(r, S) = IF Head(r) \in S THEN Outside(Tail(r), S)
                            ELSE <<Head(r)>> \o Outside(Tail(r), S)
<1>1. /\ Head(r) \in T /\ Tail(r) \in Seq(T) /\ Len(Tail(r)) = Len(r) - 1 /\ Len(r) \in Nat /\ Len(r) > 0
      /\ \A i \in 1 .. Len(r) - 1 : Tail(r)[i] = r[i + 1]
      /\ r = <<Head(r)>> \o Tail(r) /\ Head(r) = r[1]
  <2>1. Len(r) \in Nat /\ Len(r) # 0
    BY EmptySeq, LenProperties
  <2>2. /\ Head(r) \in T /\ Tail(r) \in Seq(T) /\ Len(Tail(r)) = Len(r) - 1
        /\ \A i \in 1 .. Len(Tail(r)) : Tail(r)[i] = r[i + 1]
    BY HeadTailProperties
  <2>3. <<Head(r)>> \o Tail(r) = r
    BY <2>1, <2>2
  <2> QED BY <2>1, <2>2, <2>3
<1> DEFINE h == <<Head(r)>>
<1>2. h \in Seq(T) /\ h = Append(<< >>, Head(r)) /\ << >> \in Seq(T) /\ Outside(<< >>, S) = << >>
  BY <1>1, OutsideEmpty, EmptySeq
<1> HIDE DEF h
<1>3. Outside(h, S) = IF Head(r) \in S THEN << >> ELSE Append(<< >>, Head(r))
  <2>1. PICK e \in Seq(T), x \in T : e = << >> /\ x = Head(r)
    BY <1>1, <1>2
  <2>2. Outside(Append(e, x), S) = IF x \in S THEN Outside(e, S) ELSE Append(Outside(e, S), x)
    BY OutsideAppend
  <2> QED BY <1>2, <2>1, <2>2
<1>4. Outside(r, S) = Outside(h, S) \o Outside(Tail(r), S)
  <2>1. PICK b \in Seq(T), t \in Seq(T) : b = h /\ t = Tail(r) /\ r = b \o t
    BY <1>1, <1>2 DEF h
  <2>2. Outside(b \o t, S) = Outside(b, S) \o Outside(t, S)
    BY OutsideConcat
  <2> QED BY <2>1, <2>2
<1>5. Outside(Tail(r), S) \in Seq(T)
  BY <1>1, OutsideListed
<1>6. Listed(r) = {Head(r)} \cup Listed(Tail(r))
  <2>1. DOMAIN r = 1 .. Len(r) /\ DOMAIN Tail(r) = 1 .. Len(r) - 1
    BY <1>1
  <2>2. \A i \in 1 .. Len(r) : i = 1 \/ (i - 1 \in 1 .. Len(r) - 1 /\ (i - 1) + 1 = i)
    BY <1>1
  <2>3. \A i \in 1 .. Len(r) : i = 1 \/ r[i] = Tail(r)[i - 1]
    BY <1>1, <2>2
  <2>4. \A i \in 1 .. Len(r) - 1 : i + 1 \in 1 .. Len(r) /\ Tail(r)[i] = r[i + 1]
    BY <1>1
  <2>5. 1 \in 1 .. Len(r)
    BY <1>1
  <2>6. ASSUME NEW x \in Listed(r) PROVE x \in {Head(r)} \cup Listed(Tail(r))
    <3>1. PICK i \in 1 .. Len(r) : x = r[i]
      BY <2>1, <2>6 DEF Listed
    <3> QED BY <1>1, <2>1, <2>2, <2>3, <3>1 DEF Listed
  <2>7. ASSUME NEW x \in Listed(Tail(r)) PROVE x \in Listed(r)
    <3>1. PICK i \in 1 .. Len(r) - 1 : x = Tail(r)[i]
      BY <2>1, <2>7 DEF Listed
    <3> QED BY <2>1, <2>4, <3>1 DEF Listed
  <2>8. Head(r) \in Listed(r)
    BY <1>1, <2>1, <2>5 DEF Listed
  <2> QED BY <2>6, <2>7, <2>8
<1>7. << >> \o Outside(Tail(r), S) = Outside(Tail(r), S)
  BY <1>5, ConcatEmptySeq
<1>8. Outside(r, S) = IF Head(r) \in S THEN Outside(Tail(r), S) ELSE h \o Outside(Tail(r), S)
  BY <1>2, <1>3, <1>4, <1>7
<1>9. h = <<Head(r)>>
  BY DEF h
<1> QED BY <1>1, <1>6, <1>8, <1>9

---------------------------------------------------------------------------
(* What the readers get of a Vec.                                           *)

\* A state in which the readers are asked.
Still == TreeInv /\ ~Reallocating
\* The words of a Vec.
Words(t) == [i \in 1 .. vec[t].len |-> vec[t].buf[i]]

\* What a Vec holds when its buffer is not being moved.
LEMMA WordsHeld ==
  ASSUME Still, NEW t \in Task
  PROVE  /\ vec[t].len \in Nat /\ vec[t].len <= Cardinality(Task)
         /\ \A i \in 1 .. vec[t].len :
              vec[t].buf[i] \in Task \ {InitProc, t} /\ life[vec[t].buf[i]] # "none"
         /\ \A i, j \in 1 .. vec[t].len :
              i < j /\ vec[t].buf[i] = vec[t].buf[j] => j = op.child
         /\ HeldBy(t) = Kids(t) /\ HeldBy(t) \subseteq Task \ {InitProc, t}
         /\ Words(t) \in Seq(Task) /\ Len(Words(t)) = vec[t].len /\ Listed(Words(t)) = HeldBy(t)
<1>1. op.do # "move" /\ VecInv(t) /\ vec[t] \in VecRec /\ t # Null
  BY TreeAssumption DEF Still, Reallocating, TreeInv, TreeTypeOK, Null
<1>2. vec[t].len \in Nat /\ vec[t].len <= Cardinality(Task)
  BY <1>1 DEF VecInv, VecRec
<1>3. \A i : WordAt(t, i) = vec[t].buf[i]
  BY <1>1 DEF WordAt
<1>4. \A i \in 1 .. vec[t].len :
        vec[t].buf[i] \in Task \ {InitProc, t} /\ life[vec[t].buf[i]] # "none"
  BY <1>1, <1>3 DEF VecInv
<1>5. \A i, j \in 1 .. vec[t].len : i < j /\ vec[t].buf[i] = vec[t].buf[j] => j = op.child
  BY <1>1, <1>3 DEF VecInv
<1>6. HeldBy(t) = Kids(t)
  BY <1>1, <1>3 DEF HeldBy, Kids
<1>7. HeldBy(t) \subseteq Task \ {InitProc, t}
  BY <1>1, <1>4 DEF HeldBy
<1>8. Words(t) \in Seq(Task) /\ Len(Words(t)) = vec[t].len
  BY <1>2, <1>4 DEF Words
<1>9. Listed(Words(t)) = HeldBy(t)
  BY <1>1 DEF Words, Listed, HeldBy
<1> QED BY <1>2, <1>4, <1>5, <1>6, <1>7, <1>8, <1>9

\* No task has the address of a free block or the number of a failed read.
LEMMA Numbers == /\ \A t \in Task : t \in Nat /\ t # Null /\ t # FreeBlock /\ t # NoWord /\ t # Problem
                 /\ InitProc \in Task /\ Problem # NoWord /\ Problem # Null /\ NoWord # Null
                 /\ Cardinality(Task) \in Nat
  BY TreeAssumption, FS_CardinalityType DEF Null, FreeBlock, NoWord, Problem, InitProc

\* A sequence that lists nothing is empty.
LEMMA NothingListed == ASSUME NEW T, NEW s \in Seq(T), Listed(s) = {} PROVE s = << >>
<1>1. Len(s) \in Nat /\ DOMAIN s = 1 .. Len(s)
  BY LenProperties
<1>2. Len(s) = 0
  <2>1. SUFFICES ASSUME Len(s) > 0 PROVE FALSE
    BY <1>1
  <2>2. s[1] \in Listed(s)
    BY <1>1, <2>1 DEF Listed
  <2> QED BY <2>2
<1> QED BY <1>2, EmptySeq

\* The walk written for rCore reads all of a Vec or nothing.
LEMMA ArcVecRead ==
  ASSUME Still, NEW t \in Task
  PROVE  /\ ArcVec(t) = << >> \/ ArcVec(t) = Words(t)
         /\ ArcVec(t) \in Seq(Task) /\ Len(ArcVec(t)) <= Cardinality(Task)
         /\ Listed(ArcVec(t)) \subseteq HeldBy(t)
         /\ lost = {} /\ vec[t].len <= cap => ArcVec(t) = Words(t)
<1>1. /\ vec[t].len \in Nat /\ vec[t].len <= Cardinality(Task)
      /\ \A i \in 1 .. vec[t].len : vec[t].buf[i] \in Task
      /\ Words(t) \in Seq(Task) /\ Len(Words(t)) = vec[t].len /\ Listed(Words(t)) = HeldBy(t)
  BY WordsHeld
<1>2. t # FreeBlock /\ {Null, NoWord} \cap Task = {} /\ Cardinality(Task) \in Nat
  BY Numbers
<1>3. vec[t].len = 0 => Words(t) = << >>
  BY <1>1, EmptySeq
<1>4. ASSUME NEW s, s = [i \in 1 .. vec[t].len |-> Element(t, i)]
      PROVE  /\ <<"buffer", t>> \notin lost => Outside(s, {Null, NoWord}) = Words(t)
             /\ <<"buffer", t>> \in lost => Outside(s, {Null, NoWord}) = << >>
  <2>1. CASE <<"buffer", t>> \notin lost
    <3>1. s = Words(t)
      BY <1>4, <2>1 DEF Element, Words
    <3> QED BY <1>1, <1>2, <2>1, <3>1, OutsideNone
  <2>2. CASE <<"buffer", t>> \in lost
    <3>1. s = [i \in 1 .. vec[t].len |-> NoWord]
      BY <1>4, <2>2 DEF Element
    <3>2. s \in Seq({NoWord})
      BY <1>1, <3>1
    <3>3. PICK u \in Seq({NoWord}) : u = s
      BY <3>2
    <3>4. Listed(u) \subseteq {Null, NoWord}
      BY <3>1, <3>3 DEF Listed
    <3>5. Outside(u, {Null, NoWord}) \in Seq({NoWord}) /\ Listed(Outside(u, {Null, NoWord})) = {}
      BY <3>4, OutsideListed
    <3>6. Outside(u, {Null, NoWord}) = << >>
      <4>1. PICK w \in Seq({NoWord}) : w = Outside(u, {Null, NoWord})
        BY <3>5
      <4>2. Listed(w) = {}
        BY <3>5, <4>1
      <4>3. w = << >>
        BY ONLY w \in Seq({NoWord}), <4>2, NothingListed
      <4> QED BY <4>1, <4>3
    <3> QED BY <2>2, <3>3, <3>6
  <2> QED BY <2>1, <2>2
<1>5. CASE VecLen(t) \in {0, NoWord} \/ VecLen(t) > cap
  <2>1. ArcVec(t) = << >>
    BY <1>5 DEF ArcVec
  <2>2. lost = {} => VecLen(t) = vec[t].len
    BY <1>2 DEF VecLen, BlockWord
  <2>3. lost = {} /\ vec[t].len <= cap => vec[t].len = 0
    <3>1. cap \in Nat
      BY TreeAssumption DEF Still, TreeInv, TreeTypeOK
    <3> QED BY <1>1, <1>5, <2>2, <3>1 DEF NoWord
  <2>4. << >> \in Seq(Task) /\ Len(<< >>) = 0 /\ Listed(<< >>) = {}
    BY EmptySeq DEF Listed
  <2> QED BY <1>2, <1>3, <2>1, <2>3, <2>4
<1>6. CASE ~(VecLen(t) \in {0, NoWord} \/ VecLen(t) > cap)
  <2>1. VecLen(t) = vec[t].len
    BY <1>2, <1>6 DEF VecLen, BlockWord
  <2>2. ArcVec(t) = Outside([i \in 1 .. vec[t].len |-> Element(t, i)], {Null, NoWord})
    BY <1>6, <2>1 DEF ArcVec
  <2>3. /\ <<"buffer", t>> \notin lost => ArcVec(t) = Words(t)
        /\ <<"buffer", t>> \in lost => ArcVec(t) = << >>
    BY <1>4, <2>2
  <2>4. << >> \in Seq(Task) /\ Len(<< >>) = 0 /\ Listed(<< >>) = {}
    BY EmptySeq DEF Listed
  <2>5. CASE <<"buffer", t>> \notin lost
    BY <1>1, <2>3, <2>5
  <2>6. CASE <<"buffer", t>> \in lost
    BY <1>2, <2>3, <2>4, <2>6
  <2> QED BY <2>5, <2>6
<1> QED BY <1>5, <1>6

\* What the manifest reader walks on to, and what it says it has not read.
Followed(t) == Outside(ReadVec(t), {Null, Problem})
Unread(t) == {i \in DOMAIN ReadVec(t) : ReadVec(t)[i] = Problem}

\* A sequence is one over what it lists.
LEMMA ListedIn == ASSUME NEW T, NEW s \in Seq(T), NEW U, Listed(s) \subseteq U PROVE s \in Seq(U)
<1>1. Len(s) \in Nat /\ DOMAIN s = 1 .. Len(s) /\ s = [i \in 1 .. Len(s) |-> s[i]]
  BY LenProperties
<1>2. \A i \in 1 .. Len(s) : s[i] \in U
  BY <1>1 DEF Listed
<1>3. [i \in 1 .. Len(s) |-> s[i]] \in Seq(U)
  BY <1>1, <1>2, IsASeq
<1> QED BY <1>1, <1>3

\* The manifest reader reads a word of a Vec or says that it has not.
LEMMA ReadVecRead ==
  ASSUME Still, NEW t \in Task
  PROVE  /\ Followed(t) \in Seq(Task) /\ Len(Followed(t)) <= Cardinality(Task)
         /\ Listed(Followed(t)) \subseteq HeldBy(t)
         /\ Cardinality(Unread(t)) \in Nat
         /\ Cardinality(Unread(t)) = 0 => Followed(t) = Words(t)
         /\ lost = {} /\ vec[t].len <= cap => Followed(t) = Words(t) /\ Cardinality(Unread(t)) = 0
         /\ lost = {} /\ vec[t].len > cap => \A i \in 1 .. cap : vec[t].buf[i] \in Listed(Followed(t))
<1>1. /\ vec[t].len \in Nat /\ vec[t].len <= Cardinality(Task)
      /\ \A i \in 1 .. vec[t].len : vec[t].buf[i] \in Task
      /\ Words(t) \in Seq(Task) /\ Len(Words(t)) = vec[t].len /\ Listed(Words(t)) = HeldBy(t)
      /\ HeldBy(t) = {vec[t].buf[i] : i \in 1 .. vec[t].len}
  BY WordsHeld, Numbers DEF HeldBy
<1>2. /\ t # FreeBlock /\ {Null, Problem} \cap Task = {} /\ Cardinality(Task) \in Nat /\ 1 <= Cardinality(Task)
      /\ Problem # NoWord /\ \A x \in Task : x # NoWord /\ x # Problem
  <2>1. Cardinality(Task) # 0
    BY TreeAssumption, Numbers, FS_EmptySet
  <2> QED BY Numbers, <2>1
<1>3. cap \in Nat /\ cap > 0
  BY TreeAssumption DEF Still, TreeInv, TreeTypeOK
<1>4. VecLen(t) = vec[t].len \/ (VecLen(t) = NoWord /\ lost # {})
  BY <1>2 DEF VecLen, BlockWord
<1>5. \A i \in 1 .. vec[t].len :
        Element(t, i) = vec[t].buf[i] \/ (Element(t, i) = NoWord /\ lost # {})
  BY DEF Element
<1> DEFINE k == ReadVec(t)
           n == Len(k)
<1>6. /\ k \in Seq(Task \cup {Problem}) /\ n \in Nat /\ n <= Cardinality(Task)
      /\ \A i \in 1 .. n : k[i] = Problem \/ (i \in 1 .. vec[t].len /\ k[i] = vec[t].buf[i])
      /\ (\A i \in 1 .. n : k[i] # Problem) => n = vec[t].len
      /\ lost = {} /\ vec[t].len <= cap => n = vec[t].len /\ \A i \in 1 .. n : k[i] # Problem
      /\ lost = {} /\ vec[t].len > cap =>
           \A i \in 1 .. cap : i \in 1 .. n /\ i \in 1 .. vec[t].len /\ k[i] = vec[t].buf[i]
  <2> DEFINE Said(i) == IF Element(t, i) = NoWord THEN Problem ELSE Element(t, i)
  <2>1. \A i \in 1 .. vec[t].len : /\ Said(i) \in Task \cup {Problem}
                                   /\ Said(i) = Problem \/ Said(i) = vec[t].buf[i]
                                   /\ lost = {} => Said(i) = vec[t].buf[i] /\ Said(i) # Problem
    BY <1>1, <1>2, <1>5
  <2>2. CASE VecLen(t) = NoWord
    <3>1. k = <<Problem>>
      BY <2>2 DEF ReadVec
    <3>2. k \in Seq(Task \cup {Problem}) /\ n = 1 /\ k[1] = Problem
      BY <3>1
    <3>3. lost # {}
      BY <1>1, <1>4, <2>2 DEF NoWord
    <3> HIDE DEF k
    <3> QED BY <1>2, <3>2, <3>3
  <2>3. CASE VecLen(t) # NoWord /\ VecLen(t) > cap
    <3> DEFINE f == [i \in 1 .. cap + 1 |-> IF i > cap THEN Problem ELSE Said(i)]
    <3>1. k = f /\ vec[t].len > cap
      BY <1>4, <2>3 DEF ReadVec
    <3>2. \A i \in 1 .. cap + 1 : i \in 1 .. vec[t].len /\ (i <= cap => i \in 1 .. cap)
      BY <1>1, <1>3, <3>1
    <3> HIDE DEF Said
    <3>3. \A i \in 1 .. cap + 1 : (IF i > cap THEN Problem ELSE Said(i)) \in Task \cup {Problem}
      BY <2>1, <3>2
    <3>4. f \in Seq(Task \cup {Problem}) /\ Len(f) = cap + 1
      BY <1>3, <3>3
    <3>5. \A i \in 1 .. cap : i \in 1 .. cap + 1 /\ ~(i > cap) /\ f[i] = Said(i)
      BY <1>3
    <3>6. cap + 1 \in 1 .. cap + 1 /\ f[cap + 1] = Problem
      BY <1>3
    <3>7. \A i \in 1 .. cap + 1 : i \in 1 .. cap \/ i = cap + 1
      BY <1>3
    <3> HIDE DEF f, k
    <3>8. n = cap + 1 /\ k \in Seq(Task \cup {Problem}) /\ k = f
      BY <3>1, <3>4
    <3>9. cap + 1 <= vec[t].len
      BY <1>1, <1>3, <3>1
    <3>10. \A i \in 1 .. cap : i \in 1 .. n /\ i \in 1 .. vec[t].len /\ k[i] = Said(i)
      BY <1>3, <3>2, <3>5, <3>8
    <3>11. k[cap + 1] = Problem /\ cap + 1 \in 1 .. n
      BY <3>6, <3>8
    <3>12. \A i \in 1 .. n : k[i] = Problem \/ (i \in 1 .. vec[t].len /\ k[i] = vec[t].buf[i])
      BY <2>1, <3>7, <3>8, <3>10, <3>11
    <3>13. lost = {} => \A i \in 1 .. cap : k[i] = vec[t].buf[i]
      BY <2>1, <3>10
    <3>14. ~(\A i \in 1 .. n : k[i] # Problem)
      BY <3>11
    <3>15. n \in Nat /\ n <= Cardinality(Task) /\ ~(vec[t].len <= cap)
      BY <1>1, <1>2, <1>3, <3>1, <3>8, <3>9
    <3> QED BY <3>8, <3>10, <3>12, <3>13, <3>14, <3>15
  <2>4. CASE VecLen(t) # NoWord /\ ~(VecLen(t) > cap)
    <3> DEFINE f == [i \in 1 .. vec[t].len |-> Said(i)]
    <3>1. k = f /\ ~(vec[t].len > cap)
      BY <1>4, <2>4 DEF ReadVec
    <3> HIDE DEF Said
    <3>2. f \in Seq(Task \cup {Problem}) /\ Len(f) = vec[t].len
      BY <1>1, <2>1
    <3>3. \A i \in 1 .. vec[t].len : f[i] = Said(i)
      OBVIOUS
    <3> HIDE DEF f, k
    <3> QED BY <1>1, <1>3, <2>1, <3>1, <3>2, <3>3
  <2> QED BY <2>2, <2>3, <2>4
<1> HIDE DEF k
<1>7. DOMAIN k = 1 .. n
  BY <1>6
<1>8. /\ Followed(t) \in Seq(Task \cup {Problem}) /\ Listed(Followed(t)) = Listed(k) \ {Null, Problem}
      /\ Len(Followed(t)) <= n /\ Len(Followed(t)) \in Nat
  <2>1. PICK u \in Seq(Task \cup {Problem}) : u = k
    BY <1>6
  <2>2. /\ Outside(u, {Null, Problem}) \in Seq(Task \cup {Problem})
        /\ Listed(Outside(u, {Null, Problem})) = Listed(u) \ {Null, Problem}
        /\ Len(Outside(u, {Null, Problem})) <= Len(u) /\ Len(Outside(u, {Null, Problem})) \in Nat
    BY OutsideListed
  <2> QED BY <2>1, <2>2 DEF Followed, k
<1>9. Listed(Followed(t)) \subseteq HeldBy(t)
  BY <1>1, <1>6, <1>7, <1>8 DEF Listed
<1>10. Followed(t) \in Seq(Task)
  <2>1. PICK u \in Seq(Task \cup {Problem}) : u = Followed(t)
    BY <1>8
  <2>2. Listed(u) \subseteq Task
    BY <1>1, <1>9, <2>1
  <2> QED BY <2>1, <2>2, ListedIn
<1>11. (\A i \in 1 .. n : k[i] # Problem) => Followed(t) = Words(t)
  <2>1. SUFFICES ASSUME \A i \in 1 .. n : k[i] # Problem PROVE Followed(t) = Words(t)
    OBVIOUS
  <2>2. \A i \in 1 .. n : k[i] = Words(t)[i]
    BY <1>6, <2>1 DEF Words
  <2>3. k = Words(t)
    <3>1. \A i \in 1 .. n : k[i] \in Task
      BY <1>1, <1>6, <2>1
    <3>2. Listed(k) \subseteq Task
      BY <1>7, <3>1 DEF Listed
    <3>3. Len(k) = Len(Words(t))
      BY <1>1, <1>6, <2>1
    <3>4. k \in Seq(Task)
      BY <1>6, <3>2, ListedIn
    <3> QED BY <1>1, <2>2, <3>3, <3>4, SeqEqual
  <2>4. PICK u \in Seq(Task) : u = Words(t)
    BY <1>1
  <2>5. Outside(u, {Null, Problem}) = u
    BY <1>2, OutsideNone
  <2> QED BY <2>3, <2>4, <2>5 DEF Followed, k
<1>12. Unread(t) = {i \in 1 .. n : k[i] = Problem}
  BY <1>7 DEF Unread, k
<1>13. IsFiniteSet(Unread(t)) /\ Cardinality(Unread(t)) \in Nat
  <2>1. IsFiniteSet(1 .. n)
    <3>1. 1 \in Int /\ n \in Int
      BY <1>6
    <3> QED BY <3>1, FS_Interval
  <2>2. Unread(t) \subseteq 1 .. n
    BY <1>12
  <2> QED BY <2>1, <2>2, FS_Subset, FS_CardinalityType
<1>14. Cardinality(Unread(t)) = 0 <=> \A i \in 1 .. n : k[i] # Problem
  BY <1>12, <1>13, FS_EmptySet
<1>15. lost = {} /\ vec[t].len > cap => \A i \in 1 .. cap : vec[t].buf[i] \in Listed(Followed(t))
  <2>1. SUFFICES ASSUME lost = {}, vec[t].len > cap, NEW i \in 1 .. cap
                 PROVE  vec[t].buf[i] \in Listed(Followed(t))
    OBVIOUS
  <2>2. i \in 1 .. n /\ i \in 1 .. vec[t].len /\ k[i] = vec[t].buf[i]
    BY <1>6, <2>1
  <2>3. vec[t].buf[i] \in Listed(k) /\ vec[t].buf[i] \in Task
    BY <1>1, <1>7, <2>2 DEF Listed
  <2> QED BY <1>2, <1>8, <2>3
<1>16. Len(Followed(t)) <= Cardinality(Task)
  BY <1>2, <1>6, <1>8
<1>17. lost = {} /\ vec[t].len <= cap => \A i \in 1 .. n : k[i] # Problem
  BY <1>6
<1> QED BY <1>9, <1>10, <1>11, <1>13, <1>14, <1>15, <1>16, <1>17

---------------------------------------------------------------------------
(* The loops of the two readers.                                            *)

\* Rows of the walk of an ELF image, its states, and its end.
Row == [arc : Task, parent : Task \cup {Null}]
Root == [arc |-> InitProc, parent |-> Null]
RcoreState == [queue : Seq(Row), seen : SUBSET Task, order : Seq(Row)]
RcoreEnded(st) == st.queue = << >> \/ Len(st.order) >= cap

\* The rows of the children s of task p.
RowsOf(s, p) == [i \in DOMAIN s |-> [arc |-> s[i], parent |-> p]]

\* The tasks of rows.
LEMMA ArcsOf ==
  ASSUME NEW r \in Seq(Row)
  PROVE  /\ Arcs(r) \in Seq(Task) /\ Len(Arcs(r)) = Len(r) /\ Len(r) \in Nat
         /\ \A i \in 1 .. Len(r) : r[i] \in Row /\ Arcs(r)[i] = r[i].arc
         /\ Listed(Arcs(r)) = {x.arc : x \in Listed(r)}
<1>1. Len(r) \in Nat /\ DOMAIN r = 1 .. Len(r) /\ \A i \in 1 .. Len(r) : r[i] \in Row
  BY LenProperties, ElementOfSeq
<1>2. \A i \in 1 .. Len(r) : r[i].arc \in Task
  BY <1>1 DEF Row
<1>3. Arcs(r) = [i \in 1 .. Len(r) |-> r[i].arc]
  BY <1>1 DEF Arcs
<1>4. Arcs(r) \in Seq(Task) /\ Len(Arcs(r)) = Len(r)
  BY <1>1, <1>2, <1>3
<1>5. DOMAIN Arcs(r) = 1 .. Len(r) /\ \A i \in 1 .. Len(r) : Arcs(r)[i] = r[i].arc
  BY <1>3
<1>6. Listed(Arcs(r)) = {x.arc : x \in Listed(r)}
  BY <1>1, <1>5 DEF Listed
<1> QED BY <1>1, <1>4, <1>5, <1>6

\* Rows of tasks.
LEMMA RowsOfTasks ==
  ASSUME NEW s \in Seq(Task), NEW p \in Task
  PROVE  /\ RowsOf(s, p) \in Seq(Row) /\ Len(RowsOf(s, p)) = Len(s) /\ Arcs(RowsOf(s, p)) = s
         /\ \A i \in 1 .. Len(s) : RowsOf(s, p)[i] = [arc |-> s[i], parent |-> p]
         /\ \A x \in Listed(RowsOf(s, p)) : x.parent = p /\ x.arc \in Listed(s)
<1>1. Len(s) \in Nat /\ DOMAIN s = 1 .. Len(s) /\ \A i \in 1 .. Len(s) : s[i] \in Task
  BY LenProperties, ElementOfSeq
<1>2. \A i \in 1 .. Len(s) : [arc |-> s[i], parent |-> p] \in Row
  BY <1>1 DEF Row
<1>3. RowsOf(s, p) = [i \in 1 .. Len(s) |-> [arc |-> s[i], parent |-> p]]
  BY <1>1 DEF RowsOf
<1>4. RowsOf(s, p) \in Seq(Row) /\ Len(RowsOf(s, p)) = Len(s)
  BY <1>1, <1>2, <1>3
<1>5. \A i \in 1 .. Len(s) : RowsOf(s, p)[i] = [arc |-> s[i], parent |-> p]
  BY <1>3
<1>6. Arcs(RowsOf(s, p)) = s
  <2>1. PICK r \in Seq(Row) : r = RowsOf(s, p)
    BY <1>4
  <2>2. /\ Arcs(r) \in Seq(Task) /\ Len(Arcs(r)) = Len(r)
        /\ \A i \in 1 .. Len(r) : Arcs(r)[i] = r[i].arc
    BY ArcsOf
  <2>a. Len(r) = Len(s)
    BY ONLY <1>4, <2>1
  <2>b. ASSUME NEW i \in 1 .. Len(s) PROVE r[i].arc = s[i]
    <3>1. r[i] = [arc |-> s[i], parent |-> p]
      BY ONLY <1>5, <2>1
    <3> QED BY ONLY <3>1
  <2>3. \A i \in 1 .. Len(s) : Arcs(r)[i] = s[i]
    BY <2>2, <2>a, <2>b
  <2> QED BY <1>4, <2>1, <2>2, <2>3, SeqEqual
<1>7. DOMAIN RowsOf(s, p) = 1 .. Len(s)
  BY <1>3
<1>8. \A x \in Listed(RowsOf(s, p)) : x.parent = p /\ x.arc \in Listed(s)
  BY <1>1, <1>5, <1>7 DEF Listed
<1> QED BY <1>4, <1>5, <1>6, <1>8

\* What two sequences list.
LEMMA ListedConcat ==
  ASSUME NEW T, NEW r \in Seq(T), NEW s \in Seq(T)
  PROVE  r \o s \in Seq(T) /\ Listed(r \o s) = Listed(r) \cup Listed(s)
<1> DEFINE c == r \o s
<1>1. /\ Len(r) \in Nat /\ Len(s) \in Nat /\ c \in Seq(T) /\ Len(c) = Len(r) + Len(s)
      /\ \A i \in 1 .. Len(c) : c[i] = IF i <= Len(r) THEN r[i] ELSE s[i - Len(r)]
  BY ConcatProperties, LenProperties
<1> HIDE DEF c
<1>2. DOMAIN r = 1 .. Len(r) /\ DOMAIN s = 1 .. Len(s) /\ DOMAIN c = 1 .. Len(r) + Len(s)
  BY <1>1
<1>3. \A i \in 1 .. Len(r) : i \in 1 .. Len(c) /\ i <= Len(r)
  BY <1>1
<1>4. \A i \in 1 .. Len(s) :
        i + Len(r) \in 1 .. Len(c) /\ ~(i + Len(r) <= Len(r)) /\ (i + Len(r)) - Len(r) = i
  BY <1>1
<1>5. \A i \in 1 .. Len(c) : i \in 1 .. Len(r) \/ (~(i <= Len(r)) /\ i - Len(r) \in 1 .. Len(s))
  BY <1>1
<1>6. Listed(r) \subseteq Listed(c)
  BY <1>1, <1>2, <1>3 DEF Listed
<1>7. Listed(s) \subseteq Listed(c)
  BY <1>1, <1>2, <1>4 DEF Listed
<1>8. Listed(c) \subseteq Listed(r) \cup Listed(s)
  BY <1>1, <1>2, <1>3, <1>5 DEF Listed
<1>9. r \o s = c
  BY DEF c
<1> QED BY <1>1, <1>6, <1>7, <1>8, <1>9

\* One round of the walk written for rCore.
LEMMA VisitTaskSteps ==
  ASSUME Still, NEW st \in RcoreState
  PROVE  /\ VisitTask(st) \in RcoreState
         /\ RcoreEnded(st) => VisitTask(st) = st
         /\ ~RcoreEnded(st) =>
              LET x == Head(st.queue)
                  new == RowsOf(Outside(ArcVec(x.arc), st.seen), x.arc)
                  w == VisitTask(st)
              IN /\ x \in Row /\ Tail(st.queue) \in Seq(Row)
                 /\ x.arc \in st.seen =>
                      w.queue = Tail(st.queue) /\ w.seen = st.seen /\ w.order = st.order
                 /\ x.arc \notin st.seen =>
                      /\ new \in Seq(Row)
                      /\ w.queue = Tail(st.queue) \o new
                      /\ w.seen = st.seen \cup {x.arc} /\ w.order = Append(st.order, x)
<1>1. st.queue \in Seq(Row) /\ st.seen \subseteq Task /\ st.order \in Seq(Row)
      /\ st = [queue |-> st.queue, seen |-> st.seen, order |-> st.order]
  BY DEF RcoreState
<1>2. CASE RcoreEnded(st)
  BY <1>2 DEF VisitTask, RcoreEnded
<1>3. CASE ~RcoreEnded(st)
  <2>1. PICK q \in Seq(Row) : q = st.queue /\ q # << >>
    BY <1>1, <1>3 DEF RcoreEnded
  <2>2. Head(q) \in Row /\ Tail(q) \in Seq(Row)
    BY <2>1
  <2>3. PICK x \in Row : x = Head(st.queue)
    BY <2>1, <2>2
  <2>4. x.arc \in Task
    BY DEF Row
  <2>5. PICK a \in Seq(Task) : a = ArcVec(x.arc)
    BY <2>4, ArcVecRead
  <2>6. Outside(a, st.seen) \in Seq(Task)
    BY OutsideListed
  <2>7. PICK n \in Seq(Task) : n = Outside(ArcVec(x.arc), st.seen)
    BY <2>5, <2>6
  <2>8. PICK rows \in Seq(Row) : rows = RowsOf(Outside(ArcVec(x.arc), st.seen), x.arc)
    BY <2>4, <2>7, RowsOfTasks
  <2>9. PICK t \in Seq(Row) : t = Tail(st.queue)
    BY <2>1, <2>2
  <2>10. t \o rows \in Seq(Row) /\ Append(st.order, x) \in Seq(Row)
    BY <1>1, ListedConcat, AppendProperties
  <2>11. VisitTask(st) = IF x.arc \in st.seen THEN [st EXCEPT !.queue = t]
                         ELSE [queue |-> t \o rows, seen |-> st.seen \cup {x.arc}, order |-> Append(st.order, x)]
    BY <1>3, <2>3, <2>8, <2>9 DEF VisitTask, RcoreEnded, RowsOf
  <2>12. CASE x.arc \in st.seen
    <3>1. VisitTask(st) = [queue |-> t, seen |-> st.seen, order |-> st.order]
      BY <1>1, <2>11, <2>12
    <3> QED BY <1>1, <1>3, <2>3, <2>9, <2>12, <3>1 DEF RcoreState
  <2>13. CASE x.arc \notin st.seen
    <3>1. VisitTask(st) = [queue |-> t \o rows, seen |-> st.seen \cup {x.arc}, order |-> Append(st.order, x)]
      BY <2>11, <2>13
    <3>2. VisitTask(st) \in RcoreState
      BY <1>1, <2>4, <2>10, <3>1 DEF RcoreState
    <3>3. /\ VisitTask(st).queue = t \o rows /\ VisitTask(st).seen = st.seen \cup {x.arc}
          /\ VisitTask(st).order = Append(st.order, x)
      BY <3>1
    <3> QED BY <1>3, <2>3, <2>8, <2>9, <2>13, <3>2, <3>3
  <2> QED BY <2>12, <2>13
<1> QED BY <1>2, <1>3

\* The rounds left to a loop that has n to pop and has not seen S.
LoopBound(n, S) == n + (Cardinality(Task) + 1) * Cardinality(Task \ S)

\* A round that pops one and is given at most one link to every task, of a task not seen.
LEMMA LoopBoundFalls ==
  ASSUME NEW n \in Nat, NEW m \in Nat, NEW S \in SUBSET Task, NEW x \in Task
  PROVE  /\ LoopBound(n, S) \in Nat
         /\ m < n => LoopBound(m, S) < LoopBound(n, S)
         /\ x \notin S /\ m < n + Cardinality(Task) => LoopBound(m, S \cup {x}) < LoopBound(n, S)
         /\ LoopBound(n, S) = 0 => n = 0
         /\ LoopBound(1, {}) = LastRound /\ LastRound \in Nat
<1> DEFINE N == Cardinality(Task)
<1>1. N \in Nat /\ IsFiniteSet(Task)
  BY TreeAssumption, FS_CardinalityType
<1>2. \A U \in SUBSET Task : Cardinality(Task \ U) \in Nat
  BY <1>1, FS_Subset, FS_CardinalityType
<1>3. \A a \in Nat, b \in Nat : (a + 1) * b \in Nat
  OBVIOUS
<1>4. x \notin S => Cardinality(Task \ S) = Cardinality(Task \ (S \cup {x})) + 1
  <2>1. SUFFICES ASSUME x \notin S PROVE Cardinality(Task \ S) = Cardinality(Task \ (S \cup {x})) + 1
    OBVIOUS
  <2>2. IsFiniteSet(Task \ (S \cup {x})) /\ x \notin Task \ (S \cup {x})
    BY <1>1, FS_Subset
  <2>3. Task \ S = (Task \ (S \cup {x})) \cup {x}
    BY <2>1
  <2> QED BY <2>2, <2>3, FS_AddElement
<1>5. Task \ {} = Task
  OBVIOUS
<1> HIDE DEF N
<1>6. PICK c \in Nat, d \in Nat : c = Cardinality(Task \ S) /\ d = Cardinality(Task \ (S \cup {x}))
  <2>1. S \cup {x} \in SUBSET Task
    OBVIOUS
  <2> QED BY <1>2, <2>1
<1>7. LoopBound(n, S) = n + (N + 1) * c /\ LoopBound(m, S) = m + (N + 1) * c
      /\ LoopBound(m, S \cup {x}) = m + (N + 1) * d
  BY <1>6 DEF LoopBound, N
<1>8. \A a \in Nat : (a + 1) * (d + 1) = (a + 1) * d + (a + 1)
  OBVIOUS
<1>9. x \notin S => (N + 1) * c = (N + 1) * d + (N + 1)
  BY <1>1, <1>4, <1>6, <1>8
<1>10. PICK e \in Nat, f \in Nat : e = (N + 1) * c /\ f = (N + 1) * d
  BY <1>1, <1>3
<1>11. LoopBound(1, {}) = LastRound /\ LastRound \in Nat
  <2>1. LoopBound(1, {}) = 1 + (N + 1) * N
    BY <1>5 DEF LoopBound, N
  <2>2. LastRound = N * (N + 1) + 1
    BY DEF LastRound, N
  <2>3. \A a \in Nat : 1 + (a + 1) * a = a * (a + 1) + 1 /\ a * (a + 1) + 1 \in Nat
    OBVIOUS
  <2> QED BY <1>1, <2>1, <2>2, <2>3
<1>12. x \notin S => e = f + (N + 1)
  BY <1>9, <1>10
<1>13. LoopBound(n, S) = n + e /\ LoopBound(m, S) = m + e /\ LoopBound(m, S \cup {x}) = m + f
  BY <1>7, <1>10
<1>14. N = Cardinality(Task)
  BY DEF N
<1> QED BY <1>1, <1>11, <1>12, <1>13, <1>14

\* The rounds of the walk written for rCore.
LEMMA RcoreLoop ==
  ASSUME Still
  PROVE  /\ RcoreStart \in RcoreState /\ RcoreRounds[0] = RcoreStart
         /\ \A n \in 1 .. LastRound : RcoreRounds[n] = VisitTask(RcoreRounds[n - 1])
<1> DEFINE f == [n \in 1 .. LastRound |-> [d \in RcoreState |-> VisitTask(d)]]
<1>1. RcoreStart \in RcoreState
  <2>1. Root \in Row
    BY Numbers DEF Row, Root
  <2>2. <<Root>> \in Seq(Row) /\ << >> \in Seq(Row)
    BY <2>1
  <2> QED BY <2>2 DEF RcoreStart, RcoreState, Root
<1>2. LastRound \in Nat
  BY LoopBoundFalls, Numbers
<1>3. \A d \in RcoreState : VisitTask(d) \in RcoreState
  BY VisitTaskSteps
<1>4. f \in [1 .. LastRound -> [RcoreState -> RcoreState]]
  BY <1>3
<1>5. \A n \in 1 .. LastRound, d \in RcoreState : f[n][d] = VisitTask(d)
  OBVIOUS
<1> HIDE DEF f
<1>6. PICK g \in [0 .. LastRound -> RcoreState] :
        g[0] = RcoreStart /\ \A n \in 1 .. LastRound : g[n] = f[n][g[n - 1]]
  <2>0. PICK D : D = RcoreState
    OBVIOUS
  <2>1. PICK a \in D, m \in Nat : a = RcoreStart /\ m = LastRound
    BY <1>1, <1>2, <2>0
  <2>2. f \in [1 .. m -> [D -> D]]
    BY <1>4, <2>0, <2>1
  <2>3. \E g \in [0 .. m -> D] : g[0] = a /\ \A n \in 1 .. m : g[n] = f[n][g[n - 1]]
    BY ONLY <2>2, LoopExists
  <2> QED BY <2>0, <2>1, <2>3
<1> DEFINE Loop(h) == [n \in 0 .. LastRound |-> IF n = 0 THEN RcoreStart ELSE VisitTask(h[n - 1])]
<1>7. g = Loop(g)
  <2>1. ASSUME NEW n \in 0 .. LastRound PROVE g[n] = IF n = 0 THEN RcoreStart ELSE VisitTask(g[n - 1])
    <3>1. CASE n = 0
      BY <1>6, <3>1
    <3>2. CASE n # 0
      <4>1. n \in 1 .. LastRound /\ n - 1 \in 0 .. LastRound
        BY <1>2, <3>2
      <4>2. g[n] = f[n][g[n - 1]] /\ g[n - 1] \in RcoreState
        BY <1>6, <4>1
      <4> QED BY <1>5, <3>2, <4>1, <4>2
    <3> QED BY <3>1, <3>2
  <2> QED BY <2>1
<1>8. RcoreRounds = CHOOSE h : h = Loop(h)
  BY DEF RcoreRounds
<1>9. RcoreRounds = Loop(RcoreRounds)
  BY <1>7, <1>8
<1>10. \A n \in 0 .. LastRound :
         RcoreRounds[n] = IF n = 0 THEN RcoreStart ELSE VisitTask(RcoreRounds[n - 1])
  BY <1>9
<1>11. RcoreRounds[0] = RcoreStart
  <2>1. 0 \in 0 .. LastRound
    BY <1>2
  <2> QED BY <1>10, <2>1
<1>12. ASSUME NEW n \in 1 .. LastRound PROVE RcoreRounds[n] = VisitTask(RcoreRounds[n - 1])
  <2>1. n \in 0 .. LastRound /\ n # 0
    BY <1>2
  <2> QED BY <1>10, <2>1
<1> QED BY <1>1, <1>11, <1>12

---------------------------------------------------------------------------
(* The walk of an ELF image.                                                *)

\* A row of a child of INITPROC under another parent.
Late(r) == r.arc \in HeldBy(InitProc) /\ r.parent # InitProc

\* Every task is listed once.
RcoreListed(st) ==
  /\ st.seen = Listed(Arcs(st.order))
  /\ \A i, j \in 1 .. Len(st.order) : st.order[i].arc = st.order[j].arc => i = j
\* The walk begins with INITPROC.
RcoreFirst(st) ==
  /\ InitProc \notin st.seen => st.queue = <<Root>> /\ st.order = << >> /\ st.seen = {}
\* A row names a task and one that holds it.
RcoreTrue(st) ==
  \A r \in Listed(st.queue) \cup Listed(st.order) :
    r = Root \/ (r.parent \in st.seen /\ r.arc \in HeldBy(r.parent))
\* Every child of INITPROC is listed, or queued as its child before any late row.
RcoreOnTime(st) ==
  /\ \A r \in Listed(st.order) : ~Late(r)
  /\ InitProc \in st.seen /\ st.queue # << >> =>
       \E k \in 0 .. Len(st.queue) :
         /\ \A i \in 1 .. k : ~Late(st.queue[i])
         /\ \A b \in HeldBy(InitProc) : b \in st.seen \/ \E i \in 1 .. k : st.queue[i].arc = b
\* What is read of a listed task is listed or queued.
RcoreClosed(st) ==
  \A t \in st.seen : Listed(ArcVec(t)) \subseteq st.seen \cup Listed(Arcs(st.queue))

\* The invariant of the walk of an ELF image.
RcoreInv(st) == /\ st \in RcoreState /\ RcoreListed(st) /\ RcoreFirst(st) /\ RcoreTrue(st)
                /\ RcoreOnTime(st) /\ RcoreClosed(st)

\* The walk of an ELF image starts in its invariant.
LEMMA RcoreInvStarts == ASSUME Still PROVE RcoreInv(RcoreStart)
<1> DEFINE st == RcoreStart
<1>1. st \in RcoreState
  BY RcoreLoop
<1>2. st.queue = <<Root>> /\ st.seen = {} /\ st.order = << >>
  BY DEF RcoreStart, Root
<1>3. Listed(<<Root>>) = {Root} /\ Listed(<< >>) = {} /\ Arcs(<< >>) = << >> /\ Len(<< >>) = 0
  <2>1. << >> \in Seq(Row)
    BY EmptySeq
  <2>2. Len(Arcs(<< >>)) = 0 /\ Arcs(<< >>) \in Seq(Task)
    BY <2>1, EmptySeq, ArcsOf
  <2>3. Listed(<< >>) = {}
    BY DEF Listed
  <2>4. Listed(<<Root>>) = {Root}
    BY DEF Listed
  <2> QED BY <2>2, <2>3, <2>4, EmptySeq
<1> HIDE DEF st
<1>4. RcoreListed(st)
  <2>1. \A i, j \in 1 .. Len(st.order) : i = j
    BY <1>2, <1>3
  <2> QED BY <1>2, <1>3, <2>1 DEF RcoreListed
<1>5. RcoreFirst(st)
  BY <1>2 DEF RcoreFirst
<1>6. RcoreTrue(st)
  BY <1>2, <1>3 DEF RcoreTrue
<1>7. RcoreOnTime(st)
  BY <1>2, <1>3 DEF RcoreOnTime
<1>8. RcoreClosed(st)
  BY <1>2 DEF RcoreClosed
<1> QED BY <1>1, <1>4, <1>5, <1>6, <1>7, <1>8 DEF RcoreInv, st

\* A visit keeps it: a task is listed when it is popped and not before, and its children are
\* queued behind the rows of INITPROC.
LEMMA RcoreInvKept ==
  ASSUME Still, NEW st, RcoreInv(st)
  PROVE  RcoreInv(VisitTask(st))
<1>1. /\ st \in RcoreState /\ RcoreListed(st) /\ RcoreFirst(st) /\ RcoreTrue(st)
      /\ RcoreOnTime(st) /\ RcoreClosed(st)
  BY DEF RcoreInv
<1>2. CASE RcoreEnded(st)
  BY <1>1, <1>2, VisitTaskSteps
<1>3. CASE ~RcoreEnded(st)
  <2>1. PICK w \in RcoreState : w = VisitTask(st)
    BY <1>1, VisitTaskSteps
  <2>a. /\ st.queue \in Seq(Row) /\ st.order \in Seq(Row) /\ Head(st.queue) \in Row
        /\ Tail(st.queue) \in Seq(Row) /\ st.queue # << >>
    BY <1>1, <1>3, VisitTaskSteps DEF RcoreEnded, RcoreState
  <2>b. PICK q \in Seq(Row), x \in Row, t \in Seq(Row), o \in Seq(Row) :
          q = st.queue /\ x = Head(st.queue) /\ t = Tail(st.queue) /\ o = st.order
    BY <2>a
  <2>c. x.arc \in st.seen => w.queue = t /\ w.seen = st.seen /\ w.order = o
    BY <1>1, <1>3, <2>1, <2>b, VisitTaskSteps
  <2>d. x.arc \notin st.seen =>
          /\ w.queue = t \o RowsOf(Outside(ArcVec(x.arc), st.seen), x.arc)
          /\ w.seen = st.seen \cup {x.arc} /\ w.order = Append(o, x)
    BY <1>1, <1>3, <2>1, <2>b, VisitTaskSteps
  <2>2. q = st.queue /\ x = Head(q) /\ t = Tail(q) /\ o = st.order /\ q # << >>
    BY <2>a, <2>b
  <2>3. /\ Len(q) \in Nat /\ Len(q) > 0 /\ Len(t) = Len(q) - 1 /\ q[1] = x
        /\ \A i \in 1 .. Len(q) - 1 : t[i] = q[i + 1]
        /\ Listed(q) = {x} \cup Listed(t)
    <3>1. Len(q) \in Nat /\ Len(q) # 0
      BY <2>2, EmptySeq, LenProperties
    <3>2. Listed(q) = {Head(q)} \cup Listed(Tail(q))
      BY <2>2, OutsideHead
    <3>3. Len(t) = Len(q) - 1 /\ q[1] = x /\ \A i \in 1 .. Len(q) - 1 : t[i] = q[i + 1]
      BY <2>2, HeadTailProperties
    <3> QED BY <2>2, <3>1, <3>2, <3>3
  <2>4. Listed(Arcs(q)) = {x.arc} \cup Listed(Arcs(t))
    <3>1. Listed(Arcs(q)) = {y.arc : y \in Listed(q)} /\ Listed(Arcs(t)) = {y.arc : y \in Listed(t)}
      BY ArcsOf
    <3> QED BY <2>3, <3>1
  <2>5. x.arc \in Task
    BY DEF Row
  <2>e. InitProc \in st.seen =>
          \E k \in 0 .. Len(q) :
            /\ \A i \in 1 .. k : ~Late(q[i])
            /\ \A b \in HeldBy(InitProc) : b \in st.seen \/ \E i \in 1 .. k : q[i].arc = b
    BY <1>1, <2>2 DEF RcoreOnTime
  <2>6. ASSUME InitProc \in st.seen
        PROVE  \E k \in 0 .. Len(t) :
                 /\ \A i \in 1 .. k : ~Late(t[i])
                 /\ \A b \in HeldBy(InitProc) :
                      b \in st.seen \cup {x.arc} \/ \E i \in 1 .. k : t[i].arc = b
    <3>1. PICK k \in 0 .. Len(q) :
            /\ \A i \in 1 .. k : ~Late(q[i])
            /\ \A b \in HeldBy(InitProc) : b \in st.seen \/ \E i \in 1 .. k : q[i].arc = b
      BY <2>6, <2>e
    <3>2. CASE k = 0
      <4>1. 0 \in 0 .. Len(t) /\ \A i : i \notin 1 .. 0
        BY <2>3
      <4> QED BY <3>1, <3>2, <4>1
    <3>3. CASE k # 0
      <4>1. k - 1 \in 0 .. Len(t) /\ \A i \in 1 .. k - 1 : i \in 1 .. Len(q) - 1 /\ i + 1 \in 1 .. k
        BY <2>3, <3>3
      <4>2. \A i \in 1 .. k - 1 : t[i] = q[i + 1] /\ ~Late(t[i])
        BY <2>3, <3>1, <4>1
      <4>3. ASSUME NEW b \in HeldBy(InitProc)
            PROVE  b \in st.seen \cup {x.arc} \/ \E i \in 1 .. k - 1 : t[i].arc = b
        <5>1. CASE b \in st.seen
          BY <5>1
        <5>2. CASE b \notin st.seen
          <6>1. PICK i \in 1 .. k : q[i].arc = b
            BY <3>1, <5>2
          <6>2. CASE i = 1
            BY <2>3, <6>1, <6>2
          <6>3. CASE i # 1
            <7>1. i - 1 \in 1 .. k - 1 /\ (i - 1) + 1 = i
              BY <6>3
            <7>2. t[i - 1] = q[i]
              BY <4>2, <7>1
            <7> QED BY <6>1, <7>1, <7>2
          <6> QED BY <6>2, <6>3
        <5> QED BY <5>1, <5>2
      <4> QED BY <4>1, <4>2, <4>3
    <3> QED BY <3>2, <3>3
  <2>7. CASE x.arc \in st.seen
    <3>1. w.queue = t /\ w.seen = st.seen /\ w.order = st.order /\ InitProc \in st.seen
      BY <1>1, <2>2, <2>7, <2>c DEF RcoreFirst
    <3>2. RcoreListed(w) /\ RcoreFirst(w)
      BY <1>1, <3>1 DEF RcoreListed, RcoreFirst
    <3>3. RcoreTrue(w)
      BY <1>1, <2>2, <2>3, <3>1 DEF RcoreTrue
    <3>4. RcoreOnTime(w)
      <4>1. \A r \in Listed(w.order) : ~Late(r)
        BY <1>1, <3>1 DEF RcoreOnTime
      <4>2. \E k \in 0 .. Len(w.queue) :
              /\ \A i \in 1 .. k : ~Late(w.queue[i])
              /\ \A b \in HeldBy(InitProc) : b \in w.seen \/ \E i \in 1 .. k : w.queue[i].arc = b
        <5>1. st.seen \cup {x.arc} = st.seen
          BY <2>7
        <5> QED BY <2>6, <3>1, <5>1
      <4> QED BY <4>1, <4>2 DEF RcoreOnTime
    <3>5. RcoreClosed(w)
      BY <1>1, <2>2, <2>4, <2>7, <3>1 DEF RcoreClosed
    <3> QED BY <2>1, <3>2, <3>3, <3>4, <3>5 DEF RcoreInv
  <2>8. CASE x.arc \notin st.seen
    <3>1. PICK a \in Seq(Task) : a = ArcVec(x.arc) /\ Listed(a) \subseteq HeldBy(x.arc)
      BY <2>5, ArcVecRead
    <3>2. PICK n \in Seq(Task) : n = Outside(a, st.seen) /\ Listed(n) = Listed(a) \ st.seen
      BY OutsideListed
    <3>3. PICK new \in Seq(Row) :
            /\ new = RowsOf(n, x.arc) /\ Len(new) = Len(n) /\ Arcs(new) = n
            /\ \A i \in 1 .. Len(n) : new[i] = [arc |-> n[i], parent |-> x.arc]
            /\ \A y \in Listed(new) : y.parent = x.arc /\ y.arc \in Listed(n)
      BY <2>5, RowsOfTasks
    <3>4. /\ w.queue = t \o new /\ w.seen = st.seen \cup {x.arc} /\ w.order = Append(o, x)
          /\ w.queue \in Seq(Row)
      <4>1. RowsOf(Outside(ArcVec(x.arc), st.seen), x.arc) = new
        BY <3>1, <3>2, <3>3
      <4>2. t \o new \in Seq(Row)
        BY ListedConcat
      <4> QED BY <2>8, <2>d, <4>1, <4>2
    <3>5. Listed(w.queue) = Listed(t) \cup Listed(new) /\ Listed(w.order) = Listed(o) \cup {x}
      <4>1. Listed(t \o new) = Listed(t) \cup Listed(new)
        BY ListedConcat
      <4>2. Listed(Append(o, x)) = Listed(o) \cup {x}
        BY ListedAppend
      <4> QED BY <3>4, <4>1, <4>2
    <3>6. Listed(Arcs(w.queue)) = Listed(Arcs(t)) \cup Listed(n)
      <4>1. Listed(Arcs(w.queue)) = {y.arc : y \in Listed(w.queue)}
        BY <3>4, ArcsOf
      <4>2. Listed(Arcs(t)) = {y.arc : y \in Listed(t)} /\ Listed(n) = {y.arc : y \in Listed(new)}
        BY <3>3, ArcsOf
      <4> QED BY <3>5, <4>1, <4>2
    <3>7. RcoreListed(w)
      <4>1. /\ Len(o) \in Nat /\ Len(w.order) = Len(o) + 1 /\ w.order[Len(o) + 1] = x
            /\ \A i \in 1 .. Len(o) : w.order[i] = o[i]
        BY <3>4, AppendProperties, LenProperties
      <4>2. Listed(Arcs(o)) = {y.arc : y \in Listed(o)} /\ \A i \in 1 .. Len(o) : o[i] \in Listed(o)
        BY ArcsOf, LenProperties DEF Listed
      <4>3. \A i \in 1 .. Len(o) : o[i].arc \in st.seen
        BY <1>1, <2>2, <4>2 DEF RcoreListed
      <4>4. \A i \in 1 .. Len(w.order) : i \in 1 .. Len(o) \/ i = Len(o) + 1
        BY <4>1
      <4>5. \A i, j \in 1 .. Len(w.order) : w.order[i].arc = w.order[j].arc => i = j
        <5>1. \A i, j \in 1 .. Len(o) : o[i].arc = o[j].arc => i = j
          BY <1>1, <2>2 DEF RcoreListed
        <5>2. \A i \in 1 .. Len(o) : o[i].arc # x.arc
          BY <2>8, <4>3
        <5> QED BY <4>1, <4>4, <5>1, <5>2
      <4>6. Listed(Arcs(w.order)) = {y.arc : y \in Listed(w.order)}
        <5>1. Append(o, x) \in Seq(Row)
          BY AppendProperties
        <5> QED BY <3>4, <5>1, ArcsOf
      <4>7. w.seen = Listed(Arcs(w.order))
        BY <1>1, <2>2, <3>4, <3>5, <4>2, <4>6 DEF RcoreListed
      <4> QED BY <4>5, <4>7 DEF RcoreListed
    <3>8. InitProc \in w.seen
      <4>1. InitProc \notin st.seen => x = Root
        BY <1>1, <2>2 DEF RcoreFirst
      <4> QED BY <3>4, <4>1 DEF Root
    <3>9. RcoreTrue(w)
      <4>1. ASSUME NEW r \in Listed(w.queue) \cup Listed(w.order)
            PROVE  r = Root \/ (r.parent \in w.seen /\ r.arc \in HeldBy(r.parent))
        <5>1. CASE r \in Listed(st.queue) \cup Listed(st.order)
          BY <1>1, <3>4, <5>1 DEF RcoreTrue
        <5>2. CASE r \in Listed(new)
          BY <3>1, <3>2, <3>3, <3>4, <5>2
        <5> QED BY <2>2, <2>3, <3>5, <5>1, <5>2
      <4> QED BY <4>1 DEF RcoreTrue
    <3>10. RcoreClosed(w)
      <4>1. ASSUME NEW u \in w.seen PROVE Listed(ArcVec(u)) \subseteq w.seen \cup Listed(Arcs(w.queue))
        <5>1. CASE u \in st.seen
          BY <1>1, <2>2, <2>4, <3>4, <3>6, <5>1 DEF RcoreClosed
        <5>2. CASE u = x.arc
          BY <3>1, <3>2, <3>4, <3>6, <5>2
        <5> QED BY <3>4, <5>1, <5>2
      <4> QED BY <4>1 DEF RcoreClosed
    <3>11. Len(t) \in Nat /\ Len(new) \in Nat /\ Len(w.queue) = Len(t) + Len(new)
           /\ \A i \in 1 .. Len(t) : w.queue[i] = t[i]
      BY <3>4, ConcatProperties, LenProperties
    <3>12. RcoreOnTime(w)
      <4>1. CASE InitProc \in st.seen
        <5>1. PICK k \in 0 .. Len(t) :
                 /\ \A i \in 1 .. k : ~Late(t[i])
                 /\ \A b \in HeldBy(InitProc) :
                      b \in st.seen \cup {x.arc} \/ \E i \in 1 .. k : t[i].arc = b
          BY <2>6, <4>1
        <5>2. ~Late(x)
          <6>1. PICK l \in 0 .. Len(q) :
                  /\ \A i \in 1 .. l : ~Late(q[i])
                  /\ \A b \in HeldBy(InitProc) : b \in st.seen \/ \E i \in 1 .. l : q[i].arc = b
            BY <2>e, <4>1
          <6>2. CASE l = 0
            <7>1. \A b \in HeldBy(InitProc) : b \in st.seen
              BY <6>1, <6>2
            <7> QED BY <2>8, <7>1 DEF Late
          <6>3. CASE l # 0
            BY <2>3, <6>1, <6>3
          <6> QED BY <6>2, <6>3
        <5>3. \A r \in Listed(w.order) : ~Late(r)
          BY <1>1, <2>2, <3>5, <5>2 DEF RcoreOnTime
        <5>4. k \in 0 .. Len(w.queue) /\ \A i \in 1 .. k : i \in 1 .. Len(t)
          BY <3>11
        <5>5. \A i \in 1 .. k : w.queue[i] = t[i]
          BY <3>11, <5>4
        <5>6. /\ \A i \in 1 .. k : ~Late(w.queue[i])
              /\ \A b \in HeldBy(InitProc) : b \in w.seen \/ \E i \in 1 .. k : w.queue[i].arc = b
          BY <3>4, <5>1, <5>5
        <5> QED BY <5>3, <5>4, <5>6 DEF RcoreOnTime
      <4>2. CASE InitProc \notin st.seen
        <5>1. x = Root /\ q = <<Root>> /\ o = << >> /\ st.seen = {}
          BY <1>1, <2>2, <4>2 DEF RcoreFirst
        <5>2. Len(t) = 0
          <6>1. Len(q) = 1
            BY <5>1
          <6> QED BY <2>3, <6>1
        <5>3. Listed(w.order) = {Root}
          <6>1. Listed(<< >>) = {}
            BY DEF Listed
          <6> QED BY <3>5, <5>1, <6>1
        <5>4. x.arc = InitProc /\ x.parent # InitProc
          BY <5>1, Numbers DEF Root
        <5>5. \A r \in Listed(w.order) : ~Late(r)
          <6>1. InitProc \notin HeldBy(InitProc)
            BY Numbers, WordsHeld
          <6> QED BY <5>1, <5>3, <5>4, <6>1 DEF Late
        <5>6. \A i \in 1 .. Len(w.queue) : w.queue[i] = new[i] /\ new[i].parent = InitProc /\ new[i].arc = n[i]
          <6>2. Len(w.queue) = Len(new)
            BY <3>11, <5>2
          <6>3. w.queue = new
            <7>1. t = << >>
              BY <5>2, EmptySeq
            <7> QED BY <3>4, <7>1, ConcatEmptySeq
          <6>4. ASSUME NEW i \in 1 .. Len(new) PROVE new[i].parent = InitProc /\ new[i].arc = n[i]
            <7>1. new[i] = [arc |-> n[i], parent |-> x.arc]
              BY <3>3
            <7> QED BY <5>4, <7>1
          <6> QED BY <6>2, <6>3, <6>4
        <5>7. \A i \in 1 .. Len(w.queue) : ~Late(w.queue[i])
          BY <5>6 DEF Late
        <5>8. Listed(n) = Listed(a)
          BY <3>2, <5>1
        <5>9. a = << >> \/ Listed(a) = HeldBy(InitProc)
          BY <3>1, <5>4, Numbers, ArcVecRead, WordsHeld
        <5>10. CASE a = << >>
          <6>1. Listed(n) = {}
            <7>1. Listed(<< >>) = {}
              BY DEF Listed
            <7> QED BY <5>8, <5>10, <7>1
          <6>2. n = << >>
            BY ONLY <6>1, n \in Seq(Task), NothingListed
          <6>3. Len(w.queue) = 0
            BY <3>3, <3>11, <5>2, <6>2, EmptySeq
          <6>4. w.queue = << >>
            BY <3>4, <6>3, EmptySeq
          <6> QED BY <5>5, <6>4 DEF RcoreOnTime
        <5>11. CASE Listed(a) = HeldBy(InitProc)
          <6>1. ASSUME NEW b \in HeldBy(InitProc) PROVE \E i \in 1 .. Len(w.queue) : w.queue[i].arc = b
            <7>1. DOMAIN n = 1 .. Len(n) /\ Len(w.queue) = Len(n)
              BY <3>3, <3>11, <5>2, LenProperties
            <7>2. PICK i \in 1 .. Len(n) : n[i] = b
              BY <5>8, <5>11, <7>1 DEF Listed
            <7> QED BY <5>6, <7>1, <7>2
          <6>2. Len(w.queue) \in 0 .. Len(w.queue)
            BY <3>11
          <6> QED BY <5>5, <5>7, <6>1, <6>2 DEF RcoreOnTime
        <5> QED BY <5>9, <5>10, <5>11
      <4> QED BY <4>1, <4>2
    <3> QED BY <2>1, <3>7, <3>8, <3>9, <3>10, <3>12 DEF RcoreInv, RcoreFirst
  <2> QED BY <2>7, <2>8
<1> QED BY <1>2, <1>3

\* A visit that does something leaves less to do.
LEMMA RcoreProgress ==
  ASSUME Still, NEW st \in RcoreState, ~RcoreEnded(st)
  PROVE  /\ LoopBound(Len(st.queue), st.seen) \in Nat /\ VisitTask(st) \in RcoreState
         /\ LoopBound(Len(VisitTask(st).queue), VisitTask(st).seen) \in Nat
         /\ LoopBound(Len(VisitTask(st).queue), VisitTask(st).seen) < LoopBound(Len(st.queue), st.seen)
<1>1. PICK w \in RcoreState : w = VisitTask(st)
  BY VisitTaskSteps
<1>2. /\ st.queue \in Seq(Row) /\ st.seen \in SUBSET Task /\ Tail(st.queue) \in Seq(Row)
      /\ Head(st.queue) \in Row /\ w.queue \in Seq(Row) /\ w.seen \in SUBSET Task
  BY VisitTaskSteps DEF RcoreState
<1>3. PICK x \in Row, t \in Seq(Row) : x = Head(st.queue) /\ t = Tail(st.queue)
  BY <1>2
<1>4. /\ x.arc \in st.seen => w.queue = t /\ w.seen = st.seen
      /\ x.arc \notin st.seen => /\ w.queue = t \o RowsOf(Outside(ArcVec(x.arc), st.seen), x.arc)
                                 /\ w.seen = st.seen \cup {x.arc}
  BY <1>1, <1>3, VisitTaskSteps
<1>5. x.arc \in Task /\ Cardinality(Task) \in Nat
  BY Numbers DEF Row
<1>6. PICK a \in Seq(Task) : a = ArcVec(x.arc) /\ Len(a) <= Cardinality(Task)
  BY <1>5, ArcVecRead
<1>7. PICK n \in Seq(Task) : n = Outside(a, st.seen) /\ Len(n) <= Len(a) /\ Len(n) \in Nat /\ Len(a) \in Nat
  BY OutsideListed, LenProperties
<1>8. PICK new \in Seq(Row) : new = RowsOf(n, x.arc) /\ Len(new) = Len(n)
  BY <1>5, RowsOfTasks
<1>9. Len(st.queue) \in Nat /\ Len(t) \in Nat /\ Len(w.queue) \in Nat /\ Len(t) = Len(st.queue) - 1
      /\ Len(st.queue) > 0
  <2>1. st.queue # << >>
    BY DEF RcoreEnded
  <2> QED BY <1>2, <1>3, <2>1, HeadTailProperties, LenProperties, EmptySeq
<1>10. x.arc \notin st.seen => Len(w.queue) = Len(t) + Len(n)
  <2>1. Len(t \o new) = Len(t) + Len(new)
    BY ConcatProperties
  <2> QED BY <1>4, <1>6, <1>7, <1>8, <2>1
<1>11. PICK l \in Nat, m \in Nat, S \in SUBSET Task, y \in Task :
         l = Len(st.queue) /\ m = Len(w.queue) /\ S = st.seen /\ y = x.arc
  BY <1>2, <1>5, <1>9
<1>12. /\ LoopBound(l, S) \in Nat
       /\ m < l => LoopBound(m, S) < LoopBound(l, S) /\ LoopBound(m, S) \in Nat
       /\ y \notin S /\ m < l + Cardinality(Task) =>
            LoopBound(m, S \cup {y}) < LoopBound(l, S) /\ LoopBound(m, S \cup {y}) \in Nat
  BY LoopBoundFalls
<1>13. x.arc \notin st.seen => m < l + Cardinality(Task)
  <2>1. PICK N \in Nat, i \in Nat, j \in Nat, k \in Nat :
          N = Cardinality(Task) /\ i = Len(t) /\ j = Len(n) /\ k = Len(a)
    BY <1>5, <1>7, <1>9
  <2>2. j <= k /\ k <= N /\ i = l - 1
    BY <1>6, <1>7, <1>9, <1>11, <2>1
  <2>3. x.arc \notin st.seen => m = i + j
    BY <1>10, <1>11, <2>1
  <2> QED BY ONLY l \in Nat, m \in Nat, <2>1, <2>2, <2>3
<1>14. x.arc \in st.seen => m < l
  BY <1>4, <1>9, <1>11
<1>15. CASE x.arc \in st.seen
  BY <1>1, <1>4, <1>11, <1>12, <1>14, <1>15
<1>16. CASE x.arc \notin st.seen
  BY <1>1, <1>4, <1>11, <1>12, <1>13, <1>16
<1> QED BY <1>15, <1>16

\* The walk of an ELF image ends within the rounds it is given, in its invariant.
LEMMA RcoreResult ==
  ASSUME Still
  PROVE  RcoreInv(RcoreRounds[LastRound]) /\ RcoreEnded(RcoreRounds[LastRound])
<1> DEFINE B(st) == LoopBound(Len(st.queue), st.seen)
           Good == {n \in Nat : n <= LastRound =>
                      /\ RcoreInv(RcoreRounds[n])
                      /\ RcoreEnded(RcoreRounds[n]) \/ B(RcoreRounds[n]) <= LastRound - n}
<1>1. LastRound \in Nat /\ LoopBound(1, {}) = LastRound
  BY LoopBoundFalls, Numbers
<1>2. \A st \in RcoreState : B(st) \in Nat
  <2>1. SUFFICES ASSUME NEW st \in RcoreState PROVE B(st) \in Nat
    OBVIOUS
  <2>2. PICK n \in Nat, S \in SUBSET Task : n = Len(st.queue) /\ S = st.seen
    BY LenProperties DEF RcoreState
  <2>3. LoopBound(n, S) \in Nat
    BY LoopBoundFalls, Numbers
  <2> QED BY <2>2, <2>3
<1>3. 0 \in Good
  <2>1. RcoreRounds[0] = RcoreStart
    BY RcoreLoop
  <2>2. Len(RcoreStart.queue) = 1 /\ RcoreStart.seen = {}
    BY DEF RcoreStart
  <2>3. B(RcoreRounds[0]) = LastRound
    BY <1>1, <2>1, <2>2
  <2> HIDE DEF B
  <2> QED BY <1>1, <2>1, <2>3, RcoreInvStarts
<1>4. ASSUME NEW n \in Nat, n \in Good PROVE n + 1 \in Good
  <2>1. SUFFICES ASSUME n + 1 <= LastRound
                 PROVE  /\ RcoreInv(RcoreRounds[n + 1])
                        /\ RcoreEnded(RcoreRounds[n + 1]) \/ B(RcoreRounds[n + 1]) <= LastRound - (n + 1)
    OBVIOUS
  <2> DEFINE st == RcoreRounds[n]
  <2>2. n <= LastRound /\ n + 1 \in 1 .. LastRound /\ (n + 1) - 1 = n
    BY <1>1, <2>1
  <2>3. RcoreInv(st) /\ (RcoreEnded(st) \/ B(st) <= LastRound - n)
    BY <1>4, <2>2
  <2>4. RcoreRounds[n + 1] = VisitTask(st)
    BY <2>2, RcoreLoop
  <2>5. RcoreInv(VisitTask(st)) /\ st \in RcoreState
    BY <2>3, RcoreInvKept DEF RcoreInv
  <2>6. CASE RcoreEnded(st)
    BY <2>4, <2>5, <2>6, VisitTaskSteps
  <2>7. CASE ~RcoreEnded(st)
    <3>1. B(VisitTask(st)) < B(st) /\ B(VisitTask(st)) \in Nat /\ B(st) \in Nat
      BY <2>5, <2>7, RcoreProgress
    <3> HIDE DEF B, st
    <3>2. B(VisitTask(st)) <= LastRound - (n + 1)
      BY <1>1, <2>3, <2>7, <3>1
    <3> QED BY <2>4, <2>5, <3>2
  <2> QED BY <2>6, <2>7
<1> HIDE DEF Good
<1>5. \A n \in Nat : n \in Good => n + 1 \in Good
  BY <1>4
<1>6. LastRound \in Good
  BY <1>1, <1>3, <1>5, NatSetInduction
<1>7. PICK st : st = RcoreRounds[LastRound]
  OBVIOUS
<1>8. RcoreInv(st) /\ (RcoreEnded(st) \/ B(st) <= 0)
  <2>1. LastRound - LastRound = 0 /\ LastRound <= LastRound
    BY <1>1
  <2> QED BY <1>6, <1>7, <2>1 DEF Good
<1>9. st \in RcoreState
  BY <1>8 DEF RcoreInv
<1>10. RcoreEnded(st)
  <2>1. SUFFICES ASSUME B(st) <= 0 PROVE st.queue = << >>
    BY <1>8 DEF RcoreEnded
  <2>2. PICK n \in Nat, S \in SUBSET Task : n = Len(st.queue) /\ S = st.seen /\ st.queue \in Seq(Row)
    BY <1>9, LenProperties DEF RcoreState
  <2>3. LoopBound(n, S) \in Nat /\ (LoopBound(n, S) = 0 => n = 0)
    BY LoopBoundFalls, Numbers
  <2>4. n = 0
    BY <2>1, <2>2, <2>3
  <2> QED BY <2>2, <2>4, EmptySeq
<1> QED BY <1>7, <1>8, <1>10

\* The rows of the tree walk.
LEMMA DecodedRows ==
  ASSUME Still
  PROVE  /\ DecodeRcoreTree \in Seq(Row)
         /\ Listed(DecodeRcoreTree) \subseteq Listed(RcoreRounds[LastRound].order)
         /\ booted \/ DecodeRcoreTree = << >>
         /\ lost = {} /\ booted => DecodeRcoreTree = RcoreRounds[LastRound].order
<1>1. PICK o \in Seq(Row) : o = RcoreRounds[LastRound].order
  BY RcoreResult DEF RcoreInv, RcoreState
<1>2. PICK r \in Seq(Row) : r = WalkRcoreTree
  BY <1>1, EmptySeq DEF WalkRcoreTree
<1> DEFINE S == {x \in Listed(r) : BlockWord(x.arc, 1) = NoWord}
<1>3. DecodeRcoreTree = Outside(r, S)
  BY <1>2 DEF DecodeRcoreTree
<1>4. Listed(<< >>) = {}
  BY DEF Listed
<1>5. booted \/ r = << >>
  BY <1>2 DEF WalkRcoreTree
<1>6. booted => r = o
  BY <1>1, <1>2 DEF WalkRcoreTree
<1>7. lost = {} => S = {}
  BY DEF BlockWord, NoWord, Null
<1> HIDE DEF S
<1>8. Outside(r, S) \in Seq(Row) /\ Listed(Outside(r, S)) = Listed(r) \ S
  BY OutsideListed
<1>9. Outside(<< >>, S) = << >>
  BY OutsideEmpty
<1>10. S = {} => Outside(r, S) = r
  BY OutsideNone
<1> QED BY <1>1, <1>3, <1>4, <1>5, <1>6, <1>7, <1>8, <1>9, <1>10

\* The parent of a row is the kernel's.
LEMMA ParentsRead == ASSUME Still PROVE ParentsAreTrue(DecodeRcoreTree)
<1>1. PICK st : st = RcoreRounds[LastRound] /\ RcoreInv(st)
  BY RcoreResult
<1>2. PICK rows \in Seq(Row) : rows = DecodeRcoreTree /\ Listed(rows) \subseteq Listed(st.order)
  BY <1>1, DecodedRows
<1>3. SUFFICES ASSUME NEW r \in Listed(st.order), r \in Row
               PROVE  r.parent = IF r.arc \in HeldBy(op.exiting) \ HeldBy(InitProc)
                                 THEN op.exiting ELSE parent[r.arc]
  <2>1. DOMAIN rows = 1 .. Len(rows) /\ \A i \in 1 .. Len(rows) : rows[i] \in Row /\ rows[i] \in Listed(rows)
    BY LenProperties, ElementOfSeq DEF Listed
  <2> QED BY <1>2, <1>3, <2>1 DEF ParentsAreTrue
<1>4. /\ LifeInv /\ HoldInv /\ Exiting /\ TreeTypeOK /\ op.do # "move"
  BY DEF Still, TreeInv, Reallocating
<1>5. op.exiting \in Task \cup {Null} /\ InitProc \in Task /\ Null \notin Task
  BY <1>4, Numbers DEF TreeTypeOK, OpRec
<1>6. \A t \in Task : HeldBy(t) = Kids(t) /\ HeldBy(t) \subseteq Task \ {InitProc}
  BY WordsHeld
<1>7. HeldBy(Null) = {}
  BY DEF HeldBy
<1>8. CASE r = Root
  <2>1. r.arc = InitProc /\ r.parent = Null /\ parent[InitProc] = Null
    BY <1>4, <1>8 DEF Root, LifeInv
  <2>2. InitProc \notin HeldBy(op.exiting)
    BY <1>5, <1>6, <1>7
  <2> QED BY <2>1, <2>2
<1>9. CASE r.parent \in Task /\ r.arc \in HeldBy(r.parent) /\ ~Late(r)
  <2>1. PICK p \in Task, c \in Task : p = r.parent /\ c = r.arc /\ c \in HeldBy(p)
    BY <1>6, <1>9
  <2>2. p # op.exiting => parent[c] = p
    BY <1>4, <1>6, <2>1 DEF HoldInv
  <2>3. ASSUME op.exiting \in Task, c \in HeldBy(op.exiting)
        PROVE  \/ parent[c] = op.exiting /\ op.exiting # InitProc
               \/ parent[c] = InitProc /\ op.exiting # InitProc
    <3>1. op.exiting # Null /\ op.exiting # InitProc
      BY <1>4, <1>5, <2>3 DEF Exiting
    <3>2. PICK i \in 1 .. vec[op.exiting].len : c = WordAt(op.exiting, i)
      BY <1>6, <2>3 DEF Kids
    <3> QED BY <1>4, <3>1, <3>2 DEF HoldInv
  <2>4. CASE c \in HeldBy(op.exiting) \ HeldBy(InitProc)
    <3>1. op.exiting \in Task
      BY <1>5, <1>7, <2>4
    <3>2. p = op.exiting
      BY <2>1, <2>2, <2>3, <2>4, <3>1
    <3> QED BY <2>1, <2>4, <3>2
  <2>5. CASE c \notin HeldBy(op.exiting) \ HeldBy(InitProc)
    <3>1. p # op.exiting
      <4>1. SUFFICES ASSUME p = op.exiting PROVE FALSE
        OBVIOUS
      <4>2. c \in HeldBy(InitProc) /\ p # InitProc
        BY <2>1, <2>3, <2>5, <4>1
      <4> QED BY <1>9, <2>1, <4>2 DEF Late
    <3> QED BY <2>1, <2>2, <2>5, <3>1
  <2> QED BY <2>1, <2>4, <2>5
<1>10. r = Root \/ (r.parent \in Task /\ r.arc \in HeldBy(r.parent) /\ ~Late(r))
  BY <1>1, <1>3 DEF RcoreInv, RcoreTrue, RcoreOnTime, RcoreState
<1> QED BY <1>8, <1>9, <1>10

---------------------------------------------------------------------------
(* The walk of a manifest.                                                  *)

\* States of the walk of a manifest, and its end.
RunState == [queue : Seq(Task), seen : SUBSET Task, out : Seq(Task), problems : Nat, truncated : BOOLEAN]
RunEnded(w) == w.queue = << >> \/ w.truncated

\* One round of the walk of a manifest.
LEMMA WalkNodeSteps ==
  ASSUME Still, NEW w \in RunState
  PROVE  /\ WalkNode(w) \in RunState
         /\ RunEnded(w) => WalkNode(w) = w
         /\ ~RunEnded(w) =>
              LET x == Head(w.queue)
                  v == WalkNode(w)
              IN /\ x \in Task /\ Tail(w.queue) \in Seq(Task)
                 /\ x \in w.seen => /\ v.queue = Tail(w.queue) /\ v.seen = w.seen /\ v.out = w.out
                                    /\ v.problems = w.problems /\ ~v.truncated
                 /\ x \notin w.seen => v.seen = w.seen \cup {x} /\ v.out = Append(w.out, x)
                 /\ x \notin w.seen /\ Len(w.out) + 1 >= cap => v.truncated
                 /\ x \notin w.seen /\ ~(Len(w.out) + 1 >= cap) =>
                      /\ v.queue = Tail(w.queue) \o Followed(x) /\ ~v.truncated
                      /\ v.problems = w.problems + Cardinality(Unread(x))
<1>1. /\ w.queue \in Seq(Task) /\ w.seen \subseteq Task /\ w.out \in Seq(Task) /\ w.problems \in Nat
      /\ w.truncated \in BOOLEAN
      /\ w = [queue |-> w.queue, seen |-> w.seen, out |-> w.out, problems |-> w.problems,
              truncated |-> w.truncated]
  BY DEF RunState
<1>2. CASE RunEnded(w)
  BY <1>2 DEF WalkNode, RunEnded
<1>3. CASE ~RunEnded(w)
  <2>1. PICK q \in Seq(Task) : q = w.queue /\ q # << >> /\ ~w.truncated
    BY <1>1, <1>3 DEF RunEnded
  <2>2. Head(q) \in Task /\ Tail(q) \in Seq(Task)
    BY <2>1
  <2>3. PICK x \in Task, t \in Seq(Task) : x = Head(w.queue) /\ t = Tail(w.queue)
    BY <2>1, <2>2
  <2>4. PICK n \in Seq(Task), u \in Nat : n = Followed(x) /\ u = Cardinality(Unread(x))
    BY ReadVecRead
  <2>5. PICK o \in Seq(Task), s \in SUBSET Task, p \in Nat, l \in Seq(Task) :
          o = Append(w.out, x) /\ s = w.seen \cup {x} /\ p = w.problems + u /\ l = t \o n
    <3>1. Append(w.out, x) \in Seq(Task) /\ t \o n \in Seq(Task)
      BY <1>1, AppendProperties, ListedConcat
    <3>2. w.problems + u \in Nat /\ w.seen \cup {x} \in SUBSET Task
      BY <1>1
    <3> QED BY <3>1, <3>2
  <2>6. WalkNode(w) = IF x \in w.seen THEN [w EXCEPT !.queue = t]
                      ELSE IF Len(w.out) + 1 >= cap
                           THEN [w EXCEPT !.seen = s, !.out = o, !.truncated = TRUE]
                      ELSE [w EXCEPT !.seen = s, !.out = o, !.problems = p, !.queue = l]
    BY <1>3, <2>3, <2>4, <2>5 DEF WalkNode, RunEnded, Followed, Unread
  <2>7. CASE x \in w.seen
    <3>1. WalkNode(w) = [queue |-> t, seen |-> w.seen, out |-> w.out, problems |-> w.problems,
                         truncated |-> w.truncated]
      BY <1>1, <2>6, <2>7
    <3> QED BY <1>1, <1>3, <2>1, <2>3, <2>7, <3>1 DEF RunState
  <2>8. CASE x \notin w.seen /\ Len(w.out) + 1 >= cap
    <3>1. WalkNode(w) = [queue |-> w.queue, seen |-> s, out |-> o, problems |-> w.problems,
                         truncated |-> TRUE]
      BY <1>1, <2>6, <2>8
    <3>2. WalkNode(w) \in RunState
      BY <1>1, <3>1 DEF RunState
    <3>3. WalkNode(w).seen = s /\ WalkNode(w).out = o /\ WalkNode(w).truncated
      BY <3>1
    <3> QED BY <1>3, <2>3, <2>5, <2>8, <3>2, <3>3
  <2>9. CASE x \notin w.seen /\ ~(Len(w.out) + 1 >= cap)
    <3>1. WalkNode(w) = [queue |-> l, seen |-> s, out |-> o, problems |-> p, truncated |-> w.truncated]
      BY <1>1, <2>6, <2>9
    <3>2. WalkNode(w) \in RunState
      BY <1>1, <3>1 DEF RunState
    <3>3. /\ WalkNode(w).seen = s /\ WalkNode(w).out = o /\ ~WalkNode(w).truncated
          /\ WalkNode(w).queue = l /\ WalkNode(w).problems = p
      BY <2>1, <3>1
    <3> QED BY <1>3, <2>3, <2>4, <2>5, <2>9, <3>2, <3>3
  <2> QED BY <2>7, <2>8, <2>9
<1> QED BY <1>2, <1>3

\* The rounds of the walk of a manifest.
LEMMA RunLoop ==
  ASSUME Still
  PROVE  /\ RunStart \in RunState /\ RunRounds[0] = RunStart
         /\ \A n \in 1 .. LastRound : RunRounds[n] = WalkNode(RunRounds[n - 1])
<1> DEFINE f == [n \in 1 .. LastRound |-> [d \in RunState |-> WalkNode(d)]]
<1>1. RunStart \in RunState
  <2>1. PICK q \in Seq(Task) : q = IF booted THEN <<InitProc>> ELSE << >>
    <3>1. InitProc \in Task
      BY Numbers
    <3>2. <<InitProc>> \in Seq(Task) /\ << >> \in Seq(Task)
      BY <3>1
    <3> QED BY <3>2
  <2>2. PICK p \in Nat : p = IF booted THEN 0 ELSE 1
    OBVIOUS
  <2>3. RunStart = [queue |-> q, seen |-> {}, out |-> << >>, problems |-> p, truncated |-> FALSE]
    BY <2>1, <2>2 DEF RunStart
  <2>4. << >> \in Seq(Task)
    BY EmptySeq
  <2> QED BY <2>3, <2>4 DEF RunState
<1>2. LastRound \in Nat
  BY LoopBoundFalls, Numbers
<1>3. \A d \in RunState : WalkNode(d) \in RunState
  BY WalkNodeSteps
<1>4. f \in [1 .. LastRound -> [RunState -> RunState]]
  BY <1>3
<1>5. \A n \in 1 .. LastRound, d \in RunState : f[n][d] = WalkNode(d)
  OBVIOUS
<1> HIDE DEF f
<1>6. PICK g \in [0 .. LastRound -> RunState] :
        g[0] = RunStart /\ \A n \in 1 .. LastRound : g[n] = f[n][g[n - 1]]
  <2>0. PICK D : D = RunState
    OBVIOUS
  <2>1. PICK a \in D, m \in Nat : a = RunStart /\ m = LastRound
    BY <1>1, <1>2, <2>0
  <2>2. f \in [1 .. m -> [D -> D]]
    BY <1>4, <2>0, <2>1
  <2>3. \E g \in [0 .. m -> D] : g[0] = a /\ \A n \in 1 .. m : g[n] = f[n][g[n - 1]]
    BY ONLY <2>2, LoopExists
  <2> QED BY <2>0, <2>1, <2>3
<1> DEFINE Loop(h) == [n \in 0 .. LastRound |-> IF n = 0 THEN RunStart ELSE WalkNode(h[n - 1])]
<1>7. g = Loop(g)
  <2>1. ASSUME NEW n \in 0 .. LastRound PROVE g[n] = IF n = 0 THEN RunStart ELSE WalkNode(g[n - 1])
    <3>1. CASE n = 0
      BY <1>6, <3>1
    <3>2. CASE n # 0
      <4>1. n \in 1 .. LastRound /\ n - 1 \in 0 .. LastRound
        BY <1>2, <3>2
      <4>2. g[n] = f[n][g[n - 1]] /\ g[n - 1] \in RunState
        BY <1>6, <4>1
      <4> QED BY <1>5, <3>2, <4>1, <4>2
    <3> QED BY <3>1, <3>2
  <2> QED BY <2>1
<1>8. RunRounds = CHOOSE h : h = Loop(h)
  BY DEF RunRounds
<1>9. RunRounds = Loop(RunRounds)
  BY <1>7, <1>8
<1>10. \A n \in 0 .. LastRound :
         RunRounds[n] = IF n = 0 THEN RunStart ELSE WalkNode(RunRounds[n - 1])
  BY <1>9
<1>11. RunRounds[0] = RunStart
  <2>1. 0 \in 0 .. LastRound
    BY <1>2
  <2> QED BY <1>10, <2>1
<1>12. ASSUME NEW n \in 1 .. LastRound PROVE RunRounds[n] = WalkNode(RunRounds[n - 1])
  <2>1. n \in 0 .. LastRound /\ n # 0
    BY <1>2
  <2> QED BY <1>10, <2>1
<1> QED BY <1>1, <1>11, <1>12

\* Every task is listed once.
RunListed(w) ==
  w.seen = Listed(w.out) /\ \A i, j \in 1 .. Len(w.out) : w.out[i] = w.out[j] => i = j
\* The walk begins with INITPROC; without it there is a problem.
RunFirst(w) ==
  /\ booted => InitProc \in w.seen \cup Listed(w.queue)
  /\ ~booted => w.queue = << >> /\ w.problems > 0
\* Only tasks that exist are met.
RunTrue(w) == \A t \in w.seen \cup Listed(w.queue) : life[t] # "none"
\* What is read of a listed task is listed or queued; what is not read is told.
RunWhole(w) ==
  ~w.truncated =>
    /\ Len(w.out) < cap
    /\ \A t \in w.seen : /\ Listed(Followed(t)) \subseteq w.seen \cup Listed(w.queue)
                         /\ w.problems = 0 => Followed(t) = Words(t)

\* The invariant of the walk of a manifest.
RunInv(w) == w \in RunState /\ RunListed(w) /\ RunFirst(w) /\ RunTrue(w) /\ RunWhole(w)

\* The walk of a manifest starts in its invariant.
LEMMA RunInvStarts == ASSUME Still PROVE RunInv(RunStart)
<1> DEFINE w == RunStart
<1>1. w \in RunState
  BY RunLoop
<1>2. /\ booted => w.queue = <<InitProc>>
      /\ ~booted => w.queue = << >> /\ w.problems = 1
      /\ w.seen = {} /\ w.out = << >>
  BY DEF RunStart
<1>3. Listed(<<InitProc>>) = {InitProc} /\ Listed(<< >>) = {} /\ Len(<< >>) = 0
  BY EmptySeq DEF Listed
<1> HIDE DEF w
<1>4. RunListed(w)
  <2>1. \A i, j \in 1 .. Len(w.out) : i = j
    BY <1>2, <1>3
  <2> QED BY <1>2, <1>3, <2>1 DEF RunListed
<1>5. RunFirst(w)
  BY <1>2, <1>3 DEF RunFirst
<1>6. RunTrue(w)
  <2>1. booted => life[InitProc] = "alive"
    BY DEF Still, TreeInv, LifeInv
  <2> QED BY <1>2, <1>3, <2>1 DEF RunTrue
<1>7. RunWhole(w)
  <2>1. cap \in Nat /\ cap > 0
    BY TreeAssumption DEF Still, TreeInv, TreeTypeOK
  <2> QED BY <1>2, <1>3, <2>1 DEF RunWhole
<1> QED BY <1>1, <1>4, <1>5, <1>6, <1>7 DEF RunInv, w

\* A step to a node keeps it: the node is listed, and its links are queued or counted as not
\* read.
LEMMA RunInvKept ==
  ASSUME Still, NEW w, RunInv(w)
  PROVE  RunInv(WalkNode(w))
<1>1. w \in RunState /\ RunListed(w) /\ RunFirst(w) /\ RunTrue(w) /\ RunWhole(w)
  BY DEF RunInv
<1>2. CASE RunEnded(w)
  BY <1>1, <1>2, WalkNodeSteps
<1>3. CASE ~RunEnded(w)
  <2>1. PICK v \in RunState : v = WalkNode(w)
    BY <1>1, WalkNodeSteps
  <2>a. /\ w.queue \in Seq(Task) /\ w.out \in Seq(Task) /\ Head(w.queue) \in Task
        /\ Tail(w.queue) \in Seq(Task) /\ w.queue # << >> /\ ~w.truncated
    BY <1>1, <1>3, WalkNodeSteps DEF RunEnded, RunState
  <2>b. PICK q \in Seq(Task), x \in Task, t \in Seq(Task), o \in Seq(Task) :
          q = w.queue /\ x = Head(w.queue) /\ t = Tail(w.queue) /\ o = w.out
    BY <2>a
  <2>c. x \in w.seen => /\ v.queue = t /\ v.seen = w.seen /\ v.out = w.out
                        /\ v.problems = w.problems /\ ~v.truncated
    BY <1>1, <1>3, <2>1, <2>b, WalkNodeSteps
  <2>d. x \notin w.seen =>
          /\ v.seen = w.seen \cup {x} /\ v.out = Append(o, x)
          /\ Len(o) + 1 >= cap => v.truncated
          /\ ~(Len(o) + 1 >= cap) =>
               /\ v.queue = t \o Followed(x) /\ ~v.truncated
               /\ v.problems = w.problems + Cardinality(Unread(x))
    BY <1>1, <1>3, <2>1, <2>b, WalkNodeSteps
  <2>2. Listed(q) = {x} \cup Listed(t) /\ booted
    <3>1. q # << >>
      BY <2>a, <2>b
    <3>2. Listed(q) = {Head(q)} \cup Listed(Tail(q))
      BY <3>1, OutsideHead
    <3>3. booted
      BY <1>1, <2>a DEF RunFirst
    <3> QED BY <2>b, <3>2, <3>3
  <2>3. CASE x \in w.seen
    <3>1. RunListed(v) /\ RunFirst(v) /\ RunTrue(v) /\ RunWhole(v)
      <4>1. RunListed(v)
        BY <1>1, <2>3, <2>c DEF RunListed
      <4>2. w.seen \cup Listed(q) = v.seen \cup Listed(v.queue)
        BY <2>2, <2>3, <2>c
      <4>3. RunFirst(v)
        BY <1>1, <2>2, <2>b, <4>2 DEF RunFirst
      <4>4. RunTrue(v)
        BY <1>1, <2>b, <4>2 DEF RunTrue
      <4>5. RunWhole(v)
        BY <1>1, <2>3, <2>a, <2>b, <2>c, <4>2 DEF RunWhole
      <4> QED BY <4>1, <4>3, <4>4, <4>5
    <3> QED BY <2>1, <3>1 DEF RunInv
  <2>4. CASE x \notin w.seen
    <3>1. v.seen = w.seen \cup {x} /\ v.out = Append(o, x)
      BY <2>4, <2>d
    <3>2. RunListed(v)
      <4>1. /\ Len(o) \in Nat /\ Len(v.out) = Len(o) + 1 /\ v.out[Len(o) + 1] = x
            /\ \A i \in 1 .. Len(o) : v.out[i] = o[i]
        BY <3>1, AppendProperties, LenProperties
      <4>2. \A i \in 1 .. Len(o) : o[i] \in w.seen
        <5>1. DOMAIN o = 1 .. Len(o)
          BY LenProperties
        <5> QED BY <1>1, <2>b, <5>1 DEF RunListed, Listed
      <4>3. \A i \in 1 .. Len(v.out) : i \in 1 .. Len(o) \/ i = Len(o) + 1
        BY <4>1
      <4>4. \A i, j \in 1 .. Len(v.out) : v.out[i] = v.out[j] => i = j
        <5>1. \A i, j \in 1 .. Len(o) : o[i] = o[j] => i = j
          BY <1>1, <2>b DEF RunListed
        <5>2. \A i \in 1 .. Len(o) : o[i] # x
          BY <2>4, <4>2
        <5> QED BY <4>1, <4>3, <5>1, <5>2
      <4>5. Listed(Append(o, x)) = Listed(o) \cup {x}
        BY ListedAppend
      <4>6. v.seen = Listed(v.out)
        BY <1>1, <2>b, <3>1, <4>5 DEF RunListed
      <4> QED BY <4>4, <4>6 DEF RunListed
    <3>3. PICK n \in Seq(Task), u \in Nat : /\ n = Followed(x) /\ u = Cardinality(Unread(x))
                                            /\ Listed(n) \subseteq HeldBy(x)
                                            /\ u = 0 => n = Words(x)
      BY ReadVecRead
    <3>4. \A y \in HeldBy(x) : life[y] # "none"
      <4>1. HeldBy(x) = {vec[x].buf[i] : i \in 1 .. vec[x].len}
        BY Numbers DEF HeldBy
      <4> QED BY <4>1, WordsHeld
    <3>5. CASE Len(o) + 1 >= cap
      <4>1. v.truncated
        BY <2>4, <2>d, <3>5
      <4>2. v.queue = w.queue
        BY <1>1, <1>3, <2>1, <2>4, <2>b, <3>5 DEF WalkNode, RunEnded, RunState
      <4>3. RunFirst(v)
        BY <1>1, <2>2, <3>1, <4>2 DEF RunFirst
      <4>4. RunTrue(v)
        BY <1>1, <2>2, <2>b, <3>1, <4>2 DEF RunTrue
      <4> QED BY <2>1, <3>2, <4>1, <4>3, <4>4 DEF RunInv, RunWhole
    <3>6. CASE ~(Len(o) + 1 >= cap)
      <4>1. v.queue = t \o n /\ ~v.truncated /\ v.problems = w.problems + u
        BY <2>4, <2>d, <3>3, <3>6
      <4>2. Listed(v.queue) = Listed(t) \cup Listed(n)
        BY <4>1, ListedConcat
      <4>3. v.seen \cup Listed(v.queue) = w.seen \cup Listed(q) \cup Listed(n)
        BY <2>2, <3>1, <4>2
      <4>4. RunFirst(v)
        BY <1>1, <2>2, <2>b, <4>3 DEF RunFirst
      <4>5. RunTrue(v)
        BY <1>1, <2>b, <3>3, <3>4, <4>3 DEF RunTrue
      <4>6. Len(v.out) < cap
        <5>1. Len(v.out) = Len(o) + 1 /\ Len(o) \in Nat
          BY <3>1, AppendProperties, LenProperties
        <5>2. cap \in Nat
          BY TreeAssumption DEF Still, TreeInv, TreeTypeOK
        <5> QED BY <3>6, <5>1, <5>2
      <4>7. ASSUME NEW y \in v.seen
            PROVE  /\ Listed(Followed(y)) \subseteq v.seen \cup Listed(v.queue)
                   /\ v.problems = 0 => Followed(y) = Words(y)
        <5>1. v.problems = 0 => w.problems = 0 /\ u = 0
          <6>1. w.problems \in Nat
            BY <1>1 DEF RunState
          <6> QED BY <4>1, <6>1
        <5>2. CASE y \in w.seen
          BY <1>1, <2>a, <2>b, <4>3, <5>1, <5>2 DEF RunWhole
        <5>3. CASE y = x
          BY <3>3, <4>3, <5>1, <5>3
        <5> QED BY <3>1, <5>2, <5>3
      <4>8. RunWhole(v)
        BY <4>6, <4>7 DEF RunWhole
      <4> QED BY <2>1, <3>2, <4>4, <4>5, <4>8 DEF RunInv
    <3> QED BY <3>5, <3>6
  <2> QED BY <2>3, <2>4
<1> QED BY <1>2, <1>3

\* A step to a node ends the walk, or leaves less to do.
LEMMA RunProgress ==
  ASSUME Still, NEW w \in RunState, ~RunEnded(w)
  PROVE  /\ LoopBound(Len(w.queue), w.seen) \in Nat /\ WalkNode(w) \in RunState
         /\ LoopBound(Len(WalkNode(w).queue), WalkNode(w).seen) \in Nat
         /\ \/ RunEnded(WalkNode(w))
            \/ LoopBound(Len(WalkNode(w).queue), WalkNode(w).seen) < LoopBound(Len(w.queue), w.seen)
<1>1. PICK v \in RunState : v = WalkNode(w)
  BY WalkNodeSteps
<1>2. /\ w.queue \in Seq(Task) /\ w.seen \in SUBSET Task /\ Tail(w.queue) \in Seq(Task)
      /\ Head(w.queue) \in Task /\ v.queue \in Seq(Task) /\ v.seen \in SUBSET Task
  BY WalkNodeSteps DEF RunState
<1>3. PICK x \in Task, t \in Seq(Task) : x = Head(w.queue) /\ t = Tail(w.queue)
  BY <1>2
<1>4. /\ x \in w.seen => v.queue = t /\ v.seen = w.seen
      /\ x \notin w.seen => v.truncated \/ (v.queue = t \o Followed(x) /\ v.seen = w.seen \cup {x})
      /\ x \notin w.seen => v.seen = w.seen \cup {x}
  BY <1>1, <1>3, WalkNodeSteps
<1>5. Cardinality(Task) \in Nat
  BY Numbers
<1>6. PICK n \in Seq(Task) : n = Followed(x) /\ Len(n) <= Cardinality(Task)
  BY ReadVecRead
<1>9. Len(w.queue) \in Nat /\ Len(t) \in Nat /\ Len(v.queue) \in Nat /\ Len(t) = Len(w.queue) - 1
      /\ Len(w.queue) > 0 /\ Len(n) \in Nat
  <2>1. w.queue # << >>
    BY DEF RunEnded
  <2> QED BY <1>2, <1>3, <2>1, HeadTailProperties, LenProperties, EmptySeq
<1>10. x \notin w.seen /\ ~v.truncated => Len(v.queue) = Len(t) + Len(n)
  <2>1. Len(t \o n) = Len(t) + Len(n)
    BY ConcatProperties
  <2> QED BY <1>4, <1>6, <2>1
<1>11. PICK l \in Nat, m \in Nat, S \in SUBSET Task, V \in SUBSET Task :
         l = Len(w.queue) /\ m = Len(v.queue) /\ S = w.seen /\ V = v.seen
  BY <1>2, <1>9
<1>12. /\ LoopBound(l, S) \in Nat /\ LoopBound(m, V) \in Nat
       /\ m < l => LoopBound(m, S) < LoopBound(l, S)
       /\ x \notin S /\ m < l + Cardinality(Task) => LoopBound(m, S \cup {x}) < LoopBound(l, S)
  BY LoopBoundFalls
<1>13. x \notin w.seen /\ ~v.truncated => m < l + Cardinality(Task)
  <2>1. PICK N \in Nat, i \in Nat, j \in Nat : N = Cardinality(Task) /\ i = Len(t) /\ j = Len(n)
    BY <1>5, <1>9
  <2>2. j <= N /\ i = l - 1
    BY <1>6, <1>9, <1>11, <2>1
  <2>3. x \notin w.seen /\ ~v.truncated => m = i + j
    BY <1>10, <1>11, <2>1
  <2> QED BY ONLY l \in Nat, m \in Nat, <2>1, <2>2, <2>3
<1>14. x \in w.seen => m < l
  BY <1>4, <1>9, <1>11
<1>15. CASE x \in w.seen
  BY <1>1, <1>4, <1>11, <1>12, <1>14, <1>15
<1>16. CASE x \notin w.seen /\ ~v.truncated
  BY <1>1, <1>4, <1>11, <1>12, <1>13, <1>16
<1>17. CASE v.truncated
  BY <1>1, <1>11, <1>12, <1>17 DEF RunEnded
<1> QED BY <1>15, <1>16, <1>17

\* The walk of a manifest ends within the rounds it is given, in its invariant.
LEMMA RunResult == ASSUME Still PROVE RunInv(Run) /\ RunEnded(Run)
<1> DEFINE B(st) == LoopBound(Len(st.queue), st.seen)
           Good == {n \in Nat : n <= LastRound =>
                      /\ RunInv(RunRounds[n])
                      /\ RunEnded(RunRounds[n]) \/ B(RunRounds[n]) <= LastRound - n}
<1>1. LastRound \in Nat /\ LoopBound(1, {}) = LastRound
  BY LoopBoundFalls, Numbers
<1>3. 0 \in Good
  <2>1. RunRounds[0] = RunStart
    BY RunLoop
  <2>2. CASE booted
    <3>1. Len(RunStart.queue) = 1 /\ RunStart.seen = {}
      BY <2>2 DEF RunStart
    <3>2. B(RunRounds[0]) = LastRound
      BY <1>1, <2>1, <3>1
    <3> HIDE DEF B
    <3> QED BY <1>1, <2>1, <3>2, RunInvStarts
  <2>3. CASE ~booted
    <3>1. RunEnded(RunStart)
      BY <2>3 DEF RunEnded, RunStart
    <3> QED BY <2>1, <3>1, RunInvStarts
  <2> QED BY <2>2, <2>3
<1>4. ASSUME NEW n \in Nat, n \in Good PROVE n + 1 \in Good
  <2>1. SUFFICES ASSUME n + 1 <= LastRound
                 PROVE  /\ RunInv(RunRounds[n + 1])
                        /\ RunEnded(RunRounds[n + 1]) \/ B(RunRounds[n + 1]) <= LastRound - (n + 1)
    OBVIOUS
  <2> DEFINE st == RunRounds[n]
  <2>2. n <= LastRound /\ n + 1 \in 1 .. LastRound /\ (n + 1) - 1 = n
    BY <1>1, <2>1
  <2>3. RunInv(st) /\ (RunEnded(st) \/ B(st) <= LastRound - n)
    BY <1>4, <2>2
  <2>4. RunRounds[n + 1] = WalkNode(st)
    BY <2>2, RunLoop
  <2>5. RunInv(WalkNode(st)) /\ st \in RunState
    BY <2>3, RunInvKept DEF RunInv
  <2>6. CASE RunEnded(st)
    BY <2>4, <2>5, <2>6, WalkNodeSteps
  <2>7. CASE ~RunEnded(st)
    <3>1. /\ B(WalkNode(st)) \in Nat /\ B(st) \in Nat
          /\ RunEnded(WalkNode(st)) \/ B(WalkNode(st)) < B(st)
      BY <2>5, <2>7, RunProgress
    <3> HIDE DEF B, st
    <3>2. RunEnded(WalkNode(st)) \/ B(WalkNode(st)) <= LastRound - (n + 1)
      BY <1>1, <2>3, <2>7, <3>1
    <3> QED BY <2>4, <2>5, <3>2
  <2> QED BY <2>6, <2>7
<1> HIDE DEF Good
<1>5. \A n \in Nat : n \in Good => n + 1 \in Good
  BY <1>4
<1>6. LastRound \in Good
  BY <1>1, <1>3, <1>5, NatSetInduction
<1>7. PICK st : st = RunRounds[LastRound]
  OBVIOUS
<1>8. RunInv(st) /\ (RunEnded(st) \/ B(st) <= 0)
  <2>1. LastRound - LastRound = 0 /\ LastRound <= LastRound
    BY <1>1
  <2> QED BY <1>6, <1>7, <2>1 DEF Good
<1>9. st \in RunState
  BY <1>8 DEF RunInv
<1>10. RunEnded(st)
  <2>1. SUFFICES ASSUME B(st) <= 0 PROVE st.queue = << >>
    BY <1>8 DEF RunEnded
  <2>2. PICK n \in Nat, S \in SUBSET Task : n = Len(st.queue) /\ S = st.seen /\ st.queue \in Seq(Task)
    BY <1>9, LenProperties DEF RunState
  <2>3. LoopBound(n, S) \in Nat /\ (LoopBound(n, S) = 0 => n = 0)
    BY LoopBoundFalls, Numbers
  <2>4. n = 0
    BY <2>1, <2>2, <2>3
  <2> QED BY <2>2, <2>4, EmptySeq
<1> QED BY <1>7, <1>8, <1>10 DEF Run

\* A set that holds a task, and what the bound lets be read of its Vec, reaches the bound.
LEMMA WideVec ==
  ASSUME Still, NEW t \in Task, lost = {}, vec[t].len > cap,
         NEW S \in SUBSET Task, t \in S, Listed(Followed(t)) \subseteq S
  PROVE  cap <= Cardinality(S) /\ Cardinality(S) \in Nat
<1>1. cap \in Nat
  BY TreeAssumption DEF Still, TreeInv, TreeTypeOK
<1>2. IsFiniteSet(S) /\ Cardinality(S) \in Nat
  BY TreeAssumption, FS_Subset, FS_CardinalityType
<1>3. \A i \in 1 .. cap : i \in 1 .. vec[t].len /\ vec[t].buf[i] \in S /\ vec[t].buf[i] # t
  <2>1. vec[t].len \in Nat /\ \A i \in 1 .. vec[t].len : vec[t].buf[i] # t
    BY WordsHeld
  <2>2. \A i \in 1 .. cap : i \in 1 .. vec[t].len
    BY <1>1, <2>1
  <2>3. \A i \in 1 .. cap : vec[t].buf[i] \in Listed(Followed(t))
    BY ReadVecRead
  <2> QED BY <2>1, <2>2, <2>3
<1>4. \A i, j \in 1 .. cap : i < j /\ vec[t].buf[i] = vec[t].buf[j] => j = op.child
  BY <1>3, WordsHeld
<1> DEFINE g == [i \in 1 .. cap |-> IF i = op.child THEN t ELSE vec[t].buf[i]]
<1>5. g \in [1 .. cap -> S]
  BY <1>3
<1>6. \A i \in 1 .. cap : g[i] = IF i = op.child THEN t ELSE vec[t].buf[i]
  OBVIOUS
<1> HIDE DEF g
<1>7. ASSUME NEW i \in 1 .. cap, NEW j \in 1 .. cap, g[i] = g[j] PROVE i = j
  <2>1. i < j \/ j < i \/ i = j
    BY <1>1
  <2> QED BY <1>3, <1>4, <1>6, <1>7, <2>1
<1>8. g \in Injection(1 .. cap, S)
  BY <1>5, <1>7 DEF Injection, IsInjective
<1>9. Cardinality(1 .. cap) = cap
  BY <1>1, FS_Interval
<1>10. Cardinality(1 .. cap) <= Cardinality(S)
  BY <1>2, <1>8, FS_Injection
<1> QED BY <1>2, <1>9, <1>10

\* A sequence that lists nothing twice.
LEMMA DistinctSeq ==
  ASSUME NEW T, NEW s \in Seq(T), \A i, j \in 1 .. Len(s) : s[i] = s[j] => i = j
  PROVE  Distinct(s)
<1>1. Len(s) \in Nat /\ DOMAIN s = 1 .. Len(s) /\ s = [i \in 1 .. Len(s) |-> s[i]]
  BY LenProperties
<1>2. \A i \in 1 .. Len(s) : s[i] \in Listed(s)
  BY <1>1 DEF Listed
<1>3. \A x \in Listed(s) : \E i \in 1 .. Len(s) : s[i] = x
  BY <1>1 DEF Listed
<1>4. s \in [1 .. Len(s) -> Listed(s)]
  BY <1>1, <1>2
<1>5. s \in Bijection(1 .. Len(s), Listed(s))
  BY <1>1, <1>3, <1>4 DEF Bijection, Injection, Surjection, IsInjective
<1>6. ExistsBijection(1 .. Len(s), Listed(s))
  BY <1>5 DEF ExistsBijection
<1>7. IsFiniteSet(1 .. Len(s)) /\ Cardinality(1 .. Len(s)) = Len(s)
  <2>1. 1 \in Int /\ Len(s) \in Int /\ Len(s) >= 0
    BY <1>1
  <2>2. IsFiniteSet(1 .. Len(s)) /\ Cardinality(1 .. Len(s)) = IF 1 > Len(s) THEN 0 ELSE Len(s) - 1 + 1
    BY <2>1, FS_Interval
  <2> QED BY <1>1, <2>2
<1>8. Cardinality(Listed(s)) = Cardinality(1 .. Len(s))
  BY <1>6, <1>7, FS_Bijection
<1> QED BY <1>7, <1>8 DEF Distinct

\* What holds INITPROC and the children of all it holds has every task but the one in transit.
LEMMA AllReached ==
  ASSUME Still, NEW S \in SUBSET Task, booted => InitProc \in S, \A t \in S : HeldBy(t) \subseteq S
  PROVE  Existing \ InTransit \subseteq S
<1>1. CASE booted
  <2>1. \A t \in S : Kids(t) \subseteq S
    BY WordsHeld
  <2> QED BY <1>1, <2>1 DEF Still, TreeInv, ReachInv
<1>2. CASE ~booted
  BY <1>2 DEF Still, TreeInv, LifeInv, Existing
<1> QED BY <1>1, <1>2

\* What the manifest reader lists.
LEMMA RunReads ==
  ASSUME Still
  PROVE  /\ Run \in RunState /\ Run.seen = Listed(Run.out) /\ Distinct(Run.out)
         /\ Listed(Run.out) \subseteq Existing
         /\ Run.problems = 0 /\ ~Run.truncated => Existing \ InTransit \subseteq Listed(Run.out)
         /\ lost = {} /\ ~Run.truncated =>
              /\ Existing \ InTransit \subseteq Listed(Run.out)
              /\ \A t \in Run.seen : vec[t].len <= cap
<1>1. PICK w : w = Run /\ RunInv(w) /\ RunEnded(w)
  BY RunResult
<1>2. /\ w \in RunState /\ w.seen = Listed(w.out) /\ w.seen \subseteq Task /\ w.out \in Seq(Task)
      /\ \A i, j \in 1 .. Len(w.out) : w.out[i] = w.out[j] => i = j
  BY <1>1 DEF RunInv, RunListed, RunState
<1>3. PICK o \in Seq(Task) : o = w.out
  BY <1>2
<1>4. Distinct(o)
  BY <1>2, <1>3, DistinctSeq
<1>5. Listed(o) \subseteq Existing
  BY <1>1, <1>2, <1>3 DEF RunInv, RunTrue, Existing
<1>6. ~w.truncated =>
        /\ w.queue = << >> /\ Len(o) < cap /\ (booted => InitProc \in w.seen)
        /\ \A t \in w.seen : /\ Listed(Followed(t)) \subseteq w.seen
                             /\ w.problems = 0 => Followed(t) = Words(t)
  <2>1. Listed(<< >>) = {}
    BY DEF Listed
  <2>2. ~w.truncated => w.queue = << >>
    BY <1>1 DEF RunEnded
  <2> QED BY <1>1, <1>3, <2>1, <2>2 DEF RunInv, RunFirst, RunWhole
<1>7. \A t \in w.seen : Listed(Words(t)) = HeldBy(t)
  BY <1>2, WordsHeld
<1>8. w.problems = 0 /\ ~w.truncated => Existing \ InTransit \subseteq Listed(o)
  <2>1. SUFFICES ASSUME w.problems = 0, ~w.truncated PROVE Existing \ InTransit \subseteq w.seen
    BY <1>2, <1>3
  <2>2. \A t \in w.seen : HeldBy(t) \subseteq w.seen
    BY <1>6, <1>7, <2>1
  <2> QED BY <1>2, <1>6, <2>1, <2>2, AllReached
<1>9. ASSUME lost = {}, ~w.truncated
      PROVE  Existing \ InTransit \subseteq Listed(o) /\ \A t \in w.seen : vec[t].len <= cap
  <2>1. ASSUME NEW t \in w.seen PROVE vec[t].len <= cap
    <3>1. SUFFICES ASSUME vec[t].len > cap PROVE FALSE
      <4>1. cap \in Nat /\ vec[t].len \in Nat
        BY <1>2, TreeAssumption, WordsHeld DEF Still, TreeInv, TreeTypeOK
      <4> QED BY <4>1
    <3>2. Listed(Followed(t)) \subseteq w.seen
      BY <1>6, <1>9
    <3>3. cap <= Cardinality(w.seen) /\ Cardinality(w.seen) \in Nat
      BY <1>2, <1>9, <2>1, <3>1, <3>2, WideVec
    <3>4. Cardinality(w.seen) = Len(o)
      BY <1>2, <1>3, <1>4 DEF Distinct
    <3>5. cap \in Nat /\ Len(o) < cap
      BY <1>6, <1>9, TreeAssumption DEF Still, TreeInv, TreeTypeOK
    <3> QED BY <3>3, <3>4, <3>5
  <2>2. ASSUME NEW t \in w.seen PROVE HeldBy(t) \subseteq w.seen
    <3>1. t \in Task /\ vec[t].len <= cap
      BY <1>2, <2>1
    <3>2. Followed(t) = Words(t)
      BY <1>9, <3>1, ReadVecRead
    <3> QED BY <1>6, <1>7, <1>9, <3>2
  <2>3. Existing \ InTransit \subseteq w.seen
    BY <1>2, <1>6, <1>9, <2>2, AllReached
  <2> QED BY <1>2, <1>3, <2>1, <2>3
<1> QED BY <1>1, <1>2, <1>3, <1>4, <1>5, <1>8, <1>9

---------------------------------------------------------------------------
(* Both readers do the same walk.                                           *)

\* The walk both readers do: what is listed, and what was met and not listed.
WalkState == [out : Seq(Task), rest : Seq(Task)]
WalkStart == [out |-> << >>, rest |-> <<InitProc>>]
WalkStep(a) ==
  IF a.rest = << >> THEN a
  ELSE LET x == Head(a.rest)
       IN [out |-> Append(a.out, x), rest |-> Outside(Tail(a.rest) \o Words(x), Listed(a.out) \cup {x})]
IsWalk(a) == /\ a \in [0 .. LastRound -> WalkState] /\ a[0] = WalkStart
             /\ \A k \in 1 .. LastRound : a[k] = WalkStep(a[k - 1])

\* The walk that each reader is doing.
RcoreAsWalk(st) == [out |-> Arcs(st.order), rest |-> Outside(Arcs(st.queue), st.seen)]
RunAsWalk(w) == [out |-> w.out, rest |-> Outside(w.queue, w.seen)]

\* There is one such walk of the tree.
LEMMA WalkExists == ASSUME Still PROVE \E a : IsWalk(a)
<1> DEFINE f == [n \in 1 .. LastRound |-> [d \in WalkState |-> WalkStep(d)]]
<1>1. WalkStart \in WalkState
  <2>1. InitProc \in Task
    BY Numbers
  <2>2. <<InitProc>> \in Seq(Task) /\ << >> \in Seq(Task)
    BY <2>1
  <2> QED BY <2>2 DEF WalkStart, WalkState
<1>2. LastRound \in Nat
  BY LoopBoundFalls, Numbers
<1>3. ASSUME NEW d \in WalkState PROVE WalkStep(d) \in WalkState
  <2>1. CASE d.rest = << >>
    BY <2>1 DEF WalkStep
  <2>2. CASE d.rest # << >>
    <3>1. PICK r \in Seq(Task), o \in Seq(Task) : r = d.rest /\ o = d.out /\ r # << >>
      BY <2>2 DEF WalkState
    <3>2. Head(r) \in Task /\ Tail(r) \in Seq(Task)
      BY <3>1
    <3>3. PICK x \in Task, t \in Seq(Task) : x = Head(r) /\ t = Tail(r)
      BY <3>2
    <3>4. PICK W \in Seq(Task) : W = Words(x)
      BY WordsHeld
    <3>5. t \o W \in Seq(Task) /\ Append(o, x) \in Seq(Task)
      BY AppendProperties, ListedConcat
    <3>6. PICK u \in Seq(Task) : u = t \o W
      BY <3>5
    <3>7. Outside(u, Listed(o) \cup {x}) \in Seq(Task)
      BY OutsideListed
    <3>8. WalkStep(d) = [out |-> Append(o, x), rest |-> Outside(u, Listed(o) \cup {x})]
      BY <2>2, <3>1, <3>3, <3>4, <3>6 DEF WalkStep
    <3> QED BY <3>5, <3>7, <3>8 DEF WalkState
  <2> QED BY <2>1, <2>2
<1>4. f \in [1 .. LastRound -> [WalkState -> WalkState]]
  BY <1>3
<1>5. \A n \in 1 .. LastRound, d \in WalkState : f[n][d] = WalkStep(d)
  OBVIOUS
<1> HIDE DEF f
<1>6. PICK g \in [0 .. LastRound -> WalkState] :
        g[0] = WalkStart /\ \A n \in 1 .. LastRound : g[n] = f[n][g[n - 1]]
  <2>0. PICK D : D = WalkState
    OBVIOUS
  <2>1. PICK a \in D, m \in Nat : a = WalkStart /\ m = LastRound
    BY <1>1, <1>2, <2>0
  <2>2. f \in [1 .. m -> [D -> D]]
    BY <1>4, <2>0, <2>1
  <2>3. \E g \in [0 .. m -> D] : g[0] = a /\ \A n \in 1 .. m : g[n] = f[n][g[n - 1]]
    BY ONLY <2>2, LoopExists
  <2> QED BY <2>0, <2>1, <2>3
<1>7. ASSUME NEW n \in 1 .. LastRound PROVE g[n] = WalkStep(g[n - 1])
  <2>1. n - 1 \in 0 .. LastRound
    BY <1>2
  <2> QED BY <1>5, <1>6, <2>1
<1> QED BY <1>6, <1>7 DEF IsWalk

\* The walk stays where nothing is left.
LEMMA WalkStays ==
  ASSUME Still, NEW a, IsWalk(a), NEW m \in 0 .. LastRound, a[m].rest = << >>,
         NEW k \in 0 .. LastRound, m <= k
  PROVE  a[k] = a[m]
<1>1. LastRound \in Nat
  BY LoopBoundFalls, Numbers
<1> DEFINE Good == {j \in Nat : m <= j /\ j <= LastRound => a[j] = a[m]}
<1>2. 0 \in Good
  <2>1. m <= 0 => m = 0
    BY <1>1
  <2> QED BY <2>1
<1>3. ASSUME NEW j \in Nat, j \in Good PROVE j + 1 \in Good
  <2>1. SUFFICES ASSUME m <= j + 1, j + 1 <= LastRound PROVE a[j + 1] = a[m]
    OBVIOUS
  <2>2. m \in Nat /\ j + 1 \in 1 .. LastRound /\ (j + 1) - 1 = j
    BY <1>1, <2>1
  <2>3. CASE m = j + 1
    BY <2>3
  <2>4. CASE m # j + 1
    <3>1. m <= j /\ j <= LastRound
      BY <1>1, <2>1, <2>2, <2>4
    <3>2. a[j] = a[m]
      BY <1>3, <3>1
    <3>3. a[j + 1] = WalkStep(a[j])
      BY <2>2 DEF IsWalk
    <3> QED BY <3>2, <3>3 DEF WalkStep
  <2> QED BY <2>3, <2>4
<1> HIDE DEF Good
<1>4. \A j \in Nat : j \in Good => j + 1 \in Good
  BY <1>3
<1>5. k \in Nat /\ k <= LastRound
  BY <1>1
<1>6. k \in Good
  BY <1>2, <1>4, <1>5, NatSetInduction
<1> QED BY <1>5, <1>6 DEF Good

\* A task that was listed before does not change what is left; another is the next to be listed.
LEMMA RestFollows ==
  ASSUME NEW q \in Seq(Task), q # << >>, NEW S, NEW W \in Seq(Task)
  PROVE  /\ Head(q) \in S => Outside(Tail(q), S) = Outside(q, S)
         /\ Head(q) \notin S =>
              LET r == Outside(q, S)
                  U == S \cup {Head(q)}
              IN /\ r # << >> /\ Head(r) = Head(q)
                 /\ Outside(Tail(q) \o W, U) = Outside(Tail(r) \o W, U)
                 /\ Outside(Tail(q) \o Outside(W, S), U) = Outside(Tail(r) \o W, U)
<1>1. /\ Head(q) \in Task /\ Tail(q) \in Seq(Task)
      /\ Outside(q, S) = IF Head(q) \in S THEN Outside(Tail(q), S) ELSE <<Head(q)>> \o Outside(Tail(q), S)
  BY OutsideHead
<1>2. CASE Head(q) \in S
  BY <1>1, <1>2
<1>3. CASE Head(q) \notin S
  <2>1. PICK x \in Task, t \in Seq(Task) : x = Head(q) /\ t = Tail(q)
    BY <1>1
  <2>2. PICK tr \in Seq(Task) : tr = Outside(t, S)
    BY OutsideListed
  <2>3. PICK V \in Seq(Task) : V = Outside(W, S)
    BY OutsideListed
  <2>4. Outside(q, S) = <<x>> \o tr
    BY <1>1, <1>3, <2>1, <2>2
  <2>5. Outside(q, S) # << >> /\ Head(Outside(q, S)) = x /\ Tail(Outside(q, S)) = tr
    <3>0. <<x>> \in Seq(Task)
      BY ONLY x \in Task
    <3>a. PICK b \in Seq(Task) : b = <<x>>
      BY ONLY <3>0
    <3>b. b \o tr \in Seq(Task)
      BY ListedConcat
    <3>1. PICK h \in Seq(Task) : h = <<x>> \o tr
      BY <3>a, <3>b
    <3>2. Len(h) = Len(tr) + 1 /\ Len(tr) \in Nat /\ h[1] = x
      BY <3>1
    <3>3. h # << >> /\ Head(h) = x
      BY <3>2, EmptySeq
    <3>4. Tail(h) = tr
      <4>1. /\ Tail(h) \in Seq(Task) /\ Len(Tail(h)) = Len(tr)
            /\ \A i \in 1 .. Len(tr) : Tail(h)[i] = h[i + 1]
        BY <3>2, <3>3, HeadTailProperties
      <4>2. \A i \in 1 .. Len(tr) : h[i + 1] = tr[i]
        BY <3>1, <3>2
      <4>3. \A i \in 1 .. Len(tr) : Tail(h)[i] = tr[i]
        BY <4>1, <4>2
      <4> QED BY <4>1, <4>3, SeqEqual
    <3> QED BY <2>4, <3>1, <3>3, <3>4
  <2>a. PICK U : U = S \cup {x}
    OBVIOUS
  <2>6. S \cup U = U
    BY <2>a
  <2>7. Outside(tr, U) = Outside(t, U) /\ Outside(V, U) = Outside(W, U)
    BY <2>2, <2>3, <2>6, OutsideTwice
  <2>8. /\ Outside(t \o W, U) = Outside(t, U) \o Outside(W, U)
        /\ Outside(tr \o W, U) = Outside(tr, U) \o Outside(W, U)
        /\ Outside(t \o V, U) = Outside(t, U) \o Outside(V, U)
    <3>1. PICK T : T = Task
      OBVIOUS
    <3>2. t \in Seq(T) /\ tr \in Seq(T) /\ W \in Seq(T) /\ V \in Seq(T)
      BY <3>1
    <3>3. \A r, s \in Seq(T) : Outside(r \o s, U) = Outside(r, U) \o Outside(s, U)
      BY ONLY OutsideConcat
    <3> QED BY ONLY <3>2, <3>3
  <2>9. Outside(t \o W, U) = Outside(tr \o W, U) /\ Outside(t \o V, U) = Outside(tr \o W, U)
    BY <2>7, <2>8
  <2> QED BY <1>3, <2>1, <2>3, <2>5, <2>9, <2>a
<1> QED BY <1>2, <1>3

\* The tasks of the first row, of the others, and of two sequences of rows.
LEMMA ArcsParts ==
  ASSUME NEW q \in Seq(Row), NEW s \in Seq(Row), NEW x \in Row
  PROVE  /\ q # << >> => Arcs(q) # << >> /\ Head(Arcs(q)) = Head(q).arc /\ Tail(Arcs(q)) = Arcs(Tail(q))
         /\ Arcs(q \o s) = Arcs(q) \o Arcs(s) /\ Arcs(Append(q, x)) = Append(Arcs(q), x.arc)
<1>1. PICK a \in Seq(Task), b \in Seq(Task) : a = Arcs(q) /\ b = Arcs(s)
  BY ArcsOf
<1>2. /\ Len(a) = Len(q) /\ Len(b) = Len(s) /\ Len(q) \in Nat /\ Len(s) \in Nat
      /\ \A i \in 1 .. Len(q) : a[i] = q[i].arc
      /\ \A i \in 1 .. Len(s) : b[i] = s[i].arc
  BY <1>1, ArcsOf
<1>3. ASSUME q # << >>
      PROVE  a # << >> /\ Head(a) = Head(q).arc /\ Tail(a) = Arcs(Tail(q))
  <2>1. Len(q) > 0 /\ a # << >>
    BY <1>2, <1>3, EmptySeq
  <2>2. Head(q) = q[1] /\ Head(a) = a[1] /\ 1 \in 1 .. Len(q)
    BY <1>2, <1>3, <2>1, HeadTailProperties
  <2>3. PICK t \in Seq(Row), u \in Seq(Task) : t = Tail(q) /\ u = Tail(a)
    BY <1>3, <2>1, HeadTailProperties
  <2>4. /\ Len(t) = Len(q) - 1 /\ Len(u) = Len(q) - 1
        /\ \A i \in 1 .. Len(q) - 1 : t[i] = q[i + 1]
        /\ \A i \in 1 .. Len(q) - 1 : u[i] = a[i + 1]
    BY <1>2, <1>3, <2>1, <2>3, HeadTailProperties
  <2>5. PICK c \in Seq(Task) : c = Arcs(t) /\ Len(c) = Len(t) /\ \A i \in 1 .. Len(t) : c[i] = t[i].arc
    BY ArcsOf
  <2>6. \A i \in 1 .. Len(q) - 1 : i + 1 \in 1 .. Len(q)
    BY <1>2
  <2>7. \A i \in 1 .. Len(u) : u[i] = c[i]
    <3>1. SUFFICES ASSUME NEW i \in 1 .. Len(q) - 1 PROVE u[i] = c[i]
      BY <2>4
    <3>2. u[i] = a[i + 1] /\ a[i + 1] = q[i + 1].arc
      BY <1>2, <2>4, <2>6
    <3>3. i \in 1 .. Len(t)
      BY <2>4
    <3> QED BY <2>4, <2>5, <3>2, <3>3
  <2>8. u = c
    <3>1. Len(u) = Len(c)
      BY <2>4, <2>5
    <3> QED BY ONLY <2>7, <3>1, u \in Seq(Task), c \in Seq(Task), SeqEqual
  <2> QED BY <1>2, <2>1, <2>2, <2>3, <2>5, <2>8
<1>4. Arcs(q \o s) = a \o b
  <2>1. PICK c \in Seq(Row), d \in Seq(Task) : c = q \o s /\ d = a \o b
    BY ListedConcat
  <2>2. /\ Len(c) = Len(q) + Len(s)
        /\ \A i \in 1 .. Len(c) : c[i] = IF i <= Len(q) THEN q[i] ELSE s[i - Len(q)]
    BY <2>1, ConcatProperties
  <2>3. /\ Len(d) = Len(q) + Len(s)
        /\ \A i \in 1 .. Len(d) : d[i] = IF i <= Len(q) THEN a[i] ELSE b[i - Len(q)]
    <3>1. Len(a \o b) = Len(a) + Len(b)
          /\ \A i \in 1 .. Len(a) + Len(b) : (a \o b)[i] = IF i <= Len(a) THEN a[i] ELSE b[i - Len(a)]
      BY ConcatProperties
    <3> QED BY <1>2, <2>1, <3>1
  <2>4. PICK e \in Seq(Task) : e = Arcs(c) /\ Len(e) = Len(c) /\ \A i \in 1 .. Len(c) : e[i] = c[i].arc
    BY ArcsOf
  <2>5. \A i \in 1 .. Len(c) : i \in 1 .. Len(q) \/ (~(i <= Len(q)) /\ i - Len(q) \in 1 .. Len(s))
    BY <1>2, <2>2
  <2>6. ASSUME NEW i \in 1 .. Len(c) PROVE e[i] = d[i]
    <3>1. CASE i \in 1 .. Len(q)
      <4>1. i <= Len(q)
        BY <1>2, <3>1
      <4>2. e[i] = q[i].arc
        BY <2>2, <2>4, <4>1
      <4>3. d[i] = a[i]
        BY <2>2, <2>3, <4>1
      <4> QED BY <1>2, <3>1, <4>2, <4>3
    <3>2. CASE ~(i <= Len(q)) /\ i - Len(q) \in 1 .. Len(s)
      <4>1. e[i] = s[i - Len(q)].arc
        BY <2>2, <2>4, <3>2
      <4>2. d[i] = b[i - Len(q)]
        BY <2>2, <2>3, <3>2
      <4> QED BY <1>2, <3>2, <4>1, <4>2
    <3> QED BY <2>5, <3>1, <3>2
  <2>7. e = d
    BY <2>2, <2>3, <2>4, <2>6, SeqEqual
  <2> QED BY <2>1, <2>4, <2>7
<1>5. Arcs(Append(q, x)) = Append(a, x.arc)
  <2>0. x.arc \in Task
    BY DEF Row
  <2>1. PICK c \in Seq(Row), d \in Seq(Task) : c = Append(q, x) /\ d = Append(a, x.arc)
    BY <2>0, AppendProperties
  <2>2. /\ Len(c) = Len(q) + 1 /\ c[Len(q) + 1] = x /\ \A i \in 1 .. Len(q) : c[i] = q[i]
    BY <2>1, AppendProperties
  <2>3. /\ Len(d) = Len(q) + 1 /\ d[Len(q) + 1] = x.arc /\ \A i \in 1 .. Len(q) : d[i] = a[i]
    BY <1>2, <2>0, <2>1, AppendProperties
  <2>4. PICK e \in Seq(Task) : e = Arcs(c) /\ Len(e) = Len(c) /\ \A i \in 1 .. Len(c) : e[i] = c[i].arc
    BY ArcsOf
  <2>5. \A i \in 1 .. Len(c) : i \in 1 .. Len(q) \/ i = Len(q) + 1
    BY <1>2, <2>2
  <2>6. ASSUME NEW i \in 1 .. Len(c) PROVE e[i] = d[i]
    <3>1. CASE i \in 1 .. Len(q)
      <4>1. e[i] = q[i].arc
        BY <2>2, <2>4, <3>1
      <4>2. d[i] = a[i]
        BY <2>3, <3>1
      <4> QED BY <1>2, <3>1, <4>1, <4>2
    <3>2. CASE i = Len(q) + 1
      BY <2>2, <2>3, <2>4, <3>2
    <3> QED BY <2>5, <3>1, <3>2
  <2>7. e = d
    BY <2>2, <2>3, <2>4, <2>6, SeqEqual
  <2> QED BY <2>1, <2>4, <2>7
<1> QED BY <1>1, <1>3, <1>4, <1>5

\* A round of the walk written for rCore.
LEMMA RcoreFollows ==
  ASSUME Still, lost = {}, \A t \in Task : vec[t].len <= cap, NEW st, RcoreInv(st)
  PROVE  \/ RcoreAsWalk(VisitTask(st)) = RcoreAsWalk(st)
         \/ RcoreAsWalk(VisitTask(st)) = WalkStep(RcoreAsWalk(st))
<1>1. st \in RcoreState /\ RcoreListed(st)
  BY DEF RcoreInv
<1>2. CASE RcoreEnded(st)
  BY <1>1, <1>2, VisitTaskSteps
<1>3. CASE ~RcoreEnded(st)
  <2>1. PICK v \in RcoreState : v = VisitTask(st)
    BY <1>1, VisitTaskSteps
  <2>2. /\ st.queue \in Seq(Row) /\ st.order \in Seq(Row) /\ Head(st.queue) \in Row
        /\ Tail(st.queue) \in Seq(Row) /\ st.queue # << >>
    BY <1>1, <1>3, VisitTaskSteps DEF RcoreEnded, RcoreState
  <2>3. PICK q \in Seq(Row), x \in Row, t \in Seq(Row), o \in Seq(Row) :
          q = st.queue /\ x = Head(q) /\ t = Tail(q) /\ o = st.order /\ q # << >>
    BY <2>2
  <2>4. /\ x.arc \in st.seen => v.queue = t /\ v.seen = st.seen /\ v.order = o
        /\ x.arc \notin st.seen =>
             /\ v.queue = t \o RowsOf(Outside(ArcVec(x.arc), st.seen), x.arc)
             /\ v.seen = st.seen \cup {x.arc} /\ v.order = Append(o, x)
    BY <1>1, <1>3, <2>1, <2>3, VisitTaskSteps
  <2>5. PICK y \in Task : y = x.arc
    BY DEF Row
  <2>6. PICK W \in Seq(Task) : W = Words(y) /\ ArcVec(x.arc) = W
    BY <2>5, WordsHeld, ArcVecRead
  <2>7. PICK n \in Seq(Task) : n = Outside(W, st.seen)
    BY OutsideListed
  <2>8. PICK new \in Seq(Row) : new = RowsOf(n, y) /\ Arcs(new) = n
    BY RowsOfTasks
  <2>9. PICK p \in Seq(Task), r \in Seq(Task) :
          p = Arcs(q) /\ r = Arcs(t) /\ p # << >> /\ Head(p) = y /\ Tail(p) = r
    <3>1. Arcs(q) \in Seq(Task) /\ Arcs(t) \in Seq(Task)
      BY ArcsOf
    <3>2. Arcs(q) # << >> /\ Head(Arcs(q)) = Head(q).arc /\ Tail(Arcs(q)) = Arcs(Tail(q))
      BY <2>3, ArcsParts
    <3> QED BY <2>3, <2>5, <3>1, <3>2
  <2>10. RcoreAsWalk(st) = [out |-> Arcs(o), rest |-> Outside(p, st.seen)]
    BY <2>3, <2>9 DEF RcoreAsWalk
  <2>11. CASE y \in st.seen
    <3>1. RcoreAsWalk(v) = [out |-> Arcs(o), rest |-> Outside(r, st.seen)]
      BY <2>4, <2>5, <2>9, <2>11 DEF RcoreAsWalk
    <3>a. PICK S : S = st.seen
      OBVIOUS
    <3>b. Head(p) \in S /\ p # << >>
      BY <2>9, <2>11, <3>a
    <3>c. Outside(Tail(p), S) = Outside(p, S)
      BY ONLY p \in Seq(Task), W \in Seq(Task), <3>b, RestFollows
    <3>2. Outside(r, st.seen) = Outside(p, st.seen)
      BY ONLY <2>9, <3>a, <3>c
    <3> QED BY <2>1, <2>10, <3>1, <3>2
  <2>12. CASE y \notin st.seen
    <3>1. v.queue = t \o new /\ v.seen = st.seen \cup {y} /\ v.order = Append(o, x)
      BY <2>4, <2>5, <2>6, <2>7, <2>8, <2>12
    <3>2. Arcs(v.queue) = r \o n
      <4>1. Arcs(t \o new) = Arcs(t) \o Arcs(new)
        BY ArcsParts
      <4> QED BY <2>8, <2>9, <3>1, <4>1
    <3>3. Arcs(v.order) = Append(Arcs(o), y)
      BY <2>5, <3>1, ArcsParts
    <3>4. RcoreAsWalk(v) = [out |-> Append(Arcs(o), y), rest |-> Outside(r \o n, st.seen \cup {y})]
      BY <3>1, <3>2, <3>3 DEF RcoreAsWalk
    <3>5. PICK u : u = Outside(p, st.seen)
      OBVIOUS
    <3>6. u # << >> /\ Head(u) = y /\ Outside(r \o n, st.seen \cup {y}) = Outside(Tail(u) \o W, st.seen \cup {y})
      <4>1. PICK S : S = st.seen
        OBVIOUS
      <4>2. Head(p) \notin S /\ p # << >>
        BY <2>9, <2>12, <4>1
      <4>3. /\ Outside(p, S) # << >> /\ Head(Outside(p, S)) = Head(p)
            /\ Outside(Tail(p) \o Outside(W, S), S \cup {Head(p)})
                 = Outside(Tail(Outside(p, S)) \o W, S \cup {Head(p)})
        BY ONLY p \in Seq(Task), W \in Seq(Task), <4>2, RestFollows
      <4> QED BY ONLY <2>7, <2>9, <3>5, <4>1, <4>3
    <3>7. Listed(Arcs(o)) = st.seen
      BY <1>1, <2>3 DEF RcoreListed
    <3>8. WalkStep([out |-> Arcs(o), rest |-> u]) =
            [out |-> Append(Arcs(o), y), rest |-> Outside(Tail(u) \o W, st.seen \cup {y})]
      BY <2>6, <3>6, <3>7 DEF WalkStep
    <3> QED BY <2>1, <2>10, <3>4, <3>5, <3>6, <3>8
  <2> QED BY <2>11, <2>12
<1> QED BY <1>2, <1>3

\* A round of the walk of a manifest that is not cut short.
LEMMA RunFollows ==
  ASSUME Still, lost = {}, \A t \in Task : vec[t].len <= cap, NEW w, RunInv(w)
  PROVE  \/ WalkNode(w).truncated
         \/ RunAsWalk(WalkNode(w)) = RunAsWalk(w)
         \/ RunAsWalk(WalkNode(w)) = WalkStep(RunAsWalk(w))
<1>1. w \in RunState /\ RunListed(w)
  BY DEF RunInv
<1>2. CASE RunEnded(w)
  BY <1>1, <1>2, WalkNodeSteps
<1>3. CASE ~RunEnded(w)
  <2>1. PICK v \in RunState : v = WalkNode(w)
    BY <1>1, WalkNodeSteps
  <2>2. /\ w.queue \in Seq(Task) /\ w.out \in Seq(Task) /\ Head(w.queue) \in Task
        /\ Tail(w.queue) \in Seq(Task) /\ w.queue # << >>
    BY <1>1, <1>3, WalkNodeSteps DEF RunEnded, RunState
  <2>3. PICK p \in Seq(Task), y \in Task, r \in Seq(Task), o \in Seq(Task) :
          p = w.queue /\ y = Head(p) /\ r = Tail(p) /\ o = w.out /\ p # << >>
    BY <2>2
  <2>4. /\ y \in w.seen => v.queue = r /\ v.seen = w.seen /\ v.out = o
        /\ y \notin w.seen => v.seen = w.seen \cup {y} /\ v.out = Append(o, y)
        /\ y \notin w.seen => v.truncated \/ v.queue = r \o Followed(y)
    BY <1>1, <1>3, <2>1, <2>3, WalkNodeSteps
  <2>6. PICK W \in Seq(Task) : W = Words(y) /\ Followed(y) = W
    BY WordsHeld, ReadVecRead
  <2>10. RunAsWalk(w) = [out |-> o, rest |-> Outside(p, w.seen)]
    BY <2>3 DEF RunAsWalk
  <2>11. CASE y \in w.seen
    <3>1. RunAsWalk(v) = [out |-> o, rest |-> Outside(r, w.seen)]
      BY <2>4, <2>11 DEF RunAsWalk
    <3>a. PICK S : S = w.seen
      OBVIOUS
    <3>b. Head(p) \in S /\ p # << >>
      BY <2>3, <2>11, <3>a
    <3>c. Outside(Tail(p), S) = Outside(p, S)
      BY ONLY p \in Seq(Task), W \in Seq(Task), <3>b, RestFollows
    <3>2. Outside(r, w.seen) = Outside(p, w.seen)
      BY ONLY <2>3, <3>a, <3>c
    <3> QED BY <2>1, <2>10, <3>1, <3>2
  <2>12. CASE y \notin w.seen /\ ~v.truncated
    <3>4. RunAsWalk(v) = [out |-> Append(o, y), rest |-> Outside(r \o W, w.seen \cup {y})]
      BY <2>4, <2>6, <2>12 DEF RunAsWalk
    <3>5. PICK u : u = Outside(p, w.seen)
      OBVIOUS
    <3>6. u # << >> /\ Head(u) = y /\ Outside(r \o W, w.seen \cup {y}) = Outside(Tail(u) \o W, w.seen \cup {y})
      <4>1. PICK S : S = w.seen
        OBVIOUS
      <4>2. Head(p) \notin S /\ p # << >>
        BY <2>3, <2>12, <4>1
      <4>3. /\ Outside(p, S) # << >> /\ Head(Outside(p, S)) = Head(p)
            /\ Outside(Tail(p) \o W, S \cup {Head(p)})
                 = Outside(Tail(Outside(p, S)) \o W, S \cup {Head(p)})
        BY ONLY p \in Seq(Task), W \in Seq(Task), <4>2, RestFollows
      <4> QED BY ONLY <2>3, <3>5, <4>1, <4>3
    <3>7. Listed(o) = w.seen
      BY <1>1, <2>3 DEF RunListed
    <3>8. WalkStep([out |-> o, rest |-> u]) =
            [out |-> Append(o, y), rest |-> Outside(Tail(u) \o W, w.seen \cup {y})]
      BY <2>6, <3>6, <3>7 DEF WalkStep
    <3> QED BY <2>1, <2>10, <3>4, <3>5, <3>6, <3>8
  <2> QED BY <2>1, <2>11, <2>12
<1> QED BY <1>2, <1>3

\* Both readers list the same when neither is cut short and nothing is missing.
LEMMA SameOrder ==
  ASSUME Still, booted, lost = {}, \A t \in Task : vec[t].len <= cap,
         Len(RcoreRounds[LastRound].order) < cap, ~Run.truncated
  PROVE  Arcs(RcoreRounds[LastRound].order) = Run.out
<1>1. PICK a : IsWalk(a)
  BY WalkExists
<1>2. LastRound \in Nat
  BY LoopBoundFalls, Numbers
<1> DEFINE Good == {n \in Nat : n <= LastRound =>
                      /\ RcoreInv(RcoreRounds[n]) /\ RunInv(RunRounds[n])
                      /\ \E k \in 0 .. n : RcoreAsWalk(RcoreRounds[n]) = a[k]
                      /\ RunRounds[n].truncated \/ \E k \in 0 .. n : RunAsWalk(RunRounds[n]) = a[k]}
<1>3. 0 \in Good
  <2>1. RcoreRounds[0] = RcoreStart /\ RunRounds[0] = RunStart /\ a[0] = WalkStart
    BY <1>1, RcoreLoop, RunLoop DEF IsWalk
  <2>2. RcoreInv(RcoreStart) /\ RunInv(RunStart)
    BY RcoreInvStarts, RunInvStarts
  <2>3. Outside(<<InitProc>>, {}) = <<InitProc>> /\ <<InitProc>> \in Seq(Task)
    <3>1. InitProc \in Task
      BY Numbers
    <3>a. <<InitProc>> \in Seq(Task)
      BY ONLY <3>1
    <3>2. PICK s \in Seq(Task) : s = <<InitProc>>
      BY ONLY <3>a
    <3>3. Outside(s, {}) = s
      BY OutsideNone
    <3> QED BY <3>2, <3>3
  <2>4. RunAsWalk(RunStart) = WalkStart
    BY <2>3 DEF RunAsWalk, RunStart, WalkStart
  <2>5. Arcs(<< >>) = << >> /\ Arcs(<<Root>>) = <<InitProc>>
    <3>1. << >> \in Seq(Row) /\ <<Root>> \in Seq(Row) /\ Root.arc = InitProc
      BY Numbers DEF Row, Root
    <3>2. PICK e \in Seq(Row), r \in Seq(Row) : e = << >> /\ r = <<Root>> /\ Len(e) = 0 /\ Len(r) = 1
      BY <3>1
    <3>3. Arcs(e) \in Seq(Task) /\ Len(Arcs(e)) = 0
      BY <3>2, ArcsOf
    <3>4. Arcs(r) \in Seq(Task) /\ Len(Arcs(r)) = 1 /\ Arcs(r)[1] = InitProc
      <4>1. Arcs(r) \in Seq(Task) /\ Len(Arcs(r)) = Len(r) /\ \A i \in 1 .. Len(r) : Arcs(r)[i] = r[i].arc
        BY ArcsOf
      <4>2. r[1].arc = InitProc /\ 1 \in 1 .. Len(r)
        BY <3>1, <3>2
      <4> QED BY <3>2, <4>1, <4>2
    <3>5. Arcs(r) = <<InitProc>>
      <4>1. PICK s \in Seq(Task), u \in Seq(Task) : s = Arcs(r) /\ u = <<InitProc>>
        BY <2>3, <3>4
      <4>2. Len(s) = 1 /\ Len(u) = 1 /\ \A i \in 1 .. 1 : s[i] = u[i]
        BY <3>4, <4>1
      <4>3. s = u
        BY <4>2, SeqEqual
      <4> QED BY <4>1, <4>3
    <3> QED BY <3>2, <3>3, <3>5, EmptySeq
  <2>6. RcoreAsWalk(RcoreStart) = WalkStart
    BY <2>3, <2>5 DEF RcoreAsWalk, RcoreStart, WalkStart, Root
  <2>7. 0 \in 0 .. 0
    OBVIOUS
  <2> QED BY <2>1, <2>2, <2>4, <2>6, <2>7
<1>4. ASSUME NEW n \in Nat, n \in Good PROVE n + 1 \in Good
  <2>1. SUFFICES ASSUME n + 1 <= LastRound
        PROVE  /\ RcoreInv(RcoreRounds[n + 1]) /\ RunInv(RunRounds[n + 1])
               /\ \E k \in 0 .. n + 1 : RcoreAsWalk(RcoreRounds[n + 1]) = a[k]
               /\ \/ RunRounds[n + 1].truncated
                  \/ \E k \in 0 .. n + 1 : RunAsWalk(RunRounds[n + 1]) = a[k]
    OBVIOUS
  <2>2. n <= LastRound /\ n + 1 \in 1 .. LastRound /\ (n + 1) - 1 = n
    BY <1>2, <2>1
  <2>3. PICK st, w : st = RcoreRounds[n] /\ w = RunRounds[n]
    OBVIOUS
  <2>4. /\ RcoreInv(st) /\ RunInv(w) /\ \E k \in 0 .. n : RcoreAsWalk(st) = a[k]
        /\ w.truncated \/ \E k \in 0 .. n : RunAsWalk(w) = a[k]
    BY <1>4, <2>2, <2>3
  <2> HIDE DEF Good
  <2>5. RcoreRounds[n + 1] = VisitTask(st) /\ RunRounds[n + 1] = WalkNode(w)
    BY <2>2, <2>3, RcoreLoop, RunLoop
  <2>6. RcoreInv(VisitTask(st)) /\ RunInv(WalkNode(w))
    BY <2>4, RcoreInvKept, RunInvKept
  <2>7. \A k \in 0 .. n : k \in 0 .. n + 1 /\ k + 1 \in 0 .. n + 1 /\ WalkStep(a[k]) = a[k + 1]
    <3>1. SUFFICES ASSUME NEW k \in 0 .. n PROVE WalkStep(a[k]) = a[k + 1]
      OBVIOUS
    <3>2. k + 1 \in 1 .. LastRound /\ (k + 1) - 1 = k
      BY <1>2, <2>1
    <3> QED BY <1>1, <3>2 DEF IsWalk
  <2>8. \E k \in 0 .. n + 1 : RcoreAsWalk(VisitTask(st)) = a[k]
    <3>1. PICK k \in 0 .. n : RcoreAsWalk(st) = a[k]
      BY <2>4
    <3>2. \/ RcoreAsWalk(VisitTask(st)) = RcoreAsWalk(st)
          \/ RcoreAsWalk(VisitTask(st)) = WalkStep(RcoreAsWalk(st))
      BY <2>4, RcoreFollows
    <3> QED BY <2>7, <3>1, <3>2
  <2>9. WalkNode(w).truncated \/ \E k \in 0 .. n + 1 : RunAsWalk(WalkNode(w)) = a[k]
    <3>1. CASE w.truncated
      <4>1. w \in RunState
        BY <2>4 DEF RunInv
      <4> QED BY <3>1, <4>1, WalkNodeSteps DEF RunEnded
    <3>2. CASE ~w.truncated
      <4>1. PICK k \in 0 .. n : RunAsWalk(w) = a[k]
        BY <2>4, <3>2
      <4>2. \/ WalkNode(w).truncated
            \/ RunAsWalk(WalkNode(w)) = RunAsWalk(w)
            \/ RunAsWalk(WalkNode(w)) = WalkStep(RunAsWalk(w))
        BY <2>4, RunFollows
      <4> QED BY <2>7, <4>1, <4>2
    <3> QED BY <3>1, <3>2
  <2> QED BY <2>5, <2>6, <2>8, <2>9
<1> HIDE DEF Good
<1>5. \A n \in Nat : n \in Good => n + 1 \in Good
  BY <1>4
<1>6. LastRound \in Good
  BY <1>2, <1>3, <1>5, NatSetInduction
<1>7. PICK st, w : st = RcoreRounds[LastRound] /\ w = Run
  OBVIOUS
<1>8. /\ RcoreInv(st) /\ \E k \in 0 .. LastRound : RcoreAsWalk(st) = a[k]
      /\ \E k \in 0 .. LastRound : RunAsWalk(w) = a[k]
  BY <1>2, <1>6, <1>7 DEF Good, Run
<1>9. PICK k \in 0 .. LastRound, l \in 0 .. LastRound : RcoreAsWalk(st) = a[k] /\ RunAsWalk(w) = a[l]
  BY <1>8
<1>10. st.queue = << >> /\ w.queue = << >>
  <2>1. RcoreEnded(st) /\ RunEnded(w)
    BY <1>7, RcoreResult, RunResult
  <2>2. ~(Len(st.order) >= cap)
    <3>1. cap \in Nat /\ Len(st.order) \in Nat
      BY <1>8, TreeAssumption, LenProperties DEF Still, TreeInv, TreeTypeOK, RcoreInv, RcoreState
    <3> QED BY <1>7, <3>1
  <2> QED BY <1>7, <2>1, <2>2 DEF RcoreEnded, RunEnded
<1>11. Arcs(<< >>) = << >>
  <2>1. << >> \in Seq(Row) /\ Len(<< >>) = 0
    BY EmptySeq
  <2>2. Arcs(<< >>) \in Seq(Task) /\ Len(Arcs(<< >>)) = 0
    BY <2>1, ArcsOf
  <2> QED BY <2>2, EmptySeq
<1>12. a[k].rest = << >> /\ a[l].rest = << >>
  <2>1. \A S : Outside(<< >>, S) = << >>
    BY OutsideEmpty
  <2>2. RcoreAsWalk(st).rest = << >>
    BY <1>10, <1>11, <2>1 DEF RcoreAsWalk
  <2>3. RunAsWalk(w).rest = << >>
    BY <1>10, <2>1 DEF RunAsWalk
  <2> QED BY <1>9, <2>2, <2>3
<1>13. a[k] = a[l]
  <2>1. k <= l \/ l <= k
    BY <1>2
  <2> QED BY <1>1, <1>12, <2>1, WalkStays
<1>14. RcoreAsWalk(st).out = Arcs(st.order) /\ RunAsWalk(w).out = w.out
  BY DEF RcoreAsWalk, RunAsWalk
<1> QED BY <1>7, <1>9, <1>13, <1>14

\* What the walk written for rCore lists.
LEMMA RcoreReads ==
  ASSUME Still, lost = {}
  PROVE  LET arcs == Arcs(DecodeRcoreTree)
             whole == Len(arcs) < cap /\ \A t \in Task : vec[t].len <= cap
         IN /\ Distinct(arcs) /\ Listed(arcs) \subseteq Existing
            /\ whole => Existing \ InTransit \subseteq Listed(arcs)
            /\ ~Run.truncated /\ whole => arcs = Run.out
<1>1. CASE ~booted
  <2>1. DecodeRcoreTree = << >>
    BY <1>1, DecodedRows
  <2>2. << >> \in Seq(Row) /\ Len(<< >>) = 0
    BY EmptySeq
  <2>3. Arcs(<< >>) \in Seq(Task) /\ Len(Arcs(<< >>)) = 0
    BY <2>2, ArcsOf
  <2>4. Arcs(DecodeRcoreTree) = << >>
    BY <2>1, <2>3, EmptySeq
  <2>5. Listed(<< >>) = {} /\ Distinct(<< >>)
    <3>1. Listed(<< >>) = {}
      BY DEF Listed
    <3>2. Cardinality({}) = 0
      BY FS_EmptySet
    <3> QED BY <2>2, <3>1, <3>2 DEF Distinct
  <2>6. Existing = {}
    BY <1>1 DEF Still, TreeInv, LifeInv, Existing
  <2>7. Run.out = << >>
    <3>1. PICK o \in Seq(Task) : o = Run.out /\ Listed(o) = {}
      BY <2>6, RunReads DEF RunState
    <3>2. o = << >>
      BY ONLY <3>1, NothingListed
    <3> QED BY <3>1, <3>2
  <2> QED BY <2>4, <2>5, <2>6, <2>7
<1>2. CASE booted
  <2>1. PICK st : st = RcoreRounds[LastRound] /\ RcoreInv(st) /\ RcoreEnded(st)
    BY RcoreResult
  <2>2. /\ st.order \in Seq(Row) /\ st.queue \in Seq(Row) /\ st.seen \in SUBSET Task
        /\ st.seen = Listed(Arcs(st.order))
        /\ \A i, j \in 1 .. Len(st.order) : st.order[i].arc = st.order[j].arc => i = j
        /\ RcoreFirst(st) /\ RcoreTrue(st) /\ RcoreClosed(st)
    BY <2>1 DEF RcoreInv, RcoreState, RcoreListed
  <2>3. PICK o \in Seq(Row) : o = st.order /\ DecodeRcoreTree = o
    BY <1>2, <2>1, <2>2, DecodedRows
  <2>4. PICK arcs \in Seq(Task) : /\ arcs = Arcs(o) /\ Len(arcs) = Len(o)
                                  /\ \A i \in 1 .. Len(o) : arcs[i] = o[i].arc
                                  /\ Listed(arcs) = {x.arc : x \in Listed(o)}
    BY ArcsOf
  <2>5. Distinct(arcs)
    <3>1. \A i, j \in 1 .. Len(arcs) : arcs[i] = arcs[j] => i = j
      BY <2>2, <2>3, <2>4
    <3> QED BY <3>1, DistinctSeq
  <2>6. \A t \in Task : \A y \in HeldBy(t) : life[y] # "none"
    <3>1. SUFFICES ASSUME NEW t \in Task, NEW y \in HeldBy(t) PROVE life[y] # "none"
      OBVIOUS
    <3>2. HeldBy(t) = {vec[t].buf[i] : i \in 1 .. vec[t].len}
      BY Numbers DEF HeldBy
    <3> QED BY <3>2, WordsHeld
  <2>7. Listed(arcs) \subseteq Existing
    <3>1. life[InitProc] = "alive" /\ InitProc \in Task
      BY <1>2, Numbers DEF Still, TreeInv, LifeInv
    <3>2. ASSUME NEW x \in Listed(o) PROVE x.arc \in Existing
      <4>1. x = Root \/ (x.parent \in st.seen /\ x.arc \in HeldBy(x.parent))
        BY <2>2, <2>3, <3>2 DEF RcoreTrue
      <4>2. x.arc \in Listed(arcs)
        BY <2>4, <3>2
      <4>3. x.arc \in Task
        BY <2>2, <2>3, <2>4, <4>2
      <4>4. life[x.arc] # "none"
        BY <2>2, <2>6, <3>1, <4>1 DEF Root
      <4> QED BY <4>3, <4>4 DEF Existing
    <3> QED BY <2>4, <3>2
  <2>8. ASSUME Len(arcs) < cap, \A t \in Task : vec[t].len <= cap
        PROVE  Existing \ InTransit \subseteq Listed(arcs)
    <3>1. cap \in Nat /\ Len(o) \in Nat
      BY TreeAssumption, LenProperties DEF Still, TreeInv, TreeTypeOK
    <3>2. st.queue = << >>
      BY <2>1, <2>3, <2>4, <2>8, <3>1 DEF RcoreEnded
    <3>3. Listed(Arcs(st.queue)) = {}
      <4>1. Listed(Arcs(st.queue)) = {x.arc : x \in Listed(st.queue)}
        BY <2>2, ArcsOf
      <4>2. Listed(<< >>) = {}
        BY DEF Listed
      <4> QED BY <3>2, <4>1, <4>2
    <3>4. InitProc \in st.seen
      <4>1. << >> # <<Root>>
        OBVIOUS
      <4> QED BY <2>2, <3>2, <4>1 DEF RcoreFirst
    <3>5. ASSUME NEW t \in st.seen PROVE HeldBy(t) \subseteq st.seen
      <4>1. t \in Task
        BY <2>2
      <4>2. ArcVec(t) = Words(t) /\ Listed(Words(t)) = HeldBy(t)
        BY <2>8, <4>1, ArcVecRead, WordsHeld
      <4> QED BY <2>2, <3>3, <4>2 DEF RcoreClosed
    <3>6. Existing \ InTransit \subseteq st.seen
      BY <2>2, <3>4, <3>5, AllReached
    <3> QED BY <2>2, <2>3, <2>4, <3>6
  <2>9. ASSUME ~Run.truncated, Len(arcs) < cap, \A t \in Task : vec[t].len <= cap
        PROVE  arcs = Run.out
    <3>1. Len(RcoreRounds[LastRound].order) < cap
      BY <2>1, <2>3, <2>4, <2>9
    <3> QED BY <1>2, <2>1, <2>3, <2>4, <2>9, <3>1, SameOrder
  <2> QED BY <2>3, <2>4, <2>5, <2>7, <2>8, <2>9
<1> QED BY <1>1, <1>2

\* In every state of the kernel the readers may be asked in, what they list is true of the tree.
LEMMA TreeTrue == TreeInv => TreeIsTrue
<1>1. SUFFICES ASSUME Still PROVE EveryTaskOnce(DecodeRcoreTree, Run) /\ ParentsAreTrue(DecodeRcoreTree)
  BY DEF Still, TreeIsTrue
<1>2. EveryTaskOnce(DecodeRcoreTree, Run)
  <2>1. SUFFICES ASSUME lost = {} PROVE EveryTaskOnce(DecodeRcoreTree, Run)
    BY DEF EveryTaskOnce
  <2>2. PICK arcs : arcs = Arcs(DecodeRcoreTree)
    OBVIOUS
  <2>3. PICK whole \in BOOLEAN : whole = (Len(arcs) < cap /\ \A t \in Task : vec[t].len <= cap)
    OBVIOUS
  <2>4. /\ Distinct(arcs) /\ Listed(arcs) \subseteq Existing
        /\ whole => Existing \ InTransit \subseteq Listed(arcs)
        /\ ~Run.truncated /\ whole => arcs = Run.out
    BY <1>1, <2>1, <2>2, <2>3, RcoreReads
  <2>5. /\ Distinct(Run.out) /\ Listed(Run.out) \subseteq Existing
        /\ ~Run.truncated => Existing \ InTransit \subseteq Listed(Run.out)
    BY <1>1, <2>1, RunReads
  <2> QED BY <2>2, <2>3, <2>4, <2>5 DEF EveryTaskOnce
<1> QED BY <1>1, <1>2, ParentsRead

\* In every such state the manifest reader lists all tasks, or says that it has not.
LEMMA LossTold == TreeInv => LossIsTold
<1>1. SUFFICES ASSUME Still
               PROVE  Existing \ InTransit \subseteq Listed(Run.out) \/ Run.problems > 0 \/ Run.truncated
  BY DEF Still, LossIsTold
<1>2. Run \in RunState /\ (Run.problems = 0 /\ ~Run.truncated => Existing \ InTransit \subseteq Listed(Run.out))
  BY <1>1, RunReads
<1>3. Run.problems \in Nat
  BY <1>2 DEF RunState
<1> QED BY <1>2, <1>3

\* For every number of tasks and any bound on the list, outside a reallocation and with all
\* memory covered, _walk_rcore_tree and the plan of the manifest list existing tasks only,
\* each once, all but one in transit and both in the same order unless the bound was reached;
\* whatever is covered, the parents shown are true.
THEOREM TreeReadTrue == TreeSpec => []TreeIsTrue
  BY TreeInvariant, TreeTrue, PTL

\* For every number of tasks, any memory that was not covered and any bound on the list, a run
\* of the manifest, outside a reallocation, that misses a task has told of a problem or that
\* its list was cut off.
THEOREM TreeLossTold == TreeSpec => []LossIsTold
  BY TreeInvariant, LossTold, PTL
=============================================================================
