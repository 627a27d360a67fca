------------------------------ MODULE TaskTree ------------------------------
(***************************************************************************)
(* The process tree of an rCore-like guest and its two readers: the one    *)
(* written for rCore (guest.py, _walk_rcore_tree) and the one driven by a  *)
(* manifest (model/exec.py, model/readers).  Every task owns a             *)
(* Vec<Arc<Task>> of children and a Weak parent.  A Vec is changed word by *)
(* word and a snapshot may fall between two words; memory may be missing.  *)
(***************************************************************************)
EXTENDS Integers, Sequences, FiniteSets

CONSTANTS
  Task,       \* addresses of task control blocks; 1 is INITPROC
  FirstCap,   \* capacity of a Vec after its first growth (Rust: 4)
  Caps,       \* max_items and _RCORE_MAX_NODES
  MaxLost     \* bound: objects that no snapshot has covered

ASSUME TreeAssumption ==
  /\ IsFiniteSet(Task) /\ Task \subseteq Nat \ {0} /\ 1 \in Task
  /\ FirstCap \in Nat \ {0} /\ Caps \subseteq Nat \ {0} /\ MaxLost \in Nat

InitProc == 1
Null == 0
FreeBlock == -1    \* the address of a free heap block
NoWord == -2       \* the reader got None

VARIABLES
  booted,   \* INITPROC (lazy_static) has been initialized
  life,     \* none, alive or zombie
  parent,   \* inner.parent
  vec,      \* inner.children: the words of the buffer and len
  op,       \* what the kernel is in the middle of
  lost,     \* control blocks and buffers that were never covered
  cap       \* the bound both readers work under

treeVars == <<booted, life, parent, vec, op, lost, cap>>

EmptyVec == [buf |-> << >>, len |-> 0]
Quiet == [do |-> "nothing", into |-> Null, new |-> Null, kept |-> Null,
          exiting |-> Null, child |-> 0]

\* The words past len stay as they are; nothing reads them, so they are Null here.
Forget(v, n) == [buf |-> [i \in DOMAIN v.buf |-> IF i <= n THEN v.buf[i] ELSE Null], len |-> n]

TreeInit ==
  /\ booted = FALSE
  /\ life = [t \in Task |-> "none"] /\ parent = [t \in Task |-> Null]
  /\ vec = [t \in Task |-> EmptyVec] /\ op = Quiet
  /\ lost \in {l \in SUBSET ({"block", "buffer"} \X Task) : Cardinality(l) <= MaxLost}
  /\ cap \in Caps

---------------------------------------------------------------------------
(* The guest kernel; it is not preempted inside these operations.           *)

Boot ==
  /\ ~booted /\ booted' = TRUE
  /\ life' = [life EXCEPT ![InitProc] = "alive"]
  /\ UNCHANGED <<parent, vec, op, lost, cap>>

Fork(p, c) ==
  /\ op.do = "nothing" /\ life[p] = "alive" /\ life[c] = "none" /\ c # InitProc
  /\ life' = [life EXCEPT ![c] = "alive"]
  /\ parent' = [parent EXCEPT ![c] = p]
  /\ op' = [Quiet EXCEPT !.do = "push", !.into = p, !.new = c]
  /\ UNCHANGED <<booted, vec, lost, cap>>

\* A full Vec grows: the allocator frees the old buffer, and puts the link of its
\* free list into the first word, before the Vec points to the new one.
ReallocFrees ==
  /\ op.do = "push" /\ vec[op.into].len = Len(vec[op.into].buf) /\ vec[op.into].len > 0
  /\ op' = [op EXCEPT !.do = "move", !.kept = vec[op.into].buf[1]]
  /\ \E link \in {Null, FreeBlock} : vec' = [vec EXCEPT ![op.into].buf[1] = link]
  /\ UNCHANGED <<booted, life, parent, lost, cap>>

Grown(buf) == buf \o [i \in 1..(IF Len(buf) < FirstCap THEN FirstCap ELSE Len(buf)) |-> Null]

ReallocMoves ==
  /\ \/ op.do = "push" /\ Len(vec[op.into].buf) = 0
        /\ vec' = [vec EXCEPT ![op.into].buf = Grown(@)]
     \/ op.do = "move"
        /\ vec' = [vec EXCEPT ![op.into].buf = Grown([@ EXCEPT ![1] = op.kept])]
  /\ op' = [op EXCEPT !.do = "push", !.kept = Null]
  /\ UNCHANGED <<booted, life, parent, lost, cap>>

PushWrites ==
  /\ op.do = "push" /\ vec[op.into].len < Len(vec[op.into].buf)
  /\ vec' = [vec EXCEPT ![op.into].buf[vec[op.into].len + 1] = op.new]
  /\ op' = [op EXCEPT !.do = "count"]
  /\ UNCHANGED <<booted, life, parent, lost, cap>>

PushCounts ==
  /\ op.do = "count"
  /\ vec' = [vec EXCEPT ![op.into].len = @ + 1]
  /\ op' = IF op.exiting = Null THEN Quiet
           ELSE [op EXCEPT !.do = "exit", !.into = Null, !.new = Null]
  /\ UNCHANGED <<booted, life, parent, lost, cap>>

\* exit_current_and_run_next: every child is handed to INITPROC, then
\* children.clear() sets len to 0.
ExitTask(t) ==
  /\ op.do = "nothing" /\ life[t] = "alive" /\ t # InitProc
  /\ life' = [life EXCEPT ![t] = "zombie"]
  /\ op' = [Quiet EXCEPT !.do = "exit", !.exiting = t, !.child = 1]
  /\ UNCHANGED <<booted, parent, vec, lost, cap>>

HandOver ==
  /\ op.do = "exit" /\ op.child <= vec[op.exiting].len
  /\ LET c == vec[op.exiting].buf[op.child]
     IN /\ parent' = [parent EXCEPT ![c] = InitProc]
        /\ op' = [op EXCEPT !.do = "push", !.into = InitProc, !.new = c, !.child = @ + 1]
  /\ UNCHANGED <<booted, life, vec, lost, cap>>

ClearChildren ==
  /\ op.do = "exit" /\ op.child > vec[op.exiting].len
  /\ vec' = [vec EXCEPT ![op.exiting] = Forget(@, 0)]
  /\ op' = Quiet
  /\ UNCHANGED <<booted, life, parent, lost, cap>>

\* waitpid: Vec::remove shifts the words after the i-th down, one by one, then
\* len falls and the last Arc drops the task.
Wait(p, i) ==
  /\ op.do = "nothing" /\ life[p] = "alive" /\ i \in 1..vec[p].len
  /\ life[vec[p].buf[i]] = "zombie"
  /\ op' = [Quiet EXCEPT !.do = "shift", !.into = p, !.new = vec[p].buf[i], !.child = i]
  /\ UNCHANGED <<booted, life, parent, vec, lost, cap>>

Shift ==
  /\ op.do = "shift" /\ op.child < vec[op.into].len
  /\ vec' = [vec EXCEPT ![op.into].buf[op.child] = vec[op.into].buf[op.child + 1]]
  /\ op' = [op EXCEPT !.child = @ + 1]
  /\ UNCHANGED <<booted, life, parent, lost, cap>>

RemoveCounts ==
  /\ op.do = "shift" /\ op.child = vec[op.into].len
  /\ vec' = [vec EXCEPT ![op.into] = Forget(@, @.len - 1)]
  /\ op' = [op EXCEPT !.do = "drop"]
  /\ UNCHANGED <<booted, life, parent, lost, cap>>

DropTask ==
  /\ op.do = "drop"
  /\ life' = [life EXCEPT ![op.new] = "none"]
  /\ parent' = [parent EXCEPT ![op.new] = Null]
  /\ vec' = [vec EXCEPT ![op.new] = EmptyVec]
  /\ op' = Quiet
  /\ UNCHANGED <<booted, lost, cap>>

TreeNext ==
  \/ Boot \/ ReallocFrees \/ ReallocMoves \/ PushWrites \/ PushCounts
  \/ HandOver \/ ClearChildren \/ Shift \/ RemoveCounts \/ DropTask
  \/ \E p \in Task : \/ ExitTask(p) \/ \E c \in Task : Fork(p, c)
                     \/ \E i \in 1..Cardinality(Task) : Wait(p, i)

TreeSpec == TreeInit /\ [][TreeNext]_treeVars

---------------------------------------------------------------------------
(* guest.py: _arc_vec and _walk_rcore_tree.                                 *)

\* u64 of a word of t's control block or of its buffer.
BlockWord(t, w) == IF t = FreeBlock THEN Null ELSE IF <<"block", t>> \in lost THEN NoWord ELSE w
VecLen(t) == IF t = FreeBlock THEN 0 ELSE BlockWord(t, vec[t].len)
Element(t, i) == IF <<"buffer", t>> \in lost THEN NoWord ELSE vec[t].buf[i]

\* The elements of s that are not in S, in their order.
Outside(s, S) ==
  LET kept[n \in 0..Len(s)] == IF n = 0 THEN << >>
                               ELSE IF s[n] \in S THEN kept[n - 1] ELSE Append(kept[n - 1], s[n])
  IN kept[Len(s)]

Listed(s) == {s[i] : i \in DOMAIN s}

\* Nothing is said about words that could not be read.
ArcVec(t) ==
  IF VecLen(t) \in {0, NoWord} \/ VecLen(t) > cap THEN << >>
  ELSE Outside([i \in 1..VecLen(t) |-> Element(t, i)], {Null, NoWord})

\* Rounds in which a loop pops every task by every link to it.
LastRound == Cardinality(Task) * (Cardinality(Task) + 1) + 1

\* A mutant of VisitTask that does not remember which tasks it has listed.
VisitTaskAgain(st) ==
  IF st.queue = << >> \/ Len(st.order) >= cap THEN st
  ELSE LET x == Head(st.queue)
       IN [queue |-> Tail(st.queue) \o [i \in DOMAIN ArcVec(x.arc) |->
                                          [arc |-> ArcVec(x.arc)[i], parent |-> x.arc]],
           seen |-> st.seen, order |-> Append(st.order, x)]

\* A mutant of VisitTask that walks depth first.
VisitTaskDepthFirst(st) ==
  IF st.queue = << >> \/ Len(st.order) >= cap THEN st
  ELSE LET x == Head(st.queue)
           new == Outside(ArcVec(x.arc), st.seen)
       IN IF x.arc \in st.seen THEN [st EXCEPT !.queue = Tail(@)]
          ELSE [queue |-> [i \in DOMAIN new |-> [arc |-> new[i], parent |-> x.arc]]
                            \o Tail(st.queue),
                seen |-> st.seen \cup {x.arc},
                order |-> Append(st.order, x)]

VisitTask(st) ==
  IF st.queue = << >> \/ Len(st.order) >= cap THEN st
  ELSE LET x == Head(st.queue)
           new == Outside(ArcVec(x.arc), st.seen)
       IN IF x.arc \in st.seen THEN [st EXCEPT !.queue = Tail(@)]
          ELSE [queue |-> Tail(st.queue)
                            \o [i \in DOMAIN new |-> [arc |-> new[i], parent |-> x.arc]],
                seen |-> st.seen \cup {x.arc},
                order |-> Append(st.order, x)]

\* The rows of _decode_rcore_tree; a task whose status is unread has no row.
RcoreStart == [queue |-> <<[arc |-> InitProc, parent |-> Null]>>, seen |-> {}, order |-> << >>]
RcoreRounds[n \in 0..LastRound] ==
  IF n = 0 THEN RcoreStart ELSE VisitTask(RcoreRounds[n - 1])
WalkRcoreTree == IF booted THEN RcoreRounds[LastRound].order ELSE << >>
DecodeRcoreTree ==
  LET rows == WalkRcoreTree
  IN Outside(rows, {x \in Listed(rows) : BlockWord(x.arc, 1) = NoWord})

---------------------------------------------------------------------------
(* model/readers: Vec and Arc; model/exec.py: Executor._walk.               *)

Problem == -3    \* an Unavailable in a list

\* vec: a head that cannot be read makes the whole list unavailable, an element
\* only itself; what exceeds max_items is replaced by one Truncated.
ReadVec(t) ==
  LET Said(i) == IF Element(t, i) = NoWord THEN Problem ELSE Element(t, i)
  IN IF VecLen(t) = NoWord THEN <<Problem>>
     ELSE IF VecLen(t) > cap THEN [i \in 1..(cap + 1) |-> IF i > cap THEN Problem ELSE Said(i)]
     ELSE [i \in 1..VecLen(t) |-> Said(i)]

\* A mutant of WalkNode that skips what it could not read.
WalkNodeSkipsProblems(w) ==
  IF w.queue = << >> \/ w.truncated THEN w
  ELSE LET x == Head(w.queue)
           kids == ReadVec(x)
       IN IF x \in w.seen THEN [w EXCEPT !.queue = Tail(@)]
          ELSE IF Len(w.out) + 1 >= cap
               THEN [w EXCEPT !.seen = @ \cup {x}, !.out = Append(@, x), !.truncated = TRUE]
          ELSE [w EXCEPT !.seen = @ \cup {x}, !.out = Append(@, x),
                         !.queue = Tail(@) \o Outside(kids, {Null, Problem})]

\* One round of the loop: a task seen before is a cycle; the bound counts nodes.
WalkNode(w) ==
  IF w.queue = << >> \/ w.truncated THEN w
  ELSE LET x == Head(w.queue)
           kids == ReadVec(x)
       IN IF x \in w.seen THEN [w EXCEPT !.queue = Tail(@)]
          ELSE IF Len(w.out) + 1 >= cap
               THEN [w EXCEPT !.seen = @ \cup {x}, !.out = Append(@, x), !.truncated = TRUE]
          ELSE [w EXCEPT !.seen = @ \cup {x}, !.out = Append(@, x),
                         !.problems = @ + Cardinality({i \in DOMAIN kids : kids[i] = Problem}),
                         !.queue = Tail(@) \o Outside(kids, {Null, Problem})]

\* Executor.run: load_static, unwrap [Lazy, Arc], walk.  A Lazy that is not
\* complete is a problem and ends the plan.
RunStart == [queue |-> IF booted THEN <<InitProc>> ELSE << >>, seen |-> {}, out |-> << >>,
             problems |-> IF booted THEN 0 ELSE 1, truncated |-> FALSE]
RunRounds[n \in 0..LastRound] == IF n = 0 THEN RunStart ELSE WalkNode(RunRounds[n - 1])
Run == RunRounds[LastRound]

---------------------------------------------------------------------------
(* Properties.                                                              *)

Existing == {t \in Task : life[t] # "none"}
\* The task that is being linked into or taken out of the tree.
InTransit == IF op.do = "nothing" THEN {} ELSE {op.new}
Reallocating == op.do = "move"
Distinct(s) == Cardinality(Listed(s)) = Len(s)
Arcs(rows) == [i \in DOMAIN rows |-> rows[i].arc]
HeldBy(t) == IF t = Null THEN {} ELSE {vec[t].buf[i] : i \in 1..vec[t].len}

\* With all of the memory at hand both readers list every task exactly once and
\* nothing else, in the middle of a fork, of an exit that hands its children
\* over, and of a removal from a Vec (a reallocation excepted, see README).
EveryTaskOnce(rows, run) ==
  lost = {} =>
    LET arcs == Arcs(rows)
        whole == Len(arcs) < cap /\ \A t \in Task : vec[t].len <= cap
    IN /\ Distinct(arcs) /\ Distinct(run.out)
       /\ Listed(arcs) \subseteq Existing /\ Listed(run.out) \subseteq Existing
       /\ whole => Existing \ InTransit \subseteq Listed(arcs)
       /\ ~run.truncated => Existing \ InTransit \subseteq Listed(run.out)
       /\ ~run.truncated /\ whole => arcs = run.out

\* The parent shown by the tree walk is the kernel's: its inner.parent, or the
\* exiting task as long as INITPROC does not hold the child.
ParentsAreTrue(rows) ==
  LET handing == HeldBy(op.exiting) \ HeldBy(InitProc)
  IN \A i \in DOMAIN rows :
       LET t == rows[i].arc
       IN rows[i].parent = IF t \in handing THEN op.exiting ELSE parent[t]

\* The task tree is read as it is, by the walk written for rCore and by the plan
\* of the manifest, between any two stores of the kernel.
TreeIsTrue ==
  ~Reallocating =>
    LET rows == DecodeRcoreTree IN EveryTaskOnce(rows, Run) /\ ParentsAreTrue(rows)

\* What the manifest reader does not list it accounts for: a task can only be
\* missing from a result that reports a problem or says that it is cut short.
LossIsTold ==
  ~Reallocating =>
    LET w == Run
    IN Existing \ InTransit \subseteq Listed(w.out) \/ w.problems > 0 \/ w.truncated
=============================================================================
