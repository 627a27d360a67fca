---------------------------- MODULE Guest_proofs ----------------------------
(***************************************************************************)
(* Theorems about what is read of the guest.  Its call stacks: for every   *)
(* set of tasks and functions and every depth, when no entry of a watched  *)
(* function and no switch goes unseen, a path that observed_stacks reports *)
(* is a part of the running task's stack, and a return removes the frame   *)
(* it belongs to.  Its memory: for every number of pages and processes,    *)
(* any entries in use and any pages that no snapshot has covered, what     *)
(* guest.py says without an error of free pages, address spaces and owners *)
(* is what the kernel has, between any two steps of it.                    *)
(***************************************************************************)
EXTENDS CallStacks, GuestPages, Counting, SequenceTheorems, FiniteSetTheorems, TLAPS

---------------------------------------------------------------------------
(* Call stacks: the invariant.                                              *)

\* What the recorder must be able to see: every entry of a watched function,
\* every switch, and no watched function whose frame a sibling call replaces.
Observable ==
  /\ Rated = {} /\ Sibling \cap Watched = {}
  /\ NftSwitch \/ SwitchFn \in Watched

FrameRec == [fn : Fn, ra : Fn \cup {Vector}, sp : Int]
Stacks == [Task -> Seq(FrameRec)]

\* Functions whose entry changes the list of frames.
Seen == Watched \cup {SwitchFn}

\* A stack of task t as the calling convention leaves it.
Shaped(s, t) ==
  /\ Len(s) <= MaxDepth
  /\ \A d \in 1 .. Len(s) :
       /\ s[d].sp = SpAt(t, d - 1) /\ s[d].ra # SwitchFn
       /\ s[d].ra = Vector \/ (d > 1 /\ s[d].ra = s[d - 1].fn)

\* The frames fs are the part of the stack s above its frame b, and what has
\* been entered since was not seen.
Part(fs, s, b) ==
  /\ b + Len(fs) <= Len(s)
  /\ \A i \in 1 .. Len(fs) : fs[i] = s[b + i]
  /\ \A d \in 1 .. Len(s) : d > b + Len(fs) => s[d].fn \notin Seen

Unseen(s) == \A d \in 1 .. Len(s) : s[d].fn \notin Seen

\* The list belongs to the running task c; or to a task u that has switched
\* away; or it is out of date, and nothing that c has entered can be joined to it.
Ours(fs, st, c) == \E b \in Nat : Part(fs, st[c], b)
Left(fs, st, u) ==
  /\ Top(fs).fn = SwitchFn
  /\ \E b \in Nat : Part(fs, st[u], b) /\ b + Len(fs) = Len(st[u])
Chain(fs, st, c) ==
  \/ fs = << >>
  \/ Ours(fs, st, c)
  \/ \E u \in Task \ {c} : Left(fs, st, u)
  \/ Unseen(st[c])

TypeOK ==
  /\ stack \in Stacks /\ cur \in Task /\ mode \in {"kernel", "user", "vector"}
  /\ frames \in Seq(FrameRec) /\ matched \in BOOLEAN /\ report \in Seq(FrameRec)

StackInv ==
  /\ \A t \in Task : Shaped(stack[t], t)
  /\ mode = "user" => stack[cur] = << >>
  /\ mode = "vector" => Depth < MaxDepth

ChainInv ==
  /\ \A i \in 1 .. Len(frames) : frames[i].fn \in Watched
  /\ Chain(frames, stack, cur)
  /\ report # << >> => report = frames /\ Ours(frames, stack, cur)

IInv == TypeOK /\ StackInv /\ ChainInv

---------------------------------------------------------------------------
(* Stacks and parts of them.                                                *)

\* What Pop leaves, and what Top is.
LEMMA PopFacts ==
  ASSUME NEW s \in Seq(FrameRec), s # << >>
  PROVE  /\ Len(s) \in Nat \ {0} /\ Top(s) = s[Len(s)] /\ Top(s) \in FrameRec
         /\ Pop(s) \in Seq(FrameRec) /\ Len(Pop(s)) = Len(s) - 1
         /\ \A d \in 1 .. Len(s) - 1 : Pop(s)[d] = s[d]
<1>1. Len(s) \in Nat \ {0} OBVIOUS
<1>2. s[Len(s)] \in FrameRec BY <1>1
<1>3. \A i \in 1 .. Len(s) - 1 : s[i] \in FrameRec BY <1>1
<1>4. /\ SubSeq(s, 1, Len(s) - 1) \in Seq(FrameRec)
      /\ Len(SubSeq(s, 1, Len(s) - 1)) = Len(s) - 1
      /\ \A d \in 1 .. Len(s) - 1 : SubSeq(s, 1, Len(s) - 1)[d] = s[d]
  <2>1. Len(s) - 1 \in Int /\ 1 \in Int BY <1>1
  <2>2. /\ SubSeq(s, 1, Len(s) - 1) \in Seq(FrameRec)
        /\ Len(SubSeq(s, 1, Len(s) - 1)) = IF 1 <= Len(s) - 1 THEN Len(s) - 1 - 1 + 1 ELSE 0
        /\ \A d \in 1 .. Len(s) - 1 - 1 + 1 : SubSeq(s, 1, Len(s) - 1)[d] = s[1 + d - 1]
    BY <1>3, <2>1, SubSeqProperties
  <2>3. \A d \in Int : 1 + d - 1 = d OBVIOUS
  <2>4. Len(s) - 1 - 1 + 1 = Len(s) - 1 BY <1>1
  <2>5. QED BY <1>1, <2>2, <2>3, <2>4
<1>5. QED BY <1>1, <1>2, <1>4 DEF Top, Pop

\* What Append adds.
LEMMA PushFacts ==
  ASSUME NEW s \in Seq(FrameRec), NEW f \in FrameRec
  PROVE  /\ Append(s, f) \in Seq(FrameRec) /\ Len(Append(s, f)) = Len(s) + 1
         /\ Append(s, f)[Len(s) + 1] = f /\ Top(Append(s, f)) = f
         /\ Append(s, f) # << >> /\ Len(s) \in Nat
         /\ \A d \in 1 .. Len(s) : Append(s, f)[d] = s[d]
BY DEF Top

\* The stack of one task changes.
LEMMA OneStack ==
  ASSUME NEW st \in Stacks, NEW c \in Task, NEW s \in Seq(FrameRec)
  PROVE  /\ [st EXCEPT ![c] = s] \in Stacks
         /\ [st EXCEPT ![c] = s][c] = s
         /\ \A u \in Task \ {c} : [st EXCEPT ![c] = s][u] = st[u]
BY DEF Stacks

\* A frame that a call or the trap vector puts on the stack s of task t.
Lawful(f, s, t) ==
  /\ f \in FrameRec /\ f.sp = SpAt(t, Len(s)) /\ f.ra # SwitchFn
  /\ f.ra = Vector \/ (s # << >> /\ f.ra = Top(s).fn)

\* A lawful frame keeps the shape of a stack, and so does a return.
LEMMA ShapePush ==
  ASSUME NEW t \in Task, NEW s \in Seq(FrameRec), NEW f, Lawful(f, s, t),
         Shaped(s, t), Len(s) < MaxDepth
  PROVE  Shaped(Append(s, f), t)
<1>1. f \in FrameRec BY DEF Lawful
<1>2. /\ Len(Append(s, f)) = Len(s) + 1 /\ Len(s) \in Nat
      /\ Append(s, f)[Len(s) + 1] = f
      /\ \A d \in 1 .. Len(s) : Append(s, f)[d] = s[d]
  BY <1>1, PushFacts
<1>3. Len(s) + 1 <= MaxDepth BY <1>2, CallStackAssumption DEF CallStackAssumption
<1>4. ASSUME NEW d \in 1 .. Len(s) + 1
      PROVE  /\ Append(s, f)[d].sp = SpAt(t, d - 1) /\ Append(s, f)[d].ra # SwitchFn
             /\ \/ Append(s, f)[d].ra = Vector
                \/ d > 1 /\ Append(s, f)[d].ra = Append(s, f)[d - 1].fn
  <2>1. CASE d \in 1 .. Len(s)
    <3>1. Append(s, f)[d] = s[d] /\ (d > 1 => Append(s, f)[d - 1] = s[d - 1])
      BY <1>2, <2>1
    <3>2. QED BY <3>1, <2>1 DEF Shaped
  <2>2. CASE d = Len(s) + 1
    <3>1. Append(s, f)[d] = f /\ d - 1 = Len(s) BY <1>2, <2>2
    <3>2. ASSUME s # << >> PROVE d > 1 /\ Append(s, f)[d - 1] = Top(s)
      <4>1. Len(s) \in Nat \ {0} /\ Top(s) = s[Len(s)] BY <3>2, PopFacts
      <4>2. d > 1 /\ Len(s) \in 1 .. Len(s) BY <4>1, <2>2
      <4>3. QED BY <4>1, <4>2, <3>1, <1>2
    <3>3. QED BY <3>1, <3>2 DEF Lawful
  <2>3. QED BY <2>1, <2>2, <1>2
<1>5. QED BY <1>2, <1>3, <1>4 DEF Shaped

\* A return keeps the shape of a stack.
LEMMA ShapePop ==
  ASSUME NEW t \in Task, NEW s \in Seq(FrameRec), s # << >>, Shaped(s, t)
  PROVE  Shaped(Pop(s), t)
<1>1. /\ Len(Pop(s)) = Len(s) - 1 /\ Len(s) \in Nat
      /\ \A d \in 1 .. Len(s) - 1 : Pop(s)[d] = s[d]
  BY PopFacts
<1>2. QED BY <1>1, CallStackAssumption DEF Shaped, CallStackAssumption

\* The stacks of two tasks have no address in common.
LEMMA StacksApart ==
  ASSUME NEW t \in Task, NEW u \in Task, t # u,
         NEW m \in 0 .. MaxDepth, NEW n \in 0 .. MaxDepth
  PROVE  SpAt(t, m) # SpAt(u, n)
<1>1. t \in Nat /\ u \in Nat /\ MaxDepth \in Nat
  BY CallStackAssumption DEF CallStackAssumption
<1>2. ASSUME NEW a \in Nat, NEW b \in Nat, a < b
      PROVE  (a + 1) * (MaxDepth + 1) + (MaxDepth + 1) <= (b + 1) * (MaxDepth + 1)
  <2>1. PICK e \in Nat : b = a + 1 + e
    <3>1. b - a - 1 \in Nat /\ b = a + 1 + (b - a - 1) BY <1>2
    <3>2. QED BY <3>1
  <2>2. e * (MaxDepth + 1) \in Nat BY <1>1
  <2>3. (b + 1) * (MaxDepth + 1) = (a + 1) * (MaxDepth + 1) + (MaxDepth + 1) + e * (MaxDepth + 1)
    BY <1>1, <2>1
  <2>4. (a + 1) * (MaxDepth + 1) \in Nat BY <1>1
  <2>5. QED BY <1>1, <2>2, <2>3, <2>4
<1>3. (t + 1) * (MaxDepth + 1) \in Nat /\ (u + 1) * (MaxDepth + 1) \in Nat BY <1>1
<1>4. CASE t < u BY <1>1, <1>2, <1>3, <1>4 DEF SpAt, StackBase
<1>5. CASE u < t BY <1>1, <1>2, <1>3, <1>5 DEF SpAt, StackBase
<1>6. QED BY <1>1, <1>4, <1>5

\* Something unseen is entered above a part.
LEMMA PartUnder ==
  ASSUME NEW fs \in Seq(FrameRec), NEW s \in Seq(FrameRec), NEW b \in Nat, Part(fs, s, b),
         NEW f \in FrameRec, f.fn \notin Seen
  PROVE  Part(fs, Append(s, f), b)
BY PushFacts DEF Part

\* A list that has just been begun.
LEMMA PartBegun ==
  ASSUME NEW s \in Seq(FrameRec), NEW f \in FrameRec
  PROVE  Part(<<f>>, Append(s, f), Len(s))
<1>1. Len(<<f>>) = 1 /\ <<f>>[1] = f OBVIOUS
<1>2. QED BY <1>1, PushFacts DEF Part

\* The frame on top of the stack was seen: it is the last of the part.
LEMMA SeenIsLast ==
  ASSUME NEW fs \in Seq(FrameRec), fs # << >>, NEW s \in Seq(FrameRec),
         NEW b \in Nat, Part(fs, s, b), Top(s).fn \in Seen
  PROVE  /\ b + Len(fs) = Len(s) /\ Top(fs) = Top(s) /\ s # << >>
<1>1. Len(fs) \in Nat \ {0} /\ Len(s) \in Nat BY PopFacts
<1>2. b + Len(fs) <= Len(s) BY DEF Part
<1>3. s # << >> /\ Len(s) \in 1 .. Len(s) BY <1>1, <1>2
<1>4. Top(s) = s[Len(s)] /\ Top(fs) = fs[Len(fs)] BY DEF Top
<1>5. ~(Len(s) > b + Len(fs)) BY <1>3, <1>4 DEF Part
<1>6. b + Len(fs) = Len(s) BY <1>1, <1>2, <1>5
<1>7. fs[Len(fs)] = s[b + Len(fs)] BY <1>1 DEF Part
<1>8. QED BY <1>3, <1>4, <1>6, <1>7

\* The part that ends with the caller grows by the callee.
LEMMA PartJoined ==
  ASSUME NEW fs \in Seq(FrameRec), NEW s \in Seq(FrameRec), NEW b \in Nat, Part(fs, s, b),
         b + Len(fs) = Len(s), NEW f \in FrameRec
  PROVE  Part(Append(fs, f), Append(s, f), b)
<1>1. Len(fs) \in Nat /\ Len(s) \in Nat OBVIOUS
<1>2. /\ Len(Append(s, f)) = Len(s) + 1 /\ Append(s, f)[Len(s) + 1] = f
      /\ \A d \in 1 .. Len(s) : Append(s, f)[d] = s[d]
      /\ Len(Append(fs, f)) = Len(fs) + 1 /\ Append(fs, f)[Len(fs) + 1] = f
      /\ \A d \in 1 .. Len(fs) : Append(fs, f)[d] = fs[d]
  BY PushFacts
<1>3. ASSUME NEW i \in 1 .. Len(fs) + 1 PROVE Append(fs, f)[i] = Append(s, f)[b + i]
  <2>1. CASE i = Len(fs) + 1
    <3>1. b + i = Len(s) + 1 BY <1>1, <2>1
    <3>2. QED BY <1>2, <2>1, <3>1
  <2>2. CASE i \in 1 .. Len(fs)
    <3>1. fs[i] = s[b + i] /\ b + i \in 1 .. Len(s) BY <1>1, <2>2 DEF Part
    <3>2. QED BY <1>2, <2>2, <3>1
  <2>3. QED BY <1>1, <2>1, <2>2
<1>4. b + (Len(fs) + 1) <= Len(s) + 1
      /\ \A d \in 1 .. Len(s) + 1 : ~(d > b + (Len(fs) + 1))
  BY <1>1
<1>5. QED BY <1>2, <1>3, <1>4 DEF Part

\* The innermost frame returns and was the last of the part, or was not in it.
LEMMA PartReturned ==
  ASSUME NEW fs \in Seq(FrameRec), fs # << >>, NEW s \in Seq(FrameRec), NEW b \in Nat, Part(fs, s, b)
  PROVE  /\ s # << >>
         /\ b + Len(fs) = Len(s) => Part(Pop(fs), Pop(s), b) /\ Top(fs) = Top(s)
         /\ b + Len(fs) # Len(s) => Part(fs, Pop(s), b)
<1>1. Len(fs) \in Nat \ {0} /\ Len(s) \in Nat BY PopFacts
<1>2. b + Len(fs) <= Len(s) BY DEF Part
<1>3. s # << >> BY <1>1, <1>2
<1>4. /\ Len(Pop(s)) = Len(s) - 1 /\ \A d \in 1 .. Len(s) - 1 : Pop(s)[d] = s[d]
      /\ Len(Pop(fs)) = Len(fs) - 1 /\ \A d \in 1 .. Len(fs) - 1 : Pop(fs)[d] = fs[d]
  BY <1>3, PopFacts
<1>5. ASSUME b + Len(fs) = Len(s) PROVE Part(Pop(fs), Pop(s), b) /\ Top(fs) = Top(s)
  <2>1. Top(fs) = Top(s) BY <1>1, <1>5 DEF Part, Top
  <2>2. b + Len(Pop(fs)) <= Len(Pop(s)) BY <1>1, <1>4, <1>5
  <2>3. ASSUME NEW i \in 1 .. Len(Pop(fs)) PROVE Pop(fs)[i] = Pop(s)[b + i]
    <3>1. i \in 1 .. Len(fs) - 1 /\ i \in 1 .. Len(fs) /\ b + i \in 1 .. Len(s) - 1
      BY <1>1, <1>4, <1>5
    <3>2. Pop(fs)[i] = fs[i] /\ fs[i] = s[b + i] /\ Pop(s)[b + i] = s[b + i]
      BY <1>4, <3>1 DEF Part
    <3>3. QED BY <3>2
  <2>4. \A d \in 1 .. Len(Pop(s)) : ~(d > b + Len(Pop(fs))) BY <1>1, <1>4, <1>5
  <2>5. QED BY <2>1, <2>2, <2>3, <2>4 DEF Part
<1>6. ASSUME b + Len(fs) # Len(s) PROVE Part(fs, Pop(s), b)
  <2>1. b + Len(fs) <= Len(Pop(s))
    <3>1. \A x, y \in Int : x <= y /\ x # y => x <= y - 1 OBVIOUS
    <3>2. b + Len(fs) \in Int /\ Len(s) \in Int BY <1>1
    <3>3. QED BY <1>2, <1>4, <1>6, <3>1, <3>2
  <2>2. ASSUME NEW i \in 1 .. Len(fs) PROVE fs[i] = Pop(s)[b + i]
    <3>1. b + i \in 1 .. Len(s) - 1 BY <1>1, <1>4, <2>1
    <3>2. QED BY <1>4, <3>1 DEF Part
  <2>3. ASSUME NEW d \in 1 .. Len(Pop(s)), d > b + Len(fs) PROVE Pop(s)[d].fn \notin Seen
    <3>1. d \in 1 .. Len(s) - 1 /\ d \in 1 .. Len(s) BY <1>1, <1>4
    <3>2. QED BY <1>4, <2>3, <3>1 DEF Part
  <2>4. QED BY <2>1, <2>2, <2>3 DEF Part
<1>7. QED BY <1>3, <1>5, <1>6

---------------------------------------------------------------------------
(* What an entry and a return do to the list.                               *)

\* The recorder's entry row of f, when the list was fs and becomes fs2.
Enters(fs, f, fs2) ==
  \/ fs2 = << >>
  \/ fs2 = <<f>>
  \/ /\ fs # << >> /\ f.ra = Top(fs).fn
     /\ fs2 = Append(fs, f)

\* A return row from the innermost frame of s.
Returns(fs, r, fs2) ==
  IF fs # << >> /\ Top(fs).ra = r.ra /\ Top(fs).sp = r.sp THEN fs2 = Pop(fs) ELSE fs2 = fs

\* A task that does not run keeps what it has.
LEMMA LeftStays ==
  ASSUME NEW st \in Stacks, NEW c \in Task, NEW s \in Seq(FrameRec), NEW fs,
         NEW u \in Task \ {c}, Left(fs, st, u)
  PROVE  Left(fs, [st EXCEPT ![c] = s], u)
BY OneStack DEF Left

\* The list after an entry that has a row: new, or longer because the caller
\* was the last frame of the list and is what the callee stands on.
LEMMA EntryChain ==
  ASSUME NEW st \in Stacks, NEW c \in Task, NEW fs \in Seq(FrameRec), NEW f, NEW fs2,
         \A i \in 1 .. Len(fs) : fs[i].fn \in Watched,
         Chain(fs, st, c), Lawful(f, st[c], c), Enters(fs, f, fs2)
  PROVE  fs2 = << >> \/ Ours(fs2, [st EXCEPT ![c] = Append(st[c], f)], c)
<1> DEFINE st2 == [st EXCEPT ![c] = Append(st[c], f)]
<1>1. f \in FrameRec /\ st[c] \in Seq(FrameRec) BY DEF Lawful, Stacks
<1>2. st2[c] = Append(st[c], f) BY DEF Stacks
<1>3. CASE fs2 = << >> BY <1>3
<1>4. CASE fs2 = <<f>>
  <2>1. Part(<<f>>, Append(st[c], f), Len(st[c])) /\ Len(st[c]) \in Nat BY <1>1, PartBegun
  <2>2. QED BY <1>2, <1>4, <2>1 DEF Ours
<1>5. CASE fs # << >> /\ f.ra = Top(fs).fn /\ fs2 = Append(fs, f)
  <2>1. Top(fs).fn \in Watched
    <3>1. Len(fs) \in 1 .. Len(fs) /\ Top(fs) = fs[Len(fs)] BY <1>5, PopFacts
    <3>2. QED BY <3>1
  <2>2. st[c] # << >> /\ f.ra = Top(st[c]).fn /\ f.ra # SwitchFn
    <3>1. f.ra # Vector BY <1>5, <2>1, CallStackAssumption DEF CallStackAssumption
    <3>2. QED BY <3>1 DEF Lawful
  <2>3. Top(st[c]).fn \in Seen BY <1>5, <2>1, <2>2 DEF Seen
  <2>4. ~Unseen(st[c])
    <3>1. Len(st[c]) \in 1 .. Len(st[c]) /\ Top(st[c]) = st[c][Len(st[c])]
      BY <1>1, <2>2, PopFacts
    <3>2. QED BY <2>3, <3>1 DEF Unseen
  <2>5. \A u \in Task \ {c} : ~Left(fs, st, u) BY <1>5, <2>2 DEF Left
  <2>6. PICK b \in Nat : Part(fs, st[c], b) BY <1>5, <2>4, <2>5 DEF Chain, Ours
  <2>7. b + Len(fs) = Len(st[c]) BY <1>1, <1>5, <2>3, <2>6, SeenIsLast
  <2>8. Part(Append(fs, f), Append(st[c], f), b) BY <1>1, <2>6, <2>7, PartJoined
  <2>9. QED BY <1>2, <1>5, <2>8 DEF Ours
<1>6. QED BY <1>3, <1>4, <1>5 DEF Enters

\* The list after an entry that has no row.
LEMMA NoEntryChain ==
  ASSUME NEW st \in Stacks, NEW c \in Task, NEW fs \in Seq(FrameRec), NEW f \in FrameRec,
         Chain(fs, st, c), f.fn \notin Seen
  PROVE  Chain(fs, [st EXCEPT ![c] = Append(st[c], f)], c)
<1> DEFINE st2 == [st EXCEPT ![c] = Append(st[c], f)]
<1>1. st[c] \in Seq(FrameRec) /\ Append(st[c], f) \in Seq(FrameRec) BY PushFacts DEF Stacks
<1>2. st2[c] = Append(st[c], f) BY DEF Stacks
<1>3. CASE fs = << >> BY <1>3 DEF Chain
<1>4. CASE Ours(fs, st, c) BY <1>1, <1>2, <1>4, PartUnder DEF Ours, Chain
<1>5. ASSUME NEW u \in Task \ {c}, Left(fs, st, u) PROVE Chain(fs, st2, c)
  BY <1>1, <1>5, LeftStays DEF Chain
<1>6. CASE Unseen(st[c])
  <2>1. Unseen(Append(st[c], f)) BY <1>1, <1>6, PushFacts DEF Unseen
  <2>2. QED BY <1>2, <2>1 DEF Chain
<1>7. QED BY <1>3, <1>4, <1>5, <1>6 DEF Chain

\* Frames of a task that has switched away are no frames of another one.
LEMMA Elsewhere ==
  ASSUME NEW st \in Stacks, NEW fs \in Seq(FrameRec), fs # << >>,
         \A t \in Task : Shaped(st[t], t), NEW u \in Task, NEW b \in Nat, Part(fs, st[u], b),
         NEW t \in Task, t # u, NEW n \in 0 .. MaxDepth
  PROVE  st[u] # << >> /\ Top(fs).sp # SpAt(t, n)
<1>1. st[u] \in Seq(FrameRec) BY DEF Stacks
<1>2. Len(fs) \in 1 .. Len(fs) /\ Top(fs) = fs[Len(fs)] /\ Len(fs) \in Nat BY PopFacts
<1>3. Top(fs) = st[u][b + Len(fs)] /\ b + Len(fs) \in 1 .. Len(st[u])
  BY <1>1, <1>2 DEF Part
<1>4. Top(fs).sp = SpAt(u, b + Len(fs) - 1) /\ Len(st[u]) <= MaxDepth BY <1>3 DEF Shaped
<1>5. b + Len(fs) - 1 \in 0 .. MaxDepth
  BY <1>1, <1>2, <1>3, <1>4, CallStackAssumption DEF CallStackAssumption
<1>6. QED BY <1>1, <1>3, <1>4, <1>5, StacksApart

\* The innermost frame of the running task goes and the list with it, if it
\* was its last.  r is the frame as the return row shows it.
LEMMA ReturnChain ==
  ASSUME NEW st \in Stacks, NEW c \in Task, NEW fs \in Seq(FrameRec), NEW fs2,
         \A t \in Task : Shaped(st[t], t),
         st[c] # << >>, Chain(fs, st, c), Returns(fs, Top(st[c]), fs2)
  PROVE  Chain(fs2, [st EXCEPT ![c] = Pop(st[c])], c)
<1> DEFINE st2 == [st EXCEPT ![c] = Pop(st[c])]
<1>1. st[c] \in Seq(FrameRec) /\ Pop(st[c]) \in Seq(FrameRec) BY PopFacts DEF Stacks
<1>2. st2[c] = Pop(st[c]) BY DEF Stacks
<1>3. CASE fs = << >> BY <1>3 DEF Chain, Returns
<1>4. ASSUME fs # << >>, NEW b \in Nat, Part(fs, st[c], b) PROVE Chain(fs2, st2, c)
  <2>1. CASE b + Len(fs) = Len(st[c])
    <3>1. Part(Pop(fs), Pop(st[c]), b) /\ Top(fs) = Top(st[c]) BY <1>1, <1>4, <2>1, PartReturned
    <3>2. fs2 = Pop(fs) BY <1>4, <3>1 DEF Returns
    <3>3. QED BY <1>2, <3>1, <3>2 DEF Chain, Ours
  <2>2. CASE b + Len(fs) # Len(st[c])
    <3>1. Part(fs, Pop(st[c]), b) BY <1>1, <1>4, <2>2, PartReturned
    <3>2. Top(fs).sp # Top(st[c]).sp
      <4>1. Len(fs) \in 1 .. Len(fs) /\ Top(fs) = fs[Len(fs)] /\ Len(fs) \in Nat
        BY <1>4, PopFacts
      <4>2. Top(fs) = st[c][b + Len(fs)] /\ b + Len(fs) \in 1 .. Len(st[c])
        BY <1>1, <1>4, <4>1 DEF Part
      <4>3. Len(st[c]) \in 1 .. Len(st[c]) /\ Top(st[c]) = st[c][Len(st[c])]
        BY <1>1, PopFacts
      <4>4. /\ Top(fs).sp = SpAt(c, b + Len(fs) - 1)
            /\ Top(st[c]).sp = SpAt(c, Len(st[c]) - 1)
        BY <4>2, <4>3 DEF Shaped
      <4>5. StackBase(c) \in Int BY CallStackAssumption DEF CallStackAssumption, StackBase
      <4>6. \A x, y, z \in Int : x # y => z - (x - 1) # z - (y - 1) OBVIOUS
      <4>7. b + Len(fs) \in Int /\ Len(st[c]) \in Int BY <4>1, <1>1
      <4>8. SpAt(c, b + Len(fs) - 1) # SpAt(c, Len(st[c]) - 1)
        BY <2>2, <4>5, <4>6, <4>7 DEF SpAt
      <4>9. QED BY <4>4, <4>8
    <3>3. fs2 = fs BY <3>2 DEF Returns
    <3>4. QED BY <1>2, <3>1, <3>3 DEF Chain, Ours
  <2>3. QED BY <2>1, <2>2
<1>5. ASSUME fs # << >>, NEW u \in Task \ {c}, Left(fs, st, u) PROVE Chain(fs2, st2, c)
  <2>1. Top(fs).sp # Top(st[c]).sp
    <3>1. PICK b \in Nat : Part(fs, st[u], b) BY <1>5 DEF Left
    <3>2. Len(st[c]) \in 1 .. Len(st[c]) /\ Top(st[c]) = st[c][Len(st[c])]
      BY <1>1, PopFacts
    <3>3. Top(st[c]).sp = SpAt(c, Len(st[c]) - 1) /\ Len(st[c]) <= MaxDepth
      BY <3>2 DEF Shaped
    <3>4. Len(st[c]) - 1 \in 0 .. MaxDepth
      BY <1>1, <3>2, <3>3, CallStackAssumption DEF CallStackAssumption
    <3>5. QED BY <1>5, <3>1, <3>3, <3>4, Elsewhere
  <2>2. fs2 = fs BY <2>1 DEF Returns
  <2>3. QED BY <1>1, <1>5, <2>2, LeftStays DEF Chain
<1>6. CASE Unseen(st[c])
  <2>1. /\ Len(Pop(st[c])) = Len(st[c]) - 1 /\ Len(st[c]) \in Nat
        /\ \A d \in 1 .. Len(st[c]) - 1 : Pop(st[c])[d] = st[c][d]
    BY <1>1, PopFacts
  <2>3. Unseen(Pop(st[c])) BY <1>6, <2>1 DEF Unseen
  <2>2. QED BY <1>2, <2>3 DEF Chain
<1>7. QED BY <1>3, <1>4, <1>5, <1>6 DEF Chain, Ours

---------------------------------------------------------------------------
(* Call stacks: the steps.                                                  *)

\* What a row leaves of the list and its history variables.
Rows == /\ frames' \in Seq(FrameRec) /\ matched' \in BOOLEAN /\ report' \in Seq(FrameRec)
        /\ ChainInv'

\* An entry, whether it has a row or not.  st are the stacks before f is put on
\* its own, which differ from stack in a sibling call.
LEMMA EntryRows ==
  ASSUME Observable, frames \in Seq(FrameRec),
         \A i \in 1 .. Len(frames) : frames[i].fn \in Watched,
         NEW st \in Stacks, cur \in Task, Chain(frames, st, cur),
         NEW f, Lawful(f, st[cur], cur), f.fn = SwitchFn => SwitchFn \in Watched,
         stack' = [st EXCEPT ![cur] = Append(st[cur], f)], cur' = cur, Entered(f)
  PROVE  Rows
<1>1. f \in FrameRec /\ << >> \in Seq(FrameRec) /\ <<f>> \in Seq(FrameRec) BY DEF Lawful
<1>2. CASE f.fn \in Watched /\ EntryRow(f)
  <2>1. Enters(frames, f, frames') /\ matched' = FALSE
        /\ (report' = << >> \/ report' = frames')
    <3>1. Append(<< >>, f) = <<f>> OBVIOUS
    <3>2. CASE ProcessEntry(f)
      <4>1. /\ \/ Joins(f) /\ frames' = Append(frames, f)
               \/ frames' = Append(<< >>, f)
            /\ report' = frames' /\ matched' = FALSE
        BY <3>2 DEF ProcessEntry
      <4>2. QED BY <3>1, <4>1 DEF Joins, Enters
    <3>3. CASE BreakChain BY <3>3 DEF BreakChain, Quiet, Enters
    <3>4. QED BY <1>2, <3>2, <3>3 DEF EntryRow
  <2>2. frames' = << >> \/ Ours(frames', stack', cur') BY <2>1, EntryChain
  <2>3. frames' \in Seq(FrameRec) BY <1>1, <2>1, PushFacts DEF Enters
  <2>4. ASSUME NEW i \in 1 .. Len(frames') PROVE frames'[i].fn \in Watched
    <3>1. CASE frames' = << >> BY <3>1
    <3>2. CASE frames' = <<f>> BY <3>2, <1>2
    <3>3. CASE frames' = Append(frames, f) BY <3>3, <1>1, <1>2, PushFacts
    <3>4. QED BY <2>1, <3>1, <3>2, <3>3 DEF Enters
  <2>5. Chain(frames', stack', cur') BY <2>2 DEF Chain
  <2>6. QED BY <1>1, <2>1, <2>2, <2>3, <2>4, <2>5 DEF Rows, ChainInv
<1>3. CASE f.fn \in Fn \ Watched /\ NoRow
  <2>1. frames' = frames /\ matched' = FALSE /\ report' = << >> BY <1>3 DEF NoRow, Quiet
  <2>2. f.fn \notin Seen BY <1>3 DEF Seen
  <2>3. Chain(frames', stack', cur') BY <1>1, <2>1, <2>2, NoEntryChain
  <2>4. QED BY <1>1, <2>1, <2>3 DEF Rows, ChainInv
<1>4. QED BY <1>2, <1>3 DEF Entered, Observable

\* A row that drops the list.
LEMMA BreakRows == ASSUME BreakChain PROVE Rows
<1>1. << >> \in Seq(FrameRec) OBVIOUS
<1>2. frames' = << >> /\ report' = << >> /\ matched' = FALSE BY DEF BreakChain, Quiet
<1>3. \A i \in 1 .. Len(frames') : frames'[i].fn \in Watched BY <1>2
<1>4. Chain(frames', stack', cur') BY <1>2 DEF Chain
<1>5. QED BY <1>1, <1>2, <1>3, <1>4 DEF Rows, ChainInv

\* A call or a trap handler: one lawful frame more.
LEMMA PushStep ==
  ASSUME IInv, Observable, NEW f, Lawful(f, stack[cur], cur), Depth < MaxDepth, Push(f),
         \/ Entered(f) /\ (f.fn = SwitchFn => SwitchFn \in Watched)
         \/ BreakChain,
         cur' = cur, mode' = "kernel"
  PROVE  IInv'
<1>1. /\ stack \in Stacks /\ cur \in Task /\ stack[cur] \in Seq(FrameRec) /\ f \in FrameRec
  BY DEF IInv, TypeOK, Stacks, Lawful
<1>2. stack' = [stack EXCEPT ![cur] = Append(stack[cur], f)] BY DEF Push
<1>3. Append(stack[cur], f) \in Seq(FrameRec) BY <1>1, PushFacts
<1>4. /\ stack' \in Stacks /\ stack'[cur] = Append(stack[cur], f)
      /\ \A u \in Task \ {cur} : stack'[u] = stack[u]
  BY <1>1, <1>2, <1>3 DEF Stacks
<1>5. Shaped(Append(stack[cur], f), cur)
  BY <1>1, ShapePush DEF IInv, StackInv, Depth
<1>6. \A t \in Task : Shaped(stack'[t], t) BY <1>4, <1>5 DEF IInv, StackInv
<1>7. StackInv' BY <1>6 DEF StackInv
<1>8. Rows
  <2>1. CASE Entered(f) /\ (f.fn = SwitchFn => SwitchFn \in Watched)
    BY <1>1, <1>2, <2>1, EntryRows DEF IInv, TypeOK, ChainInv
  <2>2. CASE BreakChain BY <2>2, BreakRows
  <2>3. QED BY <2>1, <2>2
<1>9. TypeOK' BY <1>1, <1>4, <1>8 DEF TypeOK, Rows
<1>10. QED BY <1>7, <1>8, <1>9 DEF IInv, Rows

\* A call keeps the invariant: its entry, when seen, joins the list as EntryChain says.
LEMMA CallKeeps == ASSUME IInv, Observable, NEW g \in Fn, Call(g) PROVE IInv'
<1> DEFINE f == Frame(g, Running, SpAt(cur, Depth))
<1>1. /\ stack[cur] \in Seq(FrameRec) /\ cur \in Task BY DEF IInv, TypeOK, Stacks
<1>2. /\ mode = "kernel" /\ Depth \in 1 .. MaxDepth - 1 /\ g # SwitchFn /\ Running # SwitchFn
      /\ Push(f) /\ Entered(f) /\ cur' = cur /\ mode' = mode
  BY DEF Call
<1>3. stack[cur] # << >> /\ Running = Top(stack[cur]).fn BY <1>1, <1>2 DEF Depth, Running
<1>4. Lawful(f, stack[cur], cur)
  <2>1. Running \in Fn BY <1>1, <1>3, PopFacts DEF FrameRec
  <2>2. SpAt(cur, Depth) \in Int
    BY <1>1, <1>2, CallStackAssumption DEF SpAt, StackBase, CallStackAssumption
  <2>3. QED BY <1>2, <1>3, <2>1, <2>2 DEF Lawful, Frame, FrameRec, Depth
<1>5. Depth < MaxDepth BY <1>2, CallStackAssumption DEF CallStackAssumption
<1>6. f.fn # SwitchFn BY <1>2 DEF Frame
<1> HIDE DEF f
<1>7. QED BY <1>2, <1>4, <1>5, <1>6, PushStep

\* So does the first function of a trap, whose return address is in the vector.
LEMMA HandlerKeeps == ASSUME IInv, Observable, NEW g \in Fn, Handler(g) PROVE IInv'
<1> DEFINE f == Frame(g, Vector, SpAt(cur, Depth))
<1>1. /\ stack[cur] \in Seq(FrameRec) /\ cur \in Task BY DEF IInv, TypeOK, Stacks
<1>2. /\ mode = "vector" /\ g # SwitchFn
      /\ Push(f) /\ Entered(f) /\ cur' = cur /\ mode' = "kernel"
  BY DEF Handler
<1>3. Lawful(f, stack[cur], cur)
  <2>1. Depth \in Nat BY <1>1 DEF Depth
  <2>2. SpAt(cur, Depth) \in Int
    BY <1>1, <2>1, CallStackAssumption DEF SpAt, StackBase, CallStackAssumption
  <2>3. Vector # SwitchFn BY CallStackAssumption DEF CallStackAssumption
  <2>4. QED BY <2>2, <2>3 DEF Lawful, Frame, FrameRec, Depth
<1>4. Depth < MaxDepth BY <1>2 DEF IInv, StackInv
<1>5. f.fn # SwitchFn BY <1>2 DEF Frame
<1> HIDE DEF f
<1>6. QED BY <1>2, <1>3, <1>4, <1>5, PushStep

\* So does the entry of the switch, which a row reports whenever the recorder sees it.
LEMMA EnterSwitchKeeps == ASSUME IInv, Observable, EnterSwitch PROVE IInv'
<1> DEFINE f == Frame(SwitchFn, Running, SpAt(cur, Depth))
<1>1. /\ stack[cur] \in Seq(FrameRec) /\ cur \in Task BY DEF IInv, TypeOK, Stacks
<1>2. /\ mode = "kernel" /\ Depth \in 1 .. MaxDepth - 1 /\ Running # SwitchFn
      /\ Push(f) /\ (IF NftSwitch THEN BreakChain ELSE Entered(f)) /\ cur' = cur /\ mode' = mode
  BY DEF EnterSwitch
<1>3. stack[cur] # << >> /\ Running = Top(stack[cur]).fn BY <1>1, <1>2 DEF Depth, Running
<1>4. Lawful(f, stack[cur], cur)
  <2>1. Running \in Fn /\ SwitchFn \in Fn
    BY <1>1, <1>3, PopFacts, CallStackAssumption DEF FrameRec, CallStackAssumption
  <2>2. SpAt(cur, Depth) \in Int
    BY <1>1, <1>2, CallStackAssumption DEF SpAt, StackBase, CallStackAssumption
  <2>3. QED BY <1>2, <1>3, <2>1, <2>2 DEF Lawful, Frame, FrameRec, Depth
<1>5. Depth < MaxDepth BY <1>2, CallStackAssumption DEF CallStackAssumption
<1>6. \/ Entered(f) /\ (f.fn = SwitchFn => SwitchFn \in Watched)
      \/ BreakChain
  BY <1>2 DEF Observable
<1> HIDE DEF f
<1>7. QED BY <1>2, <1>4, <1>5, <1>6, PushStep

\* A frame of an unseen function goes: it was not in the list.
LEMMA DropChain ==
  ASSUME NEW st \in Stacks, NEW c \in Task, NEW fs \in Seq(FrameRec),
         \A i \in 1 .. Len(fs) : fs[i].fn \in Watched,
         st[c] # << >>, Top(st[c]).fn \notin Watched, Chain(fs, st, c)
  PROVE  Chain(fs, [st EXCEPT ![c] = Pop(st[c])], c)
<1> DEFINE st2 == [st EXCEPT ![c] = Pop(st[c])]
<1>1. st[c] \in Seq(FrameRec) /\ Pop(st[c]) \in Seq(FrameRec) BY PopFacts DEF Stacks
<1>2. st2[c] = Pop(st[c]) BY DEF Stacks
<1>3. CASE fs = << >> BY <1>3 DEF Chain
<1>4. ASSUME fs # << >>, NEW b \in Nat, Part(fs, st[c], b) PROVE Chain(fs, st2, c)
  <2>1. Top(fs).fn \in Watched
    <3>1. Len(fs) \in 1 .. Len(fs) /\ Top(fs) = fs[Len(fs)] BY <1>4, PopFacts
    <3>2. QED BY <3>1
  <2>2. Part(fs, Pop(st[c]), b) BY <1>1, <1>4, <2>1, PartReturned
  <2>3. QED BY <1>2, <2>2 DEF Chain, Ours
<1>5. ASSUME NEW u \in Task \ {c}, Left(fs, st, u) PROVE Chain(fs, st2, c)
  BY <1>1, <1>5, LeftStays DEF Chain
<1>6. CASE Unseen(st[c])
  <2>1. /\ Len(Pop(st[c])) = Len(st[c]) - 1 /\ Len(st[c]) \in Nat
        /\ \A d \in 1 .. Len(st[c]) - 1 : Pop(st[c])[d] = st[c][d]
    BY <1>1, PopFacts
  <2>2. Unseen(Pop(st[c])) BY <1>6, <2>1 DEF Unseen
  <2>3. QED BY <1>2, <2>2 DEF Chain
<1>7. QED BY <1>3, <1>4, <1>5, <1>6 DEF Chain, Ours

\* A sibling call is a return without a row and an entry from the same caller.
LEMMA TailCallKeeps == ASSUME IInv, Observable, NEW g \in Fn, TailCall(g) PROVE IInv'
<1> DEFINE s == stack[cur]
           f == [Top(s) EXCEPT !.fn = g]
           st == [stack EXCEPT ![cur] = Pop(s)]
<1>1. /\ stack \in Stacks /\ cur \in Task /\ s \in Seq(FrameRec)
      /\ frames \in Seq(FrameRec) /\ Shaped(s, cur)
  BY DEF IInv, TypeOK, Stacks, StackInv
<1>2. /\ mode = "kernel" /\ Depth > 0 /\ Running \in Sibling /\ g # SwitchFn
      /\ stack' = [stack EXCEPT ![cur] = Append(Pop(s), f)] /\ Entered(f)
      /\ cur' = cur /\ mode' = mode
  BY DEF TailCall
<1>3. s # << >> /\ Running = Top(s).fn BY <1>1, <1>2 DEF Depth, Running
<1>4. /\ Len(s) \in Nat \ {0} /\ Top(s) = s[Len(s)] /\ Top(s) \in FrameRec
      /\ Pop(s) \in Seq(FrameRec) /\ Len(Pop(s)) = Len(s) - 1
      /\ \A d \in 1 .. Len(s) - 1 : Pop(s)[d] = s[d]
  BY <1>1, <1>3, PopFacts
<1>5. f \in FrameRec /\ f.fn = g /\ f.sp = Top(s).sp /\ f.ra = Top(s).ra
  BY <1>4 DEF FrameRec
<1>6. Lawful(f, Pop(s), cur)
  <2>1. /\ Top(s).sp = SpAt(cur, Len(s) - 1) /\ Top(s).ra # SwitchFn
        /\ Top(s).ra = Vector \/ (Len(s) > 1 /\ Top(s).ra = s[Len(s) - 1].fn)
    BY <1>1, <1>4 DEF Shaped
  <2>2. ASSUME Len(s) > 1 PROVE Pop(s) # << >> /\ Top(Pop(s)) = s[Len(s) - 1]
    <3>1. Len(s) - 1 \in 1 .. Len(s) - 1 BY <1>4, <2>2
    <3>2. QED BY <1>4, <3>1 DEF Top
  <2>3. QED BY <1>4, <1>5, <2>1, <2>2 DEF Lawful
<1>7. st \in Stacks /\ st[cur] = Pop(s) BY <1>1, <1>4 DEF Stacks
<1>8. Chain(frames, st, cur)
  <2>1. Top(s).fn \notin Watched BY <1>2, <1>3 DEF Observable
  <2>2. QED BY <1>1, <1>3, <2>1, DropChain DEF IInv, ChainInv
<1>9. stack' = [st EXCEPT ![cur] = Append(st[cur], f)] BY <1>1, <1>2, <1>4 DEF Stacks
<1>10. f.fn # SwitchFn BY <1>2, <1>5
<1>11. Shaped(Append(Pop(s), f), cur)
  <2>1. Shaped(Pop(s), cur) BY <1>1, <1>3, ShapePop
  <2>2. Len(Pop(s)) < MaxDepth
    BY <1>1, <1>4, CallStackAssumption DEF Shaped, CallStackAssumption
  <2>3. QED BY <1>1, <1>4, <1>6, <2>1, <2>2, ShapePush
<1>12. /\ stack' \in Stacks /\ stack'[cur] = Append(Pop(s), f)
       /\ \A u \in Task \ {cur} : stack'[u] = stack[u]
  <2>1. Append(Pop(s), f) \in Seq(FrameRec) BY <1>4, <1>5, PushFacts
  <2>2. QED BY <1>1, <1>2, <2>1 DEF Stacks
<1>13. \A t \in Task : Shaped(stack'[t], t) BY <1>11, <1>12 DEF IInv, StackInv
<1>14. StackInv' BY <1>2, <1>13 DEF StackInv
<1> HIDE DEF f, st
<1>15. Rows BY <1>1, <1>2, <1>6, <1>7, <1>8, <1>9, <1>10, EntryRows DEF IInv, ChainInv
<1>16. TypeOK' BY <1>1, <1>2, <1>12, <1>15 DEF TypeOK, Rows
<1>17. QED BY <1>14, <1>15, <1>16 DEF IInv, Rows

\* A return row.
LEMMA ReturnRows ==
  ASSUME IInv, NEW ra, NEW sp, ReturnRow(ra, sp), Chain(frames', stack', cur')
  PROVE  Rows
<1>1. frames \in Seq(FrameRec) /\ << >> \in Seq(FrameRec)
      /\ \A i \in 1 .. Len(frames) : frames[i].fn \in Watched
  BY DEF IInv, TypeOK, ChainInv
<1>2. /\ matched' \in BOOLEAN /\ report' = << >>
      /\ frames' = frames \/ (frames # << >> /\ frames' = Pop(frames))
  BY DEF ReturnRow, Pops
<1>3. frames' \in Seq(FrameRec) /\ \A i \in 1 .. Len(frames') : frames'[i].fn \in Watched
  <2>1. CASE frames' = frames BY <1>1, <2>1
  <2>2. CASE frames # << >> /\ frames' = Pop(frames)
    <3>1. /\ Len(frames) \in Nat \ {0} /\ Len(frames') = Len(frames) - 1
          /\ frames' \in Seq(FrameRec)
          /\ \A d \in 1 .. Len(frames) - 1 : frames'[d] = frames[d]
      BY <1>1, <2>2, PopFacts
    <3>2. QED BY <1>1, <3>1
  <2>3. QED BY <1>2, <2>1, <2>2
<1>4. QED BY <1>1, <1>2, <1>3 DEF Rows, ChainInv

\* A return row of the innermost frame, in the words of Returns.
LEMMA RowReturns ==
  ASSUME NEW r, ReturnRow(r.ra, r.sp) PROVE Returns(frames, r, frames')
BY DEF ReturnRow, Pops, Returns

\* So does a return, whether or not the function is watched.
LEMMA ReturnKeeps == ASSUME IInv, Return PROVE IInv'
<1> DEFINE s == stack[cur]
<1>1. /\ stack \in Stacks /\ cur \in Task /\ s \in Seq(FrameRec)
      /\ frames \in Seq(FrameRec) /\ \A t \in Task : Shaped(stack[t], t)
  BY DEF IInv, TypeOK, Stacks, StackInv
<1>2. /\ Depth > 0 /\ ReturnRow(Top(s).ra, Top(s).sp)
      /\ stack' = [stack EXCEPT ![cur] = Pop(s)] /\ cur' = cur
      /\ mode' = IF Depth = 1 THEN "user" ELSE "kernel"
  BY DEF Return
<1>3. s # << >> /\ Len(s) = Depth BY <1>1, <1>2 DEF Depth
<1>4. Pop(s) \in Seq(FrameRec) /\ Len(Pop(s)) = Len(s) - 1 BY <1>1, <1>3, PopFacts
<1>5. /\ stack' \in Stacks /\ stack'[cur] = Pop(s)
      /\ \A u \in Task \ {cur} : stack'[u] = stack[u]
  BY <1>1, <1>2, <1>4 DEF Stacks
<1>6. \A t \in Task : Shaped(stack'[t], t)
  <2>1. Shaped(Pop(s), cur) BY <1>1, <1>3, ShapePop
  <2>2. QED BY <1>1, <1>5, <2>1
<1>7. Depth = 1 => stack'[cur] = << >> BY <1>3, <1>4, <1>5
<1>8. StackInv' BY <1>2, <1>6, <1>7 DEF StackInv
<1>9. Returns(frames, Top(s), frames') BY <1>2, RowReturns
<1>10. Chain(frames', stack', cur')
  BY <1>1, <1>2, <1>3, <1>9, ReturnChain DEF IInv, ChainInv
<1>11. Rows BY <1>2, <1>10, ReturnRows
<1>12. TypeOK' BY <1>1, <1>2, <1>5, <1>11 DEF TypeOK, Rows
<1>13. QED BY <1>8, <1>11, <1>12 DEF IInv, Rows

\* A row that says nothing, while the list stays right.
LEMMA NoRowRows ==
  ASSUME IInv, NoRow, Chain(frames, stack', cur') PROVE Rows
<1>1. frames' = frames /\ report' = << >> /\ matched' = FALSE BY DEF NoRow, Quiet
<1>2. << >> \in Seq(FrameRec) OBVIOUS
<1>3. QED BY <1>1, <1>2 DEF Rows, ChainInv, IInv, TypeOK

\* So does sret: the stack is dropped, the list is not, and from then on it is out of date.
LEMMA LeaveKernelKeeps == ASSUME IInv, LeaveKernel PROVE IInv'
<1>1. stack \in Stacks /\ cur \in Task /\ << >> \in Seq(FrameRec) BY DEF IInv, TypeOK
<1>2. /\ stack' = [stack EXCEPT ![cur] = << >>] /\ mode' = "user" /\ cur' = cur /\ NoRow
  BY DEF LeaveKernel
<1>3. /\ stack' \in Stacks /\ stack'[cur] = << >>
      /\ \A u \in Task \ {cur} : stack'[u] = stack[u]
  BY <1>1, <1>2 DEF Stacks
<1>4. Shaped(<< >>, cur)
  <2>1. Len(<< >>) <= MaxDepth BY CallStackAssumption DEF CallStackAssumption
  <2>2. QED BY <2>1 DEF Shaped
<1>5. StackInv' BY <1>2, <1>3, <1>4 DEF StackInv, IInv
<1>6. Unseen(<< >>) BY DEF Unseen
<1>7. Chain(frames, stack', cur') BY <1>2, <1>3, <1>6 DEF Chain
<1>8. Rows BY <1>2, <1>7, NoRowRows
<1>9. TypeOK' BY <1>1, <1>2, <1>3, <1>8 DEF TypeOK, Rows
<1>10. QED BY <1>5, <1>8, <1>9 DEF IInv, Rows

\* So does the entry of the kernel by a system call.
LEMMA SyscallKeeps == ASSUME IInv, Syscall PROVE IInv'
<1>1. mode = "user" /\ mode' = "vector" /\ stack' = stack /\ cur' = cur /\ NoRow BY DEF Syscall
<1>2. Len(stack'[cur']) < MaxDepth
  BY <1>1, CallStackAssumption DEF IInv, StackInv, CallStackAssumption
<1>3. StackInv' BY <1>1, <1>2 DEF StackInv, IInv, Depth
<1>4. Rows BY <1>1, NoRowRows DEF IInv, ChainInv
<1>5. TypeOK' BY <1>1, <1>4 DEF TypeOK, Rows, IInv
<1>6. QED BY <1>3, <1>4, <1>5 DEF IInv, Rows

\* So does a trap, whatever runs.
LEMMA TrapKeeps == ASSUME IInv, Trap PROVE IInv'
<1>1. Depth < MaxDepth /\ mode' = "vector" /\ stack' = stack /\ cur' = cur /\ BreakChain BY DEF Trap
<1>2. StackInv' BY <1>1 DEF StackInv, IInv, Depth
<1>3. Rows BY <1>1, BreakRows
<1>4. TypeOK' BY <1>1, <1>3 DEF TypeOK, Rows, IInv
<1>5. QED BY <1>2, <1>3, <1>4 DEF IInv, Rows

\* Where the list stands when the switch function runs: it ends with the frame
\* of the switch function, of this task or of one that left earlier.
LEMMA Departing ==
  ASSUME IInv, mode = "kernel", Running = SwitchFn, NEW t \in Task, t # cur
  PROVE  /\ Chain(frames, stack, t)
         /\ stack[t] = << >> => ~Pops(Vector, StackBase(t))
<1>1. /\ stack \in Stacks /\ cur \in Task /\ stack[cur] \in Seq(FrameRec)
      /\ frames \in Seq(FrameRec) /\ \A u \in Task : Shaped(stack[u], u)
  BY DEF IInv, TypeOK, Stacks, StackInv
<1>2. stack[cur] # << >> /\ Top(stack[cur]).fn = SwitchFn
  BY CallStackAssumption DEF Running, CallStackAssumption
<1>3. Top(stack[cur]).fn \in Seen BY <1>2 DEF Seen
<1>4. ~Unseen(stack[cur])
  <2>1. Len(stack[cur]) \in 1 .. Len(stack[cur]) /\ Top(stack[cur]) = stack[cur][Len(stack[cur])]
    BY <1>1, <1>2, PopFacts
  <2>2. QED BY <1>3, <2>1 DEF Unseen
<1>5. CASE frames = << >> BY <1>5 DEF Chain, Pops
<1>6. CASE frames # << >>
  <2>1. PICK u \in Task : Left(frames, stack, u)
    <3>1. CASE Ours(frames, stack, cur)
      <4>1. PICK b \in Nat : Part(frames, stack[cur], b) BY <3>1 DEF Ours
      <4>2. b + Len(frames) = Len(stack[cur]) /\ Top(frames) = Top(stack[cur])
        BY <1>1, <1>3, <1>6, <4>1, SeenIsLast
      <4>3. QED BY <1>1, <1>2, <4>1, <4>2 DEF Left
    <3>2. CASE \E u \in Task \ {cur} : Left(frames, stack, u) BY <3>2
    <3>3. QED BY <1>4, <1>6, <3>1, <3>2 DEF IInv, ChainInv, Chain
  <2>2. PICK b \in Nat : Part(frames, stack[u], b) BY <2>1 DEF Left
  <2>3. Chain(frames, stack, t)
    <3>1. CASE u = t BY <2>2, <3>1 DEF Chain, Ours
    <3>2. CASE u # t BY <2>1, <3>2 DEF Chain
    <3>3. QED BY <3>1, <3>2
  <2>4. ASSUME stack[t] = << >> PROVE ~Pops(Vector, StackBase(t))
    <3>1. stack[u] # << >>
      <4>1. Len(frames) \in Nat \ {0} BY <1>1, <1>6, PopFacts
      <4>2. Len(stack[u]) # 0 /\ stack[u] \in Seq(FrameRec) BY <1>1, <2>2, <4>1 DEF Part, Stacks
      <4>3. QED BY <4>2
    <3>2. t # u BY <2>4, <3>1
    <3>3. 0 \in 0 .. MaxDepth /\ SpAt(t, 0) = StackBase(t)
      BY CallStackAssumption DEF CallStackAssumption, SpAt, StackBase
    <3>4. Top(frames).sp # SpAt(t, 0) BY <1>1, <1>6, <2>2, <3>2, <3>3, Elsewhere
    <3>5. QED BY <3>3, <3>4 DEF Pops
  <2>5. QED BY <2>3, <2>4
<1>7. QED BY <1>5, <1>6

\* So does the switch: the list stays that of the task that left.
LEMMA SwitchKeeps == ASSUME IInv, NEW t \in Task, SwitchTo(t) PROVE IInv'
<1>1. /\ stack \in Stacks /\ stack[t] \in Seq(FrameRec)
      /\ frames \in Seq(FrameRec) /\ \A u \in Task : Shaped(stack[u], u)
  BY DEF IInv, TypeOK, Stacks, StackInv
<1>2. mode = "kernel" /\ Running = SwitchFn /\ t # cur /\ cur' = t BY DEF SwitchTo
<1>3. Chain(frames, stack, t) /\ (stack[t] = << >> => ~Pops(Vector, StackBase(t)))
  BY <1>2, Departing
<1>4. CASE stack[t] = << >>
  <2>1. ReturnRow(Vector, StackBase(t)) /\ mode' = "user" /\ stack' = stack BY <1>4 DEF SwitchTo
  <2>2. frames' = frames BY <1>3, <1>4, <2>1 DEF ReturnRow
  <2>3. Rows BY <1>2, <1>3, <2>1, <2>2, ReturnRows
  <2>4. StackInv' BY <1>1, <1>2, <1>4, <2>1 DEF StackInv
  <2>5. TypeOK' BY <1>1, <1>2, <2>1, <2>3 DEF TypeOK, Rows
  <2>6. QED BY <2>3, <2>4, <2>5 DEF IInv, Rows
<1>5. CASE stack[t] # << >>
  <2>1. /\ ReturnRow(Top(stack[t]).ra, Top(stack[t]).sp) /\ mode' = mode
        /\ stack' = [stack EXCEPT ![t] = Pop(stack[t])]
    BY <1>5 DEF SwitchTo
  <2>2. Pop(stack[t]) \in Seq(FrameRec) BY <1>1, <1>5, PopFacts
  <2>3. /\ stack' \in Stacks /\ stack'[t] = Pop(stack[t])
        /\ \A u \in Task \ {t} : stack'[u] = stack[u]
    BY <1>1, <2>1, <2>2 DEF Stacks
  <2>4. Shaped(Pop(stack[t]), t) BY <1>1, <1>5, ShapePop
  <2>5. StackInv' BY <1>1, <1>2, <2>1, <2>3, <2>4 DEF StackInv
  <2>6. Returns(frames, Top(stack[t]), frames') BY <2>1, RowReturns
  <2>7. Chain(frames', stack', cur') BY <1>1, <1>2, <1>3, <1>5, <2>1, <2>6, ReturnChain
  <2>8. Rows BY <2>1, <2>7, ReturnRows
  <2>9. TypeOK' BY <1>2, <2>1, <2>3, <2>8 DEF TypeOK, Rows, IInv
  <2>10. QED BY <2>5, <2>8, <2>9 DEF IInv, Rows
<1>6. QED BY <1>4, <1>5

\* The program starts in the invariant.
LEMMA InitInv == Init => IInv
<1> SUFFICES ASSUME Init PROVE IInv OBVIOUS
<1>1. << >> \in Seq(FrameRec) OBVIOUS
<1>2. TypeOK BY <1>1 DEF Init, TypeOK, Stacks
<1>3. Shaped(<< >>, 0) /\ \A t : Shaped(<< >>, t)
  <2>1. Len(<< >>) <= MaxDepth BY CallStackAssumption DEF CallStackAssumption
  <2>2. QED BY <2>1 DEF Shaped
<1>4. StackInv BY <1>3 DEF Init, StackInv
<1>5. ChainInv BY DEF Init, ChainInv, Chain
<1>6. QED BY <1>2, <1>4, <1>5 DEF IInv

\* Every step keeps it.
LEMMA NextInv == ASSUME Observable, IInv, [Next]_vars PROVE IInv'
<1>1. ASSUME NEW g \in Fn, Call(g) \/ TailCall(g) \/ Handler(g) PROVE IInv'
  BY <1>1, CallKeeps, TailCallKeeps, HandlerKeeps
<1>2. CASE Return BY <1>2, ReturnKeeps
<1>3. CASE LeaveKernel BY <1>3, LeaveKernelKeeps
<1>4. CASE Syscall BY <1>4, SyscallKeeps
<1>5. CASE Trap BY <1>5, TrapKeeps
<1>6. CASE EnterSwitch BY <1>6, EnterSwitchKeeps
<1>7. ASSUME NEW t \in Task, SwitchTo(t) PROVE IInv' BY <1>7, SwitchKeeps
<1>8. CASE UNCHANGED vars
  BY <1>8 DEF vars, IInv, TypeOK, StackInv, ChainInv, Depth
<1>9. QED BY <1>1, <1>2, <1>3, <1>4, <1>5, <1>6, <1>7, <1>8 DEF Next

---------------------------------------------------------------------------
(* Call stacks: the theorems.                                               *)

\* Types of the state, the shape of the stacks and where the list stands.
THEOREM StacksInvariant == ASSUME Observable PROVE Spec => []IInv
BY InitInv, NextInv, PTL DEF Spec

\* A reported path is the present list, and the list is part of the stack.
LEMMA PathsFollow == IInv => PathsAreReal
<1> SUFFICES ASSUME IInv, NEW i \in DOMAIN report PROVE IsSuspended(report[i], cur)
  BY DEF PathsAreReal
<1>1. /\ report \in Seq(FrameRec) /\ stack[cur] \in Seq(FrameRec) /\ cur \in Task
      /\ Shaped(stack[cur], cur)
  BY DEF IInv, TypeOK, Stacks, StackInv
<1>2. i \in 1 .. Len(report) /\ report # << >> BY <1>1
<1>3. PICK b \in Nat : Part(report, stack[cur], b) BY <1>2 DEF IInv, ChainInv, Ours
<1>4. report[i] = stack[cur][b + i] /\ b + i \in 1 .. Len(stack[cur])
  BY <1>1, <1>2, <1>3 DEF Part
<1>5. report[i].sp = SpAt(cur, b + i - 1) BY <1>1, <1>4 DEF Shaped
<1>6. StackBase(cur) - report[i].sp + 1 = b + i
  <2>1. StackBase(cur) \in Int /\ b + i \in Int
    BY <1>1, <1>2, CallStackAssumption DEF CallStackAssumption, StackBase
  <2>2. report[i].sp = StackBase(cur) - (b + i - 1) BY <1>5 DEF SpAt
  <2>3. ASSUME NEW x \in Int, NEW y \in Int, NEW z, z = x - (y - 1) PROVE x - z + 1 = y
    BY <2>3
  <2>4. i \in Int BY <1>1, <1>2
  <2>5. (b + i) - 1 = b + i - 1 BY <2>4
  <2>6. QED BY <2>1, <2>2, <2>3, <2>5
<1>7. b + i \in DOMAIN stack[cur] BY <1>1, <1>4
<1>8. QED BY <1>4, <1>6, <1>7 DEF IsSuspended

\* A path is never a guess (callstack.py:12).
THEOREM PathsReal == ASSUME Observable PROVE Spec => []PathsAreReal
BY StacksInvariant, PathsFollow, PTL

\* What a step that matches a return does.
MatchEnds ==
  matched' => \E t \in Task :
    /\ t = cur' /\ stack[t] # << >>
    /\ Top(frames).sp = Top(stack[t]).sp /\ Top(frames).ra = Top(stack[t]).ra
    /\ stack'[t] = Pop(stack[t])

\* A return that is matched removes the frame it comes from.
LEMMA MatchStep == ASSUME Observable, IInv, [Next]_vars PROVE [MatchEnds]_vars
<1> SUFFICES ASSUME Next, matched' PROVE MatchEnds BY DEF MatchEnds
<1>1. stack \in Stacks /\ cur \in Task BY DEF IInv, TypeOK
<1>2. \A f : Entered(f) => ~matched'
  BY DEF Entered, EntryRow, ProcessEntry, BreakChain, NoRow, Quiet
<1>3. (BreakChain \/ NoRow) => ~matched' BY DEF BreakChain, NoRow, Quiet
<1>4. \A g \in Fn : ~(Call(g) \/ TailCall(g) \/ Handler(g))
  BY <1>2 DEF Call, TailCall, Handler
<1>5. ~(LeaveKernel \/ Syscall \/ Trap \/ EnterSwitch)
  BY <1>2, <1>3 DEF LeaveKernel, Syscall, Trap, EnterSwitch
<1>6. CASE Return
  <2>1. stack[cur] # << >> BY <1>6 DEF Return, Depth
  <2>2. /\ ReturnRow(Top(stack[cur]).ra, Top(stack[cur]).sp) /\ cur' = cur
        /\ stack' = [stack EXCEPT ![cur] = Pop(stack[cur])]
    BY <1>6 DEF Return
  <2>3. stack'[cur] = Pop(stack[cur]) BY <1>1, <2>2 DEF Stacks
  <2>4. QED BY <1>1, <2>1, <2>2, <2>3 DEF MatchEnds, ReturnRow, Pops
<1>7. ASSUME NEW t \in Task, SwitchTo(t) PROVE MatchEnds
  <2>1. stack[t] # << >>
    BY <1>7, Departing DEF SwitchTo, ReturnRow
  <2>2. /\ ReturnRow(Top(stack[t]).ra, Top(stack[t]).sp) /\ cur' = t
        /\ stack' = [stack EXCEPT ![t] = Pop(stack[t])]
    BY <1>7, <2>1 DEF SwitchTo
  <2>3. stack'[t] = Pop(stack[t]) BY <1>1, <2>2 DEF Stacks
  <2>4. QED BY <2>1, <2>2, <2>3 DEF MatchEnds, ReturnRow, Pops
<1>8. QED BY <1>4, <1>5, <1>6, <1>7 DEF Next

\* A matched return ends the frame it removes.
THEOREM MatchesReal == ASSUME Observable PROVE Spec => MatchesAreReal
BY StacksInvariant, MatchStep, PTL DEF Spec, MatchesAreReal, MatchEnds

---------------------------------------------------------------------------
(* The pages of the guest: the invariant.                                   *)

\* Types.
WordRec == [t : {"zero", "link", "one", "five", "node", "user", "kern"}, to : Page \cup {NoPage}]
ProcRec == [state : {"unused", "used", "zombie"}, pid : Nat, root : Page \cup {NoPage}]
JobRec == [do : {"nothing", "alloc", "free"}, page : Page \cup {NoPage},
           stage : {"done", "taken", "five", "zero", "one", "link", "head"},
           use : {"root", "node", "user", "kern", "leaf"}, va : Entry \X Entry]

PagesTypeOK ==
  /\ mem \in [Page -> [Entry -> WordRec]] /\ head \in Page \cup {NoPage}
  /\ procs \in [Procs -> ProcRec] /\ job \in [Procs -> JobRec]
  /\ freeing \in Procs \cup {0} /\ births \in Nat /\ unseen \subseteq Page /\ free \subseteq Page
  /\ space = [t \in Procs |-> space[t]]

\* What a page is used for: a page has one use.
Use(k, t, v) == [k |-> k, t |-> t, v |-> v]

Root(t) == procs[t].root
Doing(t, what) == job[t].do = what

\* The root of t, its table for e, is being freed and says nothing any more.
Gone(t) == Doing(t, "free") /\ job[t].use = "root"
GoneAt(t, e) == Doing(t, "free") /\ job[t].use = "node" /\ job[t].va[1] = e

\* The page table of t as the kernel sees it: its tables and their entries.
Tbl(t, e) ==
  IF Root(t) = NoPage \/ Gone(t) \/ mem[Root(t)][e].t # "node" THEN NoPage ELSE mem[Root(t)][e].to
Pt(t, e, f) == IF Tbl(t, e) = NoPage \/ GoneAt(t, e) THEN Zero ELSE mem[Tbl(t, e)][f]

RootShape(t) ==
  Root(t) # NoPage /\ ~Gone(t) =>
    \A e \in Entry : \/ mem[Root(t)][e].t = "zero"
                     \/ mem[Root(t)][e].t = "node" /\ mem[Root(t)][e].to \in Page

LeafShape(t) ==
  /\ DOMAIN space[t] \subseteq VAddr
  /\ \A e, f \in Entry :
       LET w == Pt(t, e, f)
       IN /\ w.t \in {"zero", "user", "kern"}
          /\ w.t # "zero" => w.to \in Page /\ <<e, f>> \in VAddr
          /\ w.t = "user" <=> <<e, f>> \in DOMAIN space[t]
          /\ w.t = "user" => space[t][<<e, f>>] = w.to

ProcShape(t) ==
  /\ procs[t].state = "unused" => Root(t) = NoPage /\ Doing(t, "nothing") /\ procs[t].pid = 0
  /\ procs[t].state # "unused" => procs[t].pid \in 1 .. births

\* Pids tell the processes apart.
Pids == \A t, u \in Procs : procs[t].pid = procs[u].pid => procs[t].pid = 0 \/ t = u

Allocating(t) ==
  LET j == job[t]
  IN Doing(t, "alloc") =>
       /\ procs[t].state = "used" /\ j.page \in Page
       /\ j.stage \in {"taken", "five", "zero"} /\ j.use \in {"root", "node", "user", "kern"}
       /\ j.stage = "zero" => mem[j.page] = Filled("zero")
       /\ j.use = "root" => Root(t) = NoPage
       /\ j.use # "root" => Root(t) # NoPage /\ j.va \in VAddr
       /\ j.use = "node" => Tbl(t, j.va[1]) = NoPage
       /\ j.use \in {"user", "kern"} => Tbl(t, j.va[1]) # NoPage /\ Pt(t, j.va[1], j.va[2]).t = "zero"

Unshared(t, p) == \A u \in Procs \ {t} : \A va \in DOMAIN space[u] : space[u][va] # p

Freeing(t) ==
  LET j == job[t]  w == Pt(t, j.va[1], j.va[2])
  IN Doing(t, "free") =>
       /\ procs[t].state = "zombie" /\ freeing = t /\ Root(t) # NoPage /\ j.page \in Page
       /\ j.stage \in {"one", "link", "head"} /\ j.use \in {"leaf", "node", "root"}
       /\ j.use # "root" => j.va \in VAddr
       /\ j.use = "leaf" => w.t \in {"user", "kern"} /\ w.to = j.page
       /\ j.use = "node" => Tbl(t, j.va[1]) = j.page
       /\ j.use = "root" => j.page = Root(t)
       /\ j.use = "leaf" /\ (j.stage # "head" \/ j.page \in free) => Unshared(t, j.page)
       /\ j.stage = "head" => j.page \in free \/ (j.use = "leaf" /\ w.t = "user")
       /\ j.stage = "one" => mem[j.page] = Filled("one")
       /\ j.stage = "link" => mem[j.page][0] = Link(head)
       /\ j.stage # "head" \/ j.use # "leaf" =>
            \A e \in Entry : mem[j.page][e].t = "one" \/ (e = 0 /\ mem[j.page][e].t = "link")

ProcInv(t) ==
  /\ RootShape(t) /\ LeafShape(t) /\ ProcShape(t) /\ Allocating(t) /\ Freeing(t)

Owns(own, t) ==
  /\ Root(t) # NoPage => own[Root(t)] = Use("root", t, 0)
  /\ \A e \in Entry : Tbl(t, e) # NoPage => own[Tbl(t, e)] = Use("node", t, e)
  /\ \A e, f \in Entry :
       /\ Pt(t, e, f).t = "kern" => own[Pt(t, e, f).to] = Use("kern", t, <<e, f>>)
       /\ Pt(t, e, f).t = "user" => own[Pt(t, e, f).to] = Use("user", 0, <<e, f>>)
  /\ Doing(t, "alloc") => own[job[t].page] = Use("alloc", t, 0)

FreeUse == Use("free", 0, 0)
FreeOwn(own) ==
  \A p \in free : \/ own[p] = FreeUse
                  \/ \E t \in Procs : Doing(t, "free") /\ job[t].stage = "head" /\ job[t].page = p

\* The free list, counted from its end.
ListOf(n, l) ==
  /\ n \in Nat /\ l \in [1 .. n -> Page]
  /\ \A i, j \in 1 .. n : l[i] = l[j] => i = j
  /\ free = {l[i] : i \in 1 .. n}
  /\ head = IF n = 0 THEN NoPage ELSE l[n]
  /\ \A i \in 1 .. n : mem[l[i]][0] = Link(IF i = 1 THEN NoPage ELSE l[i - 1])

OwnInv(own) == FreeOwn(own) /\ \A t \in Procs : Owns(own, t)

PagesInv ==
  /\ PagesTypeOK /\ Pids /\ \A t \in Procs : ProcInv(t)
  /\ \E own : OwnInv(own)
  /\ \E n, l : ListOf(n, l)

---------------------------------------------------------------------------
(* What a step of one process leaves to the others.                         *)

\* Slots are numbered from 1.
LEMMA SlotsFromOne == Procs \subseteq Nat \ {0} /\ 0 \notin Procs
<1>1. Cardinality(Procs) \in Nat
  BY PagesAssumption, FS_CardinalityType DEF PagesAssumption
<1> QED BY <1>1, PagesAssumption DEF PagesAssumption

\* A step that leaves the tables of a process alone leaves its page table alone.
LEMMA SameViews ==
  ASSUME PagesTypeOK, PagesTypeOK', NEW t \in Procs, Root(t)' = Root(t), Gone(t)' <=> Gone(t),
         \A e \in Entry : GoneAt(t, e)' <=> GoneAt(t, e), RootShape(t),
         Root(t) # NoPage /\ ~Gone(t) => mem'[Root(t)] = mem[Root(t)],
         \A e \in Entry : Tbl(t, e) # NoPage /\ ~GoneAt(t, e) => mem'[Tbl(t, e)] = mem[Tbl(t, e)]
  PROVE  /\ RootShape(t)'
         /\ \A e \in Entry : Tbl(t, e)' = Tbl(t, e)
         /\ \A e, f \in Entry : Pt(t, e, f)' = Pt(t, e, f)
<1>1. \A e \in Entry : Tbl(t, e)' = Tbl(t, e)
  BY DEF Tbl
<1>2. \A e, f \in Entry : Pt(t, e, f)' = Pt(t, e, f)
  <2> SUFFICES ASSUME NEW e \in Entry, NEW f \in Entry PROVE Pt(t, e, f)' = Pt(t, e, f)
    OBVIOUS
  <2>1. Tbl(t, e)' = Tbl(t, e) /\ (GoneAt(t, e)' <=> GoneAt(t, e))
    BY <1>1
  <2> QED BY <2>1 DEF Pt
<1>3. RootShape(t)'
  BY DEF RootShape
<1> QED BY <1>1, <1>2, <1>3

\* What the page table of a process says of its pages.
LEMMA ViewTypes ==
  ASSUME PagesTypeOK, NEW t \in Procs, RootShape(t), LeafShape(t)
  PROVE  /\ Root(t) \in Page \cup {NoPage}
         /\ \A e \in Entry : Tbl(t, e) \in Page \cup {NoPage}
         /\ \A e, f \in Entry : Pt(t, e, f).t \in {"user", "kern"} => Pt(t, e, f).to \in Page
         /\ \A va \in DOMAIN space[t] : space[t][va] \in Page /\ va \in VAddr
<1>1. Root(t) \in Page \cup {NoPage}
  BY DEF PagesTypeOK, ProcRec, Root
<1>2. \A e \in Entry : Tbl(t, e) \in Page \cup {NoPage}
  BY DEF Tbl, RootShape
<1>3. \A e, f \in Entry : Pt(t, e, f).t \in {"user", "kern"} => Pt(t, e, f).to \in Page
  BY DEF LeafShape
<1>4. \A va \in DOMAIN space[t] : space[t][va] \in Page /\ va \in VAddr
  <2> SUFFICES ASSUME NEW va \in DOMAIN space[t] PROVE space[t][va] \in Page /\ va \in VAddr
    OBVIOUS
  <2>1. va \in VAddr
    BY DEF LeafShape
  <2>2. PICK e \in Entry, f \in Entry : va = <<e, f>>
    <3>1. va \in Entry \X Entry
      BY <2>1, PagesAssumption DEF PagesAssumption
    <3> QED BY <3>1
  <2>3. Pt(t, e, f).t = "user" /\ space[t][<<e, f>>] = Pt(t, e, f).to
    BY <2>2 DEF LeafShape
  <2> QED BY <1>3, <2>1, <2>2, <2>3
<1> QED BY <1>1, <1>2, <1>3, <1>4

\* Nobody but the process that frees has a page to free.
FreesAlone(s) == \A t \in Procs \ {s} : ~Doing(t, "free")

\* A step of another process leaves a process as it is, when it keeps off the
\* pages that are used for it.
LEMMA OthersKeep ==
  ASSUME PagesTypeOK, PagesTypeOK', NEW t \in Procs, ProcInv(t), ~Doing(t, "free"),
         procs'[t] = procs[t], job'[t] = job[t], space'[t] = space[t], births <= births',
         NEW own, NEW own2, Owns(own, t),
         \A p \in Page : mem'[p] # mem[p] => own[p].t # t,
         \A p \in Page : own2[p] # own[p] =>
            own[p].t # t /\ \A va \in DOMAIN space[t] : space[t][va] # p
  PROVE  ProcInv(t)' /\ Owns(own2, t)'
<1>0. RootShape(t) /\ LeafShape(t) /\ ProcShape(t) /\ Allocating(t)
  BY DEF ProcInv
<1>1. Root(t)' = Root(t) /\ Gone(t)' = Gone(t) /\ \A e \in Entry : GoneAt(t, e)' = GoneAt(t, e)
  BY DEF Root, Gone, GoneAt, Doing
<1>2. /\ Root(t) # NoPage =>
           Root(t) \in Page /\ mem'[Root(t)] = mem[Root(t)] /\ own2[Root(t)] = own[Root(t)]
      /\ \A e \in Entry : Tbl(t, e) # NoPage =>
           /\ Tbl(t, e) \in Page /\ mem'[Tbl(t, e)] = mem[Tbl(t, e)]
           /\ own2[Tbl(t, e)] = own[Tbl(t, e)]
  <2>1. Root(t) # NoPage => Root(t) \in Page /\ own[Root(t)].t = t
    BY <1>0, ViewTypes DEF Owns, Use
  <2>2. \A e \in Entry : Tbl(t, e) # NoPage => Tbl(t, e) \in Page /\ own[Tbl(t, e)].t = t
    <3> SUFFICES ASSUME NEW e \in Entry, Tbl(t, e) # NoPage
                 PROVE  Tbl(t, e) \in Page /\ own[Tbl(t, e)].t = t
      OBVIOUS
    <3>1. Tbl(t, e) \in Page
      BY <1>0, ViewTypes
    <3>2. own[Tbl(t, e)] = Use("node", t, e)
      BY DEF Owns
    <3> QED BY <3>1, <3>2 DEF Use
  <2> QED BY <2>1, <2>2
<1>3. /\ RootShape(t)'
      /\ \A e \in Entry : Tbl(t, e)' = Tbl(t, e)
      /\ \A e, f \in Entry : Pt(t, e, f)' = Pt(t, e, f)
  BY <1>0, <1>1, <1>2, SameViews
<1>4. Doing(t, "alloc") =>
        job[t].page \in Page /\ mem'[job[t].page] = mem[job[t].page]
          /\ own2[job[t].page] = own[job[t].page]
  BY <1>0 DEF Allocating, Owns, Use
<1>5. LeafShape(t)'
  BY <1>0, <1>3 DEF LeafShape
<1>6. ProcShape(t)'
  BY <1>0, <1>1 DEF ProcShape, Doing, PagesTypeOK, ProcRec
<1>7. Allocating(t)'
  <2> SUFFICES ASSUME Doing(t, "alloc")' PROVE Allocating(t)'
    BY DEF Allocating
  <2>1. Doing(t, "alloc")
    BY DEF Doing
  <2>2. job[t].use # "root" => job[t].va \in VAddr /\ job[t].va[1] \in Entry /\ job[t].va[2] \in Entry
    BY <1>0, <2>1, PagesAssumption DEF Allocating, PagesAssumption
  <2>3. /\ job[t].use # "root" =>
             /\ Tbl(t, job[t].va[1])' = Tbl(t, job[t].va[1])
             /\ Pt(t, job[t].va[1], job[t].va[2])' = Pt(t, job[t].va[1], job[t].va[2])
    BY <1>3, <2>2
  <2> QED BY <1>0, <1>1, <1>4, <2>1, <2>3 DEF Allocating
<1>8. Freeing(t)'
  BY DEF Freeing, Doing
<1>9. Owns(own2, t)'
  <2>1. (Root(t) # NoPage => own2[Root(t)] = Use("root", t, 0))'
    BY <1>1, <1>2 DEF Owns
  <2>2. (\A e \in Entry : Tbl(t, e) # NoPage => own2[Tbl(t, e)] = Use("node", t, e))'
    BY <1>2, <1>3 DEF Owns
  <2>3. (Doing(t, "alloc") => own2[job[t].page] = Use("alloc", t, 0))'
    BY <1>4 DEF Owns, Doing
  <2>4. (\A e, f \in Entry :
           /\ Pt(t, e, f).t = "kern" => own2[Pt(t, e, f).to] = Use("kern", t, <<e, f>>)
           /\ Pt(t, e, f).t = "user" => own2[Pt(t, e, f).to] = Use("user", 0, <<e, f>>))'
    <3> SUFFICES ASSUME NEW e \in Entry, NEW f \in Entry
        PROVE (/\ Pt(t, e, f).t = "kern" => own2[Pt(t, e, f).to] = Use("kern", t, <<e, f>>)
               /\ Pt(t, e, f).t = "user" => own2[Pt(t, e, f).to] = Use("user", 0, <<e, f>>))'
      OBVIOUS
    <3> DEFINE w == Pt(t, e, f)
    <3>1. w' = w
      BY <1>3
    <3>2. w.t = "kern" => w.to \in Page /\ own[w.to] = Use("kern", t, <<e, f>>)
      BY <1>0, ViewTypes DEF Owns
    <3>3. w.t = "user" => /\ w.to \in Page /\ own[w.to] = Use("user", 0, <<e, f>>)
                          /\ <<e, f>> \in DOMAIN space[t] /\ space[t][<<e, f>>] = w.to
      BY <1>0, ViewTypes DEF Owns, LeafShape
    <3> HIDE DEF w
    <3>4. w.t = "kern" => own2[w.to] = own[w.to]
      BY <3>2 DEF Use
    <3>5. w.t = "user" => own2[w.to] = own[w.to]
      BY <3>3 DEF Use
    <3> QED BY <3>1, <3>2, <3>3, <3>4, <3>5 DEF w
  <2> QED BY <2>1, <2>2, <2>3, <2>4 DEF Owns
<1> QED BY <1>3, <1>5, <1>6, <1>7, <1>8, <1>9 DEF ProcInv

\* What holds of the processes and of the pages they use.
Good(own) == PagesTypeOK /\ Pids /\ (\A t \in Procs : ProcInv(t)) /\ OwnInv(own)

\* A step of process s: the others keep what they have.
ActsFor(s) ==
  /\ FreesAlone(s) /\ births <= births'
  /\ \A t \in Procs \ {s} : procs'[t] = procs[t] /\ job'[t] = job[t] /\ space'[t] = space[t]

\* A process that runs, or that is in the middle of freeing a page, is the only
\* one to free.
LEMMA Alone ==
  ASSUME \A t \in Procs : ProcInv(t), NEW s \in Procs, freeing \in {0, s} \/ Doing(s, "free")
  PROVE  FreesAlone(s)
<1> SUFFICES ASSUME NEW t \in Procs \ {s}, Doing(t, "free") PROVE FALSE
  BY DEF FreesAlone
<1>1. freeing = t
  BY DEF ProcInv, Freeing
<1>2. Doing(s, "free") => freeing = s
  BY DEF ProcInv, Freeing
<1>3. t # 0
  BY SlotsFromOne
<1> QED BY <1>1, <1>2, <1>3

\* A page that is in use is not on the free list, unless it was just put there.
LEMMA InUse ==
  ASSUME NEW own, FreeOwn(own), NEW p, own[p].k # "free",
         \A t \in Procs : ~(Doing(t, "free") /\ job[t].stage = "head" /\ job[t].page = p)
  PROVE  p \notin free
BY DEF FreeOwn, FreeUse, Use

\* The invariant is kept by a step of s that keeps what s has.
LEMMA StepKeeps ==
  ASSUME NEW own, Good(own), PagesTypeOK', Pids', NEW s \in Procs, ActsFor(s),
         ProcInv(s)', NEW own2, Owns(own2, s)', FreeOwn(own2)',
         \A p \in Page : mem'[p] # mem[p] => own[p].t \in {0, s},
         \A p \in Page : own2[p] # own[p] =>
            own[p].t \in {0, s} /\ \A t \in Procs \ {s} : \A va \in DOMAIN space[t] : space[t][va] # p
  PROVE  Good(own2)'
<1>1. ASSUME NEW t \in Procs \ {s} PROVE ProcInv(t)' /\ Owns(own2, t)'
  <2>1. t # 0
    BY SlotsFromOne
  <2>2. \A p \in Page : mem'[p] # mem[p] => own[p].t # t
    BY <2>1
  <2>3. \A p \in Page : own2[p] # own[p] =>
          own[p].t # t /\ \A va \in DOMAIN space[t] : space[t][va] # p
    BY <2>1
  <2>4. /\ PagesTypeOK /\ ProcInv(t) /\ ~Doing(t, "free") /\ Owns(own, t) /\ births <= births'
        /\ procs'[t] = procs[t] /\ job'[t] = job[t] /\ space'[t] = space[t]
    BY DEF Good, OwnInv, ActsFor, FreesAlone
  <2> QED BY <2>2, <2>3, <2>4, OthersKeep
<1>2. (\A t \in Procs : ProcInv(t) /\ Owns(own2, t))'
  BY <1>1
<1> QED BY <1>2 DEF Good, OwnInv

\* The free list is kept by a step that keeps off it.
LEMMA ListKept ==
  ASSUME NEW n, NEW l, ListOf(n, l), free' = free, head' = head,
         \A p \in free : mem'[p] = mem[p]
  PROVE  ListOf(n, l)'
<1>1. \A i \in 1 .. n : l[i] \in free
  BY DEF ListOf
<1> QED BY <1>1 DEF ListOf

---------------------------------------------------------------------------
(* Processes come and go.                                                   *)

\* The fields of the types, for the steps that need them.
LEMMA Types ==
  ASSUME PagesTypeOK
  PROVE  /\ \A t \in Procs : procs[t] \in ProcRec /\ job[t] \in JobRec
         /\ \A p \in Page : mem[p] \in [Entry -> WordRec]
BY DEF PagesTypeOK

\* A process without a root has no page table.
LEMMA NoRoot ==
  ASSUME NEW t \in Procs, Root(t) = NoPage
  PROVE  /\ RootShape(t)
         /\ \A e \in Entry : Tbl(t, e) = NoPage
         /\ \A e, f \in Entry : Pt(t, e, f) = Zero
BY DEF RootShape, Tbl, Pt

\* A process is created.
LEMMA AllocProcKeeps ==
  ASSUME NEW own, Good(own), NEW s \in Procs, AllocProc(s)
  PROVE  Good(own)' /\ free' = free /\ head' = head /\ mem' = mem
<1>0. /\ PagesTypeOK /\ Pids /\ (\A t \in Procs : ProcInv(t)) /\ FreeOwn(own) /\ Owns(own, s)
      /\ births \in Nat /\ births' = births + 1
  BY DEF Good, OwnInv, AllocProc, PagesTypeOK
<1>1. PagesTypeOK'
  <2>1. births + 1 \in Nat /\ [state |-> "used", pid |-> births + 1, root |-> NoPage] \in ProcRec
    BY <1>0 DEF ProcRec
  <2>2. procs' \in [Procs -> ProcRec]
    BY <1>0, <2>1 DEF AllocProc, PagesTypeOK
  <2> QED BY <1>0, <2>1, <2>2 DEF AllocProc, PagesTypeOK
<1>2. /\ procs[s].state = "unused" /\ Root(s) = NoPage /\ Doing(s, "nothing")
      /\ procs' = [procs EXCEPT ![s] = [state |-> "used", pid |-> births + 1, root |-> NoPage]]
      /\ job' = job /\ mem' = mem /\ space' = space /\ free' = free /\ head' = head
  BY <1>0 DEF AllocProc, ProcInv, ProcShape
<1>3. /\ procs'[s] = [state |-> "used", pid |-> births + 1, root |-> NoPage]
      /\ \A t \in Procs \ {s} : procs'[t] = procs[t]
  BY <1>0, <1>2 DEF PagesTypeOK
<1>4. ActsFor(s)
  BY <1>0, <1>2, <1>3, Alone DEF ActsFor, AllocProc
<1>5. Pids'
  <2>1. \A t \in Procs \ {s} : procs[t].pid = 0 \/ procs[t].pid \in 1 .. births
    BY <1>0 DEF ProcInv, ProcShape
  <2> SUFFICES ASSUME NEW t \in Procs, NEW u \in Procs, procs'[t].pid = procs'[u].pid,
                      procs'[t].pid # 0
               PROVE  t = u
    BY DEF Pids
  <2> QED BY <1>0, <1>3, <2>1 DEF Pids
<1>6. Root(s)' = NoPage /\ Doing(s, "nothing")'
  BY <1>2, <1>3 DEF Root, Doing
<1>7. /\ RootShape(s)' /\ (\A e \in Entry : Tbl(s, e)' = NoPage)
      /\ (\A e, f \in Entry : Pt(s, e, f)' = Zero)
  BY <1>6 DEF RootShape, Tbl, Pt
<1>8. DOMAIN space[s] = {}
  <2>1. \A e, f \in Entry : Pt(s, e, f).t # "user"
    BY <1>2, NoRoot DEF Zero, Word
  <2>2. DOMAIN space[s] \subseteq Entry \X Entry
    BY <1>0, PagesAssumption DEF ProcInv, LeafShape, PagesAssumption
  <2>3. \A e, f \in Entry : <<e, f>> \notin DOMAIN space[s]
    BY <1>0, <2>1 DEF ProcInv, LeafShape
  <2> QED BY <2>2, <2>3
<1>9. ProcInv(s)'
  <2>1. LeafShape(s)'
    BY <1>2, <1>7, <1>8 DEF LeafShape, Zero, Word
  <2>2. ProcShape(s)'
    BY <1>0, <1>3, <1>6 DEF ProcShape
  <2>3. Allocating(s)' /\ Freeing(s)'
    BY <1>6 DEF Allocating, Freeing, Doing
  <2> QED BY <1>7, <2>1, <2>2, <2>3 DEF ProcInv
<1>10. Owns(own, s)'
  BY <1>6, <1>7 DEF Owns, Zero, Word, Doing
<1>11. FreeOwn(own)'
  BY <1>0, <1>2 DEF FreeOwn, Doing
<1>12. Good(own)'
  BY <1>0, <1>1, <1>2, <1>4, <1>5, <1>9, <1>10, <1>11, StepKeeps
<1> QED BY <1>2, <1>12

\* A process exits.
LEMMA ExitKeeps ==
  ASSUME NEW own, Good(own), NEW s \in Procs, Exit(s)
  PROVE  Good(own)' /\ free' = free /\ head' = head /\ mem' = mem
<1>0. /\ PagesTypeOK /\ Pids /\ (\A t \in Procs : ProcInv(t)) /\ FreeOwn(own) /\ Owns(own, s)
      /\ births \in Nat /\ births' = births
  BY DEF Good, OwnInv, Exit, PagesTypeOK
<1>1. /\ procs[s].state = "used" /\ Doing(s, "nothing") /\ freeing = 0
      /\ procs' = [procs EXCEPT ![s].state = "zombie"]
      /\ job' = job /\ mem' = mem /\ space' = space /\ free' = free /\ head' = head
  BY DEF Exit, Ready, Doing
<1>2. /\ procs'[s].state = "zombie" /\ procs'[s].pid = procs[s].pid /\ procs'[s].root = procs[s].root
      /\ procs'[s] \in ProcRec
      /\ \A t \in Procs \ {s} : procs'[t] = procs[t]
  BY <1>0, <1>1, Types DEF PagesTypeOK, ProcRec
<1>3. PagesTypeOK'
  <2>1. procs' \in [Procs -> ProcRec]
    BY <1>0, <1>1, <1>2 DEF PagesTypeOK
  <2> QED BY <1>0, <1>1, <2>1 DEF Exit, PagesTypeOK
<1>4. ActsFor(s)
  BY <1>0, <1>1, <1>2, Alone DEF ActsFor
<1>5. Pids'
  <2>1. \A t \in Procs : procs'[t].pid = procs[t].pid
    BY <1>2
  <2> QED BY <1>0, <2>1 DEF Pids
<1>6. Root(s)' = Root(s) /\ Doing(s, "nothing")' /\ Gone(s)' = Gone(s)
      /\ \A e \in Entry : GoneAt(s, e)' = GoneAt(s, e)
  BY <1>1, <1>2 DEF Root, Doing, Gone, GoneAt
<1>7. /\ RootShape(s)' /\ (\A e \in Entry : Tbl(s, e)' = Tbl(s, e))
      /\ (\A e, f \in Entry : Pt(s, e, f)' = Pt(s, e, f))
  BY <1>0, <1>1, <1>3, <1>6, SameViews DEF ProcInv
<1>8. ProcInv(s)'
  <2>1. LeafShape(s)'
    BY <1>0, <1>1, <1>7 DEF LeafShape, ProcInv
  <2>2. ProcShape(s)'
    BY <1>0, <1>1, <1>2, <1>6 DEF ProcShape, ProcInv
  <2>3. Allocating(s)' /\ Freeing(s)'
    BY <1>6 DEF Allocating, Freeing, Doing
  <2> QED BY <1>7, <2>1, <2>2, <2>3 DEF ProcInv
<1>9. Owns(own, s)'
  BY <1>0, <1>6, <1>7 DEF Owns, Doing
<1>10. FreeOwn(own)'
  BY <1>0, <1>1 DEF FreeOwn, Doing
<1>11. Good(own)'
  BY <1>0, <1>1, <1>3, <1>4, <1>5, <1>8, <1>9, <1>10, StepKeeps
<1> QED BY <1>1, <1>11

\* The slot of a process is given back.
LEMMA FreeSlotKeeps ==
  ASSUME NEW own, Good(own), NEW s \in Procs, FreeSlot(s)
  PROVE  Good(own)' /\ free' = free /\ head' = head /\ mem' = mem
<1>0. /\ PagesTypeOK /\ Pids /\ (\A t \in Procs : ProcInv(t)) /\ FreeOwn(own) /\ Owns(own, s)
      /\ births \in Nat /\ births' = births
  BY DEF Good, OwnInv, FreeSlot, PagesTypeOK
<1>1. /\ Doing(s, "nothing") /\ Root(s) = NoPage /\ freeing \in {0, s} /\ freeing' = 0
      /\ procs' = [procs EXCEPT ![s] = [state |-> "unused", pid |-> 0, root |-> NoPage]]
      /\ job' = job /\ mem' = mem /\ space' = space /\ free' = free /\ head' = head
  BY DEF FreeSlot, Runs, Doing, Root
<1>2. /\ procs'[s] = [state |-> "unused", pid |-> 0, root |-> NoPage] /\ procs'[s] \in ProcRec
      /\ \A t \in Procs \ {s} : procs'[t] = procs[t]
  BY <1>0, <1>1 DEF PagesTypeOK, ProcRec
<1>3. PagesTypeOK'
  <2>1. procs' \in [Procs -> ProcRec]
    BY <1>0, <1>1, <1>2 DEF PagesTypeOK
  <2> QED BY <1>0, <1>1, <2>1 DEF FreeSlot, PagesTypeOK
<1>4. ActsFor(s)
  BY <1>0, <1>1, <1>2, Alone DEF ActsFor
<1>5. Pids'
  BY <1>0, <1>2 DEF Pids
<1>6. Root(s)' = NoPage /\ Doing(s, "nothing")'
  BY <1>1, <1>2 DEF Root, Doing
<1>7. /\ RootShape(s)' /\ (\A e \in Entry : Tbl(s, e)' = NoPage)
      /\ (\A e, f \in Entry : Pt(s, e, f)' = Zero)
  BY <1>6 DEF RootShape, Tbl, Pt
<1>8. \A e, f \in Entry : Pt(s, e, f) = Zero
  BY <1>1, NoRoot
<1>9. ProcInv(s)'
  <2>1. LeafShape(s)'
    BY <1>0, <1>1, <1>7, <1>8 DEF LeafShape, ProcInv
  <2>2. ProcShape(s)'
    BY <1>0, <1>2, <1>6 DEF ProcShape
  <2>3. Allocating(s)' /\ Freeing(s)'
    BY <1>6 DEF Allocating, Freeing, Doing
  <2> QED BY <1>7, <2>1, <2>2, <2>3 DEF ProcInv
<1>10. Owns(own, s)'
  BY <1>6, <1>7 DEF Owns, Zero, Word, Doing
<1>11. FreeOwn(own)'
  BY <1>0, <1>1 DEF FreeOwn, Doing
<1>12. Good(own)'
  BY <1>0, <1>1, <1>3, <1>4, <1>5, <1>9, <1>10, <1>11, StepKeeps
<1> QED BY <1>1, <1>12

---------------------------------------------------------------------------
(* kalloc fills its page.                                                   *)

\* A page of s that is filled: the pages of an allocation are not in a table.
LEMMA FillPageKeeps ==
  ASSUME NEW own, Good(own), NEW s \in Procs, FillPage(s)
  PROVE  Good(own)' /\ free' = free /\ head' = head /\ \A p \in free : mem'[p] = mem[p]
<1> DEFINE a == job[s].page
           next == IF job[s].stage = "taken" THEN "five" ELSE "zero"
<1>0. /\ PagesTypeOK /\ Pids /\ (\A t \in Procs : ProcInv(t)) /\ FreeOwn(own) /\ Owns(own, s)
  BY DEF Good, OwnInv
<1>1. /\ Doing(s, "alloc") /\ freeing \in {0, s} /\ job[s].stage \in {"taken", "five"}
      /\ mem' = [mem EXCEPT ![a] = Filled(next)] /\ job' = [job EXCEPT ![s].stage = next]
      /\ procs' = procs /\ space' = space /\ free' = free /\ head' = head
      /\ births' = births /\ freeing' = freeing /\ unseen' = unseen
  BY DEF FillPage, Runs, Doing
<1>2. /\ Allocating(s) /\ a \in Page /\ own[a] = Use("alloc", s, 0) /\ next \in {"five", "zero"}
  BY <1>0, <1>1 DEF ProcInv, Allocating, Owns
<1>3. /\ Filled(next) \in [Entry -> WordRec]
      /\ mem'[a] = Filled(next) /\ \A p \in Page \ {a} : mem'[p] = mem[p]
  BY <1>0, <1>1, <1>2 DEF PagesTypeOK, Filled, WordRec, Word
<1>4. /\ job'[s].do = job[s].do /\ job'[s].page = a /\ job'[s].stage = next
      /\ job'[s].use = job[s].use /\ job'[s].va = job[s].va /\ job'[s] \in JobRec
      /\ \A t \in Procs \ {s} : job'[t] = job[t]
  <2>1. job[s] \in JobRec /\ s \in DOMAIN job
    BY <1>0 DEF PagesTypeOK
  <2>2. job' = [job EXCEPT ![s] = [job[s] EXCEPT !.stage = next]]
    BY <1>1
  <2>3. job'[s] = [job[s] EXCEPT !.stage = next] /\ \A t \in Procs \ {s} : job'[t] = job[t]
    BY ONLY <2>1, <2>2, s \in Procs, <1>0 DEF PagesTypeOK
  <2>4. next \in {"five", "zero"}
    BY <1>2
  <2> HIDE DEF next
  <2>5. /\ [job[s] EXCEPT !.stage = next] \in JobRec
        /\ [job[s] EXCEPT !.stage = next].stage = next
        /\ [job[s] EXCEPT !.stage = next].do = job[s].do
        /\ [job[s] EXCEPT !.stage = next].page = job[s].page
        /\ [job[s] EXCEPT !.stage = next].use = job[s].use
        /\ [job[s] EXCEPT !.stage = next].va = job[s].va
    BY ONLY <2>1, <2>4 DEF JobRec
  <2> QED BY <2>3, <2>5
<1> HIDE DEF next
<1>5. PagesTypeOK'
  <2>1. job' \in [Procs -> JobRec]
    BY <1>0, <1>1, <1>4 DEF PagesTypeOK
  <2>2. mem' \in [Page -> [Entry -> WordRec]]
    BY <1>0, <1>1, <1>3 DEF PagesTypeOK
  <2> QED BY <1>0, <1>1, <2>1, <2>2 DEF PagesTypeOK
<1>6. ActsFor(s)
  BY <1>0, <1>1, <1>4, Alone DEF ActsFor, PagesTypeOK
<1>7. Root(s)' = Root(s) /\ Doing(s, "alloc")' /\ ~Gone(s)' /\ ~Gone(s)
      /\ \A e \in Entry : ~GoneAt(s, e)' /\ ~GoneAt(s, e)
  BY <1>1, <1>4 DEF Root, Doing, Gone, GoneAt
<1>8. /\ Root(s) # NoPage => Root(s) # a
      /\ \A e \in Entry : Tbl(s, e) # NoPage => Tbl(s, e) # a
  <2>1. Use("alloc", s, 0).k # Use("root", s, 0).k
        /\ \A e \in Entry : Use("alloc", s, 0).k # Use("node", s, e).k
    BY DEF Use
  <2> QED BY <1>0, <1>2, <2>1 DEF Owns
<1>9. /\ Root(s) # NoPage => Root(s) \in Page
      /\ \A e \in Entry : Tbl(s, e) # NoPage => Tbl(s, e) \in Page
  BY <1>0, ViewTypes DEF ProcInv
<1>10. /\ RootShape(s)' /\ (\A e \in Entry : Tbl(s, e)' = Tbl(s, e))
       /\ (\A e, f \in Entry : Pt(s, e, f)' = Pt(s, e, f))
  BY <1>0, <1>3, <1>5, <1>7, <1>8, <1>9, SameViews DEF ProcInv
<1>11. ProcInv(s)'
  <2>1. LeafShape(s)'
    BY <1>0, <1>1, <1>10 DEF LeafShape, ProcInv
  <2>2. ProcShape(s)'
    BY <1>0, <1>1, <1>2, <1>7 DEF ProcShape, ProcInv, Allocating
  <2>3. Freeing(s)'
    BY <1>7 DEF Freeing, Doing
  <2>4. Allocating(s)'
    <3>1. job[s].use # "root" => job[s].va \in VAddr /\ job[s].va[1] \in Entry /\ job[s].va[2] \in Entry
      BY <1>1, <1>2, PagesAssumption DEF Allocating, PagesAssumption
    <3>2. /\ job[s].use # "root" =>
             /\ Tbl(s, job[s].va[1])' = Tbl(s, job[s].va[1])
             /\ Pt(s, job[s].va[1], job[s].va[2])' = Pt(s, job[s].va[1], job[s].va[2])
      BY <1>4, <1>10, <3>1
    <3> QED BY <1>1, <1>2, <1>3, <1>4, <1>7, <3>2 DEF Allocating
  <2> QED BY <1>10, <2>1, <2>2, <2>3, <2>4 DEF ProcInv
<1>12. Owns(own, s)'
  BY <1>0, <1>2, <1>4, <1>7, <1>10 DEF Owns
<1>13. FreeOwn(own)'
  BY <1>0, <1>1, <1>4, <1>7 DEF FreeOwn, Doing
<1>14. a \notin free
  BY <1>0, <1>2, InUse, <1>1, <1>6 DEF ActsFor, FreesAlone, Use, Doing
<1>15. \A p \in Page : mem'[p] # mem[p] => own[p].t \in {0, s}
  BY <1>2, <1>3 DEF Use
<1>16. Good(own)'
  BY <1>0, <1>1, <1>5, <1>6, <1>11, <1>12, <1>13, <1>15, StepKeeps DEF Pids
<1> QED BY <1>0, <1>1, <1>3, <1>14, <1>16 DEF PagesTypeOK

---------------------------------------------------------------------------
(* Views of the tables, and the free list.                                  *)

\* What the owner of a page tells about its use.
LEMMA Uses ==
  ASSUME NEW own, NEW t \in Procs, Owns(own, t)
  PROVE  /\ Root(t) # NoPage => own[Root(t)].k = "root" /\ own[Root(t)].t = t
         /\ \A e \in Entry : Tbl(t, e) # NoPage =>
              own[Tbl(t, e)].k = "node" /\ own[Tbl(t, e)].t = t /\ own[Tbl(t, e)].v = e
         /\ \A e, f \in Entry : Pt(t, e, f).t = "kern" =>
              LET p == Pt(t, e, f).to IN own[p].k = "kern" /\ own[p].t = t /\ own[p].v = <<e, f>>
         /\ \A e, f \in Entry : Pt(t, e, f).t = "user" =>
              LET p == Pt(t, e, f).to IN own[p].k = "user" /\ own[p].t = 0 /\ own[p].v = <<e, f>>
         /\ Doing(t, "alloc") => own[job[t].page].k = "alloc" /\ own[job[t].page].t = t
<1>1. \A k, u, v : Use(k, u, v).k = k /\ Use(k, u, v).t = u /\ Use(k, u, v).v = v
  BY DEF Use
<1>2. /\ Root(t) # NoPage => own[Root(t)].k = "root" /\ own[Root(t)].t = t
      /\ Doing(t, "alloc") => own[job[t].page].k = "alloc" /\ own[job[t].page].t = t
  BY <1>1 DEF Owns
<1>3. ASSUME NEW e \in Entry, Tbl(t, e) # NoPage
      PROVE  own[Tbl(t, e)].k = "node" /\ own[Tbl(t, e)].t = t /\ own[Tbl(t, e)].v = e
  <2>1. own[Tbl(t, e)] = Use("node", t, e)
    BY <1>3 DEF Owns
  <2> QED BY <1>1, <2>1
<1>4. ASSUME NEW e \in Entry, NEW f \in Entry
      PROVE  LET p == Pt(t, e, f).to
             IN /\ Pt(t, e, f).t = "kern" =>
                     own[p].k = "kern" /\ own[p].t = t /\ own[p].v = <<e, f>>
                /\ Pt(t, e, f).t = "user" =>
                     own[p].k = "user" /\ own[p].t = 0 /\ own[p].v = <<e, f>>
  <2> DEFINE w == Pt(t, e, f)
  <2>1. /\ w.t = "kern" => own[w.to] = Use("kern", t, <<e, f>>)
        /\ w.t = "user" => own[w.to] = Use("user", 0, <<e, f>>)
    BY DEF Owns
  <2> HIDE DEF w
  <2>2. /\ w.t = "kern" => own[w.to].k = "kern" /\ own[w.to].t = t /\ own[w.to].v = <<e, f>>
        /\ w.t = "user" => own[w.to].k = "user" /\ own[w.to].t = 0 /\ own[w.to].v = <<e, f>>
    BY <1>1, <2>1
  <2> QED BY <2>2 DEF w
<1> QED BY <1>2, <1>3, <1>4

\* TableOf is the table the kernel sees, as long as the root is not freed.
LEMMA TableIsTbl ==
  ASSUME NEW t \in Procs, ~Gone(t), NEW va
  PROVE  TableOf(t, va) = Tbl(t, va[1])
BY DEF TableOf, Tbl, Root

\* and Pte its entry, as long as the table is not freed.
LEMMA PteIsPt ==
  ASSUME NEW t \in Procs, ~Gone(t), NEW va, ~GoneAt(t, va[1])
  PROVE  /\ TableOf(t, va) # NoPage => Pte(t, va) = Pt(t, va[1], va[2])
         /\ Mapped(t, va) <=> Pt(t, va[1], va[2]).t \in {"user", "kern"}
BY TableIsTbl DEF Pte, Pt, Mapped, Zero, Word

\* A page in a space is used as one.
LEMMA SpaceUse ==
  ASSUME NEW own, NEW t \in Procs, ProcInv(t), Owns(own, t), NEW a \in DOMAIN space[t]
  PROVE  own[space[t][a]] = Use("user", 0, a) /\ own[space[t][a]].k = "user"
<1>1. LeafShape(t)
  BY DEF ProcInv
<1>2. a \in Entry \X Entry
  BY <1>1, PagesAssumption DEF LeafShape, PagesAssumption
<1>3. PICK e \in Entry, f \in Entry : a = <<e, f>>
  BY <1>2
<1>4. Pt(t, e, f).t = "user" /\ space[t][a] = Pt(t, e, f).to
  BY <1>1, <1>3 DEF LeafShape
<1>5. own[Pt(t, e, f).to] = Use("user", 0, <<e, f>>)
  BY <1>4 DEF Owns
<1> QED BY <1>3, <1>4, <1>5 DEF Use

\* The first page of the list is taken off it.
LEMMA ListPops ==
  ASSUME PagesTypeOK, NEW n, NEW l, ListOf(n, l), head # NoPage,
         free' = free \ {head}, head' = mem[head][0].to, mem' = mem
  PROVE  head \in free /\ \E m, k : ListOf(m, k)'
<1>1. n \in Nat /\ n # 0 /\ head = l[n] /\ l \in [1 .. n -> Page]
  BY DEF ListOf
<1>2. head \in free
  BY <1>1 DEF ListOf
<1> DEFINE m == n - 1
           k == [i \in 1 .. m |-> l[i]]
<1>3. m \in Nat /\ n = m + 1 /\ (\A i \in 1 .. m : i \in 1 .. n /\ k[i] = l[i] /\ i # n)
  BY <1>1
<1>4. k \in [1 .. m -> Page]
  BY <1>1, <1>3
<1> HIDE DEF m, k
<1>5. \A i, j \in 1 .. m : k[i] = k[j] => i = j
  BY <1>3 DEF ListOf
<1>6. free' = {k[i] : i \in 1 .. m}
  <2>1. \A p \in free \ {head} : \E i \in 1 .. m : p = k[i]
    <3> SUFFICES ASSUME NEW p \in free \ {head} PROVE \E i \in 1 .. m : p = k[i]
      OBVIOUS
    <3>1. PICK i \in 1 .. n : p = l[i]
      BY DEF ListOf
    <3>2. i # n /\ i \in 1 .. m
      BY <1>1, <1>3, <3>1
    <3> QED BY <1>3, <3>1, <3>2
  <2>2. \A i \in 1 .. m : k[i] \in free \ {head}
    <3> SUFFICES ASSUME NEW i \in 1 .. m PROVE k[i] \in free \ {head}
      OBVIOUS
    <3>1. i \in 1 .. n /\ n \in 1 .. n /\ i # n /\ k[i] = l[i]
      BY <1>1, <1>3
    <3>2. l[i] # l[n] /\ l[i] \in free
      BY <3>1 DEF ListOf
    <3> QED BY <1>1, <3>1, <3>2
  <2> QED BY <2>1, <2>2
<1>7. mem[l[n]][0] = Link(IF n = 1 THEN NoPage ELSE l[n - 1])
  <2>1. n \in 1 .. n
    BY <1>1
  <2> QED BY <2>1 DEF ListOf
<1>8. head' = IF m = 0 THEN NoPage ELSE k[m]
  <2>1. mem[head][0].to = IF n = 1 THEN NoPage ELSE l[n - 1]
    BY <1>1, <1>7 DEF Link, Word
  <2>2. n - 1 = m /\ (n = 1 <=> m = 0) /\ (m # 0 => m \in 1 .. m)
    BY <1>1, <1>3
  <2> QED BY <1>3, <2>1, <2>2
<1>9. \A i \in 1 .. m : mem'[k[i]][0] = Link(IF i = 1 THEN NoPage ELSE k[i - 1])
  <2> SUFFICES ASSUME NEW i \in 1 .. m PROVE mem[k[i]][0] = Link(IF i = 1 THEN NoPage ELSE k[i - 1])
    OBVIOUS
  <2>1. i \in 1 .. n /\ (i # 1 => i - 1 \in 1 .. m)
    BY <1>3
  <2>2. mem[l[i]][0] = Link(IF i = 1 THEN NoPage ELSE l[i - 1])
    BY <2>1 DEF ListOf
  <2> QED BY <1>3, <2>1, <2>2
<1>10. ListOf(m, k)'
  BY <1>3, <1>4, <1>5, <1>6, <1>8, <1>9 DEF ListOf
<1> QED BY <1>2, <1>10

\* A page that is linked to the list is put at its front.
LEMMA ListPushes ==
  ASSUME NEW n, NEW l, ListOf(n, l), NEW p \in Page, p \notin free, mem[p][0] = Link(head),
         free' = free \cup {p}, head' = p, mem' = mem
  PROVE  \E m, k : ListOf(m, k)'
<1> DEFINE m == n + 1
           k == [i \in 1 .. m |-> IF i = m THEN p ELSE l[i]]
<1>1. n \in Nat /\ l \in [1 .. n -> Page] /\ m \in Nat /\ m # 0 /\ m \in 1 .. m
      /\ (\A i \in 1 .. m : i # m => i \in 1 .. n)
      /\ (\A i \in 1 .. n : i \in 1 .. m /\ i # m)
  BY DEF ListOf
<1>2. k \in [1 .. m -> Page] /\ k[m] = p /\ \A i \in 1 .. n : k[i] = l[i]
  BY <1>1
<1> HIDE DEF k
<1>3. \A i \in 1 .. n : l[i] \in free /\ l[i] # p
  BY DEF ListOf
<1>4. \A i, j \in 1 .. m : k[i] = k[j] => i = j
  <2> SUFFICES ASSUME NEW i \in 1 .. m, NEW j \in 1 .. m, k[i] = k[j] PROVE i = j
    OBVIOUS
  <2>1. CASE i = m \/ j = m
    BY <1>1, <1>2, <1>3, <2>1
  <2>2. CASE i # m /\ j # m
    <3>1. i \in 1 .. n /\ j \in 1 .. n /\ l[i] = l[j]
      BY <1>1, <1>2, <2>2
    <3> QED BY <3>1 DEF ListOf
  <2> QED BY <2>1, <2>2
<1>5. free' = {k[i] : i \in 1 .. m}
  <2>1. free = {l[i] : i \in 1 .. n}
    BY DEF ListOf
  <2>2. \A q \in free \cup {p} : \E i \in 1 .. m : q = k[i]
    BY <1>1, <1>2, <2>1
  <2>3. \A i \in 1 .. m : k[i] \in free \cup {p}
    BY <1>1, <1>2, <1>3
  <2> QED BY <2>2, <2>3
<1>6. \A i \in 1 .. m : mem'[k[i]][0] = Link(IF i = 1 THEN NoPage ELSE k[i - 1])
  <2> SUFFICES ASSUME NEW i \in 1 .. m PROVE mem[k[i]][0] = Link(IF i = 1 THEN NoPage ELSE k[i - 1])
    OBVIOUS
  <2>0. head = IF n = 0 THEN NoPage ELSE l[n]
    BY DEF ListOf
  <2>1. CASE i = m
    <3>1. (i = 1 <=> n = 0) /\ i - 1 = n /\ (n # 0 => n \in 1 .. n)
      BY <1>1, <2>1
    <3>2. head = IF i = 1 THEN NoPage ELSE k[i - 1]
      BY <1>2, <2>0, <3>1
    <3> QED BY <1>2, <2>1, <3>2
  <2>2. CASE i # m
    <3>1. i \in 1 .. n /\ (i # 1 => i - 1 \in 1 .. n)
      BY <1>1, <2>2
    <3>2. mem[l[i]][0] = Link(IF i = 1 THEN NoPage ELSE l[i - 1])
      BY <3>1 DEF ListOf
    <3> QED BY <1>2, <3>1, <3>2
  <2> QED BY <2>1, <2>2
<1>7. head' = IF m = 0 THEN NoPage ELSE k[m]
  BY <1>1, <1>2
<1> HIDE DEF m
<1>8. ListOf(m, k)'
  BY <1>1, <1>2, <1>4, <1>5, <1>6, <1>7 DEF ListOf
<1> QED BY <1>8

---------------------------------------------------------------------------
(* kalloc takes a page.                                                     *)

\* What one use of kalloc asks for.
Wanted(s, use, va) ==
  /\ va \in Entry \X Entry /\ use \in {"root", "node", "user", "kern"}
  /\ use # "root" => va \in VAddr

\* A page is taken off the free list.
LEMMA KallocKeeps ==
  ASSUME NEW own, Good(own), NEW s \in Procs, NEW use, NEW va, Wanted(s, use, va),
         Kalloc(s, use, va), NEW n, NEW l, ListOf(n, l)
  PROVE  (\E o : Good(o)') /\ \E m, k : ListOf(m, k)'
<1>0. /\ PagesTypeOK /\ Pids /\ (\A t \in Procs : ProcInv(t)) /\ FreeOwn(own) /\ Owns(own, s)
  BY DEF Good, OwnInv
<1>1. /\ procs[s].state = "used" /\ Doing(s, "nothing") /\ freeing = 0 /\ head # NoPage
      /\ job' = [job EXCEPT ![s] =
                   [do |-> "alloc", page |-> head, stage |-> "taken", use |-> use, va |-> va]]
      /\ free' = free \ {head} /\ head' = mem[head][0].to /\ mem' = mem /\ procs' = procs
      /\ space' = space /\ births' = births /\ freeing' = freeing /\ unseen' = unseen
  BY DEF Kalloc, Ready, Doing
<1>2. /\ use = "root" => Root(s) = NoPage
      /\ use = "node" => Root(s) # NoPage /\ TableOf(s, va) = NoPage
      /\ use \in {"user", "kern"} => TableOf(s, va) # NoPage /\ ~Mapped(s, va)
  BY DEF Kalloc, Root, Wanted
<1>3. head \in free /\ head \in Page /\ \E m, k : ListOf(m, k)'
  BY <1>0, <1>1, ListPops DEF PagesTypeOK
<1>4. head' \in Page \cup {NoPage}
  BY <1>0, <1>1, <1>3, PagesAssumption DEF PagesTypeOK, WordRec, PagesAssumption
<1>5. own[head] = FreeUse
  <2>1. FreesAlone(s) /\ ~Doing(s, "free")
    BY <1>0, <1>1, Alone DEF Doing
  <2> QED BY <1>0, <1>3, <2>1 DEF FreeOwn, FreesAlone
<1>6. /\ job'[s] = [do |-> "alloc", page |-> head, stage |-> "taken", use |-> use, va |-> va]
      /\ job'[s] \in JobRec /\ \A t \in Procs \ {s} : job'[t] = job[t]
  BY <1>0, <1>1, <1>3 DEF PagesTypeOK, JobRec, Wanted
<1>7. PagesTypeOK'
  <2>1. job' \in [Procs -> JobRec]
    BY <1>0, <1>1, <1>6 DEF PagesTypeOK
  <2> QED BY <1>0, <1>1, <1>4, <2>1 DEF PagesTypeOK
<1>8. ActsFor(s)
  BY <1>0, <1>1, <1>6, Alone DEF ActsFor, PagesTypeOK
<1>9. Root(s)' = Root(s) /\ Doing(s, "alloc")' /\ ~Gone(s)' /\ ~Gone(s)
      /\ \A e \in Entry : ~GoneAt(s, e)' /\ ~GoneAt(s, e)
  BY <1>1, <1>6 DEF Root, Doing, Gone, GoneAt
<1>10. /\ RootShape(s)' /\ (\A e \in Entry : Tbl(s, e)' = Tbl(s, e))
       /\ (\A e, f \in Entry : Pt(s, e, f)' = Pt(s, e, f))
  BY <1>0, <1>1, <1>7, <1>9, SameViews DEF ProcInv
<1>11. va[1] \in Entry /\ va[2] \in Entry
  BY DEF Wanted
<1>12. ProcInv(s)'
  <2>1. LeafShape(s)'
    BY <1>0, <1>1, <1>10 DEF LeafShape, ProcInv
  <2>2. ProcShape(s)'
    BY <1>0, <1>1, <1>9 DEF ProcShape, ProcInv
  <2>3. Freeing(s)'
    BY <1>9 DEF Freeing, Doing
  <2>4. Allocating(s)'
    <3>1. /\ use = "node" => Root(s) # NoPage /\ Tbl(s, va[1]) = NoPage
          /\ use \in {"user", "kern"} =>
               Root(s) # NoPage /\ Tbl(s, va[1]) # NoPage /\ Pt(s, va[1], va[2]).t = "zero"
      <4>1. Pt(s, va[1], va[2]).t \in {"zero", "user", "kern"}
        BY <1>0, <1>11 DEF ProcInv, LeafShape
      <4>2. TableOf(s, va) = Tbl(s, va[1])
        BY <1>9, TableIsTbl
      <4>3. Mapped(s, va) <=> Pt(s, va[1], va[2]).t \in {"user", "kern"}
        BY <1>9, <1>11, PteIsPt
      <4>4. Tbl(s, va[1]) # NoPage => Root(s) # NoPage
        BY DEF Tbl
      <4> QED BY <1>2, <4>1, <4>2, <4>3, <4>4
    <3>2. /\ Tbl(s, va[1])' = Tbl(s, va[1])
          /\ Pt(s, va[1], va[2])' = Pt(s, va[1], va[2])
      BY <1>10, <1>11
    <3>3. /\ job'[s].page = head /\ job'[s].stage = "taken" /\ job'[s].use = use /\ job'[s].va = va
      BY <1>6
    <3>4. Tbl(s, job[s].va[1])' = Tbl(s, va[1]) /\ Pt(s, job[s].va[1], job[s].va[2])' = Pt(s, va[1], va[2])
      BY <3>2, <3>3
    <3> QED BY <1>1, <1>2, <1>3, <1>9, <3>1, <3>3, <3>4 DEF Allocating, Wanted
  <2> QED BY <1>10, <2>1, <2>2, <2>3, <2>4 DEF ProcInv
<1> DEFINE own2 == [p \in Page |-> IF p = head THEN Use("alloc", s, 0) ELSE own[p]]
<1>13. PICK o : o = own2
  OBVIOUS
<1>14. o[head] = Use("alloc", s, 0) /\ \A p \in Page \ {head} : o[p] = own[p]
  BY <1>3, <1>13
<1> HIDE DEF own2
<1>15. own[head].k = "free" /\ own[head].t = 0
  BY <1>5 DEF FreeUse, Use
<1>16. Owns(o, s)'
  <2>1. (Root(s) # NoPage => o[Root(s)] = Use("root", s, 0))'
    BY <1>0, <1>9, <1>14, <1>15, Uses, ViewTypes DEF Owns, ProcInv
  <2>2. (\A e \in Entry : Tbl(s, e) # NoPage => o[Tbl(s, e)] = Use("node", s, e))'
    BY <1>0, <1>10, <1>14, <1>15, Uses, ViewTypes DEF Owns, ProcInv
  <2>3. (Doing(s, "alloc") => o[job[s].page] = Use("alloc", s, 0))'
    BY <1>6, <1>14
  <2>4. (\A e, f \in Entry :
           /\ Pt(s, e, f).t = "kern" => o[Pt(s, e, f).to] = Use("kern", s, <<e, f>>)
           /\ Pt(s, e, f).t = "user" => o[Pt(s, e, f).to] = Use("user", 0, <<e, f>>))'
    <3> SUFFICES ASSUME NEW e \in Entry, NEW f \in Entry
        PROVE (/\ Pt(s, e, f).t = "kern" => o[Pt(s, e, f).to] = Use("kern", s, <<e, f>>)
               /\ Pt(s, e, f).t = "user" => o[Pt(s, e, f).to] = Use("user", 0, <<e, f>>))'
      OBVIOUS
    <3> DEFINE w == Pt(s, e, f)
    <3>1. w' = w
      BY <1>10
    <3>2. w.t \in {"kern", "user"} => w.to \in Page /\ own[w.to].k # "free"
      BY <1>0, Uses, ViewTypes DEF ProcInv
    <3>3. /\ w.t = "kern" => own[w.to] = Use("kern", s, <<e, f>>)
          /\ w.t = "user" => own[w.to] = Use("user", 0, <<e, f>>)
      BY <1>0 DEF Owns
    <3> HIDE DEF w
    <3>4. w.t \in {"kern", "user"} => o[w.to] = own[w.to]
      BY <1>14, <1>15, <3>2
    <3> QED BY <3>1, <3>3, <3>4 DEF w
  <2> QED BY <2>1, <2>2, <2>3, <2>4 DEF Owns
<1>17. FreeOwn(o)'
  BY <1>0, <1>1, <1>6, <1>8, <1>9, <1>14 DEF FreeOwn, Doing, PagesTypeOK
<1>18. /\ Pids' /\ (\A p \in Page : mem'[p] # mem[p] => own[p].t \in {0, s})
  BY <1>0, <1>1 DEF Pids
<1>19. \A p \in Page : o[p] # own[p] =>
          own[p].t \in {0, s} /\ \A t \in Procs \ {s} : \A a \in DOMAIN space[t] : space[t][a] # p
  <2>1. ASSUME NEW t \in Procs, NEW a \in DOMAIN space[t] PROVE space[t][a] # head
    <3>1. ProcInv(t) /\ Owns(own, t)
      BY DEF Good, OwnInv
    <3> QED BY <1>15, <3>1, SpaceUse
  <2> QED BY <1>14, <1>15, <2>1
<1>20. Good(o)'
  BY <1>7, <1>8, <1>12, <1>16, <1>17, <1>18, <1>19, StepKeeps
<1> QED BY <1>3, <1>20

---------------------------------------------------------------------------
(* Entries are written.                                                     *)

\* A process that is neither allocating nor freeing afterwards.
Rests(t) == job'[t].do = "nothing"

\* The word w is written to entry e of page p.
Writes(p, e, w) == mem' = [mem EXCEPT ![p][e] = w]

\* What s maps at an entry after a step that has written w there.
MapsAt(t, va, w) ==
  /\ DOMAIN space'[t] = IF w.t = "user" THEN DOMAIN space[t] \cup {va} ELSE DOMAIN space[t] \ {va}
  /\ w.t = "user" => space'[t][va] = w.to
  /\ \A a \in DOMAIN space[t] \ {va} : space'[t][a] = space[t][a]

\* One entry of a table is written: the rest of the page table stays.
LEMMA EntryWritten ==
  ASSUME PagesTypeOK, NEW own, NEW t \in Procs, Owns(own, t), RootShape(t), Root(t)' = Root(t), Rests(t),
         ~Gone(t), \A d \in Entry : ~GoneAt(t, d),
         NEW e \in Entry, NEW f \in Entry, Tbl(t, e) # NoPage, NEW w,
         Writes(Tbl(t, e), f, w)
  PROVE  /\ RootShape(t)' /\ \A d \in Entry : Tbl(t, d)' = Tbl(t, d)
         /\ Pt(t, e, f)' = w
         /\ \A d, g \in Entry : <<d, g>> # <<e, f>> => Pt(t, d, g)' = Pt(t, d, g)
<1>1. ~Gone(t)' /\ \A d \in Entry : ~GoneAt(t, d)'
  BY DEF Rests, Gone, GoneAt, Doing
<1>2. Root(t) # NoPage /\ Root(t) \in Page /\ \A d \in Entry : Tbl(t, d) \in Page \cup {NoPage}
  BY DEF Tbl, PagesTypeOK, ProcRec, Root, RootShape
<1>3. Tbl(t, e) # Root(t) /\ \A d \in Entry : Tbl(t, d) = Tbl(t, e) => d = e
  BY <1>2, Uses
<1>4. Tbl(t, e) \in Page /\ mem[Tbl(t, e)] \in [Entry -> WordRec] /\ mem \in [Page -> [Entry -> WordRec]]
  BY <1>2 DEF PagesTypeOK
<1>5. /\ \A p \in Page : p # Tbl(t, e) => mem'[p] = mem[p]
      /\ mem'[Tbl(t, e)][f] = w /\ \A g \in Entry : g # f => mem'[Tbl(t, e)][g] = mem[Tbl(t, e)][g]
  BY <1>4 DEF Writes
<1>6. mem'[Root(t)] = mem[Root(t)]
  BY <1>2, <1>3, <1>5
<1>7. \A d \in Entry : Tbl(t, d)' = Tbl(t, d)
  BY <1>1, <1>6 DEF Tbl
<1>8. RootShape(t)'
  BY <1>1, <1>6 DEF RootShape
<1>9. Pt(t, e, f)' = w
  BY <1>1, <1>5, <1>7 DEF Pt
<1>10. ASSUME NEW d \in Entry, NEW g \in Entry, <<d, g>> # <<e, f>> PROVE Pt(t, d, g)' = Pt(t, d, g)
  <2>1. CASE Tbl(t, d) = NoPage
    BY <1>7, <2>1 DEF Pt
  <2>2. CASE Tbl(t, d) # NoPage /\ d # e
    <3>1. mem'[Tbl(t, d)] = mem[Tbl(t, d)]
      BY <1>2, <1>3, <1>5, <2>2
    <3> QED BY <1>1, <1>7, <2>2, <3>1 DEF Pt
  <2>3. CASE Tbl(t, d) # NoPage /\ d = e
    <3>1. mem'[Tbl(t, d)][g] = mem[Tbl(t, d)][g]
      BY <1>5, <1>10, <2>3
    <3> QED BY <1>1, <1>7, <2>3, <3>1 DEF Pt
  <2> QED BY <2>1, <2>2, <2>3
<1> QED BY <1>7, <1>8, <1>9, <1>10

\* The invariant of a process is kept when an entry is written that its space
\* and the owner of the page agree with.
LEMMA LeafWrite ==
  ASSUME PagesTypeOK, NEW own, NEW t \in Procs, ProcInv(t), Owns(own, t), procs'[t] = procs[t],
         births' = births, Rests(t), ~Gone(t), \A d \in Entry : ~GoneAt(t, d),
         NEW e \in Entry, NEW f \in Entry, Tbl(t, e) # NoPage, NEW w,
         Writes(Tbl(t, e), f, w),
         w.t \in {"zero", "user", "kern"}, w.t # "zero" => w.to \in Page /\ <<e, f>> \in VAddr,
         MapsAt(t, <<e, f>>, w), NEW own2,
         \A p \in Page : own2[p] # own[p] =>
           \/ own[p].k \in {"free", "alloc"}
           \/ own[p].k \in {"user", "kern"} /\ own[p].v = <<e, f>>,
         w.t = "kern" => own2[w.to] = Use("kern", t, <<e, f>>),
         w.t = "user" => own2[w.to] = Use("user", 0, <<e, f>>)
  PROVE  ProcInv(t)' /\ Owns(own2, t)'
<1>0. RootShape(t) /\ LeafShape(t) /\ ProcShape(t)
  BY DEF ProcInv
<1>1. Root(t)' = Root(t) /\ Root(t) # NoPage
  BY DEF Root, Tbl
<1>2. /\ RootShape(t)' /\ \A d \in Entry : Tbl(t, d)' = Tbl(t, d)
      /\ Pt(t, e, f)' = w
      /\ \A d, g \in Entry : <<d, g>> # <<e, f>> => Pt(t, d, g)' = Pt(t, d, g)
  BY <1>0, <1>1, EntryWritten
<1>3. LeafShape(t)'
  <2>1. (DOMAIN space[t] \subseteq VAddr)'
    BY <1>0 DEF LeafShape, MapsAt
  <2>2. ASSUME NEW d \in Entry, NEW g \in Entry
        PROVE (/\ Pt(t, d, g).t \in {"zero", "user", "kern"}
               /\ Pt(t, d, g).t # "zero" => Pt(t, d, g).to \in Page /\ <<d, g>> \in VAddr
               /\ Pt(t, d, g).t = "user" <=> <<d, g>> \in DOMAIN space[t]
               /\ Pt(t, d, g).t = "user" => space[t][<<d, g>>] = Pt(t, d, g).to)'
    <3>1. CASE <<d, g>> = <<e, f>>
      <4>1. Pt(t, d, g)' = w
        BY <1>2, <3>1
      <4> QED BY <3>1, <4>1 DEF MapsAt
    <3>2. CASE <<d, g>> # <<e, f>>
      <4>1. Pt(t, d, g)' = Pt(t, d, g)
        BY <1>2, <3>2
      <4>2. <<d, g>> \in DOMAIN space[t]' <=> <<d, g>> \in DOMAIN space[t]
        BY <3>2 DEF MapsAt
      <4>3. <<d, g>> \in DOMAIN space[t] => space'[t][<<d, g>>] = space[t][<<d, g>>]
        BY <3>2 DEF MapsAt
      <4> QED BY <1>0, <4>1, <4>2, <4>3 DEF LeafShape
    <3> QED BY <3>1, <3>2
  <2> QED BY <2>1, <2>2 DEF LeafShape
<1>4. ProcShape(t)'
  BY <1>0, <1>1 DEF ProcShape
<1>5. Allocating(t)' /\ Freeing(t)' /\ ~Doing(t, "alloc")'
  BY DEF Allocating, Freeing, Doing, Rests
<1>6. (Root(t) # NoPage => own2[Root(t)] = Use("root", t, 0))'
  <2>1. Root(t) \in Page /\ own[Root(t)].k = "root"
    BY <1>0, <1>1, Uses, ViewTypes
  <2> QED BY <1>1, <2>1 DEF Owns
<1>7. (\A d \in Entry : Tbl(t, d) # NoPage => own2[Tbl(t, d)] = Use("node", t, d))'
  <2> SUFFICES ASSUME NEW d \in Entry, Tbl(t, d)' # NoPage PROVE own2[Tbl(t, d)'] = Use("node", t, d)
    OBVIOUS
  <2>1. Tbl(t, d)' = Tbl(t, d) /\ Tbl(t, d) \in Page /\ own[Tbl(t, d)].k = "node"
    BY <1>0, <1>2, Uses, ViewTypes
  <2> QED BY <2>1 DEF Owns
<1>8. (\A d, g \in Entry :
         /\ Pt(t, d, g).t = "kern" => own2[Pt(t, d, g).to] = Use("kern", t, <<d, g>>)
         /\ Pt(t, d, g).t = "user" => own2[Pt(t, d, g).to] = Use("user", 0, <<d, g>>))'
  <2> SUFFICES ASSUME NEW d \in Entry, NEW g \in Entry
      PROVE (/\ Pt(t, d, g).t = "kern" => own2[Pt(t, d, g).to] = Use("kern", t, <<d, g>>)
             /\ Pt(t, d, g).t = "user" => own2[Pt(t, d, g).to] = Use("user", 0, <<d, g>>))'
    OBVIOUS
  <2>1. CASE <<d, g>> = <<e, f>>
    <3>1. Pt(t, d, g)' = w
      BY <1>2, <2>1
    <3> QED BY <2>1, <3>1
  <2>2. CASE <<d, g>> # <<e, f>>
    <3> DEFINE x == Pt(t, d, g)
    <3>1. x' = x
      BY <1>2, <2>2
    <3>2. x.t \in {"kern", "user"} => x.to \in Page
      BY <1>0, ViewTypes
    <3>3. /\ x.t = "kern" => own[x.to] = Use("kern", t, <<d, g>>)
          /\ x.t = "user" => own[x.to] = Use("user", 0, <<d, g>>)
      BY DEF Owns
    <3> HIDE DEF x
    <3>4. x.t \in {"kern", "user"} => own[x.to].k \in {"kern", "user"} /\ own[x.to].v = <<d, g>>
      BY <3>3 DEF Use
    <3>5. x.t \in {"kern", "user"} => own2[x.to] = own[x.to]
      BY <2>2, <3>2, <3>4
    <3> QED BY <3>1, <3>3, <3>5 DEF x
  <2> QED BY <2>1, <2>2
<1>9. Owns(own2, t)'
  BY <1>5, <1>6, <1>7, <1>8 DEF Owns
<1> QED BY <1>2, <1>3, <1>4, <1>5, <1>9 DEF ProcInv

---------------------------------------------------------------------------
(* A leaf is installed.                                                     *)

\* The page of an allocation becomes a leaf.
LEMMA InstallLeafKeeps ==
  ASSUME NEW own, Good(own), NEW s \in Procs, Install(s), job[s].use \in {"user", "kern"},
         NEW n, NEW l, ListOf(n, l)
  PROVE  (\E o : Good(o)') /\ \E m, k : ListOf(m, k)'
<1> DEFINE p == job[s].page
           va == job[s].va
           use == job[s].use
           q == Tbl(s, va[1])
           w == Word(use, p)
<1>0. /\ PagesTypeOK /\ Pids /\ (\A t \in Procs : ProcInv(t)) /\ FreeOwn(own) /\ Owns(own, s)
  BY DEF Good, OwnInv
<1>1. /\ Doing(s, "alloc") /\ freeing \in {0, s} /\ job[s].stage = "zero"
      /\ job' = [job EXCEPT ![s] = Idle] /\ procs' = procs /\ free' = free /\ head' = head
      /\ births' = births /\ freeing' = freeing /\ unseen' = unseen
      /\ space' = IF use = "user" THEN [space EXCEPT ![s] = With(@, va, p)] ELSE space
      /\ mem' = [mem EXCEPT ![TableOf(s, va)][va[2]] = w]
  BY DEF Install, Runs, Doing
<1>2. /\ ~Gone(s) /\ \A d \in Entry : ~GoneAt(s, d)
  BY <1>1 DEF Gone, GoneAt, Doing
<1>3. Writes(q, va[2], w)
  BY <1>1, <1>2, TableIsTbl DEF Writes
<1>4. /\ p \in Page /\ va \in VAddr /\ va[1] \in Entry /\ va[2] \in Entry /\ va = <<va[1], va[2]>>
      /\ q # NoPage /\ Pt(s, va[1], va[2]).t = "zero" /\ own[p] = Use("alloc", s, 0)
      /\ Allocating(s) /\ procs[s].state = "used"
  <2>1. Allocating(s) /\ va \in VAddr
    BY <1>0, <1>1 DEF ProcInv, Allocating
  <2>2. va \in Entry \X Entry
    BY <2>1, PagesAssumption DEF PagesAssumption
  <2>3. va[1] \in Entry /\ va[2] \in Entry /\ va = <<va[1], va[2]>>
    BY <2>2
  <2> QED BY <1>0, <1>1, <2>1, <2>3 DEF Allocating, Owns
<1>5. /\ q \in Page /\ own[q].k = "node" /\ own[q].t = s
  BY <1>0, <1>4, Uses, ViewTypes DEF ProcInv
<1>6. /\ w.t = use /\ w.to = p /\ w \in WordRec
  BY <1>4 DEF Word, WordRec
<1> HIDE DEF w
<1>7. job'[s] = Idle /\ (\A t \in Procs \ {s} : job'[t] = job[t]) /\ job' \in [Procs -> JobRec]
  <2>1. Idle \in JobRec
    BY PagesAssumption DEF Idle, JobRec, PagesAssumption
  <2> QED BY <1>0, <1>1, <2>1 DEF PagesTypeOK
<1>8. mem' \in [Page -> [Entry -> WordRec]] /\ \A x \in Page \ {q} : mem'[x] = mem[x]
  BY <1>0, <1>3, <1>4, <1>5, <1>6 DEF PagesTypeOK, Writes
<1>9. /\ space' = [t \in Procs |-> space'[t]]
      /\ \A t \in Procs \ {s} : space'[t] = space[t]
      /\ space'[s] = IF use = "user" THEN With(space[s], va, p) ELSE space[s]
  BY <1>0, <1>1 DEF PagesTypeOK
<1>10. PagesTypeOK'
  BY <1>0, <1>1, <1>7, <1>8, <1>9 DEF PagesTypeOK
<1>11. ActsFor(s) /\ Pids' /\ Rests(s)
  BY <1>0, <1>1, <1>7, <1>9, Alone DEF ActsFor, PagesTypeOK, Pids, Rests, Idle
<1>12. MapsAt(s, <<va[1], va[2]>>, w)
  <2>1. use # "user" => va \notin DOMAIN space[s]
    BY <1>0, <1>4 DEF ProcInv, LeafShape
  <2> QED BY <1>4, <1>6, <1>9, <2>1 DEF MapsAt, With
<1>13. PICK o : o = [x \in Page |-> IF x = p THEN Use(use, IF use = "user" THEN 0 ELSE s, va) ELSE own[x]]
  OBVIOUS
<1>14. o[p] = Use(use, IF use = "user" THEN 0 ELSE s, va) /\ \A x \in Page \ {p} : o[x] = own[x]
  BY <1>4, <1>13
<1>15. own[p].k = "alloc" /\ own[p].t = s
  BY <1>4 DEF Use
<1>16. \A x \in Page : o[x] # own[x] => own[x].k \in {"free", "alloc"}
  BY <1>14, <1>15
<1>17. ProcInv(s)' /\ Owns(o, s)'
  <2>1. w.t \in {"user", "kern"} /\ w.to \in Page /\ <<va[1], va[2]>> \in VAddr
    BY <1>4, <1>6
  <2>2. /\ w.t = "kern" => o[w.to] = Use("kern", s, <<va[1], va[2]>>)
        /\ w.t = "user" => o[w.to] = Use("user", 0, <<va[1], va[2]>>)
    BY <1>4, <1>6, <1>14
  <2>3. ProcInv(s) /\ procs'[s] = procs[s] /\ births' = births
    BY <1>0, <1>1
  <2> HIDE DEF q, va, use, p
  <2> QED BY <1>0, <1>2, <1>3, <1>4, <1>11, <1>12, <1>16, <2>1, <2>2, <2>3, LeafWrite DEF q
<1>18. q \notin free /\ p \notin free
  <2>1. \A t \in Procs : ~Doing(t, "free")
    BY <1>1, <1>11 DEF ActsFor, FreesAlone, Doing
  <2> QED BY <1>0, <1>5, <1>15, <2>1, InUse
<1>19. FreeOwn(o)'
  <2>1. \A t \in Procs : ~Doing(t, "free")
    BY <1>1, <1>11 DEF ActsFor, FreesAlone, Doing
  <2> QED BY <1>0, <1>1, <1>14, <1>18, <2>1 DEF FreeOwn, PagesTypeOK
<1>20. \A x \in Page : mem'[x] # mem[x] => own[x].t \in {0, s}
  BY <1>5, <1>8
<1>21. \A x \in Page : o[x] # own[x] =>
          own[x].t \in {0, s} /\ \A t \in Procs \ {s} : \A a \in DOMAIN space[t] : space[t][a] # x
  <2>1. ASSUME NEW t \in Procs, NEW a \in DOMAIN space[t] PROVE space[t][a] # p
    BY <1>0, <1>15, SpaceUse DEF Good, OwnInv
  <2> QED BY <1>14, <1>15, <2>1
<1>22. Good(o)'
  BY <1>10, <1>11, <1>17, <1>19, <1>20, <1>21, StepKeeps
<1>23. ListOf(n, l)'
  BY <1>0, <1>1, <1>8, <1>18, ListKept DEF PagesTypeOK
<1> QED BY <1>22, <1>23

---------------------------------------------------------------------------
(* Pages are shared, and leaves cleared.                                    *)

\* A page of s becomes a page of t too.
LEMMA ShareKeeps ==
  ASSUME NEW own, Good(own), NEW s \in Procs, NEW t \in Procs, NEW va \in VAddr, Share(s, t, va),
         NEW n, NEW l, ListOf(n, l)
  PROVE  Good(own)' /\ ListOf(n, l)'
<1> DEFINE p == space[s][va]
           q == Tbl(t, va[1])
           w == Word("user", p)
<1>0. /\ PagesTypeOK /\ Pids /\ (\A u \in Procs : ProcInv(u)) /\ FreeOwn(own)
      /\ (\A u \in Procs : Owns(own, u)) /\ births \in Nat
  BY DEF Good, OwnInv, PagesTypeOK
<1>1. /\ s # t /\ Doing(t, "nothing") /\ freeing = 0 /\ va \in DOMAIN space[s] /\ TableOf(t, va) # NoPage
      /\ ~Mapped(t, va)
      /\ mem' = [mem EXCEPT ![TableOf(t, va)][va[2]] = w]
      /\ space' = [space EXCEPT ![t] = With(@, va, p)]
      /\ head' = head /\ procs' = procs /\ job' = job /\ freeing' = freeing /\ free' = free
      /\ births' = births /\ unseen' = unseen
  BY DEF Share, Ready, Doing
<1>2. /\ ~Gone(t) /\ (\A d \in Entry : ~GoneAt(t, d)) /\ Rests(t)
  BY <1>1 DEF Gone, GoneAt, Doing, Rests
<1>3. Writes(q, va[2], w) /\ q # NoPage
  BY <1>1, <1>2, TableIsTbl DEF Writes
<1>4. va[1] \in Entry /\ va[2] \in Entry /\ va = <<va[1], va[2]>>
  <2>1. va \in Entry \X Entry
    BY PagesAssumption DEF PagesAssumption
  <2> QED BY <2>1
<1>5. /\ q \in Page /\ own[q].k = "node" /\ own[q].t = t
  BY <1>0, <1>3, <1>4, Uses, ViewTypes DEF ProcInv
<1>6. p \in Page /\ own[p] = Use("user", 0, va)
  <2>1. p \in Page
    BY <1>0, <1>1, ViewTypes DEF ProcInv
  <2> QED BY <1>0, <1>1, <2>1, SpaceUse
<1>7. /\ w.t = "user" /\ w.to = p /\ w \in WordRec
  BY <1>6 DEF Word, WordRec
<1> HIDE DEF w
<1>8. mem' \in [Page -> [Entry -> WordRec]] /\ \A x \in Page \ {q} : mem'[x] = mem[x]
  BY <1>0, <1>3, <1>4, <1>5, <1>7 DEF PagesTypeOK, Writes
<1>9. /\ space' = [u \in Procs |-> space'[u]]
      /\ (\A u \in Procs \ {t} : space'[u] = space[u]) /\ space'[t] = With(space[t], va, p)
  BY <1>0, <1>1 DEF PagesTypeOK
<1>10. PagesTypeOK'
  BY <1>0, <1>1, <1>8, <1>9 DEF PagesTypeOK
<1>11. FreesAlone(t) /\ \A u \in Procs : ~Doing(u, "free")
  BY <1>0, <1>1, Alone DEF FreesAlone, Doing
<1>12. ActsFor(t) /\ Pids'
  BY <1>0, <1>1, <1>9, <1>11 DEF ActsFor, Pids
<1>13. MapsAt(t, <<va[1], va[2]>>, w)
  BY <1>4, <1>7, <1>9 DEF MapsAt, With
<1>14. ProcInv(t)' /\ Owns(own, t)'
  <2>1. w.t \in {"user", "kern"} /\ w.to \in Page /\ <<va[1], va[2]>> \in VAddr
    BY <1>4, <1>6, <1>7
  <2>2. w.t = "user" /\ own[w.to] = Use("user", 0, <<va[1], va[2]>>)
    BY <1>4, <1>6, <1>7
  <2>3. ProcInv(t) /\ procs'[t] = procs[t] /\ births' = births /\ Owns(own, t)
    BY <1>0, <1>1
  <2> HIDE DEF q, p
  <2> QED BY <1>0, <1>2, <1>3, <1>4, <1>13, <2>1, <2>2, <2>3, LeafWrite DEF q
<1>15. q \notin free
  BY <1>0, <1>5, <1>11, InUse
<1>16. FreeOwn(own)'
  BY <1>0, <1>1, <1>11 DEF FreeOwn
<1>17. \A x \in Page : mem'[x] # mem[x] => own[x].t \in {0, t}
  BY <1>5, <1>8
<1>18. Good(own)'
  BY <1>10, <1>12, <1>14, <1>16, <1>17, StepKeeps
<1>19. ListOf(n, l)'
  BY <1>0, <1>1, <1>8, <1>15, ListKept DEF PagesTypeOK
<1> QED BY <1>18, <1>19

\* What a process in the middle of freeing a page has.
LEMMA FreeFacts ==
  ASSUME NEW own, Good(own), NEW s \in Procs, Doing(s, "free")
  PROVE  /\ FreesAlone(s) /\ Freeing(s) /\ freeing = s /\ procs[s].state = "zombie"
         /\ Root(s) # NoPage /\ job[s].page \in Page
         /\ job[s].use # "root" =>
              LET va == job[s].va
              IN va \in VAddr /\ va[1] \in Entry /\ va[2] \in Entry /\ va = <<va[1], va[2]>>
<1>1. \A t \in Procs : ProcInv(t)
  BY DEF Good
<1>2. FreesAlone(s) /\ Freeing(s)
  BY <1>1, Alone DEF ProcInv
<1>3. /\ freeing = s /\ procs[s].state = "zombie" /\ Root(s) # NoPage /\ job[s].page \in Page
      /\ job[s].use # "root" => job[s].va \in VAddr
  BY <1>2 DEF Freeing
<1>4. ASSUME NEW va \in VAddr PROVE va[1] \in Entry /\ va[2] \in Entry /\ va = <<va[1], va[2]>>
  <2>1. va \in Entry \X Entry
    BY PagesAssumption DEF PagesAssumption
  <2> QED BY <2>1
<1> QED BY <1>2, <1>3, <1>4

\* The entry of a leaf that was freed is cleared.
LEMMA ClearLeafKeeps ==
  ASSUME NEW own, Good(own), NEW s \in Procs, ClearEntry(s), job[s].use = "leaf",
         NEW n, NEW l, ListOf(n, l)
  PROVE  (\E o : Good(o)') /\ \E m, k : ListOf(m, k)'
<1> DEFINE p == job[s].page
           va == job[s].va
           q == Tbl(s, va[1])
           x == Pt(s, va[1], va[2])
<1>0. /\ PagesTypeOK /\ Pids /\ (\A t \in Procs : ProcInv(t)) /\ FreeOwn(own) /\ Owns(own, s)
      /\ births \in Nat
  BY DEF Good, OwnInv, PagesTypeOK
<1>1. /\ Doing(s, "free") /\ job[s].stage = "head"
      /\ job' = [job EXCEPT ![s] = Idle] /\ procs' = procs /\ free' = free /\ head' = head
      /\ births' = births /\ freeing' = freeing /\ unseen' = unseen
      /\ space' = IF va \in DOMAIN space[s] THEN [space EXCEPT ![s] = Without(@, va)] ELSE space
      /\ mem' = [mem EXCEPT ![TableOf(s, va)][va[2]] = Zero]
  BY DEF ClearEntry, Doing
<1>2. /\ ~Gone(s) /\ \A d \in Entry : ~GoneAt(s, d)
  BY DEF Gone, GoneAt
<1>3. Writes(q, va[2], Zero)
  BY <1>1, <1>2, TableIsTbl DEF Writes
<1>4. /\ FreesAlone(s) /\ Freeing(s) /\ freeing = s /\ p \in Page /\ va \in VAddr
      /\ va[1] \in Entry /\ va[2] \in Entry /\ va = <<va[1], va[2]>>
  BY <1>1, FreeFacts
<1>5. /\ x.t \in {"user", "kern"} /\ x.to = p /\ q # NoPage
      /\ p \in free => Unshared(s, p)
      /\ p \in free \/ x.t = "user"
  BY <1>1, <1>4 DEF Freeing, Pt, Zero, Word
<1>6. /\ q \in Page /\ own[q].k = "node" /\ own[q].t = s
  BY <1>0, <1>4, <1>5, Uses, ViewTypes DEF ProcInv
<1>7. own[p].k \in {"user", "kern"} /\ own[p].t \in {0, s} /\ own[p].v = va
  <2>1. /\ x.t = "kern" => own[x.to] = Use("kern", s, <<va[1], va[2]>>)
        /\ x.t = "user" => own[x.to] = Use("user", 0, <<va[1], va[2]>>)
    BY <1>0, <1>4 DEF Owns
  <2> HIDE DEF x, va, p
  <2>2. own[p] = Use("kern", s, va) \/ own[p] = Use("user", 0, va)
    BY <1>4, <1>5, <2>1
  <2> QED BY <2>2 DEF Use
<1>8. job'[s] = Idle /\ (\A t \in Procs \ {s} : job'[t] = job[t]) /\ job' \in [Procs -> JobRec]
  <2>1. Idle \in JobRec
    BY PagesAssumption DEF Idle, JobRec, PagesAssumption
  <2> QED BY <1>0, <1>1, <2>1 DEF PagesTypeOK
<1>9. mem' \in [Page -> [Entry -> WordRec]] /\ \A y \in Page \ {q} : mem'[y] = mem[y]
  <2>1. Zero \in WordRec
    BY DEF Zero, WordRec, Word
  <2> QED BY <1>0, <1>3, <1>4, <1>6, <2>1 DEF PagesTypeOK, Writes
<1>10. /\ space' = [t \in Procs |-> space'[t]]
       /\ \A t \in Procs \ {s} : space'[t] = space[t]
       /\ space'[s] = IF va \in DOMAIN space[s] THEN Without(space[s], va) ELSE space[s]
  BY <1>0, <1>1 DEF PagesTypeOK
<1>11. PagesTypeOK'
  BY <1>0, <1>1, <1>8, <1>9, <1>10 DEF PagesTypeOK
<1>12. ActsFor(s) /\ Pids' /\ Rests(s)
  BY <1>0, <1>1, <1>4, <1>8, <1>10 DEF ActsFor, Pids, Rests, Idle
<1>13. MapsAt(s, <<va[1], va[2]>>, Zero)
  BY <1>4, <1>10 DEF MapsAt, Without, Zero, Word
<1>14. PICK o : o = [y \in Page |-> IF y = p /\ p \in free THEN FreeUse ELSE own[y]]
  OBVIOUS
<1>15. (p \in free => o[p] = FreeUse) /\ \A y \in Page : y # p \/ p \notin free => o[y] = own[y]
  BY <1>4, <1>14
<1>16. ProcInv(s)' /\ Owns(o, s)'
  <2>1. Zero.t = "zero"
    BY DEF Zero, Word
  <2>2. \A y \in Page : o[y] # own[y] => own[y].k \in {"user", "kern"} /\ own[y].v = <<va[1], va[2]>>
    BY <1>4, <1>7, <1>15
  <2>3. ProcInv(s) /\ procs'[s] = procs[s] /\ births' = births
    BY <1>0, <1>1
  <2> HIDE DEF q, va, p
  <2> QED BY <1>0, <1>2, <1>3, <1>4, <1>5, <1>12, <1>13, <2>1, <2>2, <2>3, LeafWrite DEF q
<1>17. q \notin free
  <2>1. p # q
    BY <1>6, <1>7
  <2>2. \A t \in Procs : ~(Doing(t, "free") /\ job[t].stage = "head" /\ job[t].page = q)
    BY <1>4, <2>1 DEF FreesAlone
  <2> QED BY <1>0, <1>6, <2>2, InUse
<1>18. FreeOwn(o)'
  <2>1. \A y \in free : y # p => own[y] = FreeUse
    BY <1>0, <1>4 DEF FreeOwn, FreesAlone
  <2>2. \A y \in free : o[y] = FreeUse
    BY <1>0, <1>15, <2>1 DEF PagesTypeOK
  <2> QED BY <1>1, <2>2 DEF FreeOwn
<1>19. \A y \in Page : mem'[y] # mem[y] => own[y].t \in {0, s}
  BY <1>6, <1>9
<1>20. \A y \in Page : o[y] # own[y] =>
          own[y].t \in {0, s} /\ \A t \in Procs \ {s} : \A a \in DOMAIN space[t] : space[t][a] # y
  BY <1>5, <1>7, <1>15 DEF Unshared
<1>21. Good(o)'
  BY <1>11, <1>12, <1>16, <1>18, <1>19, <1>20, StepKeeps
<1>22. ListOf(n, l)'
  BY <1>0, <1>1, <1>9, <1>17, ListKept DEF PagesTypeOK
<1> QED BY <1>21, <1>22

---------------------------------------------------------------------------
(* Tables are written.                                                      *)

\* The invariant of a process is kept when an entry of its root is written and
\* what it maps stays.
LEMMA TableWrite ==
  ASSUME PagesTypeOK, NEW own, NEW t \in Procs, ProcInv(t), Owns(own, t), procs'[t] = procs[t],
         births' = births, space'[t] = space[t], Rests(t), ~Gone(t), Root(t) # NoPage,
         NEW e \in Entry, \A d \in Entry \ {e} : ~GoneAt(t, d), \A g \in Entry : Pt(t, e, g) = Zero,
         NEW w, Writes(Root(t), e, w),
         \/ w = Zero
         \/ w.t = "node" /\ w.to \in Page /\ own[w.to].k = "alloc" /\ mem[w.to] = Filled("zero"),
         NEW own2,
         \A p \in Page : own2[p] # own[p] =>
           \/ own[p].k \in {"free", "alloc"}
           \/ own[p].k = "node" /\ own[p].v = e,
         w.t = "node" => own2[w.to] = Use("node", t, e)
  PROVE  ProcInv(t)' /\ Owns(own2, t)'
<1>0. RootShape(t) /\ LeafShape(t) /\ ProcShape(t)
  BY DEF ProcInv
<1>1. /\ Root(t)' = Root(t) /\ Root(t) \in Page /\ own[Root(t)].k = "root"
      /\ ~Gone(t)' /\ \A d \in Entry : ~GoneAt(t, d)'
      /\ ~Doing(t, "alloc")' /\ ~Doing(t, "free")'
  BY <1>0, Uses, ViewTypes DEF Root, Rests, Gone, GoneAt, Doing
<1>2. /\ \A p \in Page : p # Root(t) => mem'[p] = mem[p]
      /\ mem'[Root(t)][e] = w /\ \A d \in Entry : d # e => mem'[Root(t)][d] = mem[Root(t)][d]
  BY <1>1 DEF Writes, PagesTypeOK
<1>3. w.t # "node" => w.t = "zero"
  BY DEF Zero, Word
<1>4. RootShape(t)'
  <2> SUFFICES ASSUME NEW d \in Entry
      PROVE (\/ mem[Root(t)][d].t = "zero"
             \/ mem[Root(t)][d].t = "node" /\ mem[Root(t)][d].to \in Page)'
    BY DEF RootShape
  <2>1. CASE d = e
    BY <1>1, <1>2, <2>1 DEF Zero, Word
  <2>2. CASE d # e
    BY <1>0, <1>1, <1>2, <2>2 DEF RootShape
  <2> QED BY <2>1, <2>2
<1>5. Tbl(t, e)' = IF w.t = "node" THEN w.to ELSE NoPage
  BY <1>1, <1>2 DEF Tbl
<1>6. \A d \in Entry : d # e => Tbl(t, d)' = Tbl(t, d)
  BY <1>1, <1>2 DEF Tbl
<1>7. \A d, g \in Entry : Pt(t, d, g)' = Pt(t, d, g)
  <2> SUFFICES ASSUME NEW d \in Entry, NEW g \in Entry PROVE Pt(t, d, g)' = Pt(t, d, g)
    OBVIOUS
  <2>1. CASE d = e /\ w.t = "node"
    <3>1. Tbl(t, d)' = w.to /\ w.to \in Page /\ w.to # Root(t) /\ w.to # NoPage
      BY <1>1, <1>5, <2>1, PagesAssumption DEF Zero, Word, Page, NoPage, PagesAssumption
    <3>2. mem'[w.to][g] = Zero
      BY <1>2, <2>1, <3>1 DEF Filled, Zero, Word
    <3> QED BY <1>1, <2>1, <3>1, <3>2 DEF Pt
  <2>2. CASE d = e /\ w.t # "node"
    BY <1>5, <2>2 DEF Pt
  <2>3. CASE d # e
    <3>1. Tbl(t, d)' = Tbl(t, d) /\ ~GoneAt(t, d) /\ ~GoneAt(t, d)'
      BY <1>1, <1>6, <2>3
    <3>2. Tbl(t, d) # NoPage => mem'[Tbl(t, d)] = mem[Tbl(t, d)]
      <4> HAVE Tbl(t, d) # NoPage
      <4>1. Tbl(t, d) \in Page /\ own[Tbl(t, d)].k = "node"
        BY <1>0, Uses, ViewTypes
      <4> QED BY <1>1, <1>2, <4>1
    <3> QED BY <3>1, <3>2 DEF Pt
  <2> QED BY <2>1, <2>2, <2>3
<1>8. LeafShape(t)'
  BY <1>0, <1>7 DEF LeafShape
<1>9. ProcShape(t)' /\ Allocating(t)' /\ Freeing(t)'
  BY <1>0, <1>1 DEF ProcShape, Allocating, Freeing
<1>10. (Root(t) # NoPage => own2[Root(t)] = Use("root", t, 0))'
  BY <1>1 DEF Owns
<1>11. (\A d \in Entry : Tbl(t, d) # NoPage => own2[Tbl(t, d)] = Use("node", t, d))'
  <2> SUFFICES ASSUME NEW d \in Entry, Tbl(t, d)' # NoPage PROVE own2[Tbl(t, d)'] = Use("node", t, d)
    OBVIOUS
  <2>1. CASE d = e
    BY <1>5, <2>1
  <2>2. CASE d # e
    <3>1. Tbl(t, d)' = Tbl(t, d) /\ Tbl(t, d) # NoPage
      BY <1>6, <2>2
    <3>2. Tbl(t, d) \in Page /\ own[Tbl(t, d)].k = "node" /\ own[Tbl(t, d)].v = d
      BY <1>0, <3>1, Uses, ViewTypes
    <3>3. own2[Tbl(t, d)] = own[Tbl(t, d)]
      BY <2>2, <3>2
    <3> QED BY <3>1, <3>3 DEF Owns
  <2> QED BY <2>1, <2>2
<1>12. (\A d, g \in Entry :
         /\ Pt(t, d, g).t = "kern" => own2[Pt(t, d, g).to] = Use("kern", t, <<d, g>>)
         /\ Pt(t, d, g).t = "user" => own2[Pt(t, d, g).to] = Use("user", 0, <<d, g>>))'
  <2> SUFFICES ASSUME NEW d \in Entry, NEW g \in Entry
      PROVE (/\ Pt(t, d, g).t = "kern" => own2[Pt(t, d, g).to] = Use("kern", t, <<d, g>>)
             /\ Pt(t, d, g).t = "user" => own2[Pt(t, d, g).to] = Use("user", 0, <<d, g>>))'
    OBVIOUS
  <2> DEFINE x == Pt(t, d, g)
  <2>1. x' = x
    BY <1>7
  <2>2. x.t \in {"kern", "user"} => x.to \in Page
    BY <1>0, ViewTypes
  <2>3. /\ x.t = "kern" => own[x.to] = Use("kern", t, <<d, g>>)
        /\ x.t = "user" => own[x.to] = Use("user", 0, <<d, g>>)
    BY DEF Owns
  <2> HIDE DEF x
  <2>4. x.t \in {"kern", "user"} => own[x.to].k \in {"kern", "user"}
    BY <2>3 DEF Use
  <2>5. x.t \in {"kern", "user"} => own2[x.to] = own[x.to]
    BY <2>2, <2>4
  <2> QED BY <2>1, <2>3, <2>5 DEF x
<1>13. Owns(own2, t)'
  BY <1>1, <1>10, <1>11, <1>12 DEF Owns
<1> QED BY <1>4, <1>8, <1>9, <1>13 DEF ProcInv

\* The invariant of a process is kept when it gets an empty root, or loses one.
LEMMA RootWrite ==
  ASSUME NEW t \in Procs, ProcInv(t), space'[t] = space[t], Rests(t), NEW own2,
         births' = births, procs'[t].state = procs[t].state, procs'[t].pid = procs[t].pid,
         procs[t].state # "unused", \A e, f \in Entry : Pt(t, e, f) = Zero,
         \/ Root(t)' = NoPage
         \/ mem'[Root(t)'] = Filled("zero") /\ own2[Root(t)'] = Use("root", t, 0)
  PROVE  ProcInv(t)' /\ Owns(own2, t)'
<1>0. LeafShape(t) /\ ProcShape(t)
  BY DEF ProcInv
<1>1. ~Doing(t, "alloc")' /\ ~Doing(t, "free")'
  BY DEF Rests, Doing
<1>2. RootShape(t)' /\ \A e \in Entry : Tbl(t, e)' = NoPage
  BY DEF RootShape, Tbl, Filled, Word
<1>3. \A e, f \in Entry : Pt(t, e, f)' = Zero
  BY <1>2 DEF Pt
<1>4. LeafShape(t)'
  BY <1>0, <1>3 DEF LeafShape
<1>5. ProcShape(t)' /\ Allocating(t)' /\ Freeing(t)'
  BY <1>0, <1>1 DEF ProcShape, Allocating, Freeing
<1>6. Owns(own2, t)'
  BY <1>1, <1>2, <1>3 DEF Owns, Zero, Word
<1> QED BY <1>2, <1>4, <1>5, <1>6 DEF ProcInv

---------------------------------------------------------------------------
(* Roots and tables are installed and cleared.                              *)

\* A step of s that only changes who owns page p: the free list stays.
LEMMA OwnerChanges ==
  ASSUME NEW own, Good(own), PagesTypeOK', Pids', NEW s \in Procs, ActsFor(s), ProcInv(s)',
         NEW o, Owns(o, s)', NEW p \in Page, own[p].k \in {"alloc", "node", "root"}, own[p].t = s,
         \A x \in Page \ {p} : o[x] = own[x], p \in free => o[p] = FreeUse,
         Doing(s, "free") => job[s].page = p, free' = free,
         \A x \in Page : mem'[x] # mem[x] => own[x].t \in {0, s}
  PROVE  Good(o)'
<1>0. /\ PagesTypeOK /\ (\A t \in Procs : ProcInv(t) /\ Owns(own, t)) /\ FreeOwn(own)
  BY DEF Good, OwnInv
<1>1. FreesAlone(s)
  BY DEF ActsFor
<1>2. \A x \in free : x # p => own[x] = FreeUse
  BY <1>0, <1>1 DEF FreeOwn, FreesAlone
<1>3. \A x \in free : o[x] = FreeUse
  BY <1>0, <1>2 DEF PagesTypeOK
<1>4. FreeOwn(o)'
  BY <1>3 DEF FreeOwn
<1>5. ASSUME NEW t \in Procs, NEW a \in DOMAIN space[t] PROVE space[t][a] # p
  BY <1>0, SpaceUse
<1>6. \A x \in Page : o[x] # own[x] =>
         own[x].t \in {0, s} /\ \A t \in Procs \ {s} : \A a \in DOMAIN space[t] : space[t][a] # x
  BY <1>5
<1> QED BY <1>4, <1>6, StepKeeps

\* The page of an allocation becomes the root.
LEMMA InstallRootKeeps ==
  ASSUME NEW own, Good(own), NEW s \in Procs, Install(s), job[s].use = "root",
         NEW n, NEW l, ListOf(n, l)
  PROVE  (\E o : Good(o)') /\ \E m, k : ListOf(m, k)'
<1> DEFINE p == job[s].page
<1>0. /\ PagesTypeOK /\ Pids /\ (\A t \in Procs : ProcInv(t)) /\ FreeOwn(own) /\ Owns(own, s)
      /\ births \in Nat
  BY DEF Good, OwnInv, PagesTypeOK
<1>1. /\ Doing(s, "alloc") /\ freeing \in {0, s} /\ job[s].stage = "zero"
      /\ job' = [job EXCEPT ![s] = Idle] /\ procs' = [procs EXCEPT ![s].root = p]
      /\ free' = free /\ head' = head /\ mem' = mem /\ space' = space
      /\ births' = births /\ freeing' = freeing /\ unseen' = unseen
  BY DEF Install, Runs, Doing
<1>2. /\ p \in Page /\ own[p] = Use("alloc", s, 0) /\ procs[s].state = "used" /\ Root(s) = NoPage
      /\ mem[p] = Filled("zero")
  BY <1>0, <1>1 DEF ProcInv, Allocating, Owns
<1>3. /\ procs'[s].state = procs[s].state /\ procs'[s].pid = procs[s].pid /\ procs'[s].root = p
      /\ procs'[s] \in ProcRec /\ \A t \in Procs \ {s} : procs'[t] = procs[t]
  BY <1>0, <1>1, <1>2, Types DEF PagesTypeOK, ProcRec
<1>4. job'[s] = Idle /\ (\A t \in Procs \ {s} : job'[t] = job[t]) /\ job' \in [Procs -> JobRec]
  <2>1. Idle \in JobRec
    BY PagesAssumption DEF Idle, JobRec, PagesAssumption
  <2> QED BY <1>0, <1>1, <2>1 DEF PagesTypeOK
<1>5. PagesTypeOK'
  <2>1. procs' \in [Procs -> ProcRec]
    BY <1>0, <1>1, <1>3 DEF PagesTypeOK
  <2> QED BY <1>0, <1>1, <1>4, <2>1 DEF PagesTypeOK
<1>6. ActsFor(s) /\ Rests(s)
  BY <1>0, <1>1, <1>3, <1>4, Alone DEF ActsFor, Rests, Idle
<1>7. Pids'
  <2>1. \A t \in Procs : procs'[t].pid = procs[t].pid
    BY <1>3
  <2> QED BY <1>0, <2>1 DEF Pids
<1>8. PICK o : o = [x \in Page |-> IF x = p THEN Use("root", s, 0) ELSE own[x]]
  OBVIOUS
<1>9. o[p] = Use("root", s, 0) /\ \A x \in Page \ {p} : o[x] = own[x]
  BY <1>2, <1>8
<1>10. ProcInv(s)' /\ Owns(o, s)'
  <2>1. \A e, f \in Entry : Pt(s, e, f) = Zero
    BY <1>2, NoRoot
  <2>2. mem'[Root(s)'] = Filled("zero") /\ o[Root(s)'] = Use("root", s, 0)
    BY <1>1, <1>2, <1>3, <1>9 DEF Root
  <2>3. /\ ProcInv(s) /\ space'[s] = space[s] /\ births' = births
        /\ procs'[s].state = procs[s].state /\ procs'[s].pid = procs[s].pid
        /\ procs[s].state # "unused"
    BY <1>0, <1>1, <1>2, <1>3
  <2> QED BY <1>6, <2>1, <2>2, <2>3, RootWrite
<1>11. \A t \in Procs : ~Doing(t, "free")
  BY <1>1, <1>6 DEF ActsFor, FreesAlone, Doing
<1>12. p \notin free /\ own[p].k = "alloc" /\ own[p].t = s
  <2>1. own[p].k = "alloc" /\ own[p].t = s
    BY <1>2 DEF Use
  <2> QED BY <1>0, <1>11, <2>1, InUse
<1>13. Good(o)'
  <2>1. \A x \in Page : mem'[x] # mem[x] => own[x].t \in {0, s}
    BY <1>1
  <2>2. /\ p \in Page /\ own[p].k \in {"alloc", "node", "root"} /\ own[p].t = s
        /\ p \in free => o[p] = FreeUse
        /\ Doing(s, "free") => job[s].page = p
        /\ free' = free
    BY <1>1, <1>2, <1>11, <1>12
  <2> HIDE DEF p
  <2> QED BY <1>5, <1>6, <1>7, <1>9, <1>10, <2>1, <2>2, OwnerChanges
<1>14. ListOf(n, l)'
  BY <1>1, ListKept
<1> QED BY <1>13, <1>14

\* The page of an allocation becomes a table.
LEMMA InstallNodeKeeps ==
  ASSUME NEW own, Good(own), NEW s \in Procs, Install(s), job[s].use = "node",
         NEW n, NEW l, ListOf(n, l)
  PROVE  (\E o : Good(o)') /\ \E m, k : ListOf(m, k)'
<1> DEFINE p == job[s].page
           e == job[s].va[1]
           q == Root(s)
           w == Word("node", p)
<1>0. /\ PagesTypeOK /\ Pids /\ (\A t \in Procs : ProcInv(t)) /\ FreeOwn(own) /\ Owns(own, s)
      /\ births \in Nat
  BY DEF Good, OwnInv, PagesTypeOK
<1>1. /\ Doing(s, "alloc") /\ freeing \in {0, s} /\ job[s].stage = "zero"
      /\ job' = [job EXCEPT ![s] = Idle] /\ procs' = procs /\ free' = free /\ head' = head
      /\ births' = births /\ freeing' = freeing /\ unseen' = unseen /\ space' = space
      /\ Writes(q, e, w)
  BY DEF Install, Runs, Doing, Writes, Root
<1>2. /\ ~Gone(s) /\ \A d \in Entry : ~GoneAt(s, d)
  BY <1>1 DEF Gone, GoneAt, Doing
<1>3. /\ p \in Page /\ e \in Entry /\ own[p] = Use("alloc", s, 0) /\ q # NoPage
      /\ mem[p] = Filled("zero") /\ Tbl(s, e) = NoPage
  <2>1. Allocating(s) /\ job[s].va \in VAddr
    BY <1>0, <1>1 DEF ProcInv, Allocating
  <2>2. job[s].va \in Entry \X Entry
    BY <2>1, PagesAssumption DEF PagesAssumption
  <2>3. e \in Entry
    BY <2>2
  <2> QED BY <1>0, <1>1, <2>1, <2>3 DEF Allocating, Owns
<1>4. q \in Page /\ own[q].t = s /\ own[q].k = "root"
  BY <1>0, <1>3, Uses, ViewTypes DEF ProcInv
<1>5. w.t = "node" /\ w.to = p /\ w \in WordRec
  BY <1>3 DEF Word, WordRec
<1> HIDE DEF w
<1>6. job'[s] = Idle /\ (\A t \in Procs \ {s} : job'[t] = job[t]) /\ job' \in [Procs -> JobRec]
  <2>1. Idle \in JobRec
    BY PagesAssumption DEF Idle, JobRec, PagesAssumption
  <2> QED BY <1>0, <1>1, <2>1 DEF PagesTypeOK
<1>7. mem' \in [Page -> [Entry -> WordRec]] /\ \A x \in Page \ {q} : mem'[x] = mem[x]
  BY <1>0, <1>1, <1>3, <1>4, <1>5 DEF PagesTypeOK, Writes
<1>8. PagesTypeOK'
  BY <1>0, <1>1, <1>6, <1>7 DEF PagesTypeOK
<1>9. ActsFor(s) /\ Pids' /\ Rests(s)
  BY <1>0, <1>1, <1>6, Alone DEF ActsFor, Pids, Rests, Idle
<1>10. PICK o : o = [x \in Page |-> IF x = p THEN Use("node", s, e) ELSE own[x]]
  OBVIOUS
<1>11. o[p] = Use("node", s, e) /\ \A x \in Page \ {p} : o[x] = own[x]
  BY <1>3, <1>10
<1>12. own[p].k = "alloc" /\ own[p].t = s
  BY <1>3 DEF Use
<1>13. ProcInv(s)' /\ Owns(o, s)'
  <2>1. \A g \in Entry : Pt(s, e, g) = Zero
    BY <1>3 DEF Pt
  <2>2. w.t = "node" /\ w.to \in Page /\ own[w.to].k = "alloc" /\ mem[w.to] = Filled("zero")
    BY <1>3, <1>5, <1>12
  <2>3. w.t = "node" => o[w.to] = Use("node", s, e)
    BY <1>5, <1>11
  <2>4. \A x \in Page : o[x] # own[x] => own[x].k \in {"free", "alloc"}
    BY <1>11, <1>12
  <2>5. ProcInv(s) /\ procs'[s] = procs[s] /\ births' = births /\ space'[s] = space[s]
    BY <1>0, <1>1
  <2>6. \A d \in Entry \ {e} : ~GoneAt(s, d)
    BY <1>2
  <2>7. Root(s) # NoPage /\ Writes(Root(s), e, w)
    BY <1>1, <1>3
  <2> HIDE DEF p, e, q
  <2> QED BY <1>0, <1>2, <1>3, <1>9, <2>1, <2>2, <2>3, <2>4, <2>5, <2>6, <2>7, TableWrite
<1>14. \A t \in Procs : ~Doing(t, "free")
  BY <1>1, <1>9 DEF ActsFor, FreesAlone, Doing
<1>15. p \notin free /\ q \notin free
  BY <1>0, <1>4, <1>12, <1>14, InUse
<1>16. Good(o)'
  <2>1. \A x \in Page : mem'[x] # mem[x] => own[x].t \in {0, s}
    BY <1>4, <1>7
  <2>2. /\ p \in Page /\ own[p].k \in {"alloc", "node", "root"} /\ own[p].t = s
        /\ p \in free => o[p] = FreeUse
        /\ Doing(s, "free") => job[s].page = p
        /\ free' = free
    BY <1>1, <1>3, <1>14, <1>12, <1>15
  <2> HIDE DEF p
  <2> QED BY <1>8, <1>9, <1>11, <1>13, <2>1, <2>2, OwnerChanges
<1>17. ListOf(n, l)'
  BY <1>0, <1>1, <1>7, <1>15, ListKept DEF PagesTypeOK
<1> QED BY <1>16, <1>17

\* The entry of a table that was freed is cleared.
LEMMA ClearNodeKeeps ==
  ASSUME NEW own, Good(own), NEW s \in Procs, ClearEntry(s), job[s].use = "node",
         NEW n, NEW l, ListOf(n, l)
  PROVE  (\E o : Good(o)') /\ \E m, k : ListOf(m, k)'
<1> DEFINE p == job[s].page
           e == job[s].va[1]
           q == Root(s)
<1>0. /\ PagesTypeOK /\ Pids /\ (\A t \in Procs : ProcInv(t)) /\ FreeOwn(own) /\ Owns(own, s)
      /\ births \in Nat
  BY DEF Good, OwnInv, PagesTypeOK
<1>1. /\ Doing(s, "free") /\ job[s].stage = "head"
      /\ job' = [job EXCEPT ![s] = Idle] /\ procs' = procs /\ free' = free /\ head' = head
      /\ births' = births /\ freeing' = freeing /\ unseen' = unseen /\ space' = space
      /\ Writes(q, e, Zero)
  BY DEF ClearEntry, Doing, Writes, Root
<1>2. /\ FreesAlone(s) /\ Freeing(s) /\ p \in Page /\ e \in Entry /\ q # NoPage
  BY <1>1, FreeFacts
<1>3. ~Gone(s) /\ (\A d \in Entry : GoneAt(s, d) <=> d = e)
  BY <1>1 DEF Gone, GoneAt, Doing
<1>4. Tbl(s, e) = p /\ p \in free
  BY <1>1, <1>2 DEF Freeing
<1>5. q \in Page /\ own[q].t = s /\ own[q].k = "root"
  BY <1>0, <1>2, Uses, ViewTypes DEF ProcInv
<1>6. own[p].k = "node" /\ own[p].t = s /\ own[p].v = e
  <2>1. p # NoPage
    BY <1>2, PagesAssumption DEF Page, NoPage, PagesAssumption
  <2> QED BY <1>0, <1>2, <1>4, <2>1, Uses
<1>7. job'[s] = Idle /\ (\A t \in Procs \ {s} : job'[t] = job[t]) /\ job' \in [Procs -> JobRec]
  <2>1. Idle \in JobRec
    BY PagesAssumption DEF Idle, JobRec, PagesAssumption
  <2> QED BY <1>0, <1>1, <2>1 DEF PagesTypeOK
<1>8. mem' \in [Page -> [Entry -> WordRec]] /\ \A x \in Page \ {q} : mem'[x] = mem[x]
  <2>1. Zero \in WordRec
    BY DEF Zero, WordRec, Word
  <2> QED BY <1>0, <1>1, <1>2, <1>5, <2>1 DEF PagesTypeOK, Writes
<1>9. PagesTypeOK'
  BY <1>0, <1>1, <1>7, <1>8 DEF PagesTypeOK
<1>10. ActsFor(s) /\ Pids' /\ Rests(s)
  BY <1>0, <1>1, <1>2, <1>7 DEF ActsFor, Pids, Rests, Idle
<1>11. PICK o : o = [x \in Page |-> IF x = p THEN FreeUse ELSE own[x]]
  OBVIOUS
<1>12. o[p] = FreeUse /\ \A x \in Page \ {p} : o[x] = own[x]
  BY <1>2, <1>11
<1>13. ProcInv(s)' /\ Owns(o, s)'
  <2>1. \A g \in Entry : Pt(s, e, g) = Zero
    BY <1>2, <1>3 DEF Pt
  <2>2. Zero.t # "node"
    BY DEF Zero, Word
  <2>3. \A x \in Page : o[x] # own[x] => own[x].k = "node" /\ own[x].v = e
    BY <1>6, <1>12
  <2>4. ProcInv(s) /\ procs'[s] = procs[s] /\ births' = births /\ space'[s] = space[s]
    BY <1>0, <1>1
  <2>5. \A d \in Entry \ {e} : ~GoneAt(s, d)
    BY <1>3
  <2>6. Root(s) # NoPage /\ Writes(Root(s), e, Zero)
    BY <1>1, <1>2
  <2> HIDE DEF p, e, q
  <2> QED BY <1>0, <1>2, <1>3, <1>10, <2>1, <2>2, <2>3, <2>4, <2>5, <2>6, TableWrite
<1>14. q \notin free
  <2>1. \A t \in Procs : ~(Doing(t, "free") /\ job[t].stage = "head" /\ job[t].page = q)
    BY <1>2, <1>5, <1>6 DEF FreesAlone
  <2> QED BY <1>0, <1>5, <2>1, InUse
<1>15. Good(o)'
  <2>1. \A x \in Page : mem'[x] # mem[x] => own[x].t \in {0, s}
    BY <1>5, <1>8
  <2>2. /\ p \in Page /\ own[p].k \in {"alloc", "node", "root"} /\ own[p].t = s
        /\ p \in free => o[p] = FreeUse
        /\ Doing(s, "free") => job[s].page = p
        /\ free' = free
    BY <1>1, <1>2, <1>6, <1>12
  <2> HIDE DEF p
  <2> QED BY <1>9, <1>10, <1>12, <1>13, <2>1, <2>2, OwnerChanges
<1>16. ListOf(n, l)'
  BY <1>0, <1>1, <1>8, <1>14, ListKept DEF PagesTypeOK
<1> QED BY <1>15, <1>16

\* A process loses its root.
LEMMA ClearRootKeeps ==
  ASSUME NEW own, Good(own), NEW s \in Procs, ClearEntry(s), job[s].use = "root",
         NEW n, NEW l, ListOf(n, l)
  PROVE  (\E o : Good(o)') /\ \E m, k : ListOf(m, k)'
<1> DEFINE p == job[s].page
<1>0. /\ PagesTypeOK /\ Pids /\ (\A t \in Procs : ProcInv(t)) /\ FreeOwn(own) /\ Owns(own, s)
      /\ births \in Nat
  BY DEF Good, OwnInv, PagesTypeOK
<1>1. /\ Doing(s, "free") /\ job[s].stage = "head"
      /\ job' = [job EXCEPT ![s] = Idle] /\ procs' = [procs EXCEPT ![s].root = NoPage]
      /\ free' = free /\ head' = head /\ mem' = mem /\ space' = space
      /\ births' = births /\ freeing' = freeing /\ unseen' = unseen
  BY DEF ClearEntry, Doing
<1>2. /\ FreesAlone(s) /\ Freeing(s) /\ p \in Page /\ procs[s].state = "zombie" /\ Root(s) # NoPage
      /\ Gone(s)
  BY <1>1, FreeFacts DEF Gone
<1>3. p = Root(s) /\ own[p].k = "root" /\ own[p].t = s
  <2>1. p = Root(s)
    BY <1>1, <1>2 DEF Freeing
  <2> QED BY <1>0, <1>2, <2>1, Uses
<1>4. /\ procs'[s].state = procs[s].state /\ procs'[s].pid = procs[s].pid /\ procs'[s].root = NoPage
      /\ procs'[s] \in ProcRec /\ \A t \in Procs \ {s} : procs'[t] = procs[t]
  BY <1>0, <1>1, Types DEF PagesTypeOK, ProcRec
<1>5. job'[s] = Idle /\ (\A t \in Procs \ {s} : job'[t] = job[t]) /\ job' \in [Procs -> JobRec]
  <2>1. Idle \in JobRec
    BY PagesAssumption DEF Idle, JobRec, PagesAssumption
  <2> QED BY <1>0, <1>1, <2>1 DEF PagesTypeOK
<1>6. PagesTypeOK'
  <2>1. procs' \in [Procs -> ProcRec]
    BY <1>0, <1>1, <1>4 DEF PagesTypeOK
  <2> QED BY <1>0, <1>1, <1>5, <2>1 DEF PagesTypeOK
<1>7. ActsFor(s) /\ Rests(s)
  BY <1>0, <1>1, <1>2, <1>4, <1>5 DEF ActsFor, Rests, Idle
<1>8. Pids'
  <2>1. \A t \in Procs : procs'[t].pid = procs[t].pid
    BY <1>4
  <2> QED BY <1>0, <2>1 DEF Pids
<1>9. PICK o : o = [x \in Page |-> IF x = p THEN FreeUse ELSE own[x]]
  OBVIOUS
<1>10. o[p] = FreeUse /\ \A x \in Page \ {p} : o[x] = own[x]
  BY <1>2, <1>9
<1>11. ProcInv(s)' /\ Owns(o, s)'
  <2>1. \A e, f \in Entry : Pt(s, e, f) = Zero
    BY <1>2 DEF Pt, Tbl
  <2>2. Root(s)' = NoPage
    BY <1>4 DEF Root
  <2>3. /\ ProcInv(s) /\ space'[s] = space[s] /\ births' = births
        /\ procs'[s].state = procs[s].state /\ procs'[s].pid = procs[s].pid
        /\ procs[s].state # "unused"
    BY <1>0, <1>1, <1>2, <1>4
  <2> QED BY <1>7, <2>1, <2>2, <2>3, RootWrite
<1>12. Good(o)'
  <2>1. \A x \in Page : mem'[x] # mem[x] => own[x].t \in {0, s}
    BY <1>1
  <2>2. /\ p \in Page /\ own[p].k \in {"alloc", "node", "root"} /\ own[p].t = s
        /\ p \in free => o[p] = FreeUse
        /\ Doing(s, "free") => job[s].page = p
        /\ free' = free
    BY <1>1, <1>2, <1>3, <1>10
  <2> HIDE DEF p
  <2> QED BY <1>6, <1>7, <1>8, <1>10, <1>11, <2>1, <2>2, OwnerChanges
<1>13. ListOf(n, l)'
  BY <1>1, ListKept
<1> QED BY <1>12, <1>13

---------------------------------------------------------------------------
(* freeproc begins with a leaf,                                             *)

\* Process s begins to free page p: it is filled with 1, unless it is shared.
Begins(s, p, use, va, stage) ==
  /\ freeing \in {0, s} /\ freeing' = s /\ Doing(s, "nothing")
  /\ p \in Page /\ use \in {"leaf", "node", "root"} /\ va \in Entry \X Entry
  /\ stage \in {"one", "head"}
  /\ job' = [job EXCEPT ![s] = [do |-> "free", page |-> p, use |-> use, va |-> va, stage |-> stage]]
  /\ mem' = IF stage = "head" THEN mem ELSE [mem EXCEPT ![p] = Filled("one")]
  /\ head' = head /\ procs' = procs /\ space' = space /\ free' = free
  /\ births' = births /\ unseen' = unseen

\* What holds then, whatever the page was used for.
LEMMA Beginning ==
  ASSUME NEW own, Good(own), NEW s \in Procs, NEW p, NEW use, NEW va, NEW stage,
         Begins(s, p, use, va, stage), own[p].k # "free", own[p].t \in {0, s}
  PROVE  /\ PagesTypeOK' /\ ActsFor(s) /\ Pids' /\ p \notin free /\ FreeOwn(own)'
         /\ job'[s] = [do |-> "free", page |-> p, use |-> use, va |-> va, stage |-> stage]
         /\ \A x \in Page : x # p => mem'[x] = mem[x]
         /\ stage = "one" => mem'[p] = Filled("one")
         /\ \A x \in Page : mem'[x] # mem[x] => own[x].t \in {0, s}
         /\ \A n, l : ListOf(n, l) => ListOf(n, l)'
<1>0. /\ PagesTypeOK /\ Pids /\ (\A t \in Procs : ProcInv(t)) /\ FreeOwn(own) /\ Owns(own, s)
      /\ births \in Nat
  BY DEF Good, OwnInv, PagesTypeOK
<1>1. /\ job'[s] = [do |-> "free", page |-> p, use |-> use, va |-> va, stage |-> stage]
      /\ (\A t \in Procs \ {s} : job'[t] = job[t]) /\ job' \in [Procs -> JobRec]
  <2>1. [do |-> "free", page |-> p, use |-> use, va |-> va, stage |-> stage] \in JobRec
    BY DEF Begins, JobRec
  <2> QED BY <1>0, <2>1 DEF Begins, PagesTypeOK
<1>2. Filled("one") \in [Entry -> WordRec]
  BY DEF Filled, WordRec, Word
<1>3. /\ mem' \in [Page -> [Entry -> WordRec]] /\ (\A x \in Page : x # p => mem'[x] = mem[x])
      /\ stage = "one" => mem'[p] = Filled("one")
  BY <1>0, <1>2 DEF PagesTypeOK, Begins
<1>4. PagesTypeOK'
  BY <1>0, <1>1, <1>3 DEF PagesTypeOK, Begins
<1>5. FreesAlone(s) /\ ActsFor(s) /\ Pids'
  BY <1>0, <1>1, Alone DEF ActsFor, Pids, Begins
<1>6. \A t \in Procs : ~Doing(t, "free")
  BY <1>5 DEF FreesAlone, Begins, Doing
<1>7. p \notin free
  BY <1>0, <1>6, InUse
<1>8. FreeOwn(own)'
  BY <1>0, <1>6 DEF FreeOwn, Begins
<1>9. \A n, l : ListOf(n, l) => ListOf(n, l)'
  <2> SUFFICES ASSUME NEW n, NEW l, ListOf(n, l) PROVE ListOf(n, l)'
    OBVIOUS
  <2>1. (\A x \in free : mem'[x] = mem[x]) /\ free' = free /\ head' = head
    BY <1>0, <1>3, <1>7 DEF PagesTypeOK, Begins
  <2> QED BY <2>1, ListKept
<1> QED BY <1>1, <1>3, <1>4, <1>5, <1>7, <1>8, <1>9

\* What a page that is about to be freed looks like.
LEMMA Blank ==
  ASSUME NEW p, mem'[p] = Filled("one")
  PROVE  \A e \in Entry : mem'[p][e].t = "one"
BY DEF Filled, Word

\* A leaf is about to be freed.
LEMMA BeginLeafKeeps ==
  ASSUME NEW own, Good(own), NEW s \in Procs, procs[s].state = "zombie", Root(s) # NoPage,
         NEW va \in VAddr, NEW stage, NEW p, p = Pt(s, va[1], va[2]).to,
         Begins(s, p, "leaf", va, stage), Mapped(s, va), stage = "head" <=> UserOf(p) \ {s} # {}
  PROVE  Good(own)' /\ \A n, l : ListOf(n, l) => ListOf(n, l)'
<1> DEFINE x == Pt(s, va[1], va[2])
<1>0. /\ PagesTypeOK /\ Pids /\ (\A t \in Procs : ProcInv(t)) /\ FreeOwn(own)
      /\ (\A t \in Procs : Owns(own, t)) /\ births \in Nat
  BY DEF Good, OwnInv, PagesTypeOK
<1>1. va[1] \in Entry /\ va[2] \in Entry /\ va = <<va[1], va[2]>>
  <2>1. va \in Entry \X Entry
    BY PagesAssumption DEF PagesAssumption
  <2> QED BY <2>1
<1>2. ~Gone(s) /\ (\A d \in Entry : ~GoneAt(s, d)) /\ ~Doing(s, "alloc") /\ ~Doing(s, "free")
  BY DEF Begins, Gone, GoneAt, Doing
<1>3. x.t \in {"user", "kern"} /\ p \in Page
  BY <1>1, <1>2, PteIsPt DEF Begins
<1>4. own[p].k \in {"user", "kern"} /\ own[p].t \in {0, s} /\ (x.t = "kern" => own[p].k = "kern")
  <2>1. /\ x.t = "kern" => own[x.to] = Use("kern", s, <<va[1], va[2]>>)
        /\ x.t = "user" => own[x.to] = Use("user", 0, <<va[1], va[2]>>)
    BY <1>0, <1>1 DEF Owns
  <2>2. p = x.to
    OBVIOUS
  <2> HIDE DEF x
  <2> QED BY <1>3, <2>1, <2>2 DEF Use
<1>5. /\ PagesTypeOK' /\ ActsFor(s) /\ Pids' /\ p \notin free /\ FreeOwn(own)'
      /\ job'[s] = [do |-> "free", page |-> p, use |-> "leaf", va |-> va, stage |-> stage]
      /\ \A y \in Page : y # p => mem'[y] = mem[y]
      /\ stage = "one" => mem'[p] = Filled("one")
      /\ \A y \in Page : mem'[y] # mem[y] => own[y].t \in {0, s}
      /\ \A n, l : ListOf(n, l) => ListOf(n, l)'
  <2>1. own[p].k # "free" /\ own[p].t \in {0, s} /\ Begins(s, p, "leaf", va, stage)
    BY <1>4
  <2> QED BY <2>1, Beginning
<1>6. /\ Root(s)' = Root(s) /\ ~Gone(s)' /\ (\A d \in Entry : ~GoneAt(s, d)')
      /\ Doing(s, "free")' /\ ~Doing(s, "alloc")' /\ ~Doing(s, "nothing")'
      /\ procs' = procs /\ space' = space /\ free' = free /\ births' = births /\ freeing' = s
      /\ stage \in {"one", "head"}
  BY <1>5 DEF Root, Gone, GoneAt, Doing, Begins
<1>7. /\ RootShape(s)' /\ (\A d \in Entry : Tbl(s, d)' = Tbl(s, d))
      /\ (\A d, g \in Entry : Pt(s, d, g)' = Pt(s, d, g))
  <2>1. Root(s) # NoPage => mem'[Root(s)] = mem[Root(s)]
    BY <1>0, <1>4, <1>5, Uses, ViewTypes DEF ProcInv
  <2>2. ASSUME NEW d \in Entry, Tbl(s, d) # NoPage PROVE mem'[Tbl(s, d)] = mem[Tbl(s, d)]
    <3>1. Tbl(s, d) \in Page /\ own[Tbl(s, d)].k = "node"
      BY <1>0, <2>2, Uses, ViewTypes DEF ProcInv
    <3> QED BY <1>4, <1>5, <3>1
  <2>3. PagesTypeOK /\ PagesTypeOK' /\ RootShape(s)
    BY <1>0, <1>5 DEF ProcInv
  <2> QED BY <1>2, <1>6, <2>1, <2>2, <2>3, SameViews
<1>8. ProcInv(s)'
  <2>1. LeafShape(s)'
    BY <1>0, <1>6, <1>7 DEF LeafShape, ProcInv
  <2>2. ProcShape(s)'
    BY <1>0, <1>6 DEF ProcShape, ProcInv, Root
  <2>3. Allocating(s)'
    BY <1>6 DEF Allocating
  <2>4. Freeing(s)'
    <3>1. Pt(s, job[s].va[1], job[s].va[2])' = x
      BY <1>1, <1>5, <1>7
    <3>2. stage = "one" => Unshared(s, p)'
      <4> HAVE stage = "one"
      <4>1. UserOf(p) \ {s} = {}
        OBVIOUS
      <4>2. Unshared(s, p)
        BY <4>1 DEF UserOf, Unshared
      <4> QED BY <1>6, <4>2 DEF Unshared
    <3>3. stage = "head" => x.t = "user"
      <4> HAVE stage = "head"
      <4>1. PICK u \in Procs : \E a \in DOMAIN space[u] : space[u][a] = p
        BY DEF UserOf
      <4>2. own[p].k = "user"
        BY <1>0, <4>1, SpaceUse
      <4> QED BY <1>3, <1>4, <4>2
    <3>4. stage = "one" => \A e \in Entry : mem'[p][e].t = "one"
      BY <1>5, Blank
    <3> DEFINE y == Pt(s, job[s].va[1], job[s].va[2])
    <3>5. y' = x
      BY <3>1
    <3>6. /\ job'[s].page = p /\ job'[s].use = "leaf" /\ job'[s].va = va /\ job'[s].stage = stage
          /\ procs'[s].state = "zombie" /\ Root(s)' # NoPage
      BY <1>5, <1>6
    <3>7. p = x.to
      OBVIOUS
    <3>8. (/\ y.t \in {"user", "kern"} /\ y.to = job[s].page
           /\ job[s].stage = "head" => y.t = "user")'
      BY <1>3, <3>3, <3>5, <3>6, <3>7
    <3> HIDE DEF x
    <3> QED BY <1>3, <1>5, <1>6, <3>2, <3>4, <3>6, <3>8 DEF Freeing
  <2> QED BY <1>7, <2>1, <2>2, <2>3, <2>4 DEF ProcInv
<1>9. Owns(own, s)'
  BY <1>0, <1>6, <1>7 DEF Owns
<1>10. Good(own)'
  BY <1>5, <1>8, <1>9, StepKeeps
<1> QED BY <1>5, <1>10

---------------------------------------------------------------------------
(* with a table, or with the root.                                          *)

\* A table is about to be freed: nothing is mapped any more.
LEMMA BeginNodeKeeps ==
  ASSUME NEW own, Good(own), NEW s \in Procs, procs[s].state = "zombie", Root(s) # NoPage,
         NEW va \in VAddr, NEW p, p = Tbl(s, va[1]), p # NoPage, Begins(s, p, "node", va, "one"),
         ~HasLeaves(s)
  PROVE  Good(own)' /\ \A n, l : ListOf(n, l) => ListOf(n, l)'
<1> DEFINE e == va[1]
<1>0. /\ PagesTypeOK /\ Pids /\ (\A t \in Procs : ProcInv(t)) /\ FreeOwn(own) /\ Owns(own, s)
      /\ births \in Nat
  BY DEF Good, OwnInv, PagesTypeOK
<1>1. e \in Entry
  <2>1. va \in Entry \X Entry
    BY PagesAssumption DEF PagesAssumption
  <2> QED BY <2>1
<1>2. ~Gone(s) /\ (\A d \in Entry : ~GoneAt(s, d)) /\ ~Doing(s, "alloc") /\ ~Doing(s, "free")
  BY DEF Begins, Gone, GoneAt, Doing
<1>3. own[p].k = "node" /\ own[p].t = s /\ own[p].v = e
  BY <1>0, <1>1, Uses
<1>4. /\ PagesTypeOK' /\ ActsFor(s) /\ Pids' /\ p \notin free /\ FreeOwn(own)'
      /\ job'[s] = [do |-> "free", page |-> p, use |-> "node", va |-> va, stage |-> "one"]
      /\ (\A y \in Page : y # p => mem'[y] = mem[y]) /\ mem'[p] = Filled("one")
      /\ \A y \in Page : mem'[y] # mem[y] => own[y].t \in {0, s}
      /\ \A n, l : ListOf(n, l) => ListOf(n, l)'
  BY <1>3, Beginning
<1>5. /\ Root(s)' = Root(s) /\ ~Gone(s)' /\ (\A d \in Entry : GoneAt(s, d)' <=> d = e)
      /\ Doing(s, "free")' /\ ~Doing(s, "alloc")' /\ ~Doing(s, "nothing")'
      /\ procs' = procs /\ space' = space /\ free' = free /\ births' = births /\ freeing' = s
  BY <1>4 DEF Root, Gone, GoneAt, Doing, Begins
<1>6. Root(s) \in Page /\ mem'[Root(s)] = mem[Root(s)]
  BY <1>0, <1>3, <1>4, Uses, ViewTypes DEF ProcInv
<1>7. RootShape(s)' /\ \A d \in Entry : Tbl(s, d)' = Tbl(s, d)
  BY <1>0, <1>2, <1>5, <1>6 DEF Tbl, RootShape, ProcInv
<1>8. \A d, g \in Entry : Pt(s, d, g).t = "zero"
  <2> SUFFICES ASSUME NEW d \in Entry, NEW g \in Entry PROVE Pt(s, d, g).t = "zero"
    OBVIOUS
  <2>1. CASE <<d, g>> \in VAddr
    <3>1. ~Mapped(s, <<d, g>>)
      BY <2>1 DEF HasLeaves
    <3>2. Pt(s, d, g).t \notin {"user", "kern"}
      BY <1>2, <3>1, PteIsPt
    <3> QED BY <1>0, <3>2 DEF LeafShape, ProcInv
  <2>2. CASE <<d, g>> \notin VAddr
    BY <1>0, <2>2 DEF LeafShape, ProcInv
  <2> QED BY <2>1, <2>2
<1>9. \A d, g \in Entry : Pt(s, d, g)'.t = "zero"
  <2> SUFFICES ASSUME NEW d \in Entry, NEW g \in Entry PROVE Pt(s, d, g)'.t = "zero"
    OBVIOUS
  <2>1. CASE d = e
    BY <1>5, <2>1 DEF Pt, Zero, Word
  <2>2. CASE d # e
    <3>1. Tbl(s, d) # NoPage => mem'[Tbl(s, d)] = mem[Tbl(s, d)]
      <4> HAVE Tbl(s, d) # NoPage
      <4>1. Tbl(s, d) \in Page /\ own[Tbl(s, d)].v = d
        BY <1>0, Uses, ViewTypes DEF ProcInv
      <4> QED BY <1>3, <1>4, <2>2, <4>1
    <3>2. Pt(s, d, g)' = Pt(s, d, g)
      BY <1>2, <1>5, <1>7, <2>2, <3>1 DEF Pt
    <3> QED BY <1>8, <3>2
  <2> QED BY <2>1, <2>2
<1>10. ProcInv(s)'
  <2>1. LeafShape(s)'
    BY <1>0, <1>5, <1>8, <1>9 DEF LeafShape, ProcInv
  <2>2. ProcShape(s)'
    BY <1>0, <1>5 DEF ProcShape, ProcInv, Root
  <2>3. Allocating(s)'
    BY <1>5 DEF Allocating
  <2>4. Freeing(s)'
    <3>1. \A d \in Entry : mem'[p][d].t = "one"
      BY <1>4, Blank
    <3>2. /\ job'[s].page = p /\ job'[s].use = "node" /\ job'[s].va = va /\ job'[s].stage = "one"
          /\ procs'[s].state = "zombie" /\ Root(s)' # NoPage /\ p \in Page
      BY <1>4, <1>5 DEF Begins
    <3>3. Tbl(s, job[s].va[1])' = p
      BY <1>1, <1>7, <3>2
    <3> HIDE DEF e
    <3> QED BY <1>4, <1>5, <3>1, <3>2, <3>3 DEF Freeing
  <2> QED BY <1>7, <2>1, <2>2, <2>3, <2>4 DEF ProcInv
<1>11. Owns(own, s)'
  BY <1>0, <1>5, <1>7, <1>9 DEF Owns
<1>12. Good(own)'
  BY <1>4, <1>10, <1>11, StepKeeps
<1> QED BY <1>4, <1>12

\* A root is about to be freed: it has no table any more.
LEMMA BeginRootKeeps ==
  ASSUME NEW own, Good(own), NEW s \in Procs, procs[s].state = "zombie", Root(s) # NoPage,
         NEW p, p = Root(s), Begins(s, p, "root", <<0, 0>>, "one"),
         \A a \in VAddr : TableOf(s, a) = NoPage
  PROVE  Good(own)' /\ \A n, l : ListOf(n, l) => ListOf(n, l)'
<1>0. /\ PagesTypeOK /\ Pids /\ (\A t \in Procs : ProcInv(t)) /\ FreeOwn(own) /\ Owns(own, s)
      /\ births \in Nat
  BY DEF Good, OwnInv, PagesTypeOK
<1>1. ~Gone(s) /\ (\A d \in Entry : ~GoneAt(s, d)) /\ ~Doing(s, "alloc") /\ ~Doing(s, "free")
  BY DEF Begins, Gone, GoneAt, Doing
<1>2. own[p].k = "root" /\ own[p].t = s
  BY <1>0, Uses
<1>3. /\ PagesTypeOK' /\ ActsFor(s) /\ Pids' /\ p \notin free /\ FreeOwn(own)'
      /\ job'[s] = [do |-> "free", page |-> p, use |-> "root", va |-> <<0, 0>>, stage |-> "one"]
      /\ (\A y \in Page : y # p => mem'[y] = mem[y]) /\ mem'[p] = Filled("one")
      /\ \A y \in Page : mem'[y] # mem[y] => own[y].t \in {0, s}
      /\ \A n, l : ListOf(n, l) => ListOf(n, l)'
  BY <1>2, Beginning
<1>4. /\ Root(s)' = Root(s) /\ Gone(s)'
      /\ Doing(s, "free")' /\ ~Doing(s, "alloc")' /\ ~Doing(s, "nothing")'
      /\ procs' = procs /\ space' = space /\ free' = free /\ births' = births /\ freeing' = s
  BY <1>3 DEF Root, Gone, GoneAt, Doing, Begins
<1>5. RootShape(s)' /\ \A d \in Entry : Tbl(s, d)' = NoPage
  BY <1>4 DEF Tbl, RootShape
<1>6. \A d, g \in Entry : Pt(s, d, g)' = Zero
  BY <1>5 DEF Pt
<1>7. DOMAIN space[s] = {}
  <2> SUFFICES ASSUME NEW a \in DOMAIN space[s] PROVE FALSE
    OBVIOUS
  <2>1. a \in VAddr
    BY <1>0 DEF LeafShape, ProcInv
  <2>2. PICK d \in Entry, g \in Entry : a = <<d, g>>
    <3>1. a \in Entry \X Entry
      BY <2>1, PagesAssumption DEF PagesAssumption
    <3> QED BY <3>1
  <2>3. Pt(s, d, g).t = "user"
    BY <1>0, <2>2 DEF LeafShape, ProcInv
  <2>4. Tbl(s, d) = NoPage
    BY <1>1, <2>1, <2>2, TableIsTbl
  <2> QED BY <2>3, <2>4 DEF Pt, Zero, Word
<1>8. ProcInv(s)'
  <2>1. LeafShape(s)'
    BY <1>4, <1>6, <1>7 DEF LeafShape, Zero, Word
  <2>2. ProcShape(s)'
    BY <1>0, <1>4 DEF ProcShape, ProcInv, Root
  <2>3. Allocating(s)'
    BY <1>4 DEF Allocating
  <2>4. Freeing(s)'
    <3>1. \A d \in Entry : mem'[p][d].t = "one"
      BY <1>3, Blank
    <3>2. /\ job'[s].page = p /\ job'[s].use = "root" /\ job'[s].stage = "one"
          /\ procs'[s].state = "zombie" /\ Root(s)' # NoPage /\ p \in Page /\ Root(s)' = p
      BY <1>3, <1>4 DEF Begins
    <3> QED BY <1>3, <1>4, <3>1, <3>2 DEF Freeing
  <2> QED BY <1>5, <2>1, <2>2, <2>3, <2>4 DEF ProcInv
<1>9. Owns(own, s)'
  BY <1>0, <1>4, <1>5, <1>6 DEF Owns, Zero, Word
<1>10. Good(own)'
  BY <1>3, <1>8, <1>9, StepKeeps
<1> QED BY <1>3, <1>10

\* The next page of a process that is torn down is about to be freed.
LEMMA FreeNextKeeps ==
  ASSUME NEW own, Good(own), NEW s \in Procs, FreeNext(s), NEW n, NEW l, ListOf(n, l)
  PROVE  Good(own)' /\ ListOf(n, l)'
<1>0. \A t \in Procs : ProcInv(t)
  BY DEF Good
<1>1. /\ procs[s].state = "zombie" /\ freeing \in {0, s} /\ Doing(s, "nothing") /\ Root(s) # NoPage
      /\ freeing' = s /\ head' = head /\ procs' = procs /\ space' = space /\ free' = free
      /\ births' = births /\ unseen' = unseen
  BY DEF FreeNext, Runs, Doing, Root
<1>2. ~Gone(s) /\ \A d \in Entry : ~GoneAt(s, d)
  BY <1>1 DEF Gone, GoneAt, Doing
<1>3. Root(s) \in Page /\ \A d \in Entry : Tbl(s, d) \in Page \cup {NoPage}
  BY <1>0, <1>1, ViewTypes DEF ProcInv, Good
<1>4. VAddr \subseteq Entry \X Entry /\ <<0, 0>> \in Entry \X Entry
  BY PagesAssumption DEF PagesAssumption
<1>5. ASSUME NEW va \in VAddr, Mapped(s, va), NEW p, p = Pte(s, va).to,
             NEW shared \in BOOLEAN, shared <=> UserOf(p) \ {s} # {},
             job' = [job EXCEPT ![s] = [do |-> "free", page |-> p, use |-> "leaf", va |-> va,
                                        stage |-> IF shared THEN "head" ELSE "one"]],
             mem' = IF shared THEN mem ELSE [mem EXCEPT ![p] = Filled("one")]
      PROVE  Good(own)' /\ ListOf(n, l)'
  <2>1. va[1] \in Entry /\ va[2] \in Entry /\ va \in Entry \X Entry
    BY <1>4
  <2>2. p = Pt(s, va[1], va[2]).to /\ Pt(s, va[1], va[2]).t \in {"user", "kern"}
    BY <1>2, <1>5, <2>1, PteIsPt DEF Mapped
  <2>3. p \in Page
    BY <1>0, <2>1, <2>2, ViewTypes DEF ProcInv, Good
  <2> DEFINE stage == IF shared THEN "head" ELSE "one"
  <2>4. Begins(s, p, "leaf", va, stage)
    BY <1>1, <1>5, <2>1, <2>3 DEF Begins
  <2>5. stage = "head" <=> UserOf(p) \ {s} # {}
    BY <1>5
  <2> HIDE DEF stage
  <2> QED BY <1>1, <1>5, <2>2, <2>4, <2>5, BeginLeafKeeps
<1>6. ASSUME NEW va \in VAddr, ~HasLeaves(s), NEW p, p = TableOf(s, va), p # NoPage,
             job' = [job EXCEPT ![s] = [do |-> "free", page |-> p, use |-> "node", va |-> va,
                                        stage |-> "one"]],
             mem' = [mem EXCEPT ![p] = Filled("one")]
      PROVE  Good(own)' /\ ListOf(n, l)'
  <2>1. va[1] \in Entry /\ va \in Entry \X Entry
    BY <1>4
  <2>2. p = Tbl(s, va[1]) /\ p \in Page
    BY <1>2, <1>3, <1>6, <2>1, TableIsTbl
  <2>3. Begins(s, p, "node", va, "one")
    BY <1>1, <1>6, <2>1, <2>2 DEF Begins
  <2> QED BY <1>1, <1>6, <2>2, <2>3, BeginNodeKeeps
<1>7. ASSUME \A a \in VAddr : TableOf(s, a) = NoPage, NEW p, p = Root(s),
             job' = [job EXCEPT ![s] = [do |-> "free", page |-> p, use |-> "root", va |-> <<0, 0>>,
                                        stage |-> "one"]],
             mem' = [mem EXCEPT ![p] = Filled("one")]
      PROVE  Good(own)' /\ ListOf(n, l)'
  <2>1. Begins(s, p, "root", <<0, 0>>, "one")
    BY <1>1, <1>3, <1>4, <1>7 DEF Begins
  <2> QED BY <1>1, <1>7, <2>1, BeginRootKeeps
<1>8. PICK use \in {"leaf", "node", "root"}, va \in VAddr \cup {<<0, 0>>} :
       /\ CASE use = "leaf" -> va \in VAddr /\ Mapped(s, va)
            [] use = "node" -> va \in VAddr /\ ~HasLeaves(s) /\ TableOf(s, va) # NoPage
            [] use = "root" -> /\ va = <<0, 0>>
                               /\ \A a \in VAddr : TableOf(s, a) = NoPage
       /\ LET p == CASE use = "leaf" -> Pte(s, va).to
                     [] use = "node" -> TableOf(s, va)
                     [] OTHER -> procs[s].root
              shared == use = "leaf" /\ UserOf(p) \ {s} # {}
          IN /\ job' = [job EXCEPT ![s] =
                          [do |-> "free", page |-> p, use |-> use, va |-> va,
                           stage |-> IF shared THEN "head" ELSE "one"]]
             /\ mem' = IF shared THEN mem ELSE [mem EXCEPT ![p] = Filled("one")]
  BY DEF FreeNext
<1>9. CASE use = "leaf"
  <2>1. PICK p : p = Pte(s, va).to
    OBVIOUS
  <2>2. PICK shared \in BOOLEAN : shared <=> UserOf(p) \ {s} # {}
    OBVIOUS
  <2>3. /\ va \in VAddr /\ Mapped(s, va)
        /\ job' = [job EXCEPT ![s] = [do |-> "free", page |-> p, use |-> "leaf", va |-> va,
                                      stage |-> IF shared THEN "head" ELSE "one"]]
        /\ mem' = IF shared THEN mem ELSE [mem EXCEPT ![p] = Filled("one")]
    BY <1>8, <1>9, <2>1, <2>2
  <2> QED BY <1>5, <2>1, <2>2, <2>3
<1>10. CASE use = "node"
  <2>1. PICK p : p = TableOf(s, va)
    OBVIOUS
  <2>2. /\ va \in VAddr /\ ~HasLeaves(s) /\ p # NoPage
        /\ job' = [job EXCEPT ![s] = [do |-> "free", page |-> p, use |-> "node", va |-> va,
                                      stage |-> "one"]]
        /\ mem' = [mem EXCEPT ![p] = Filled("one")]
    BY <1>8, <1>10, <2>1
  <2> QED BY <1>6, <2>1, <2>2
<1>11. CASE use = "root"
  <2>1. PICK p : p = Root(s)
    OBVIOUS
  <2>2. /\ \A a \in VAddr : TableOf(s, a) = NoPage
        /\ job' = [job EXCEPT ![s] = [do |-> "free", page |-> p, use |-> "root", va |-> <<0, 0>>,
                                      stage |-> "one"]]
        /\ mem' = [mem EXCEPT ![p] = Filled("one")]
    BY <1>8, <1>11, <2>1 DEF Root
  <2> QED BY <1>7, <2>1, <2>2
<1> QED BY <1>9, <1>10, <1>11

---------------------------------------------------------------------------
(* kfree links a page and moves the head.                                   *)

\* The page that is being freed still belongs to what it was used for.
LEMMA FreedPage ==
  ASSUME NEW own, Good(own), NEW s \in Procs, Doing(s, "free"), NEW p, p = job[s].page
  PROVE  /\ p \in Page /\ own[p].k # "free" /\ own[p].t \in {0, s}
         /\ ~Gone(s) => p # Root(s)
         /\ \A d \in Entry : Tbl(s, d) # NoPage /\ ~GoneAt(s, d) => p # Tbl(s, d)
         /\ job[s].stage # "head" => p \notin free
<1>0. /\ PagesTypeOK /\ (\A t \in Procs : ProcInv(t)) /\ FreeOwn(own) /\ Owns(own, s)
  BY DEF Good, OwnInv
<1>1. FreesAlone(s) /\ Freeing(s) /\ Root(s) # NoPage /\ p \in Page
  BY FreeFacts
<1>2. p # NoPage
  BY <1>1, PagesAssumption DEF Page, NoPage, PagesAssumption
<1> DEFINE va == job[s].va
<1>3. job[s].use # "root" => va[1] \in Entry /\ va[2] \in Entry
  BY FreeFacts
<1>4. job[s].use \in {"leaf", "node", "root"}
  BY <1>1 DEF Freeing
<1>5. /\ own[p].k # "free" /\ own[p].t \in {0, s}
      /\ ~Gone(s) => p # Root(s)
      /\ \A d \in Entry : Tbl(s, d) # NoPage /\ ~GoneAt(s, d) => p # Tbl(s, d)
  <2>1. CASE job[s].use = "leaf"
    <3> DEFINE x == Pt(s, va[1], va[2])
    <3>1. /\ x.t = "kern" => own[x.to] = Use("kern", s, <<va[1], va[2]>>)
          /\ x.t = "user" => own[x.to] = Use("user", 0, <<va[1], va[2]>>)
      BY <1>0, <1>3, <2>1 DEF Owns
    <3>2. x.t \in {"user", "kern"} /\ x.to = p
      BY <1>1, <2>1 DEF Freeing
    <3> HIDE DEF x
    <3>3. own[p].k \in {"user", "kern"} /\ own[p].t \in {0, s}
      BY <3>1, <3>2 DEF Use
    <3> QED BY <1>0, <1>1, <3>3, Uses
  <2>2. CASE job[s].use = "node"
    <3>1. p = Tbl(s, va[1])
      BY <1>1, <2>2 DEF Freeing
    <3>2. own[p].k = "node" /\ own[p].t = s /\ own[p].v = va[1]
      BY <1>0, <1>2, <1>3, <2>2, <3>1, Uses
    <3>3. \A d \in Entry : GoneAt(s, d) <=> d = va[1]
      BY <2>2 DEF GoneAt
    <3> QED BY <1>0, <1>1, <3>2, <3>3, Uses
  <2>3. CASE job[s].use = "root"
    <3>1. p = Root(s) /\ Gone(s)
      BY <1>1, <2>3 DEF Freeing, Gone
    <3> QED BY <1>0, <1>1, <3>1, Uses
  <2> QED BY <1>4, <2>1, <2>2, <2>3
<1>6. job[s].stage # "head" => p \notin free
  <2> HAVE job[s].stage # "head"
  <2>1. \A t \in Procs : ~(Doing(t, "free") /\ job[t].stage = "head" /\ job[t].page = p)
    BY <1>1 DEF FreesAlone
  <2> QED BY <1>0, <1>5, <2>1, InUse
<1> QED BY <1>1, <1>5, <1>6

\* A page of the kernel's list to be is linked to the list.
LEMMA LinkPageKeeps ==
  ASSUME NEW own, Good(own), NEW s \in Procs, LinkPage(s), NEW n, NEW l, ListOf(n, l)
  PROVE  Good(own)' /\ ListOf(n, l)'
<1>0. /\ PagesTypeOK /\ Pids /\ (\A t \in Procs : ProcInv(t)) /\ FreeOwn(own) /\ Owns(own, s)
      /\ births \in Nat
  BY DEF Good, OwnInv, PagesTypeOK
<1>1. PICK p : p = job[s].page
  OBVIOUS
<1>2. /\ Doing(s, "free") /\ job[s].stage = "one" /\ mem' = [mem EXCEPT ![p][0] = Link(head)]
      /\ job' = [job EXCEPT ![s].stage = "link"] /\ head' = head /\ procs' = procs
      /\ freeing' = freeing /\ space' = space /\ free' = free /\ births' = births /\ unseen' = unseen
  BY <1>1 DEF LinkPage, Doing
<1>3. /\ p \in Page /\ own[p].k # "free" /\ own[p].t \in {0, s} /\ p \notin free
      /\ ~Gone(s) => p # Root(s)
      /\ \A d \in Entry : Tbl(s, d) # NoPage /\ ~GoneAt(s, d) => p # Tbl(s, d)
  BY <1>1, <1>2, FreedPage
<1>4. FreesAlone(s) /\ Freeing(s)
  BY <1>2, FreeFacts
<1>5. /\ job'[s].do = job[s].do /\ job'[s].page = p /\ job'[s].stage = "link"
      /\ job'[s].use = job[s].use /\ job'[s].va = job[s].va /\ job'[s] \in JobRec
      /\ \A t \in Procs \ {s} : job'[t] = job[t]
  BY <1>0, <1>1, <1>2, Types DEF PagesTypeOK, JobRec
<1>6. /\ mem' \in [Page -> [Entry -> WordRec]] /\ \A x \in Page \ {p} : mem'[x] = mem[x]
      /\ mem'[p][0] = Link(head) /\ \A e \in Entry : e # 0 => mem'[p][e] = mem[p][e]
  <2>1. Link(head) \in WordRec /\ 0 \in Entry
    BY <1>0, PagesAssumption DEF Link, Word, WordRec, PagesTypeOK, PagesAssumption
  <2> QED BY <1>0, <1>2, <1>3, <2>1 DEF PagesTypeOK
<1>7. PagesTypeOK'
  <2>1. job' \in [Procs -> JobRec]
    BY <1>0, <1>2, <1>5 DEF PagesTypeOK
  <2> QED BY <1>0, <1>2, <1>6, <2>1 DEF PagesTypeOK
<1>8. ActsFor(s) /\ Pids'
  BY <1>0, <1>2, <1>4, <1>5 DEF ActsFor, Pids
<1>9. /\ Root(s)' = Root(s) /\ Gone(s)' = Gone(s) /\ (\A e \in Entry : GoneAt(s, e)' = GoneAt(s, e))
      /\ Doing(s, "free")' /\ ~Doing(s, "alloc")' /\ ~Doing(s, "nothing")' /\ ~Doing(s, "nothing")
  BY <1>2, <1>5 DEF Root, Gone, GoneAt, Doing
<1>10. /\ RootShape(s)' /\ (\A e \in Entry : Tbl(s, e)' = Tbl(s, e))
       /\ (\A e, f \in Entry : Pt(s, e, f)' = Pt(s, e, f))
  <2>1. Root(s) # NoPage /\ ~Gone(s) => mem'[Root(s)] = mem[Root(s)]
    BY <1>0, <1>3, <1>6, ViewTypes DEF ProcInv
  <2>2. ASSUME NEW d \in Entry, Tbl(s, d) # NoPage, ~GoneAt(s, d)
        PROVE  mem'[Tbl(s, d)] = mem[Tbl(s, d)]
    <3>1. Tbl(s, d) \in Page
      BY <1>0, <2>2, ViewTypes DEF ProcInv
    <3> QED BY <1>3, <1>6, <2>2, <3>1
  <2>3. PagesTypeOK /\ PagesTypeOK' /\ RootShape(s)
    BY <1>0, <1>7 DEF ProcInv
  <2> QED BY <1>9, <2>1, <2>2, <2>3, SameViews
<1>11. ProcInv(s)'
  <2>1. LeafShape(s)'
    BY <1>0, <1>2, <1>10 DEF LeafShape, ProcInv
  <2>2. ProcShape(s)'
    BY <1>0, <1>2, <1>9 DEF ProcShape, ProcInv
  <2>3. Allocating(s)'
    BY <1>9 DEF Allocating
  <2>4. Freeing(s)'
    <3>1. job[s].use # "root" => job[s].va[1] \in Entry /\ job[s].va[2] \in Entry
      BY <1>2, FreeFacts
    <3>2. /\ job[s].use # "root" => Pt(s, job[s].va[1], job[s].va[2])' = Pt(s, job[s].va[1], job[s].va[2])
          /\ job[s].use # "root" => Tbl(s, job[s].va[1])' = Tbl(s, job[s].va[1])
      BY <1>5, <1>10, <3>1
    <3>3. Unshared(s, p) => Unshared(s, p)'
      BY <1>2 DEF Unshared
    <3>4. \A e \in Entry : mem'[p][e].t = "one" \/ (e = 0 /\ mem'[p][e].t = "link")
      <4>1. \A e \in Entry : mem[p][e].t = "one"
        BY <1>1, <1>2, <1>4 DEF Freeing, Filled, Word
      <4> QED BY <1>6, <4>1 DEF Link, Word
    <3> QED BY <1>1, <1>2, <1>4, <1>5, <1>6, <1>9, <3>2, <3>3, <3>4 DEF Freeing
  <2> QED BY <1>10, <2>1, <2>2, <2>3, <2>4 DEF ProcInv
<1>12. Owns(own, s)'
  BY <1>0, <1>9, <1>10 DEF Owns
<1>13. FreeOwn(own)'
  <2>1. \A x \in free : own[x] = FreeUse
    BY <1>0, <1>2, <1>4 DEF FreeOwn, FreesAlone
  <2> QED BY <1>2, <2>1 DEF FreeOwn
<1>14. \A x \in Page : mem'[x] # mem[x] => own[x].t \in {0, s}
  BY <1>3, <1>6
<1>15. Good(own)'
  BY <1>7, <1>8, <1>11, <1>12, <1>13, <1>14, StepKeeps
<1>16. ListOf(n, l)'
  BY <1>0, <1>2, <1>3, <1>6, ListKept DEF PagesTypeOK
<1> QED BY <1>15, <1>16

\* A freed page becomes the first one of the list.
LEMMA MoveHeadKeeps ==
  ASSUME NEW own, Good(own), NEW s \in Procs, MoveHead(s), NEW n, NEW l, ListOf(n, l)
  PROVE  Good(own)' /\ \E m, k : ListOf(m, k)'
<1>0. /\ PagesTypeOK /\ Pids /\ (\A t \in Procs : ProcInv(t)) /\ FreeOwn(own) /\ Owns(own, s)
      /\ births \in Nat
  BY DEF Good, OwnInv, PagesTypeOK
<1>1. PICK p : p = job[s].page
  OBVIOUS
<1>2. /\ Doing(s, "free") /\ job[s].stage = "link" /\ mem' = mem
      /\ job' = [job EXCEPT ![s].stage = "head"] /\ head' = p /\ procs' = procs
      /\ freeing' = freeing /\ space' = space /\ free' = free \cup {p} /\ births' = births
      /\ unseen' = unseen
  BY <1>1 DEF MoveHead, Doing
<1>3. p \in Page /\ own[p].k # "free" /\ own[p].t \in {0, s} /\ p \notin free
  BY <1>1, <1>2, FreedPage
<1>4. FreesAlone(s) /\ Freeing(s)
  BY <1>2, FreeFacts
<1>5. /\ job'[s].do = job[s].do /\ job'[s].page = p /\ job'[s].stage = "head"
      /\ job'[s].use = job[s].use /\ job'[s].va = job[s].va /\ job'[s] \in JobRec
      /\ \A t \in Procs \ {s} : job'[t] = job[t]
  BY <1>0, <1>1, <1>2, Types DEF PagesTypeOK, JobRec
<1>6. PagesTypeOK'
  <2>1. job' \in [Procs -> JobRec]
    BY <1>0, <1>2, <1>5 DEF PagesTypeOK
  <2> QED BY <1>0, <1>2, <1>3, <2>1 DEF PagesTypeOK
<1>7. ActsFor(s) /\ Pids'
  BY <1>0, <1>2, <1>4, <1>5 DEF ActsFor, Pids
<1>8. /\ Root(s)' = Root(s) /\ Gone(s)' = Gone(s) /\ (\A e \in Entry : GoneAt(s, e)' = GoneAt(s, e))
      /\ Doing(s, "free")' /\ ~Doing(s, "alloc")' /\ ~Doing(s, "nothing")' /\ ~Doing(s, "nothing")
  BY <1>2, <1>5 DEF Root, Gone, GoneAt, Doing
<1>9. /\ RootShape(s)' /\ (\A e \in Entry : Tbl(s, e)' = Tbl(s, e))
      /\ (\A e, f \in Entry : Pt(s, e, f)' = Pt(s, e, f))
  BY <1>0, <1>2, <1>6, <1>8, SameViews DEF ProcInv
<1>10. ProcInv(s)'
  <2>1. LeafShape(s)'
    BY <1>0, <1>2, <1>9 DEF LeafShape, ProcInv
  <2>2. ProcShape(s)'
    BY <1>0, <1>2, <1>8 DEF ProcShape, ProcInv
  <2>3. Allocating(s)'
    BY <1>8 DEF Allocating
  <2>4. Freeing(s)'
    <3>1. job[s].use # "root" => job[s].va[1] \in Entry /\ job[s].va[2] \in Entry
      BY <1>2, FreeFacts
    <3>2. /\ job[s].use # "root" => Pt(s, job[s].va[1], job[s].va[2])' = Pt(s, job[s].va[1], job[s].va[2])
          /\ job[s].use # "root" => Tbl(s, job[s].va[1])' = Tbl(s, job[s].va[1])
      BY <1>5, <1>9, <3>1
    <3>3. Unshared(s, p) => Unshared(s, p)'
      BY <1>2 DEF Unshared
    <3> QED BY <1>1, <1>2, <1>4, <1>5, <1>8, <3>2, <3>3 DEF Freeing
  <2> QED BY <1>9, <2>1, <2>2, <2>3, <2>4 DEF ProcInv
<1>11. Owns(own, s)'
  BY <1>0, <1>8, <1>9 DEF Owns
<1>12. FreeOwn(own)'
  <2>1. \A x \in free : own[x] = FreeUse
    BY <1>0, <1>2, <1>4 DEF FreeOwn, FreesAlone
  <2> QED BY <1>2, <1>5, <1>8, <2>1 DEF FreeOwn
<1>13. Good(own)'
  BY <1>2, <1>6, <1>7, <1>10, <1>11, <1>12, StepKeeps
<1>14. mem[p][0] = Link(head)
  BY <1>1, <1>2, <1>4 DEF Freeing
<1>15. \E m, k : ListOf(m, k)'
  BY <1>2, <1>3, <1>14, ListPushes
<1> QED BY <1>13, <1>15

---------------------------------------------------------------------------
(* The invariant of the kernel.                                             *)

\* At boot every page but the kernel's is free.
LEMMA PagesStart == PagesInit => PagesInv
<1> SUFFICES ASSUME PagesInit PROVE PagesInv
  OBVIOUS
<1>0. LastPage \in Nat \ {0} /\ 0 \in Entry /\ KernelPage = 0 /\ NoPage = -1
  BY PagesAssumption DEF PagesAssumption, KernelPage, NoPage
<1>1. PagesTypeOK
  <2>1. mem \in [Page -> [Entry -> WordRec]]
    <3>1. Filled("five") \in [Entry -> WordRec] /\ Filled("one") \in [Entry -> WordRec]
      BY DEF Filled, Word, WordRec
    <3>2. ASSUME NEW p \in Page, p # KernelPage
          PROVE  [Filled("one") EXCEPT ![0] = Link(IF p = 1 THEN NoPage ELSE p - 1)] \in [Entry -> WordRec]
      <4>1. (IF p = 1 THEN NoPage ELSE p - 1) \in Page \cup {NoPage}
        BY <1>0, <3>2 DEF Page
      <4>2. Link(IF p = 1 THEN NoPage ELSE p - 1) \in WordRec
        BY <4>1 DEF Link, Word, WordRec
      <4> QED BY <1>0, <3>1, <4>2
    <3> QED BY <3>1, <3>2 DEF PagesInit
  <2>2. head \in Page /\ free \subseteq Page /\ freeing = 0 /\ births \in Nat /\ unseen \subseteq Page
    BY <1>0 DEF PagesInit, Page
  <2>3. procs \in [Procs -> ProcRec]
    BY DEF PagesInit, ProcRec
  <2>4. job \in [Procs -> JobRec]
    <3>1. Idle \in JobRec
      BY <1>0 DEF Idle, JobRec
    <3> QED BY <3>1 DEF PagesInit
  <2>5. space = [t \in Procs |-> space[t]]
    BY DEF PagesInit
  <2> QED BY <2>1, <2>2, <2>3, <2>4, <2>5 DEF PagesTypeOK
<1>2. ASSUME NEW t \in Procs
      PROVE  Root(t) = NoPage /\ Doing(t, "nothing") /\ DOMAIN space[t] = {}
             /\ procs[t].state = "unused" /\ procs[t].pid = 0
  BY DEF PagesInit, Root, Doing, Idle, NoSpace
<1>3. ASSUME NEW t \in Procs PROVE ProcInv(t)
  <2>1. /\ RootShape(t) /\ \A e, f \in Entry : Pt(t, e, f) = Zero
    BY <1>2, NoRoot
  <2>2. LeafShape(t)
    BY <1>2, <2>1 DEF LeafShape, Zero, Word
  <2>3. ProcShape(t) /\ Allocating(t) /\ Freeing(t)
    BY <1>2 DEF ProcShape, Allocating, Freeing, Doing
  <2> QED BY <2>1, <2>2, <2>3 DEF ProcInv
<1>4. PICK own : own = [p \in Page |-> FreeUse]
  OBVIOUS
<1>5. OwnInv(own)
  <2>1. FreeOwn(own)
    BY <1>1, <1>4 DEF FreeOwn, PagesTypeOK
  <2>2. ASSUME NEW t \in Procs PROVE Owns(own, t)
    <3>1. ~Doing(t, "alloc") /\ Root(t) = NoPage
      BY <1>2 DEF Doing
    <3>2. (\A e \in Entry : Tbl(t, e) = NoPage) /\ \A e, f \in Entry : Pt(t, e, f) = Zero
      BY <1>2, NoRoot
    <3> QED BY <3>1, <3>2 DEF Owns, Zero, Word
  <2> QED BY <2>1, <2>2 DEF OwnInv
<1>6. PICK l : l = [i \in 1 .. LastPage |-> i]
  OBVIOUS
<1>7. ListOf(LastPage, l)
  <2>1. l \in [1 .. LastPage -> Page] /\ \A i \in 1 .. LastPage : l[i] = i
    BY <1>0, <1>6 DEF Page
  <2>2. free = {l[i] : i \in 1 .. LastPage}
    <3>1. \A x : x \in free <=> x \in 1 .. LastPage
      BY <1>0 DEF PagesInit, Page
    <3> QED BY <2>1, <3>1
  <2>3. head = l[LastPage]
    BY <1>0, <2>1 DEF PagesInit
  <2>4. ASSUME NEW i \in 1 .. LastPage
        PROVE  mem[l[i]][0] = Link(IF i = 1 THEN NoPage ELSE l[i - 1])
    <3>1. l[i] = i /\ i \in Page /\ i # KernelPage /\ (i # 1 => l[i - 1] = i - 1)
      BY <1>0, <2>1 DEF Page
    <3>2. mem[i] = [Filled("one") EXCEPT ![0] = Link(IF i = 1 THEN NoPage ELSE i - 1)]
      BY <3>1 DEF PagesInit
    <3>3. mem[i][0] = Link(IF i = 1 THEN NoPage ELSE i - 1)
      BY <1>0, <3>2 DEF Filled
    <3> QED BY <3>1, <3>3
  <2> QED BY <1>0, <2>1, <2>2, <2>3, <2>4 DEF ListOf
<1>8. Pids
  BY <1>2 DEF Pids
<1> QED BY <1>1, <1>3, <1>5, <1>7, <1>8 DEF PagesInv

\* Every step of the kernel keeps it.
LEMMA PagesStep == PagesInv /\ [PagesNext]_pageVars => PagesInv'
<1> SUFFICES ASSUME PagesInv, [PagesNext]_pageVars PROVE PagesInv'
  OBVIOUS
<1>1. PICK own : Good(own)
  BY DEF PagesInv, Good
<1>2. PICK n, l : ListOf(n, l)
  BY DEF PagesInv
<1>3. SUFFICES (\E o : Good(o)') /\ \E m, k : ListOf(m, k)'
  BY DEF PagesInv, Good
<1>4. CASE UNCHANGED pageVars
  <2>1. \A t \in Procs : ProcInv(t)' /\ Owns(own, t)'
    <3> SUFFICES ASSUME NEW t \in Procs PROVE ProcInv(t)' /\ Owns(own, t)'
      OBVIOUS
    <3>1. ProcInv(t) /\ Owns(own, t)
      BY <1>1 DEF Good, OwnInv
    <3>2. /\ mem' = mem /\ head' = head /\ procs' = procs /\ job' = job /\ freeing' = freeing
          /\ space' = space /\ free' = free /\ births' = births
      BY <1>4 DEF pageVars
    <3>3. /\ Root(t)' = Root(t) /\ Gone(t)' = Gone(t) /\ \A e : GoneAt(t, e)' = GoneAt(t, e)
          /\ \A d : Doing(t, d)' = Doing(t, d)
      BY <3>2 DEF Root, Gone, GoneAt, Doing
    <3>4. (\A e : Tbl(t, e)' = Tbl(t, e)) /\ \A p : Unshared(t, p)' = Unshared(t, p)
      BY <3>2, <3>3 DEF Tbl, Unshared
    <3>5. \A e, f : Pt(t, e, f)' = Pt(t, e, f)
      BY <3>2, <3>3, <3>4 DEF Pt
    <3>6. RootShape(t)' /\ LeafShape(t)' /\ ProcShape(t)' /\ Owns(own, t)'
      BY <3>1, <3>2, <3>3, <3>4, <3>5 DEF ProcInv, RootShape, LeafShape, ProcShape, Owns
    <3>7. Allocating(t)'
      BY <3>1, <3>2, <3>3, <3>4, <3>5 DEF ProcInv, Allocating
    <3>8. Freeing(t)'
      BY <3>1, <3>2, <3>3, <3>4, <3>5 DEF ProcInv, Freeing
    <3> QED BY <3>6, <3>7, <3>8 DEF ProcInv
  <2>2. PagesTypeOK' /\ Pids' /\ FreeOwn(own)'
    BY <1>1, <1>4 DEF pageVars, Good, OwnInv, PagesTypeOK, Pids, FreeOwn, Doing
  <2>3. ListOf(n, l)'
    BY <1>2, <1>4 DEF pageVars, ListOf
  <2> QED BY <2>1, <2>2, <2>3 DEF Good, OwnInv
<1>5. CASE PagesNext
  <2>0. VAddr \subseteq Entry \X Entry /\ <<0, 0>> \in Entry \X Entry
    BY PagesAssumption DEF PagesAssumption
  <2>1. PICK s \in Procs :
          \/ AllocProc(s) \/ FillPage(s) \/ Install(s) \/ Exit(s)
          \/ Kalloc(s, "root", <<0, 0>>)
          \/ \E va \in VAddr : Kalloc(s, "node", va) \/ Kalloc(s, "user", va) \/ Kalloc(s, "kern", va)
          \/ \E t \in Procs, va \in VAddr : Share(s, t, va)
          \/ FreeNext(s) \/ LinkPage(s) \/ MoveHead(s) \/ ClearEntry(s) \/ FreeSlot(s)
    BY <1>5 DEF PagesNext
  <2>2. ASSUME NEW use, NEW va, Wanted(s, use, va), Kalloc(s, use, va)
        PROVE  (\E o : Good(o)') /\ \E m, k : ListOf(m, k)'
    BY <1>1, <1>2, <2>2, KallocKeeps
  <2>3. CASE AllocProc(s)
    BY <1>1, <1>2, <2>3, AllocProcKeeps, ListKept
  <2>4. CASE FillPage(s)
    BY <1>1, <1>2, <2>4, FillPageKeeps, ListKept
  <2>5. CASE Install(s)
    <3>1. job[s].use \in {"root", "node", "user", "kern"}
      BY <1>1, <2>5 DEF Good, ProcInv, Allocating, Install, Doing
    <3> QED BY <1>1, <1>2, <2>5, <3>1, InstallRootKeeps, InstallNodeKeeps, InstallLeafKeeps
  <2>6. CASE Exit(s)
    BY <1>1, <1>2, <2>6, ExitKeeps, ListKept
  <2>7. CASE Kalloc(s, "root", <<0, 0>>)
    BY <2>0, <2>2, <2>7 DEF Wanted
  <2>8. CASE \E va \in VAddr : Kalloc(s, "node", va) \/ Kalloc(s, "user", va) \/ Kalloc(s, "kern", va)
    <3>1. PICK va \in VAddr : Kalloc(s, "node", va) \/ Kalloc(s, "user", va) \/ Kalloc(s, "kern", va)
      BY <2>8
    <3>2. Wanted(s, "node", va) /\ Wanted(s, "user", va) /\ Wanted(s, "kern", va)
      BY <2>0 DEF Wanted
    <3> QED BY <2>2, <3>1, <3>2
  <2>9. CASE \E t \in Procs, va \in VAddr : Share(s, t, va)
    BY <1>1, <1>2, <2>9, ShareKeeps
  <2>10. CASE FreeNext(s)
    BY <1>1, <1>2, <2>10, FreeNextKeeps
  <2>11. CASE LinkPage(s)
    BY <1>1, <1>2, <2>11, LinkPageKeeps
  <2>12. CASE MoveHead(s)
    BY <1>1, <1>2, <2>12, MoveHeadKeeps
  <2>13. CASE ClearEntry(s)
    <3>1. job[s].use \in {"root", "node", "leaf"}
      BY <1>1, <2>13 DEF Good, ProcInv, Freeing, ClearEntry, Doing
    <3> QED BY <1>1, <1>2, <2>13, <3>1, ClearRootKeeps, ClearNodeKeeps, ClearLeafKeeps
  <2>14. CASE FreeSlot(s)
    BY <1>1, <1>2, <2>14, FreeSlotKeeps, ListKept
  <2> QED BY <2>1, <2>3, <2>4, <2>5, <2>6, <2>7, <2>8, <2>9, <2>10, <2>11, <2>12, <2>13, <2>14
<1> QED BY <1>4, <1>5

\* In every state of the kernel a page has one use, and the list has the free ones.
THEOREM PagesInvariant == PagesSpec => []PagesInv
<1>1. QED BY PagesStart, PagesStep, PTL DEF PagesSpec

---------------------------------------------------------------------------
(* The walk along the free list (_decode_physical).                         *)

\* One step of the walk, as a function of the walk so far.
StepOf(g, k) == IF k = 0 THEN [at |-> head, pages |-> {}, ok |-> TRUE] ELSE FreeStep(g[k - 1])

\* The walk along the free list is defined.
LEMMA FreeStepsDef == FreeSteps = [k \in 0 .. MaxSteps |-> StepOf(FreeSteps, k)]
<1> DEFINE Defined == {m \in Nat : \E g : g = [k \in 0 .. m |-> StepOf(g, k)]}
<1>1. 0 \in Defined
  <2> DEFINE g == [k \in 0 .. 0 |-> StepOf(<< >>, 0)]
  <2>1. g = [k \in 0 .. 0 |-> StepOf(g, k)]
    <3>1. \A k \in 0 .. 0 : k = 0 /\ StepOf(<< >>, 0) = StepOf(g, k)
      BY DEF StepOf
    <3> HIDE DEF g
    <3>2. g = [k \in 0 .. 0 |-> StepOf(<< >>, 0)]
      BY DEF g
    <3> QED BY <3>1, <3>2
  <2> QED BY <2>1
<1>2. ASSUME NEW m \in Nat, m \in Defined PROVE m + 1 \in Defined
  <2>1. PICK g : g = [k \in 0 .. m |-> StepOf(g, k)]
    BY <1>2
  <2> DEFINE h == [k \in 0 .. (m + 1) |-> IF k = m + 1 THEN FreeStep(g[m]) ELSE g[k]]
  <2>2. ASSUME NEW k \in 0 .. (m + 1) PROVE h[k] = StepOf(h, k)
    <3>1. CASE k = m + 1
      <4>1. h[k] = FreeStep(g[m]) /\ h[m] = g[m] /\ k # 0 /\ k - 1 = m
        BY <3>1
      <4> QED BY <4>1 DEF StepOf
    <3>2. CASE k # m + 1 /\ k # 0
      <4>1. k \in 0 .. m /\ k - 1 \in 0 .. (m + 1) /\ k - 1 # m + 1
        BY <3>2
      <4>2. h[k] = g[k] /\ h[k - 1] = g[k - 1]
        BY <3>2, <4>1
      <4>3. g[k] = StepOf(g, k)
        BY <2>1, <4>1
      <4> HIDE DEF h
      <4> QED BY <3>2, <4>2, <4>3 DEF StepOf
    <3>3. CASE k = 0
      <4>1. k \in 0 .. m /\ k # m + 1
        BY <3>3
      <4>2. h[k] = g[k] /\ g[k] = StepOf(g, k)
        BY <2>1, <4>1
      <4> HIDE DEF h
      <4> QED BY <3>3, <4>2 DEF StepOf
    <3> QED BY <3>1, <3>2, <3>3
  <2>3. \E d : h = [k \in 0 .. (m + 1) |-> d[k]]
    <3>1. h = [k \in 0 .. (m + 1) |-> h[k]]
      OBVIOUS
    <3> HIDE DEF h
    <3> QED BY <3>1
  <2> HIDE DEF h
  <2>4. h = [k \in 0 .. (m + 1) |-> StepOf(h, k)]
    BY <2>2, <2>3
  <2> QED BY <2>4
<1>3. MaxSteps \in Nat
  BY PagesAssumption DEF MaxSteps, PagesAssumption
<1> HIDE DEF Defined
<1>4. MaxSteps \in Defined
  <2>1. \A m \in Nat : m \in Defined => m + 1 \in Defined
    BY <1>2
  <2> QED BY <1>1, <1>3, <2>1, NatSetInduction
<1>5. \E g : g = [k \in 0 .. MaxSteps |-> StepOf(g, k)]
  BY <1>4 DEF Defined
<1> QED BY <1>5 DEF FreeSteps, StepOf

\* How many pages a list can have.
LEMMA ListIsShort ==
  ASSUME NEW n, NEW l, ListOf(n, l)
  PROVE  n <= LastPage + 1 /\ IsFiniteSet(free)
<1>1. n \in Nat /\ l \in Injection(1 .. n, Page)
  BY DEF ListOf, Injection, IsInjective
<1>2. LastPage \in Nat
  BY PagesAssumption DEF PagesAssumption
<1>3. IsFiniteSet(Page) /\ Cardinality(Page) = LastPage + 1
  BY <1>2, FS_Interval DEF Page
<1>4. Cardinality(1 .. n) = n
  BY <1>1, FS_Interval
<1>5. n <= LastPage + 1
  BY <1>1, <1>3, <1>4, FS_Injection
<1>6. free \subseteq Page
  BY DEF ListOf
<1> QED BY <1>3, <1>5, <1>6, FS_Subset

\* The walk after k steps: it has seen the first pages of the list, or nothing
\* but pages of the list and gone wrong.
Walked(n, l, k) ==
  LET st == FreeSteps[k]
  IN /\ st.pages \subseteq free
     /\ st.ok => \E i \in 0 .. n :
          /\ i = 0 \/ i = n - k
          /\ st.at = IF i = 0 THEN NoPage ELSE l[i]
          /\ st.pages = {l[j] : j \in (i + 1) .. n}

\* One more step.
LEMMA WalkStep ==
  ASSUME PagesTypeOK, NEW n, NEW l, ListOf(n, l), NEW k \in Nat, k + 1 \in 0 .. MaxSteps, Walked(n, l, k)
  PROVE  Walked(n, l, k + 1)
<1> DEFINE st == FreeSteps[k]
           su == FreeSteps[k + 1]
<1>0. n \in Nat /\ l \in [1 .. n -> Page] /\ (\A i \in 1 .. n : l[i] \in free)
  BY DEF ListOf
<1>1. su = FreeStep(st)
  <2>1. su = StepOf(FreeSteps, k + 1)
    BY FreeStepsDef
  <2>2. (k + 1) - 1 = k /\ k + 1 # 0
    OBVIOUS
  <2> QED BY <2>1, <2>2 DEF StepOf
<1>2. st.pages \subseteq free
  BY DEF Walked
<1>3. CASE ~st.ok
  <2>1. su = st
    BY <1>1, <1>3 DEF FreeStep
  <2> QED BY <1>2, <1>3, <2>1 DEF Walked
<1>4. CASE st.ok
  <2>1. PICK i \in 0 .. n :
          /\ i = 0 \/ i = n - k
          /\ st.at = IF i = 0 THEN NoPage ELSE l[i]
          /\ st.pages = {l[j] : j \in (i + 1) .. n}
    BY <1>4 DEF Walked
  <2>2. CASE i = 0
    <3>1. st.at = NoPage
      BY <2>1, <2>2
    <3>2. su = st
      BY <1>1, <3>1 DEF FreeStep
    <3> QED BY <1>2, <2>1, <2>2, <3>2 DEF Walked
  <2>3. CASE i # 0
    <3>1. i \in 1 .. n /\ st.at = l[i] /\ l[i] \in Page /\ l[i] # NoPage /\ i = n - k
      <4>1. \A p \in Page : p # NoPage
        BY PagesAssumption DEF Page, NoPage, PagesAssumption
      <4> QED BY <1>0, <2>1, <2>3, <4>1
    <3>2. l[i] \notin st.pages
      <4>1. \A j \in (i + 1) .. n : j \in 1 .. n /\ j # i
        BY <1>0, <3>1
      <4> QED BY <2>1, <3>1, <4>1 DEF ListOf
    <3> DEFINE nx == AsPointer(U64(st.at, 0))
    <3>3. su = [at |-> nx, pages |-> st.pages \cup {l[i]}, ok |-> nx # Unread]
      BY <1>1, <1>4, <3>1, <3>2 DEF FreeStep
    <3>4. st.pages \cup {l[i]} = {l[j] : j \in ((i - 1) + 1) .. n}
      <4>1. (i - 1) + 1 = i /\ \A j : j \in i .. n <=> j = i \/ j \in (i + 1) .. n
        BY <1>0, <3>1
      <4> QED BY <2>1, <4>1
    <3>5. nx = Unread \/ nx = IF i = 1 THEN NoPage ELSE l[i - 1]
      <4>1. mem[l[i]][0] = Link(IF i = 1 THEN NoPage ELSE l[i - 1])
        BY <3>1 DEF ListOf
      <4>2. CASE SeenPage(l[i])
        <5>1. nx = AsPointer(Link(IF i = 1 THEN NoPage ELSE l[i - 1]))
          BY <3>1, <4>1, <4>2 DEF U64
        <5>2. \A q : AsPointer(Link(q)) = q
          BY DEF AsPointer, Link, Word
        <5> QED BY <5>1, <5>2
      <4>3. CASE ~SeenPage(l[i])
        BY <3>1, <4>3 DEF U64, AsPointer, Word
      <4> QED BY <4>2, <4>3
    <3> HIDE DEF nx
    <3>6. su.pages \subseteq free
      BY <1>0, <1>2, <3>1, <3>3
    <3>7. su.ok => \E m \in 0 .. n :
            /\ m = 0 \/ m = n - (k + 1)
            /\ su.at = IF m = 0 THEN NoPage ELSE l[m]
            /\ su.pages = {l[j] : j \in (m + 1) .. n}
      <4> HAVE su.ok
      <4>0. su.ok <=> nx # Unread
        <5> HIDE DEF su, st
        <5> QED BY <3>3
      <4>1. nx = IF i = 1 THEN NoPage ELSE l[i - 1]
        BY <3>5, <4>0
      <4>2. i - 1 \in 0 .. n /\ i - 1 = n - (k + 1) /\ (i - 1 = 0 <=> i = 1)
        BY <1>0, <3>1
      <4>3. su.at = (IF i - 1 = 0 THEN NoPage ELSE l[i - 1])
            /\ su.pages = {l[j] : j \in ((i - 1) + 1) .. n}
        BY <3>3, <3>4, <4>1, <4>2
      <4> QED BY <4>2, <4>3
    <3> QED BY <3>6, <3>7 DEF Walked
  <2> QED BY <2>2, <2>3
<1> QED BY <1>3, <1>4

\* The walk finds free pages only, and all of them when nothing goes wrong.
LEMMA WalkIsExact ==
  ASSUME PagesInv
  PROVE  FreeWalk.pages \subseteq free /\ (FreeWalk.ok => FreeWalk.pages = free)
<1>0. PagesTypeOK
  BY DEF PagesInv
<1>1. PICK n, l : ListOf(n, l)
  BY DEF PagesInv
<1>2. n \in Nat /\ l \in [1 .. n -> Page] /\ n <= LastPage + 1 /\ free = {l[i] : i \in 1 .. n}
  BY <1>1, ListIsShort DEF ListOf
<1>3. MaxSteps \in Nat /\ n - MaxSteps < 0
  BY <1>2, PagesAssumption DEF MaxSteps, PagesAssumption
<1>4. Walked(n, l, 0)
  <2>1. FreeSteps[0] = [at |-> head, pages |-> {}, ok |-> TRUE]
    BY <1>3, FreeStepsDef DEF StepOf
  <2>2. n \in 0 .. n /\ n = n - 0 /\ {l[j] : j \in (n + 1) .. n} = {}
    BY <1>2
  <2>3. head = IF n = 0 THEN NoPage ELSE l[n]
    BY <1>1 DEF ListOf
  <2> QED BY <2>1, <2>2, <2>3 DEF Walked
<1> DEFINE Done == {k \in Nat : k \in 0 .. MaxSteps => Walked(n, l, k)}
<1>5. 0 \in Done
  BY <1>4
<1>6. ASSUME NEW k \in Nat, k \in Done PROVE k + 1 \in Done
  <2> SUFFICES ASSUME k + 1 \in 0 .. MaxSteps PROVE Walked(n, l, k + 1)
    OBVIOUS
  <2>1. Walked(n, l, k)
    BY <1>3, <1>6
  <2> QED BY <1>0, <1>1, <2>1, WalkStep
<1>7. MaxSteps \in Done
  <2> HIDE DEF Done
  <2>1. \A k \in Nat : k \in Done => k + 1 \in Done
    BY <1>6
  <2> QED BY <1>3, <1>5, <2>1, NatSetInduction
<1>8. Walked(n, l, MaxSteps)
  BY <1>3, <1>7
<1>9. FreeWalk.ok => FreeWalk.pages = free
  <2> HAVE FreeWalk.ok
  <2>1. PICK i \in 0 .. n : (i = 0 \/ i = n - MaxSteps)
                            /\ FreeWalk.pages = {l[j] : j \in (i + 1) .. n}
    BY <1>8 DEF Walked, FreeWalk
  <2>2. i = 0
    BY <1>2, <1>3, <2>1
  <2> QED BY <1>2, <2>1, <2>2
<1> QED BY <1>8, <1>9 DEF Walked, FreeWalk

---------------------------------------------------------------------------
(* The walk of a page table (walk_pagetable).                               *)

\* What Append adds, for a name of the result.
LEMMA Appended ==
  ASSUME NEW s \in Seq(Entry), NEW f \in Entry, NEW a, a = Append(s, f)
  PROVE  /\ a \in Seq(Entry) /\ Len(a) = Len(s) + 1
         /\ (\A i \in 1 .. Len(s) : a[i] = s[i]) /\ a[Len(s) + 1] = f
<1>1. a \in Seq(Entry)
  BY AppendProperties, Zenon
<1>2. Len(a) = Len(s) + 1
  BY AppendProperties, Zenon
<1>3. ASSUME NEW i \in 1 .. Len(s) PROVE a[i] = s[i]
  BY AppendProperties, ZenonT(60)
<1>4. a[Len(s) + 1] = f
  BY AppendProperties, Zenon
<1> QED BY <1>1, <1>2, <1>3, <1>4, Zenon

\* The index of an entry, level by level.
LEMMA Indices == \A e, f \in Entry : Append(<< >>, e) = <<e>> /\ Append(<<e>>, f) = <<e, f>>
<1> SUFFICES ASSUME NEW e \in Entry, NEW f \in Entry
             PROVE  Append(<< >>, e) = <<e>> /\ Append(<<e>>, f) = <<e, f>>
  OBVIOUS
<1>1. Append(<< >>, e) = <<e>>
  OBVIOUS
<1>2. PICK s : s = <<e>>
  OBVIOUS
<1>3. PICK b : b = <<e, f>>
  OBVIOUS
<1>4. PICK a : a = Append(s, f)
  OBVIOUS
<1>5. s \in Seq(Entry) /\ Len(s) = 1 /\ s[1] = e
  BY <1>2
<1>6. b \in Seq(Entry) /\ Len(b) = 2 /\ b[1] = e /\ b[2] = f
  BY <1>3
<1>7. a \in Seq(Entry) /\ Len(a) = 2 /\ a[1] = e /\ a[2] = f
  <2>1. /\ a \in Seq(Entry) /\ Len(a) = Len(s) + 1
        /\ (\A i \in 1 .. Len(s) : a[i] = s[i]) /\ a[Len(s) + 1] = f
    BY ONLY <1>4, <1>5, f \in Entry, Appended
  <2> QED BY <1>5, <2>1
<1>8. a = b
  <2>1. Len(a) = Len(b) /\ \A i \in 1 .. Len(a) : a[i] = b[i]
    BY <1>6, <1>7
  <2> QED BY <1>6, <1>7, <2>1, SeqEqual, Zenon
<1> QED BY <1>1, <1>2, <1>3, <1>4, <1>8, Zenon

\* The nodes below the root that the walk goes to, and their entries.
ChildAt(r, e) == [page |-> Target(mem[r][e]), va |-> <<e>>]
LeafAt(e, f, w) == [va |-> <<e, f>>, w |-> w]
RootLeafAt(e, w) == [va |-> <<e>>, w |-> w]

\* The entries of the root.
LEMMA RootEntries ==
  ASSUME NEW r
  PROVE  \A x : x \in Entries(RootNode(r)) <=>
                  SeenPage(r) /\ \E e \in Entry : x = RootLeafAt(e, mem[r][e])
<1>1. \A x : x \in Entries(RootNode(r)) <=>
        SeenPage(r) /\ \E e \in Entry : x = [va |-> Append(<< >>, e), w |-> U64(r, e)]
  <2> DEFINE top == [page |-> r, va |-> << >>]
  <2>1. top.page = r /\ top.va = << >>
    OBVIOUS
  <2> HIDE DEF top
  <2>2. \A x : x \in Entries({top}) <=>
          SeenPage(top.page) /\ \E e \in Entry : x = [va |-> Append(top.va, e), w |-> U64(top.page, e)]
    BY DEF Entries
  <2>3. RootNode(r) = {top}
    BY DEF RootNode, top
  <2> QED BY <2>1, <2>2, <2>3
<1>2. SeenPage(r) => \A e \in Entry : U64(r, e) = mem[r][e]
  BY DEF U64
<1> QED BY <1>1, <1>2, Indices DEF RootLeafAt

\* The nodes below the root.
LEMMA Children ==
  ASSUME NEW r
  PROVE  \A c : c \in ChildNodes(r) <=>
                  SeenPage(r) /\ \E e \in Entry : /\ IsValid(mem[r][e]) /\ ~IsLeaf(mem[r][e])
                                                  /\ c = ChildAt(r, e)
<1>1. \A c : c \in ChildNodes(r) <=>
        \E y \in Entries(RootNode(r)) :
           IsValid(y.w) /\ ~IsLeaf(y.w) /\ c = [page |-> Target(y.w), va |-> y.va]
  BY DEF ChildNodes
<1>2. \A e, w : RootLeafAt(e, w).w = w /\ RootLeafAt(e, w).va = <<e>>
  BY DEF RootLeafAt
<1> SUFFICES ASSUME NEW c
             PROVE  c \in ChildNodes(r) <=>
                      SeenPage(r) /\ \E e \in Entry : /\ IsValid(mem[r][e]) /\ ~IsLeaf(mem[r][e])
                                                      /\ c = ChildAt(r, e)
  OBVIOUS
<1>3. ASSUME c \in ChildNodes(r)
      PROVE  SeenPage(r) /\ \E e \in Entry : /\ IsValid(mem[r][e]) /\ ~IsLeaf(mem[r][e])
                                             /\ c = ChildAt(r, e)
  <2>1. PICK y \in Entries(RootNode(r)) :
          IsValid(y.w) /\ ~IsLeaf(y.w) /\ c = [page |-> Target(y.w), va |-> y.va]
    BY <1>1, <1>3
  <2>2. PICK e \in Entry : SeenPage(r) /\ y = RootLeafAt(e, mem[r][e])
    BY RootEntries
  <2> QED BY <1>2, <2>1, <2>2 DEF ChildAt
<1>4. ASSUME SeenPage(r), NEW e \in Entry, IsValid(mem[r][e]), ~IsLeaf(mem[r][e]), c = ChildAt(r, e)
      PROVE  c \in ChildNodes(r)
  <2>1. RootLeafAt(e, mem[r][e]) \in Entries(RootNode(r))
    BY <1>4, RootEntries
  <2> QED BY <1>1, <1>2, <1>4, <2>1 DEF ChildAt
<1> QED BY <1>3, <1>4

\* The entries of the nodes below the root.
LEMMA LowEntries ==
  ASSUME NEW r
  PROVE  \A x : x \in Entries(Nodes(r)) <=>
           \/ SeenPage(r) /\ \E e \in Entry : x = RootLeafAt(e, mem[r][e])
           \/ \E e, f \in Entry : /\ ChildAt(r, e) \in ChildNodes(r) /\ SeenPage(ChildAt(r, e).page)
                                  /\ x = LeafAt(e, f, mem[ChildAt(r, e).page][f])
<1> SUFFICES ASSUME NEW x
             PROVE  x \in Entries(Nodes(r)) <=>
                      \/ SeenPage(r) /\ \E e \in Entry : x = RootLeafAt(e, mem[r][e])
                      \/ \E e, f \in Entry :
                           /\ ChildAt(r, e) \in ChildNodes(r) /\ SeenPage(ChildAt(r, e).page)
                           /\ x = LeafAt(e, f, mem[ChildAt(r, e).page][f])
  OBVIOUS
<1>1. x \in Entries(Nodes(r)) <=>
        x \in Entries(RootNode(r)) \/ x \in Entries(ChildNodes(r))
  BY DEF Entries, Nodes
<1>2. x \in Entries(ChildNodes(r)) <=>
        \E c \in ChildNodes(r) : SeenPage(c.page) /\
          \E f \in Entry : x = [va |-> Append(c.va, f), w |-> U64(c.page, f)]
  BY DEF Entries
<1>3. ASSUME NEW c \in ChildNodes(r), SeenPage(c.page), NEW f \in Entry,
             x = [va |-> Append(c.va, f), w |-> U64(c.page, f)]
      PROVE  \E e \in Entry : /\ ChildAt(r, e) \in ChildNodes(r) /\ SeenPage(ChildAt(r, e).page)
                              /\ x = LeafAt(e, f, mem[ChildAt(r, e).page][f])
  <2>1. PICK e \in Entry : c = ChildAt(r, e)
    BY Children
  <2>2. c.va = <<e>> /\ U64(c.page, f) = mem[c.page][f]
    BY <1>3, <2>1 DEF ChildAt, U64
  <2> QED BY <1>3, <2>1, <2>2, Indices DEF LeafAt
<1>4. ASSUME NEW e \in Entry, NEW f \in Entry, ChildAt(r, e) \in ChildNodes(r),
             SeenPage(ChildAt(r, e).page), x = LeafAt(e, f, mem[ChildAt(r, e).page][f])
      PROVE  x \in Entries(ChildNodes(r))
  <2> DEFINE c == ChildAt(r, e)
  <2>1. c.va = <<e>> /\ U64(c.page, f) = mem[c.page][f]
    BY <1>4 DEF ChildAt, U64
  <2>2. x = [va |-> Append(c.va, f), w |-> U64(c.page, f)]
    BY <1>4, <2>1, Indices DEF LeafAt
  <2> HIDE DEF c
  <2> QED BY <1>2, <1>4, <2>2 DEF c
<1> QED BY <1>1, <1>2, <1>3, <1>4, RootEntries

\* A leaf with the user bit is a page of the process at its address.
LEMMA LeavesAreMapped ==
  ASSUME PagesInv, NEW s \in Procs, Root(s) # NoPage, NEW x \in UserLeaves(s)
  PROVE  x.va \in DOMAIN space[s] /\ space[s][x.va] = Target(x.w) /\ Target(x.w) \in Page
<1> DEFINE r == Root(s)
<1>0. PagesTypeOK /\ ProcInv(s) /\ RootShape(s) /\ LeafShape(s) /\ Freeing(s)
  BY DEF PagesInv, ProcInv
<1>1. x \in Entries(Nodes(r)) /\ x.w.t = "user"
  BY DEF UserLeaves, Leaves, Root
<1>2. ASSUME NEW e \in Entry PROVE mem[r][e].t \in {"zero", "node", "one", "link"}
                                  /\ (mem[r][e].t = "node" => ~Gone(s))
  <2>1. CASE Gone(s)
    <3>1. r = job[s].page
      BY <1>0, <2>1 DEF Freeing, Gone
    <3> QED BY <1>0, <2>1, <3>1 DEF Freeing, Gone
  <2>2. CASE ~Gone(s)
    BY <1>0, <2>2 DEF RootShape
  <2> QED BY <2>1, <2>2
<1>3. ASSUME NEW e \in Entry, x = RootLeafAt(e, mem[r][e]) PROVE FALSE
  BY <1>1, <1>2, <1>3 DEF RootLeafAt
<1>4. PICK e \in Entry, f \in Entry :
        /\ ChildAt(r, e) \in ChildNodes(r) /\ SeenPage(ChildAt(r, e).page)
        /\ x = LeafAt(e, f, mem[ChildAt(r, e).page][f])
  BY <1>1, <1>3, LowEntries
<1> DEFINE c == ChildAt(r, e).page
<1>5. c = Target(mem[r][e]) /\ c \in Page /\ IsValid(mem[r][e])
  <2>1. PICK d \in Entry : IsValid(mem[r][d]) /\ ~IsLeaf(mem[r][d]) /\ ChildAt(r, e) = ChildAt(r, d)
    BY <1>4, Children
  <2>2. d = e
    BY <2>1 DEF ChildAt
  <2> QED BY <1>4, <2>1, <2>2 DEF ChildAt, SeenPage
<1>6. mem[r][e].t = "node" /\ c = mem[r][e].to
  <2>1. FarPage \notin Page
    BY PagesAssumption DEF FarPage, Page, PagesAssumption
  <2> QED BY <1>2, <1>5, <2>1 DEF Target, IsValid
<1>7. Tbl(s, e) = c
  BY <1>2, <1>6 DEF Tbl
<1>8. x.va = <<e, f>> /\ x.w = mem[c][f]
  BY <1>4 DEF LeafAt
<1>9. ~GoneAt(s, e)
  <2> SUFFICES ASSUME GoneAt(s, e) PROVE FALSE
    OBVIOUS
  <2>1. c = job[s].page
    BY <1>0, <1>7 DEF Freeing, GoneAt
  <2>2. mem[c][f].t \in {"one", "link"}
    BY <1>0, <2>1 DEF Freeing, GoneAt
  <2> QED BY <1>1, <1>8, <2>2
<1>10. Pt(s, e, f) = x.w
  <2>1. c # NoPage
    BY <1>5, PagesAssumption DEF NoPage, Page, PagesAssumption
  <2> QED BY <1>7, <1>8, <1>9, <2>1 DEF Pt
<1>11. <<e, f>> \in DOMAIN space[s] /\ space[s][<<e, f>>] = x.w.to /\ x.w.to \in Page
  BY <1>0, <1>1, <1>10 DEF LeafShape
<1> QED BY <1>1, <1>8, <1>11 DEF Target

\* A walk without an error is one of a live root, and sees every page.
LEMMA MappedAreLeaves ==
  ASSUME PagesInv, NEW s \in Procs, Root(s) # NoPage, ~WalkError(Root(s))
  PROVE  /\ ~Gone(s)
         /\ \A va \in DOMAIN space[s] :
              \E x \in UserLeaves(s) : x.va = va /\ Target(x.w) = space[s][va]
<1> DEFINE r == Root(s)
<1>0. PagesTypeOK /\ ProcInv(s) /\ RootShape(s) /\ LeafShape(s) /\ Freeing(s)
  BY DEF PagesInv, ProcInv
<1>1. SeenPage(r) /\ \A c \in ChildNodes(r) : SeenPage(c.page)
  <2>1. \A c \in RootNode(r) \cup ChildNodes(r) : SeenPage(c.page)
    BY DEF WalkError, Nodes
  <2> DEFINE top == [page |-> r, va |-> << >>]
  <2>2. top \in RootNode(r) /\ top.page = r
    BY DEF RootNode
  <2> HIDE DEF top
  <2> QED BY <2>1, <2>2
<1>2. \A e \in Entry : IsValid(mem[r][e]) /\ ~IsLeaf(mem[r][e]) =>
         ChildAt(r, e) \in ChildNodes(r) /\ SeenPage(Target(mem[r][e]))
  <2> SUFFICES ASSUME NEW e \in Entry, IsValid(mem[r][e]), ~IsLeaf(mem[r][e])
               PROVE  ChildAt(r, e) \in ChildNodes(r) /\ SeenPage(Target(mem[r][e]))
    OBVIOUS
  <2>1. ChildAt(r, e) \in ChildNodes(r)
    BY <1>1, Children
  <2>2. ChildAt(r, e).page = Target(mem[r][e])
    BY DEF ChildAt
  <2> QED BY <1>1, <2>1, <2>2
<1>3. ~Gone(s)
  <2> SUFFICES ASSUME Gone(s) PROVE FALSE
    OBVIOUS
  <2>1. PICK e \in Entry : e # 0
    BY PagesAssumption DEF PagesAssumption
  <2>2. mem[r][e].t = "one"
    BY <1>0, <2>1 DEF Freeing, Gone
  <2>3. SeenPage(FarPage)
    BY <1>2, <2>2 DEF IsValid, IsLeaf, Target
  <2> QED BY <2>3, PagesAssumption DEF SeenPage, FarPage, Page, PagesAssumption
<1>4. ASSUME NEW va \in DOMAIN space[s]
      PROVE  \E x \in UserLeaves(s) : x.va = va /\ Target(x.w) = space[s][va]
  <2>1. PICK e \in Entry, f \in Entry : va = <<e, f>>
    <3>1. va \in Entry \X Entry
      BY <1>0, PagesAssumption DEF LeafShape, PagesAssumption
    <3> QED BY <3>1
  <2>2. Pt(s, e, f).t = "user" /\ space[s][va] = Pt(s, e, f).to
    BY <1>0, <2>1 DEF LeafShape
  <2>3. Tbl(s, e) # NoPage /\ Pt(s, e, f) = mem[Tbl(s, e)][f]
    BY <2>2 DEF Pt, Zero, Word
  <2>4. mem[r][e].t = "node" /\ Tbl(s, e) = mem[r][e].to
    BY <2>3 DEF Tbl
  <2>5. Target(mem[r][e]) = Tbl(s, e) /\ IsValid(mem[r][e]) /\ ~IsLeaf(mem[r][e])
    BY <2>4 DEF Target, IsValid, IsLeaf
  <2>6. ChildAt(r, e) \in ChildNodes(r) /\ SeenPage(Tbl(s, e)) /\ ChildAt(r, e).page = Tbl(s, e)
    BY <1>2, <2>5 DEF ChildAt
  <2> DEFINE x == LeafAt(e, f, Pt(s, e, f))
  <2>7. x \in Entries(Nodes(r))
    BY <2>3, <2>6, LowEntries
  <2>8. x.va = va /\ x.w = Pt(s, e, f)
    BY <2>1 DEF LeafAt
  <2>9. x \in UserLeaves(s)
    BY <2>2, <2>7, <2>8 DEF UserLeaves, Leaves, IsValid, IsLeaf, Root
  <2>10. Target(x.w) = space[s][va]
    BY <2>2, <2>8 DEF Target
  <2> QED BY <2>8, <2>9, <2>10
<1> QED BY <1>3, <1>4

---------------------------------------------------------------------------
(* Address spaces and the claims of processes.                              *)

\* What a root that is shown has.
LEMMA RootedHas ==
  ASSUME PagesInv, NEW s \in Rooted
  PROVE  s \in Procs /\ Root(s) # NoPage /\ procs[s].root = Root(s)
BY DEF Rooted, Shown, Root

\* A root that is not being freed is not on the free list.
LEMMA RootNotFree ==
  ASSUME PagesInv, NEW s \in Procs, Root(s) # NoPage, ~Gone(s)
  PROVE  Root(s) \notin free
<1>1. PICK own : Good(own)
  BY DEF PagesInv, Good
<1>2. own[Root(s)] = Use("root", s, 0) /\ FreeOwn(own)
  BY <1>1 DEF Good, OwnInv, Owns
<1>3. own[Root(s)].k # "free" /\ own[Root(s)].t = s
  BY <1>2 DEF Use
<1>4. ASSUME NEW t \in Procs, Doing(t, "free"), job[t].stage = "head", job[t].page = Root(s)
      PROVE  FALSE
  <2>1. own[Root(s)].t \in {0, t} /\ (~Gone(t) => Root(s) # Root(t))
    BY <1>1, <1>4, FreedPage
  <2>2. t = s
    BY <1>3, <2>1, SlotsFromOne
  <2> QED BY <2>1, <2>2
<1> QED BY <1>2, <1>3, <1>4, InUse

\* Every address space that is shown without an error is the process's.
LEMMA SpacesHold == ASSUME PagesInv PROVE SpacesAreReal
<1> SUFFICES ASSUME NEW s \in Rooted, ~WalkError(procs[s].root)
             PROVE  /\ procs[s].root \notin free
                    /\ {<<x.va, Target(x.w)>> : x \in UserLeaves(s)}
                         = {<<va, space[s][va]>> : va \in DOMAIN space[s]}
  BY DEF SpacesAreReal
<1>1. s \in Procs /\ Root(s) # NoPage /\ procs[s].root = Root(s)
  BY RootedHas
<1>2. /\ ~Gone(s)
      /\ \A va \in DOMAIN space[s] :
           \E x \in UserLeaves(s) : x.va = va /\ Target(x.w) = space[s][va]
  BY <1>1, MappedAreLeaves
<1>3. \A x \in UserLeaves(s) : x.va \in DOMAIN space[s] /\ space[s][x.va] = Target(x.w)
  BY <1>1, LeavesAreMapped
<1>4. procs[s].root \notin free
  BY <1>1, <1>2, RootNotFree
<1>5. {<<x.va, Target(x.w)>> : x \in UserLeaves(s)}
        = {<<va, space[s][va]>> : va \in DOMAIN space[s]}
  BY <1>2, <1>3
<1> QED BY <1>4, <1>5

\* The user pages of a process, as the decoder sees them.
LeafPages(s) == {Target(x.w) : x \in UserLeaves(s)}

\* They are pages of the process, and all of them without an error of the walk.
LEMMA UsersAre ==
  ASSUME PagesInv, NEW s \in Rooted, NEW p \in Page
  PROVE  /\ p \in LeafPages(s) => s \in UserOf(p)
         /\ ~WalkError(procs[s].root) => (p \in LeafPages(s) <=> s \in UserOf(p))
<1>1. s \in Procs /\ Root(s) # NoPage /\ procs[s].root = Root(s)
  BY RootedHas
<1>2. p \in LeafPages(s) => s \in UserOf(p)
  <2> SUFFICES ASSUME NEW x \in UserLeaves(s), p = Target(x.w) PROVE s \in UserOf(p)
    BY DEF LeafPages
  <2>1. x.va \in DOMAIN space[s] /\ space[s][x.va] = Target(x.w)
    BY <1>1, LeavesAreMapped
  <2> QED BY <1>1, <2>1 DEF UserOf
<1>3. ASSUME ~WalkError(procs[s].root), s \in UserOf(p) PROVE p \in LeafPages(s)
  <2>1. PICK va \in DOMAIN space[s] : space[s][va] = p
    BY <1>3 DEF UserOf
  <2>2. PICK x \in UserLeaves(s) : Target(x.w) = space[s][va]
    BY <1>1, <1>3, MappedAreLeaves
  <2> QED BY <2>1, <2>2 DEF LeafPages
<1> QED BY <1>2, <1>3

---------------------------------------------------------------------------
(* The kinds of the pages, process by process.                              *)

KindRec(k) == [p \in Page |-> [kind |-> k[p].kind, pid |-> k[p].pid]]

\* Kinds that say nothing wrong of free and user pages.
KindTrue(k) ==
  /\ k = KindRec(k)
  /\ \A p \in Page :
       /\ k[p].kind = "free" => p \in FreeWalk.pages
       /\ k[p].kind = "user" => \E r \in UserOf(p) : procs[r].pid = k[p].pid

\* One process after the other.
KindOf(g, s) ==
  IF s = 0 THEN KindFirst
  ELSE IF s \in Rooted THEN Claim(s, g[s - 1]) ELSE g[s - 1]

\* Before the first process.
LEMMA KindStarts == KindTrue(KindFirst)
<1>1. \A p \in Page : /\ KindFirst[p].kind \in {"free", "image", "unknown"}
                      /\ KindFirst[p].kind = "free" => p \in FreeWalk.pages
  BY DEF KindFirst
<1>2. KindFirst = KindRec(KindFirst)
  <2>1. \A p \in Page : KindFirst[p] = [kind |-> KindFirst[p].kind, pid |-> KindFirst[p].pid]
    BY DEF KindFirst
  <2>2. KindFirst = [p \in Page |-> KindFirst[p]]
    BY DEF KindFirst
  <2> QED BY <2>1, <2>2 DEF KindRec
<1> QED BY <1>1, <1>2 DEF KindTrue

\* A process claims what it maps.
LEMMA ClaimKeeps ==
  ASSUME PagesInv, NEW s \in Rooted, NEW k, KindTrue(k)
  PROVE  KindTrue(Claim(s, k))
<1> DEFINE kerns == {Target(x.w) : x \in KernLeaves(s)}
           own(p) == [kind |-> "user", pid |-> procs[s].pid]
           leaf == [p \in Page |->
                      IF p \in LeafPages(s) /\ k[p].kind # "trapframe" THEN own(p)
                      ELSE IF p \in kerns /\ k[p].kind = "unknown"
                             THEN [own(p) EXCEPT !.kind = "trapframe"]
                      ELSE k[p]]
           c == Claim(s, k)
<1>1. c = [p \in Page |->
             IF p \in TablePages(procs[s].root) /\ leaf[p].kind = "unknown"
             THEN [own(p) EXCEPT !.kind = "pagetable"] ELSE leaf[p]]
  BY DEF Claim, LeafPages
<1>2. ASSUME NEW p \in Page
      PROVE  \/ c[p] = k[p]
             \/ c[p] = [kind |-> "user", pid |-> procs[s].pid] /\ p \in LeafPages(s)
             \/ c[p] = [kind |-> "trapframe", pid |-> procs[s].pid]
             \/ c[p] = [kind |-> "pagetable", pid |-> procs[s].pid]
  <2>1. c[p] = leaf[p] \/ c[p] = [own(p) EXCEPT !.kind = "pagetable"]
    <3> HIDE DEF c, leaf
    <3> QED BY <1>1
  <2>2. \/ leaf[p] = k[p]
        \/ leaf[p] = own(p) /\ p \in LeafPages(s)
        \/ leaf[p] = [own(p) EXCEPT !.kind = "trapframe"]
    OBVIOUS
  <2>3. /\ [own(p) EXCEPT !.kind = "trapframe"] = [kind |-> "trapframe", pid |-> procs[s].pid]
        /\ [own(p) EXCEPT !.kind = "pagetable"] = [kind |-> "pagetable", pid |-> procs[s].pid]
    OBVIOUS
  <2> HIDE DEF c, leaf
  <2> QED BY <2>1, <2>2, <2>3
<1>3. c = [p \in Page |-> c[p]]
  <2> HIDE DEF leaf, own
  <2> QED BY <1>1
<1> HIDE DEF c, leaf, kerns, own
<1>4. ASSUME NEW p \in Page
      PROVE  /\ c[p] = [kind |-> c[p].kind, pid |-> c[p].pid]
             /\ c[p].kind = "free" => p \in FreeWalk.pages
             /\ c[p].kind = "user" => \E r \in UserOf(p) : procs[r].pid = c[p].pid
  <2>1. CASE c[p] = k[p]
    <3>1. k[p] = [kind |-> k[p].kind, pid |-> k[p].pid]
      BY DEF KindTrue, KindRec
    <3>2. /\ k[p].kind = "free" => p \in FreeWalk.pages
          /\ k[p].kind = "user" => \E r \in UserOf(p) : procs[r].pid = k[p].pid
      BY DEF KindTrue
    <3> QED BY <2>1, <3>1, <3>2
  <2>2. CASE c[p] = [kind |-> "user", pid |-> procs[s].pid] /\ p \in LeafPages(s)
    <3>1. s \in UserOf(p)
      BY <2>2, UsersAre
    <3> QED BY <2>2, <3>1
  <2>3. CASE c[p] = [kind |-> "trapframe", pid |-> procs[s].pid]
    BY <2>3
  <2>4. CASE c[p] = [kind |-> "pagetable", pid |-> procs[s].pid]
    BY <2>4
  <2> QED BY <1>2, <2>1, <2>2, <2>3, <2>4
<1>5. c = KindRec(c)
  BY <1>3, <1>4 DEF KindRec
<1>6. KindTrue(c)
  BY <1>4, <1>5 DEF KindTrue
<1> QED BY <1>6 DEF c

---------------------------------------------------------------------------
(* The owners of pages.                                                     *)

\* The slots of the table are numbered.
LEMMA SlotRange ==
  /\ Cardinality(Procs) \in Nat /\ IsFiniteSet(Procs)
  /\ {0} \cup Procs = 0 .. Cardinality(Procs)
<1>1. Cardinality(Procs) \in Nat /\ Procs = 1 .. Cardinality(Procs) /\ IsFiniteSet(Procs)
  BY PagesAssumption, FS_CardinalityType DEF PagesAssumption
<1>2. PICK n \in Nat : n = Cardinality(Procs)
  BY <1>1
<1>3. {0} \cup 1 .. n = 0 .. n
  OBVIOUS
<1> QED BY <1>1, <1>2, <1>3

\* The kinds, process by process, are defined.
LEMMA KindAfterDef ==
  KindAfter = [s \in 0 .. Cardinality(Procs) |-> KindOf(KindAfter, s)]
<1> DEFINE Defined == {m \in Nat : \E g : g = [s \in 0 .. m |-> KindOf(g, s)]}
<1>1. 0 \in Defined
  <2> DEFINE g == [s \in 0 .. 0 |-> KindOf(<< >>, 0)]
  <2>1. g = [s \in 0 .. 0 |-> KindOf(g, s)]
    <3>1. \A s \in 0 .. 0 : s = 0 /\ KindOf(<< >>, 0) = KindOf(g, s)
      BY DEF KindOf
    <3> HIDE DEF g
    <3>2. g = [s \in 0 .. 0 |-> KindOf(<< >>, 0)]
      BY DEF g
    <3> QED BY <3>1, <3>2
  <2> QED BY <2>1
<1>2. ASSUME NEW m \in Nat, m \in Defined PROVE m + 1 \in Defined
  <2>1. PICK g : g = [s \in 0 .. m |-> KindOf(g, s)]
    BY <1>2
  <2> DEFINE h == [s \in 0 .. (m + 1) |-> IF s = m + 1 THEN KindOf(g, s) ELSE g[s]]
  <2>2. ASSUME NEW s \in 0 .. (m + 1) PROVE h[s] = KindOf(h, s)
    <3>1. CASE s # 0
      <4>1. s - 1 \in 0 .. (m + 1) /\ s - 1 # m + 1
        BY <3>1
      <4>2. h[s - 1] = g[s - 1]
        BY <4>1
      <4>3. KindOf(h, s) = KindOf(g, s)
        <5> HIDE DEF h
        <5> QED BY <3>1, <4>2 DEF KindOf
      <4>4. s # m + 1 => s \in 0 .. m
        OBVIOUS
      <4>5. s # m + 1 => g[s] = KindOf(g, s)
        BY <2>1, <4>4
      <4>6. h[s] = KindOf(g, s)
        BY <4>5
      <4> QED BY <4>3, <4>6
    <3>2. CASE s = 0
      <4>1. s \in 0 .. m /\ s # m + 1
        BY <3>2
      <4>2. h[s] = g[s] /\ g[s] = KindOf(g, s)
        BY <2>1, <4>1
      <4> HIDE DEF h
      <4> QED BY <3>2, <4>2 DEF KindOf
    <3> QED BY <3>1, <3>2
  <2>3. \E d : h = [s \in 0 .. (m + 1) |-> d[s]]
    <3>1. h = [s \in 0 .. (m + 1) |-> h[s]]
      OBVIOUS
    <3> HIDE DEF h
    <3> QED BY <3>1
  <2> HIDE DEF h
  <2>4. h = [s \in 0 .. (m + 1) |-> KindOf(h, s)]
    BY <2>2, <2>3
  <2> QED BY <2>4
<1> HIDE DEF Defined
<1>3. Cardinality(Procs) \in Defined
  <2>1. \A m \in Nat : m \in Defined => m + 1 \in Defined
    BY <1>2
  <2> QED BY <1>1, <2>1, NatSetInduction, SlotRange
<1>4. \E g : g = [s \in 0 .. Cardinality(Procs) |-> KindOf(g, s)]
  BY <1>3 DEF Defined
<1>5. \E g : g = [s \in {0} \cup Procs |-> KindOf(g, s)]
  BY <1>4, SlotRange
<1>6. KindAfter = [s \in {0} \cup Procs |-> KindOf(KindAfter, s)]
  BY <1>5 DEF KindAfter, KindOf
<1> QED BY <1>6, SlotRange

\* All processes together say nothing wrong.
LEMMA KindHolds == ASSUME PagesInv PROVE KindTrue(KindAfter[Cardinality(Procs)])
<1>0. PICK n \in Nat : n = Cardinality(Procs)
  BY SlotRange
<1> DEFINE Done == {s \in Nat : s \in 0 .. n => KindTrue(KindAfter[s])}
<1>1. 0 \in Done
  <2>1. KindAfter[0] = KindOf(KindAfter, 0)
    BY <1>0, KindAfterDef
  <2> QED BY <2>1, KindStarts DEF KindOf
<1>2. ASSUME NEW s \in Nat, s \in Done PROVE s + 1 \in Done
  <2> SUFFICES ASSUME s + 1 \in 0 .. n PROVE KindTrue(KindAfter[s + 1])
    OBVIOUS
  <2>1. s \in 0 .. n /\ (s + 1) - 1 = s /\ s + 1 # 0
    OBVIOUS
  <2>2. KindTrue(KindAfter[s])
    BY <1>2, <2>1
  <2>3. KindAfter[s + 1] = KindOf(KindAfter, s + 1)
    BY <1>0, KindAfterDef
  <2>4. KindAfter[s + 1] = IF s + 1 \in Rooted THEN Claim(s + 1, KindAfter[s]) ELSE KindAfter[s]
    BY <2>1, <2>3 DEF KindOf
  <2> QED BY <2>2, <2>4, ClaimKeeps
<1> HIDE DEF Done
<1>3. n \in Done
  <2>1. \A s \in Nat : s \in Done => s + 1 \in Done
    BY <1>2
  <2> QED BY <1>1, <2>1, NatSetInduction
<1>4. n \in 0 .. n
  OBVIOUS
<1> QED BY <1>0, <1>3, <1>4 DEF Done

\* What is shown at last.
LEMMA KindIsTrue ==
  ASSUME PagesInv, NEW p \in Page
  PROVE  /\ PageKind[p].kind = "free" => p \in FreeWalk.pages
         /\ PageKind[p].kind = "user" => \E r \in UserOf(p) : procs[r].pid = PageKind[p].pid
<1>1. PICK k : k = KindAfter[Cardinality(Procs)]
  OBVIOUS
<1>2. KindTrue(k)
  BY <1>1, KindHolds
<1>3. k[p] = [kind |-> k[p].kind, pid |-> k[p].pid]
  BY <1>2 DEF KindTrue, KindRec
<1>4. PICK kind, pid : k[p] = [kind |-> kind, pid |-> pid]
  BY <1>3
<1>5. \/ PageKind[p] = [kind |-> "shared", pid |-> pid]
      \/ PageKind[p] = [kind |-> "other", pid |-> pid]
      \/ PageKind[p] = k[p]
  <2>1. /\ [k[p] EXCEPT !.kind = "shared"] = [kind |-> "shared", pid |-> pid]
        /\ [k[p] EXCEPT !.kind = "other"] = [kind |-> "other", pid |-> pid]
    BY <1>4
  <2>2. \/ PageKind[p] = [k[p] EXCEPT !.kind = "shared"]
        \/ PageKind[p] = [k[p] EXCEPT !.kind = "other"]
        \/ PageKind[p] = k[p]
    BY <1>1 DEF PageKind
  <2> QED BY <2>1, <2>2
<1>6. /\ k[p].kind = "free" => p \in FreeWalk.pages
      /\ k[p].kind = "user" => \E r \in UserOf(p) : procs[r].pid = k[p].pid
  BY <1>2 DEF KindTrue
<1>7. CASE PageKind[p] = k[p]
  BY <1>6, <1>7
<1>8. CASE PageKind[p] # k[p]
  BY <1>5, <1>8
<1> QED BY <1>7, <1>8

\* The free count of a snapshot is the kernel's, or there is none.
LEMMA FreeCountHolds == ASSUME PagesInv PROVE FreeCountIsExact
<1>1. FreeWalk.ok => Cardinality(FreeWalk.pages) = Cardinality(free)
  BY WalkIsExact
<1>2. \A p \in Page : PageKind[p].kind = "free" => p \in free
  BY KindIsTrue, WalkIsExact
<1> QED BY <1>1, <1>2 DEF FreeCountIsExact

---------------------------------------------------------------------------
(* Shared pages.                                                            *)

\* A set with more than one element has two.
LEMMA TwoElements ==
  ASSUME NEW S, IsFiniteSet(S)
  PROVE  Cardinality(S) > 1 <=> \E x, y \in S : x # y
<1>1. Cardinality(S) \in Nat /\ (Cardinality(S) = 0 <=> S = {}) /\ (Cardinality(S) = 1 <=> \E x : S = {x})
  BY FS_CardinalityType, FS_EmptySet, FS_Singleton
<1>2. (\E x, y \in S : x # y) <=> ~(S = {}) /\ ~(\E x : S = {x})
  OBVIOUS
<1> QED BY <1>1, <1>2

\* Different processes have different pids.
LEMMA PidsDiffer ==
  ASSUME PagesInv, NEW s \in Procs, NEW t \in Procs, procs[s].state # "unused",
         procs[s].pid = procs[t].pid
  PROVE  s = t
<1>1. ProcInv(s) /\ Pids
  BY DEF PagesInv
<1>2. procs[s].pid \in 1 .. births
  BY <1>1 DEF ProcInv, ProcShape
<1>3. procs[s].pid # 0
  BY <1>2
<1> QED BY <1>1, <1>3 DEF Pids

\* The pages shown as shared are the shared ones, when no walk has an error.
LEMMA SharedHolds ==
  ASSUME PagesInv, \A s \in Rooted : ~WalkError(procs[s].root)
  PROVE  SharedPages = {p \in Page : Cardinality(UserOf(p)) > 1}
<1> DEFINE users == [s \in Rooted |-> {Target(x.w) : x \in UserLeaves(s)}]
           pids(p) == {procs[s].pid : s \in MappedBy(p, users)}
<1>1. ASSUME NEW p \in Page PROVE MappedBy(p, users) = UserOf(p)
  <2>1. \A s \in Rooted : users[s] = LeafPages(s)
    BY DEF LeafPages
  <2>2. ASSUME NEW s \in UserOf(p) PROVE s \in Rooted
    <3>1. s \in Procs /\ \E va \in DOMAIN space[s] : space[s][va] = p
      BY DEF UserOf
    <3>2. PICK va \in DOMAIN space[s] : TRUE
      BY <3>1
    <3>3. LeafShape(s) /\ ProcShape(s)
      BY <3>1 DEF PagesInv, ProcInv
    <3>4. PICK e \in Entry, f \in Entry : va = <<e, f>>
      <4>1. va \in Entry \X Entry
        BY <3>3, PagesAssumption DEF LeafShape, PagesAssumption
      <4> QED BY <4>1
    <3>5. Pt(s, e, f).t = "user"
      BY <3>2, <3>3, <3>4 DEF LeafShape
    <3>6. Root(s) # NoPage
      BY <3>5 DEF Pt, Tbl, Zero, Word
    <3>7. procs[s].state # "unused"
      BY <3>3, <3>6 DEF ProcShape
    <3> QED BY <3>1, <3>6, <3>7 DEF Rooted, Shown, Root
  <2> HIDE DEF users
  <2>3. \A s \in Rooted : p \in users[s] <=> s \in UserOf(p)
    BY <2>1, UsersAre
  <2> QED BY <2>2, <2>3 DEF MappedBy
<1>2. ASSUME NEW p \in Page
      PROVE  Cardinality(pids(p)) > 1 <=> Cardinality(UserOf(p)) > 1
  <2>0. pids(p) = {procs[s].pid : s \in UserOf(p)} /\ UserOf(p) \subseteq Procs
    BY <1>1 DEF UserOf
  <2> DEFINE f == [s \in UserOf(p) |-> procs[s].pid]
             P == {procs[s].pid : s \in UserOf(p)}
  <2>1. IsFiniteSet(UserOf(p))
    BY <2>0, SlotRange, FS_Subset
  <2>2. f \in Surjection(UserOf(p), P)
    BY DEF Surjection
  <2>3. IsFiniteSet(P)
    BY <2>1, <2>2, FS_Surjection
  <2>4. \A s, t \in UserOf(p) : procs[s].pid = procs[t].pid => s = t
    <3>1. \A s \in UserOf(p) : s \in Rooted
      BY <1>1 DEF MappedBy
    <3>2. \A s \in UserOf(p) : s \in Procs /\ procs[s].state # "unused"
      <4> SUFFICES ASSUME NEW s \in UserOf(p) PROVE s \in Procs /\ procs[s].state # "unused"
        OBVIOUS
      <4>1. s \in Procs /\ Root(s) # NoPage
        BY <3>1, RootedHas
      <4> QED BY <4>1 DEF PagesInv, ProcInv, ProcShape
    <3> QED BY <3>2, PidsDiffer
  <2>5. (\E x, y \in P : x # y) <=> \E s, t \in UserOf(p) : s # t
    <3>1. ASSUME NEW x \in P, NEW y \in P, x # y PROVE \E s, t \in UserOf(p) : s # t
      <4>1. PICK s \in UserOf(p) : x = procs[s].pid
        OBVIOUS
      <4>2. PICK t \in UserOf(p) : y = procs[t].pid
        OBVIOUS
      <4> QED BY <3>1, <4>1, <4>2
    <3>2. ASSUME NEW s \in UserOf(p), NEW t \in UserOf(p), s # t PROVE \E x, y \in P : x # y
      <4>1. procs[s].pid # procs[t].pid /\ procs[s].pid \in P /\ procs[t].pid \in P
        BY <2>4, <3>2
      <4> HIDE DEF P
      <4> QED BY <4>1
    <3> HIDE DEF P
    <3> QED BY <3>1, <3>2
  <2> HIDE DEF P, pids
  <2> QED BY <2>0, <2>1, <2>3, <2>5, TwoElements DEF P
<1>3. SharedPages = {p \in Page : Cardinality(pids(p)) > 1}
  BY DEF SharedPages
<1> HIDE DEF pids
<1> QED BY <1>2, <1>3

\* Owners are what they are shown as.
LEMMA OwnersHold == ASSUME PagesInv PROVE OwnersAreReal
BY SharedHolds, KindIsTrue DEF OwnersAreReal

\* Whatever step of kalloc or kfree a snapshot is taken at, its free count is the
\* kernel's, or there is none (_decode_physical); only free pages show as free.
THEOREM FreeCountExact == PagesSpec => []FreeCountIsExact
BY PagesInvariant, FreeCountHolds, PTL

\* An address space that walk_pagetable shows without an error is the process's
\* user memory and nothing else, and its root is in use.
THEOREM SpacesReal == PagesSpec => []SpacesAreReal
BY PagesInvariant, SpacesHold, PTL

\* A page shown as shared is mapped by two processes, and all of those are, and
\* a page shown as the property of a process is mapped by it (_decode_physical).
THEOREM OwnersReal == PagesSpec => []OwnersAreReal
BY PagesInvariant, OwnersHold, PTL
=============================================================================
