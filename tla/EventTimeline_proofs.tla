------------------------ MODULE EventTimeline_proofs ------------------------
(***************************************************************************)
(* The streams of a trace are not in clock order when several vCPUs wait   *)
(* for the file lock, and yet merging them keeps the order of every vCPU;  *)
(* an operation that leaves an entry and a completion record becomes one   *)
(* event; and an event has the pid of the task that ran.  This holds for   *)
(* any number of vCPUs, operations and records, for every kernel that      *)
(* KernelAssumption describes.  What needs the snapshots, pids told by     *)
(* rows alone and exact counters, holds on one vCPU.                       *)
(***************************************************************************)
EXTENDS EventTimeline, Counting, FiniteSetTheorems, TLAPS

---------------------------------------------------------------------------
(* Types.                                                                   *)

Operations == {"alloc", "free", "fork"}
Kinds == Operations \cup {"trap", "switch", "snap"}
Rows  == Slot \cup {NoSlot}
Data  == [from : Rows, to : Rows] \cup Int
Rec   == [stream : Merged \cup {"snap"}, insn : Nat, cpu : Nat, kind : Kinds, op : Nat,
          who : Nat, data : Data]
Job   == [kind : Operations, op : Nat, done : BOOLEAN, count : Nat]

\* What the kernel and the plugin work with.  The types of pids that the analysis
\* finds in snapshots are of no concern here.
TypeOK ==
  /\ kernel \in Kernels
  /\ clock \in Nat /\ nextPid \in Nat \ {0} /\ free \in Nat
  /\ table \in [Slot -> Nat]
  /\ current \in [Cpu -> Rows]
  /\ doing \in [Cpu -> Seq(Job)]
  /\ pend \in [Cpu -> SUBSET Rec]
  /\ DOMAIN file = Merged \cup {"snap"}
  /\ \A s \in Merged : file[s] \in Seq(Rec)
  /\ phase \in {"recording", "merging"}
  /\ at \in [Merged -> Nat] /\ \A s \in Merged : at[s] <= Len(file[s])
  /\ DOMAIN curSlot = Cpu /\ semantic \in [Cpu -> Int]
  /\ events \in Seq(Range1(events))

---------------------------------------------------------------------------
(* The records, in the file or waiting for the lock.                        *)

Filed == UNION {Range1(file[s]) : s \in Merged}
Waiting == {r \in UNION {pend[c] : c \in Cpu} : r.stream \in Merged}
Known == Filed \cup Waiting

Sound(r) ==
  /\ r \in Rec /\ r.cpu \in Cpu /\ r.insn \in 1 .. clock /\ r.stream \in Merged
  /\ r.stream \in {"discon", "watch"} => r.op = r.insn
  /\ r.stream = "discon" => r.kind = "trap"
  /\ r.stream = "nftrace" => /\ Channel(r.kind)
                             /\ IF r.kind = "switch" THEN r.op = r.insn ELSE r.op < r.insn
                             /\ r.data \in Nat \cup {NFT_NO_TASK}

\* Records of one instruction are one hit; an operation completes once, where it began.
Coherent(r, q) ==
  /\ r.insn = q.insn => /\ r.cpu = q.cpu /\ r.kind = q.kind
                        /\ r.stream = q.stream => r = q
  /\ r.stream = "nftrace" /\ q.stream = "nftrace" /\ r.op = q.op => r = q
  /\ r.stream = "watch" /\ q.stream = "nftrace" /\ r.op = q.op => r.cpu = q.cpu

RecordsInv == /\ \A r \in Known : Sound(r)
              /\ \A r, q \in Known : Coherent(r, q)

\* An operation in flight has an entry of its own and no completion yet.
InFlightInv ==
  \A c \in Cpu : \A i \in DOMAIN doing[c] :
    /\ doing[c][i].op \in 1 .. clock
    /\ \A d \in Cpu : \A j \in DOMAIN doing[d] :
         doing[c][i].op = doing[d][j].op => c = d /\ i = j
    /\ \A r \in Known : /\ r.stream = "nftrace" => r.op # doing[c][i].op
                        /\ r.stream = "watch" /\ r.op = doing[c][i].op => r.cpu = c

\* What a vCPU waits to write is one hit, later than all it has written.
PendInv ==
  \A c \in Cpu : \A r \in pend[c] :
    /\ r.cpu = c /\ r.insn \in 1 .. clock
    /\ \A q \in pend[c] : q.insn = r.insn /\ (q.stream = r.stream => q = r)
    /\ \A s \in Merged : \A i \in DOMAIN file[s] :
         file[s][i].cpu = c => file[s][i].insn < r.insn

\* A stream has its own records, those of a vCPU in order.
StreamOrder ==
  \A s \in Merged :
    /\ \A i \in DOMAIN file[s] : file[s][i].stream = s
    /\ \A i, j \in DOMAIN file[s] :
         i < j /\ file[s][i].cpu = file[s][j].cpu => file[s][i].insn < file[s][j].insn

\* A record that reached the file before another is older than whatever the vCPU of
\* the other latches next.
LockOrder ==
  \A s \in Merged : \A i, j \in DOMAIN file[s] : \A e \in Known :
    i < j /\ e.cpu = file[s][j].cpu /\ file[s][j].insn < e.insn => file[s][i].insn < e.insn

FileInv == RecordsInv /\ InFlightInv /\ PendInv /\ StreamOrder /\ LockOrder

---------------------------------------------------------------------------
(* The merge.                                                               *)

Nothing == phase = "recording" => (\A s \in Merged : at[s] = 0) /\ events = << >>

\* What is left of a vCPU is no older than what is consumed.
MergeOrder ==
  \A s, t \in Merged : \A p \in 1 .. at[s] : \A q \in DOMAIN file[t] :
    q > at[t] /\ file[s][p].cpu = file[t][q].cpu => file[s][p].insn <= file[t][q].insn

From(e, r) == /\ e.insn = r.insn /\ e.cpu = r.cpu /\ e.kind = r.kind /\ e.op = r.op
              /\ e.who = r.who /\ e.source = r.stream

Dropped(r) == r.stream = "watch" /\ Superseded(r)
DroppedAt(s, p) == Dropped(file[s][p])

\* An event stands for a consumed record ...
EventsHaveRecords ==
  \A i \in DOMAIN events : \E s \in Merged : \E p \in 1 .. at[s] :
    From(events[i], file[s][p]) /\ ~DroppedAt(s, p)

\* ... for each of them there is one, unless it was dropped,
RecordsHaveEvents ==
  \A s \in Merged : \A p \in 1 .. at[s] :
    DroppedAt(s, p) \/ \E i \in DOMAIN events : From(events[i], file[s][p])

\* and only one.
EventsDiffer ==
  \A i, j \in DOMAIN events :
    /\ events[i].source = events[j].source /\ events[i].op = events[j].op
    /\ events[i].kind = events[j].kind
    => i = j

MergeInv == /\ Nothing /\ MergeOrder /\ EventsHaveRecords /\ RecordsHaveEvents
            /\ EventsDiffer /\ VcpuOrderSurvivesMerge

---------------------------------------------------------------------------
(* The task that runs.                                                      *)

Telling == Channel("switch") /\ ~kernel.unreadable
IsSwitch(r) == r.stream = "nftrace" /\ r.kind = "switch"
PidOf(r) == IF r.data = NFT_NO_TASK THEN NoPid ELSE r.data

\* The last switch of a vCPU before an instruction.
LastSwitch(k, c, n) ==
  /\ k \in Known /\ IsSwitch(k) /\ k.cpu = c /\ k.insn < n
  /\ \A q \in Known : IsSwitch(q) /\ q.cpu = c /\ q.insn < n => q.insn <= k.insn

\* A row with a running task is in use.
RowsInUse ==
  \A c \in Cpu : current[c] # NoSlot => current[c] \in Slot /\ table[current[c]] # NoPid

\* The last switch names the task that runs.
RunningInv ==
  /\ RowsInUse
  /\ Telling => /\ \A c \in Cpu : \A k : LastSwitch(k, c, clock + 1) => Who(c) = PidOf(k)
                /\ \A r \in Known : r.kind # "switch" =>
                     \A k : LastSwitch(k, r.cpu, r.insn) => r.who = PidOf(k)

\* The analysis knows the last consumed switch of a vCPU.
Told(c, p) == p \in 1 .. at["nftrace"] /\ IsSwitch(file["nftrace"][p])
              /\ file["nftrace"][p].cpu = c
SemanticInv ==
  Telling =>
    \A c \in Cpu :
      \/ semantic[c] = Absent /\ \A p : ~Told(c, p)
      \/ \E p : /\ Told(c, p) /\ semantic[c] = PidOf(file["nftrace"][p])
                /\ \A q : Told(c, q) => file["nftrace"][q].insn <= file["nftrace"][p].insn

\* An event after a switch has the pid.
NamedInv ==
  Telling =>
    \A j \in DOMAIN events : \A p \in 1 .. at["nftrace"] :
      /\ events[j].kind # "switch" /\ Told(events[j].cpu, p)
      /\ file["nftrace"][p].insn < events[j].insn
      => events[j].pid = events[j].who

TaskInv == RunningInv /\ SemanticInv /\ NamedInv

IInv == TypeOK /\ FileInv /\ MergeInv /\ TaskInv

---------------------------------------------------------------------------
(* Facts about kernels, sequences and the log.                              *)

\* What the assumption says of the kernel of a recording.
LEMMA KernelFacts ==
  ASSUME kernel \in Kernels
  PROVE  /\ Cpu \subseteq Nat /\ Cpu # {}
         /\ kernel.channels \subseteq {"alloc", "free", "fork", "switch"}
         /\ kernel.pages \in Nat /\ kernel.unreadable \in BOOLEAN
         /\ (kernel.cloneDeclared => "fork" \in kernel.channels)
         /\ kernel.cloneDeclared \in BOOLEAN /\ kernel.hits \in Nat
<1>1. kernel.cpus \in (SUBSET Nat) \ {{}}
  BY KernelAssumption
<1>2. kernel.channels \subseteq {"alloc", "free", "fork", "switch"}
      /\ {kernel.frames, kernel.cloneDeclared, kernel.unreadable} \subseteq BOOLEAN
      /\ (kernel.cloneDeclared => "fork" \in kernel.channels)
      /\ {kernel.depth, kernel.hits, kernel.pages} \subseteq Nat
  BY KernelAssumption
<1>3. kernel.cloneDeclared \in BOOLEAN
  BY <1>2
<1>4. kernel.unreadable \in BOOLEAN
  BY <1>2
<1>5. kernel.pages \in Nat /\ kernel.hits \in Nat
  BY <1>2
<1>6. Cpu \subseteq Nat /\ Cpu # {}
  BY <1>1 DEF Cpu
<1>7. kernel.cloneDeclared => "fork" \in kernel.channels
  BY <1>2
<1>8. kernel.channels \subseteq {"alloc", "free", "fork", "switch"}
  BY <1>2
<1> QED BY <1>3, <1>4, <1>5, <1>6, <1>7, <1>8

\* What Append does, whatever is appended.
LEMMA AppendAny ==
  ASSUME NEW S, NEW s \in Seq(S), NEW e
  PROVE  /\ Len(s) \in Nat /\ DOMAIN s = 1 .. Len(s)
         /\ Len(Append(s, e)) = Len(s) + 1 /\ DOMAIN Append(s, e) = 1 .. Len(s) + 1
         /\ \A i \in 1 .. Len(s) : Append(s, e)[i] = s[i]
         /\ Append(s, e)[Len(s) + 1] = e
         /\ Append(s, e) \in Seq(Range1(Append(s, e)))
<1> DEFINE t == Append(s, e)
<1>1. s \in Seq(S \cup {e})
  OBVIOUS
<1>2. /\ t \in Seq(S \cup {e}) /\ Len(t) = Len(s) + 1 /\ DOMAIN t = 1 .. Len(s) + 1
      /\ \A i \in 1 .. Len(s) : t[i] = s[i]
      /\ t[Len(s) + 1] = e /\ Len(s) \in Nat /\ DOMAIN s = 1 .. Len(s)
  BY <1>1
<1> HIDE DEF t
<1>3. \A i \in 1 .. Len(t) : t[i] \in Range1(t)
  BY <1>2 DEF Range1
<1>4. t \in Seq(Range1(t))
  BY <1>2, <1>3
<1> QED BY <1>2, <1>4 DEF t

\* A record in a stream is known, and one that waits for the lock; there are no others.
LEMMA KnownFacts ==
  ASSUME TypeOK
  PROVE  /\ \A s \in Merged : \A i \in DOMAIN file[s] : file[s][i] \in Known
         /\ \A c \in Cpu : \A r \in pend[c] : r.stream \in Merged => r \in Known
         /\ \A r \in Known : \/ \E s \in Merged : \E i \in DOMAIN file[s] : r = file[s][i]
                             \/ r.stream \in Merged /\ \E c \in Cpu : r \in pend[c]
         /\ \A s \in Merged : DOMAIN file[s] = 1 .. Len(file[s]) /\ Len(file[s]) \in Nat
                              /\ \A i \in DOMAIN file[s] : file[s][i] \in Rec
<1>1. \A s \in Merged : DOMAIN file[s] = 1 .. Len(file[s]) /\ Len(file[s]) \in Nat
                        /\ \A i \in DOMAIN file[s] : file[s][i] \in Rec
  BY DEF TypeOK
<1>2. ASSUME NEW s \in Merged, NEW i \in DOMAIN file[s]
      PROVE  file[s][i] \in Known
  <2>1. file[s][i] \in Range1(file[s])
    BY Zenon DEF Range1
  <2>2. file[s][i] \in Filed
    BY <2>1 DEF Filed
  <2> QED BY <2>2 DEF Known
<1>3. ASSUME NEW c \in Cpu, NEW r \in pend[c], r.stream \in Merged
      PROVE  r \in Known
  <2>1. r \in Waiting
    BY <1>3 DEF Waiting
  <2> QED BY <2>1 DEF Known
<1>4. ASSUME NEW r \in Known
      PROVE  \/ \E s \in Merged : \E i \in DOMAIN file[s] : r = file[s][i]
             \/ r.stream \in Merged /\ \E c \in Cpu : r \in pend[c]
  <2>1. r \in Filed \/ r \in Waiting
    BY DEF Known
  <2>2. CASE r \in Filed
    <3>1. PICK s \in Merged : r \in Range1(file[s])
      BY <2>2 DEF Filed
    <3> QED BY <3>1, Zenon DEF Range1
  <2>3. CASE r \in Waiting
    BY <2>3 DEF Waiting
  <2> QED BY <2>1, <2>2, <2>3
<1> QED BY <1>1, <1>2, <1>3, <1>4

\* A vCPU that has the lock appends at most its record of each stream; all of them
\* if no record is unreadable, and only those of the semantic channel can be.
LEMMA WriteAppends ==
  ASSUME TypeOK, NEW c \in Cpu, Write(c)
  PROVE  /\ DOMAIN file' = DOMAIN file
         /\ \A s \in Merged : \/ file'[s] = file[s]
                              \/ \E r \in pend[c] : r.stream = s /\ file'[s] = Append(file[s], r)
         /\ \A s \in Merged :
              ~kernel.unreadable \/ s # "nftrace" =>
                \/ file'[s] = file[s] /\ \A r \in pend[c] : r.stream # s
                \/ \E r \in pend[c] : r.stream = s /\ file'[s] = Append(file[s], r)
<1>1. PICK lost \in IF kernel.unreadable THEN BOOLEAN ELSE {FALSE} :
        file' = [s \in DOMAIN file |->
                   IF lost /\ s = "nftrace" THEN file[s] ELSE file[s] \o Of(pend[c], s)]
  BY DEF Write
<1>2. Merged \subseteq DOMAIN file
  BY DEF TypeOK
<1>3. \A s \in Merged : file'[s] = IF lost /\ s = "nftrace" THEN file[s]
                                   ELSE file[s] \o Of(pend[c], s)
  BY <1>1, <1>2
<1>4. ~kernel.unreadable => ~lost
  BY <1>1
<1>5. ASSUME NEW s \in Merged
      PROVE  \/ file[s] \o Of(pend[c], s) = file[s] /\ \A r \in pend[c] : r.stream # s
             \/ \E r \in pend[c] : r.stream = s /\ file[s] \o Of(pend[c], s) = Append(file[s], r)
  <2>1. file[s] \in Seq(Rec) /\ pend[c] \subseteq Rec
    BY DEF TypeOK
  <2>2. CASE \A r \in pend[c] : r.stream # s
    <3>1. Of(pend[c], s) = << >>
      BY <2>2 DEF Of
    <3> QED BY <2>1, <2>2, <3>1
  <2>3. CASE \E r \in pend[c] : r.stream = s
    <3> DEFINE own == {q \in pend[c] : q.stream = s}
               r == CHOOSE q \in own : TRUE
    <3>1. r \in own
      BY <2>3
    <3>2. Stored(r) = r
      BY <3>1 DEF Stored, Merged
    <3>3. Of(pend[c], s) = <<r>>
      BY <3>1, <3>2 DEF Of
    <3>4. r \in pend[c] /\ r.stream = s
      BY <3>1
    <3> HIDE DEF r, own
    <3>5. file[s] \o <<r>> = Append(file[s], r)
      BY <2>1, <3>4
    <3> QED BY <3>3, <3>4, <3>5
  <2> QED BY <2>2, <2>3
<1>6. DOMAIN file' = DOMAIN file
  BY <1>1
<1>7. ASSUME NEW s \in Merged
      PROVE  \/ file'[s] = file[s]
             \/ \E r \in pend[c] : r.stream = s /\ file'[s] = Append(file[s], r)
  <2>1. CASE lost /\ s = "nftrace"
    BY <1>3, <2>1
  <2>2. CASE ~(lost /\ s = "nftrace")
    <3>1. file'[s] = file[s] \o Of(pend[c], s)
      BY <1>3, <2>2
    <3>2. \/ file[s] \o Of(pend[c], s) = file[s]
          \/ \E r \in pend[c] : r.stream = s /\ file[s] \o Of(pend[c], s) = Append(file[s], r)
      BY <1>5
    <3> QED BY <3>1, <3>2, Zenon
  <2> QED BY <2>1, <2>2
<1>8. ASSUME NEW s \in Merged, ~kernel.unreadable \/ s # "nftrace"
      PROVE  \/ file'[s] = file[s] /\ \A r \in pend[c] : r.stream # s
             \/ \E r \in pend[c] : r.stream = s /\ file'[s] = Append(file[s], r)
  <2>1. ~(lost /\ s = "nftrace")
    BY <1>4, <1>8
  <2>2. file'[s] = file[s] \o Of(pend[c], s)
    BY <1>3, <2>1
  <2>3. \/ file[s] \o Of(pend[c], s) = file[s] /\ \A r \in pend[c] : r.stream # s
        \/ \E r \in pend[c] : r.stream = s /\ file[s] \o Of(pend[c], s) = Append(file[s], r)
    BY <1>5
  <2> QED BY <2>2, <2>3, Zenon
<1> QED BY <1>6, <1>7, <1>8

---------------------------------------------------------------------------
(* Types.                                                                   *)

\* Who runs on a vCPU is a pid.
LEMMA WhoIsPid == ASSUME TypeOK, NEW c \in Cpu PROVE Who(c) \in Nat
BY DEF TypeOK, Who, NoPid, Rows, NoSlot

\* What a vCPU latches is a record.
LEMMA RecordTyped ==
  ASSUME TypeOK, NEW c \in Cpu, NEW stream \in Merged \cup {"snap"}, NEW kind \in Kinds,
         NEW op \in Nat, NEW data \in Data
  PROVE  /\ Record(c, stream, kind, op, data) \in Rec
         /\ Record(c, stream, kind, op, data)
              = [stream |-> stream, insn |-> clock + 1, cpu |-> c, kind |-> kind, op |-> op,
                 who |-> Who(c), data |-> data]
<1>1. c \in Nat /\ clock + 1 \in Nat /\ Who(c) \in Nat
  BY WhoIsPid, KernelFacts DEF TypeOK
<1> QED BY <1>1 DEF Record, Rec

\* What the guest and the plugin leave alone.
Rest == <<kernel, file, phase, at, curSlot, semantic, events>>

\* A step that leaves the file and the analysis alone keeps their types.
LEMMA TypeKeep ==
  ASSUME TypeOK, UNCHANGED Rest, clock' \in Nat, nextPid' \in Nat \ {0}, free' \in Nat,
         table' \in [Slot -> Nat], current' \in [Cpu -> Rows], doing' \in [Cpu -> Seq(Job)],
         pend' \in [Cpu -> SUBSET Rec]
  PROVE  TypeOK'
BY DEF TypeOK, Rest, Cpu

\* A vCPU that runs latches records of one hit.
Latch(c, recs) ==
  /\ phase = "recording" /\ pend[c] = {}
  /\ clock' = clock + 1 /\ pend' = [pend EXCEPT ![c] = recs]
  /\ recs \subseteq Rec
  /\ \A r \in recs : r.cpu = c /\ r.insn = clock + 1 /\ r.who = Who(c)
  /\ \A r, q \in recs : r.stream = q.stream => r = q
  /\ \A r, q \in recs : r.stream \in Merged /\ q.stream \in Merged => r.kind = q.kind

\* They are what the streams hold: a completion is of the channel of its kind and of an
\* operation in flight, any other record is of the hit itself.
Fits(c, recs) ==
  \A r \in recs :
    /\ r.stream \in {"discon", "watch"} => r.op = clock + 1
    /\ r.stream = "discon" => r.kind = "trap"
    /\ r.stream = "nftrace" =>
         /\ Channel(r.kind) /\ r.data \in Nat \cup {NFT_NO_TASK}
         /\ IF r.kind = "switch" THEN r.op = clock + 1
            ELSE \E i \in DOMAIN doing[c] : r.op = doing[c][i].op

\* Who runs is decided by a switch alone, which the record names on its channel.
Switched(c, recs) ==
  /\ \A d \in Cpu \ {c} : Who(d)' = Who(d)
  /\ Telling => \/ Who(c)' = Who(c) /\ \A r \in recs : ~IsSwitch(r)
                \/ \E r \in recs : IsSwitch(r) /\ Who(c)' = PidOf(r)

\* Operations in flight return, complete, or begin with this hit.
Flies(c, recs) ==
  \A d \in Cpu : \A i \in DOMAIN doing'[d] :
    \/ /\ i \in DOMAIN doing[d] /\ doing'[d][i].op = doing[d][i].op
       /\ \A r \in recs : r.op # doing[d][i].op
    \/ /\ d = c /\ i = Len(doing[c]) + 1 /\ doing'[d][i].op = clock + 1
       /\ \A r \in recs : r.stream # "nftrace"

\* A hit, whichever it is.
HitStep(c, recs) ==
  /\ UNCHANGED Rest /\ Latch(c, recs) /\ Fits(c, recs) /\ Switched(c, recs) /\ Flies(c, recs)
  /\ RowsInUse'

\* A record with allocator counts, and the entry of the scheduler.
IsCount(r) == r.stream = "nftrace" /\ r.kind \in {"alloc", "free"}
Entered(r) == r.stream = "watch" /\ r.kind = "switch"

\* A hit takes no row away; the scheduler's entry names the row that runs from now on, and
\* a frame is taken there.
Placed(c, recs) ==
  /\ table' = table
  /\ \A r, q \in recs : r.stream = "snap" /\ q.stream \in Merged => q.kind = "switch"
  /\ \/ current' = current /\ \A r \in recs : r.kind # "switch"
     \/ \E w \in recs : /\ Entered(w) /\ w.data.to \in Rows
                        /\ current' = [current EXCEPT ![c] = w.data.to]
                        /\ kernel.frames => \E q \in recs : q.stream = "snap"

\* A hit changes no page; an operation begins with it, or completes and records its count.
Counted(c, recs) ==
  /\ free' = free
  /\ \/ doing' = doing /\ \A r \in recs : ~IsCount(r)
     \/ /\ Len(doing[c]) < kernel.depth /\ \A r \in recs : ~IsCount(r)
        /\ \E job \in Job : /\ ~job.done /\ job.kind \in kernel.ops
                            /\ doing' = [doing EXCEPT ![c] = Append(doing[c], job)]
     \/ /\ doing[c] # << >> /\ Top(c).done /\ Return(c)
        /\ \E r : /\ recs = {r} /\ r.stream = "nftrace" /\ r.kind = Top(c).kind
                  /\ r.data = Top(c).count

Observed(c, recs) == UNCHANGED Rest /\ Latch(c, recs) /\ Placed(c, recs) /\ Counted(c, recs)

\* A step of the guest that nothing observes.
Quiet ==
  /\ UNCHANGED Rest /\ UNCHANGED <<clock, pend>> /\ phase = "recording"
  /\ \A d \in Cpu : Who(d)' = Who(d)
  /\ \A d \in Cpu : \A i \in DOMAIN doing'[d] :
       i \in DOMAIN doing[d] /\ doing'[d][i].op = doing[d][i].op
  /\ RowsInUse'

---------------------------------------------------------------------------
(* What a step adds to the records.                                         *)

\* A hit adds its records.
LEMMA LatchKnown ==
  ASSUME TypeOK, UNCHANGED <<kernel, file>>, NEW c \in Cpu, NEW recs, Latch(c, recs)
  PROVE  /\ \A r \in Known' : r \in Known \/ (r \in recs /\ r.stream \in Merged)
         /\ Known \subseteq Known'
         /\ \A r \in recs : r.stream \in Merged => r \in Known'
<1>1. Filed' = Filed /\ Cpu' = Cpu
  BY DEF Filed, Cpu
<1>2. pend'[c] = recs /\ pend[c] = {} /\ \A d \in Cpu \ {c} : pend'[d] = pend[d]
  BY DEF TypeOK, Latch
<1>3. ASSUME NEW r \in Waiting'
      PROVE  r \in Waiting \/ (r \in recs /\ r.stream \in Merged)
  <2>1. r.stream \in Merged /\ \E d \in Cpu : r \in pend'[d]
    BY <1>1, <1>3 DEF Waiting
  <2>2. PICK d \in Cpu : r \in pend'[d]
    BY <2>1
  <2>3. CASE d = c
    BY <1>2, <2>1, <2>2, <2>3
  <2>4. CASE d # c
    <3>1. r \in pend[d]
      BY <1>2, <2>2, <2>4
    <3> QED BY <2>1, <3>1 DEF Waiting
  <2> QED BY <2>3, <2>4
<1>4. ASSUME NEW r \in Waiting
      PROVE  r \in Waiting'
  <2>1. r.stream \in Merged /\ \E d \in Cpu : r \in pend[d]
    BY <1>4 DEF Waiting
  <2>2. PICK d \in Cpu : r \in pend[d]
    BY <2>1
  <2>3. d # c
    BY <1>2, <2>2
  <2>4. r \in pend'[d]
    BY <1>2, <2>2, <2>3
  <2> QED BY <1>1, <2>1, <2>4 DEF Waiting
<1>5. ASSUME NEW r \in recs, r.stream \in Merged
      PROVE  r \in Waiting'
  <2>1. r \in pend'[c]
    BY <1>2
  <2> QED BY <1>1, <1>5, <2>1 DEF Waiting
<1> QED BY <1>1, <1>3, <1>4, <1>5 DEF Known

\* Writing adds nothing, and loses only what is unreadable.
LEMMA WriteKnown ==
  ASSUME TypeOK, PendInv, NEW c \in Cpu, Write(c)
  PROVE  /\ Known' \subseteq Known
         /\ \A r \in Known : ~kernel.unreadable \/ r.stream # "nftrace" => r \in Known'
         /\ ~kernel.unreadable => Known \subseteq Known'
<1>1. kernel' = kernel /\ Cpu' = Cpu
  BY DEF Write, Cpu
<1>2. pend'[c] = {} /\ \A d \in Cpu \ {c} : pend'[d] = pend[d]
  BY DEF TypeOK, Write
<1>3. \A s \in Merged : file[s] \in Seq(Rec)
  BY DEF TypeOK
<1>4. ASSUME NEW r \in Filed'
      PROVE  r \in Known
  <2>1. PICK s \in Merged : r \in Range1(file'[s])
    BY <1>4 DEF Filed, Range1
  <2>2. PICK i \in DOMAIN file'[s] : r = file'[s][i]
    BY <2>1 DEF Range1
  <2>3. CASE file'[s] = file[s]
    BY <2>2, <2>3, KnownFacts
  <2>4. ASSUME NEW q \in pend[c], q.stream = s, file'[s] = Append(file[s], q)
        PROVE  r \in Known
    <3>1. q \in Known
      BY <2>4, KnownFacts
    <3>2. CASE i \in DOMAIN file[s]
      <4>1. r = file[s][i]
        BY <1>3, <2>2, <2>4, <3>2, AppendAny
      <4> QED BY <3>2, <4>1, KnownFacts
    <3>3. CASE i \notin DOMAIN file[s]
      <4>1. r = q
        BY <1>3, <2>2, <2>4, <3>3, AppendAny
      <4> QED BY <3>1, <4>1
    <3> QED BY <3>2, <3>3
  <2> QED BY <2>3, <2>4, WriteAppends
<1>5. ASSUME NEW r \in Waiting'
      PROVE  r \in Known
  <2>1. r.stream \in Merged /\ \E d \in Cpu : r \in pend'[d]
    BY <1>1, <1>5 DEF Waiting
  <2>2. PICK d \in Cpu : r \in pend'[d]
    BY <2>1
  <2>3. r \in pend[d]
    BY <1>2, <2>2
  <2> QED BY <2>1, <2>3, KnownFacts
<1>6. ASSUME NEW r \in Known, ~kernel.unreadable \/ r.stream # "nftrace"
      PROVE  r \in Known'
  <2>1. CASE \E s \in Merged : \E i \in DOMAIN file[s] : r = file[s][i]
    <3>1. PICK s \in Merged : \E i \in DOMAIN file[s] : r = file[s][i]
      BY <2>1
    <3>2. PICK i \in DOMAIN file[s] : r = file[s][i]
      BY <3>1
    <3>3. i \in DOMAIN file'[s] /\ file'[s][i] = r
      <4>1. CASE file'[s] = file[s]
        BY <3>2, <4>1
      <4>2. ASSUME NEW q, file'[s] = Append(file[s], q)
            PROVE  i \in DOMAIN file'[s] /\ file'[s][i] = r
        BY <1>3, <3>2, <4>2, AppendAny
      <4> QED BY <4>1, <4>2, WriteAppends
    <3>4. r \in Filed'
      BY <3>3 DEF Filed, Range1
    <3> QED BY <3>4 DEF Known
  <2>2. CASE r.stream \in Merged /\ \E d \in Cpu : r \in pend[d]
    <3>1. PICK d \in Cpu : r \in pend[d]
      BY <2>2
    <3>2. CASE d = c
      <4>1. PICK q \in pend[c] : q.stream = r.stream
                                 /\ file'[r.stream] = Append(file[r.stream], q)
        BY <1>6, <2>2, <3>1, <3>2, WriteAppends
      <4>2. q = r
        BY <3>1, <3>2, <4>1 DEF PendInv
      <4> DEFINE s == r.stream
                 n == Len(file[s]) + 1
      <4>3. file[s] \in Seq(Rec)
        BY <1>3, <2>2
      <4>4. n \in DOMAIN file'[s] /\ file'[s][n] = r
        BY <4>1, <4>2, <4>3, AppendAny
      <4>5. r \in Range1(file'[s])
        BY <4>4 DEF Range1
      <4>6. r \in Filed'
        BY <2>2, <4>5 DEF Filed, Range1
      <4> QED BY <4>6 DEF Known
    <3>3. CASE d # c
      <4>1. r \in pend'[d]
        BY <1>2, <3>1, <3>3
      <4>2. r \in Waiting'
        BY <1>1, <2>2, <4>1 DEF Waiting
      <4> QED BY <4>2 DEF Known
    <3> QED BY <3>2, <3>3
  <2> QED BY <1>6, <2>1, <2>2, KnownFacts
<1> QED BY <1>4, <1>5, <1>6 DEF Known

---------------------------------------------------------------------------
(* A hit keeps the invariants of the records.                               *)

\* The records of a hit are sound.
LEMMA HitSound ==
  ASSUME TypeOK, FileInv, NEW c \in Cpu, NEW recs, HitStep(c, recs), NEW r \in Known'
  PROVE  Sound(r)'
<1>1. kernel' = kernel /\ file' = file /\ clock' = clock + 1 /\ clock \in Nat
  BY DEF HitStep, Rest, Latch, TypeOK
<1>2. CASE r \in Known
  <2>1. Sound(r)
    BY <1>2 DEF FileInv, RecordsInv
  <2>2. r.insn \in 1 .. clock'
    BY <1>1, <2>1 DEF Sound
  <2> QED BY <1>1, <2>1, <2>2 DEF Sound, Channel, Cpu
<1>3. CASE r \in recs /\ r.stream \in Merged
  <2>1. r \in Rec /\ r.cpu = c /\ r.insn = clock + 1 /\ r.insn \in 1 .. clock'
    BY <1>1, <1>3 DEF HitStep, Latch
  <2>2. r.stream \in {"discon", "watch"} => r.op = r.insn
    BY <1>3, <2>1 DEF HitStep, Fits
  <2>3. r.stream = "discon" => r.kind = "trap"
    BY <1>3 DEF HitStep, Fits
  <2>4. ASSUME r.stream = "nftrace"
        PROVE  /\ Channel(r.kind) /\ r.data \in Nat \cup {NFT_NO_TASK}
               /\ IF r.kind = "switch" THEN r.op = r.insn ELSE r.op < r.insn
    <3>1. Channel(r.kind) /\ r.data \in Nat \cup {NFT_NO_TASK}
      BY <1>3, <2>4 DEF HitStep, Fits
    <3>2. CASE r.kind = "switch"
      BY <1>3, <2>1, <2>4, <3>1, <3>2 DEF HitStep, Fits
    <3>3. CASE r.kind # "switch"
      <4>1. PICK i \in DOMAIN doing[c] : r.op = doing[c][i].op
        BY <1>3, <2>4, <3>3 DEF HitStep, Fits
      <4>2. doing[c][i].op \in 1 .. clock
        BY DEF FileInv, InFlightInv
      <4>3. r.op < r.insn
        BY <1>1, <2>1, <4>1, <4>2
      <4> QED BY <3>1, <3>3, <4>3
    <3> QED BY <3>2, <3>3
  <2> QED BY <1>1, <1>3, <2>1, <2>2, <2>3, <2>4 DEF Sound, Channel, Cpu
<1> QED BY <1>1, <1>2, <1>3, LatchKnown DEF HitStep

\* An older record and one of a hit do not share an operation, unless the hit completes it.
LEMMA HitAgrees ==
  ASSUME TypeOK, FileInv, NEW c \in Cpu, NEW recs, HitStep(c, recs),
         NEW r \in Known, NEW q \in recs, q.stream \in Merged
  PROVE  Coherent(r, q) /\ Coherent(q, r)
<1>1. clock \in Nat /\ q.insn = clock + 1 /\ q.cpu = c
  BY DEF TypeOK, HitStep, Latch
<1>2. Sound(r)
  BY DEF FileInv, RecordsInv
<1>3. r.insn # q.insn
  BY <1>1, <1>2 DEF Sound
<1>4. r.op \in Nat /\ r.insn \in Nat
  BY <1>2 DEF Sound, Rec
<1>5. r.stream \in {"watch", "nftrace"} => r.op # clock + 1
  BY <1>1, <1>2, <1>4 DEF Sound
<1>6. CASE q.stream # "nftrace"
  <2>1. q.stream = "watch" => q.op = clock + 1
    BY DEF HitStep, Fits
  <2> QED BY <1>3, <1>5, <1>6, <2>1 DEF Coherent
<1>7. CASE q.stream = "nftrace"
  <2>1. CASE q.kind = "switch"
    <3>1. q.op = clock + 1
      BY <1>7, <2>1 DEF HitStep, Fits
    <3> QED BY <1>3, <1>5, <1>7, <3>1 DEF Coherent
  <2>2. CASE q.kind # "switch"
    <3>1. PICK i \in DOMAIN doing[c] : q.op = doing[c][i].op
      BY <1>7, <2>2 DEF HitStep, Fits
    <3>2. /\ r.stream = "nftrace" => r.op # doing[c][i].op
          /\ r.stream = "watch" /\ r.op = doing[c][i].op => r.cpu = c
      BY DEF FileInv, InFlightInv
    <3> QED BY <1>1, <1>3, <1>7, <3>1, <3>2 DEF Coherent
  <2> QED BY <2>1, <2>2
<1> QED BY <1>6, <1>7

\* All records agree after a hit.
LEMMA HitCoherent ==
  ASSUME TypeOK, FileInv, NEW c \in Cpu, NEW recs, HitStep(c, recs),
         NEW r \in Known', NEW q \in Known'
  PROVE  Coherent(r, q)
<1>1. /\ r \in Known \/ (r \in recs /\ r.stream \in Merged)
      /\ q \in Known \/ (q \in recs /\ q.stream \in Merged)
  BY LatchKnown DEF HitStep, Rest
<1>2. CASE r \in Known /\ q \in Known
  BY <1>2 DEF FileInv, RecordsInv
<1>3. CASE r \in Known /\ q \in recs /\ q.stream \in Merged
  BY <1>3, HitAgrees
<1>4. CASE r \in recs /\ r.stream \in Merged /\ q \in Known
  BY <1>4, HitAgrees
<1>5. CASE r \in recs /\ r.stream \in Merged /\ q \in recs /\ q.stream \in Merged
  <2>1. r.cpu = q.cpu /\ r.kind = q.kind /\ (r.stream = q.stream => r = q)
    BY <1>5 DEF HitStep, Latch
  <2> QED BY <2>1 DEF Coherent
<1> QED BY <1>1, <1>2, <1>3, <1>4, <1>5

\* The operations that remain in flight are still without a completion.
LEMMA HitInFlight ==
  ASSUME TypeOK, FileInv, NEW c \in Cpu, NEW recs, HitStep(c, recs)
  PROVE  InFlightInv'
<1>1. Cpu' = Cpu /\ clock' = clock + 1 /\ clock \in Nat
  BY DEF HitStep, Rest, Latch, TypeOK, Cpu
<1> DEFINE Old(d, i) == /\ i \in DOMAIN doing[d] /\ doing'[d][i].op = doing[d][i].op
                        /\ \A r \in recs : r.op # doing[d][i].op
           New(d, i) == /\ d = c /\ i = Len(doing[c]) + 1 /\ doing'[d][i].op = clock + 1
                        /\ \A r \in recs : r.stream # "nftrace"
<1>2. \A d \in Cpu : \A i \in DOMAIN doing'[d] : Old(d, i) \/ New(d, i)
  BY DEF HitStep, Flies
<1>3. \A d \in Cpu : \A i \in DOMAIN doing[d] : doing[d][i].op \in 1 .. clock
  BY DEF FileInv, InFlightInv
<1>4. ASSUME NEW d \in Cpu, NEW i \in DOMAIN doing'[d]
      PROVE  doing'[d][i].op \in 1 .. clock'
  <2>1. CASE Old(d, i)
    BY <1>1, <1>3, <2>1
  <2>2. CASE New(d, i)
    BY <1>1, <2>2
  <2> QED BY <1>2, <2>1, <2>2
<1>5. ASSUME NEW d \in Cpu, NEW i \in DOMAIN doing'[d],
             NEW e \in Cpu, NEW j \in DOMAIN doing'[e], doing'[d][i].op = doing'[e][j].op
      PROVE  d = e /\ i = j
  <2>1. CASE Old(d, i) /\ Old(e, j)
    <3>1. i \in DOMAIN doing[d] /\ j \in DOMAIN doing[e] /\ doing[d][i].op = doing[e][j].op
      BY <1>5, <2>1
    <3> QED BY <3>1 DEF FileInv, InFlightInv
  <2>2. CASE Old(d, i) /\ New(e, j)
    <3>1. doing[d][i].op = clock + 1 /\ doing[d][i].op \in 1 .. clock
      BY <1>3, <1>5, <2>2
    <3> QED BY <1>1, <3>1
  <2>3. CASE New(d, i) /\ Old(e, j)
    <3>1. doing[e][j].op = clock + 1 /\ doing[e][j].op \in 1 .. clock
      BY <1>3, <1>5, <2>3
    <3> QED BY <1>1, <3>1
  <2>4. CASE New(d, i) /\ New(e, j)
    BY <2>4
  <2> QED BY <1>2, <2>1, <2>2, <2>3, <2>4
<1>6. ASSUME NEW d \in Cpu, NEW i \in DOMAIN doing'[d], NEW r \in Known'
      PROVE  /\ r.stream = "nftrace" => r.op # doing'[d][i].op
             /\ r.stream = "watch" /\ r.op = doing'[d][i].op => r.cpu = d
  <2>1. CASE r \in Known
    <3>1. CASE Old(d, i)
      <4>1. /\ r.stream = "nftrace" => r.op # doing[d][i].op
            /\ r.stream = "watch" /\ r.op = doing[d][i].op => r.cpu = d
        BY <2>1, <3>1 DEF FileInv, InFlightInv
      <4> QED BY <3>1, <4>1
    <3>2. CASE New(d, i)
      <4>1. Sound(r)
        BY <2>1 DEF FileInv, RecordsInv
      <4>2. r.op \in Nat /\ r.insn \in Nat
        BY <4>1 DEF Sound, Rec
      <4>3. r.stream \in {"watch", "nftrace"} => r.op # clock + 1
        BY <1>1, <4>1, <4>2 DEF Sound
      <4> QED BY <3>2, <4>3
    <3> QED BY <1>2, <3>1, <3>2
  <2>2. CASE r \in recs
    <3>1. r.cpu = c
      BY <2>2 DEF HitStep, Latch
    <3>2. CASE Old(d, i)
      BY <2>2, <3>2
    <3>3. CASE New(d, i)
      BY <2>2, <3>1, <3>3
    <3> QED BY <1>2, <3>2, <3>3
  <2> QED BY <2>1, <2>2, LatchKnown DEF HitStep, Rest
<1> HIDE DEF Old, New
<1> QED BY <1>1, <1>4, <1>5, <1>6 DEF InFlightInv

\* A hit comes after all that the vCPU has written, and after all that is written.
LEMMA HitOrder ==
  ASSUME TypeOK, FileInv, NEW c \in Cpu, NEW recs, HitStep(c, recs)
  PROVE  PendInv' /\ StreamOrder' /\ LockOrder'
<1>1. Cpu' = Cpu /\ file' = file /\ clock' = clock + 1 /\ clock \in Nat
  BY DEF HitStep, Rest, Latch, TypeOK, Cpu
<1>2. pend'[c] = recs /\ \A d \in Cpu \ {c} : pend'[d] = pend[d]
  BY DEF TypeOK, Latch, HitStep
<1>3. ASSUME NEW s \in Merged, NEW i \in DOMAIN file[s]
      PROVE  file[s][i].insn \in 1 .. clock
  <2>1. file[s][i] \in Known
    BY KnownFacts
  <2> QED BY <2>1 DEF FileInv, RecordsInv, Sound
<1>4. StreamOrder'
  BY <1>1 DEF StreamOrder, FileInv
<1>5. ASSUME NEW d \in Cpu, NEW r \in pend'[d]
      PROVE  /\ r.cpu = d /\ r.insn \in 1 .. clock'
             /\ \A q \in pend'[d] : q.insn = r.insn /\ (q.stream = r.stream => q = r)
             /\ \A s \in Merged : \A i \in DOMAIN file[s] :
                  file[s][i].cpu = d => file[s][i].insn < r.insn
  <2>1. CASE d = c
    <3>1. r \in recs
      BY <1>2, <2>1
    <3>2. r.cpu = c /\ r.insn = clock + 1
      BY <3>1 DEF HitStep, Latch
    <3>3. r.insn \in 1 .. clock'
      BY <1>1, <3>2
    <3>4. \A q \in recs : q.insn = r.insn /\ (q.stream = r.stream => q = r)
      BY <3>1, <3>2 DEF HitStep, Latch
    <3>5. \A s \in Merged : \A i \in DOMAIN file[s] : file[s][i].insn < r.insn
      BY <1>1, <1>3, <3>2
    <3> QED BY <1>2, <2>1, <3>2, <3>3, <3>4, <3>5
  <2>2. CASE d # c
    <3>1. r \in pend[d] /\ pend'[d] = pend[d]
      BY <1>2, <2>2
    <3>2. /\ r.cpu = d /\ r.insn \in 1 .. clock
          /\ \A q \in pend[d] : q.insn = r.insn /\ (q.stream = r.stream => q = r)
          /\ \A s \in Merged : \A i \in DOMAIN file[s] :
               file[s][i].cpu = d => file[s][i].insn < r.insn
      BY <3>1 DEF FileInv, PendInv
    <3>3. r.insn \in 1 .. clock'
      BY <1>1, <3>2
    <3> QED BY <3>1, <3>2, <3>3
  <2> QED BY <2>1, <2>2
<1>6. PendInv'
  BY <1>1, <1>5 DEF PendInv
<1>7. ASSUME NEW s \in Merged, NEW i \in DOMAIN file[s], NEW j \in DOMAIN file[s],
             NEW e \in Known', i < j, e.cpu = file[s][j].cpu, file[s][j].insn < e.insn
      PROVE  file[s][i].insn < e.insn
  <2>1. CASE e \in Known
    BY <1>7, <2>1 DEF FileInv, LockOrder
  <2>2. CASE e \in recs
    <3>1. e.insn = clock + 1
      BY <2>2 DEF HitStep, Latch
    <3> QED BY <1>1, <1>3, <3>1
  <2> QED BY <2>1, <2>2, LatchKnown DEF HitStep, Rest
<1>8. LockOrder'
  BY <1>1, <1>7 DEF LockOrder
<1> QED BY <1>4, <1>6, <1>8

\* A hit keeps the invariants of the file.
LEMMA HitFile ==
  ASSUME TypeOK, FileInv, NEW c \in Cpu, NEW recs, HitStep(c, recs)
  PROVE  FileInv'
<1>1. RecordsInv'
  BY HitSound, HitCoherent DEF RecordsInv
<1> QED BY <1>1, HitInFlight, HitOrder DEF FileInv

---------------------------------------------------------------------------
(* The other steps keep the invariants of the records.                      *)

\* A step that latches and writes nothing.
LEMMA QuietFile ==
  ASSUME TypeOK, FileInv, UNCHANGED <<kernel, clock, pend, file>>,
         \A d \in Cpu : \A i \in DOMAIN doing'[d] :
           i \in DOMAIN doing[d] /\ doing'[d][i].op = doing[d][i].op
  PROVE  Known' = Known /\ FileInv'
<1>1. Cpu' = Cpu /\ Known' = Known
  BY DEF Cpu, Known, Filed, Waiting, Range1
<1>2. RecordsInv'
  BY <1>1 DEF FileInv, RecordsInv, Sound, Channel
<1>3. PendInv' /\ StreamOrder' /\ LockOrder'
  BY <1>1 DEF FileInv, PendInv, StreamOrder, LockOrder
<1>4. ASSUME NEW d \in Cpu, NEW i \in DOMAIN doing'[d]
      PROVE  /\ doing'[d][i].op \in 1 .. clock
             /\ \A e \in Cpu : \A j \in DOMAIN doing'[e] :
                  doing'[d][i].op = doing'[e][j].op => d = e /\ i = j
             /\ \A r \in Known : /\ r.stream = "nftrace" => r.op # doing'[d][i].op
                                 /\ r.stream = "watch" /\ r.op = doing'[d][i].op => r.cpu = d
  <2>1. i \in DOMAIN doing[d] /\ doing'[d][i].op = doing[d][i].op
    OBVIOUS
  <2>2. /\ doing[d][i].op \in 1 .. clock
        /\ \A r \in Known : /\ r.stream = "nftrace" => r.op # doing[d][i].op
                            /\ r.stream = "watch" /\ r.op = doing[d][i].op => r.cpu = d
    BY <2>1 DEF FileInv, InFlightInv
  <2>3. ASSUME NEW e \in Cpu, NEW j \in DOMAIN doing'[e], doing'[d][i].op = doing'[e][j].op
        PROVE  d = e /\ i = j
    <3>1. j \in DOMAIN doing[e] /\ doing[d][i].op = doing[e][j].op
      BY <2>1, <2>3
    <3> QED BY <2>1, <3>1 DEF FileInv, InFlightInv
  <2> QED BY <2>1, <2>2, <2>3
<1>5. InFlightInv'
  BY <1>1, <1>4 DEF InFlightInv
<1> QED BY <1>1, <1>2, <1>3, <1>5 DEF FileInv

\* What a vCPU writes is the newest of it in every stream.
LEMMA WriteFile ==
  ASSUME TypeOK, FileInv, NEW c \in Cpu, Write(c)
  PROVE  FileInv'
<1>1. /\ Cpu' = Cpu /\ kernel' = kernel /\ clock' = clock /\ doing' = doing
      /\ Known' \subseteq Known
  BY WriteKnown DEF Write, guest, Cpu, FileInv
<1>2. pend'[c] = {} /\ \A d \in Cpu \ {c} : pend'[d] = pend[d]
  BY DEF TypeOK, Write
<1>3. RecordsInv'
  BY <1>1 DEF FileInv, RecordsInv, Sound, Channel
<1>4. InFlightInv'
  BY <1>1 DEF FileInv, InFlightInv
\* In a stream that grows, the last record is c's.
<1> DEFINE Same(s, i) == i \in DOMAIN file[s] /\ file'[s][i] = file[s][i]
           Newest(s, i) == /\ file'[s][i] \in pend[c] /\ file'[s][i].stream = s
                         /\ \A j \in DOMAIN file'[s] : j <= i
<1>5. ASSUME NEW s \in Merged, NEW i \in DOMAIN file'[s]
      PROVE  i \in Nat /\ (Same(s, i) \/ Newest(s, i))
  <2>1. file[s] \in Seq(Rec)
    BY DEF TypeOK
  <2>2. CASE file'[s] = file[s]
    BY <2>1, <2>2
  <2>3. ASSUME NEW r \in pend[c], r.stream = s, file'[s] = Append(file[s], r)
        PROVE  i \in Nat /\ (Same(s, i) \/ Newest(s, i))
    BY <2>1, <2>3, AppendAny
  <2> QED BY <2>2, <2>3, WriteAppends
<1>6. ASSUME NEW r \in pend[c]
      PROVE  /\ r.cpu = c /\ r.insn \in Nat
             /\ \A s \in Merged : \A i \in DOMAIN file[s] :
                  file[s][i].cpu = c => file[s][i].insn < r.insn
             /\ \A q \in pend[c] : q.insn = r.insn
  BY DEF FileInv, PendInv
<1> HIDE DEF Same, Newest
<1>7. StreamOrder'
  <2>1. ASSUME NEW s \in Merged, NEW i \in DOMAIN file'[s]
        PROVE  file'[s][i].stream = s
    <3>1. CASE Same(s, i)
      BY <3>1 DEF Same, FileInv, StreamOrder
    <3>2. CASE Newest(s, i)
      BY <3>2 DEF Newest
    <3> QED BY <1>5, <3>1, <3>2
  <2>2. ASSUME NEW s \in Merged, NEW i \in DOMAIN file'[s], NEW j \in DOMAIN file'[s],
               i < j, file'[s][i].cpu = file'[s][j].cpu
        PROVE  file'[s][i].insn < file'[s][j].insn
    <3>1. i \in Nat /\ j \in Nat
      BY <1>5
    <3>2. Same(s, i)
      BY <1>5, <2>2, <3>1 DEF Newest
    <3>3. CASE Same(s, j)
      BY <2>2, <3>2, <3>3 DEF Same, FileInv, StreamOrder
    <3>4. CASE Newest(s, j)
      BY <1>6, <2>2, <3>2, <3>4 DEF Same, Newest
    <3> QED BY <1>5, <3>3, <3>4
  <2> QED BY <2>1, <2>2 DEF StreamOrder
<1>8. LockOrder'
  <2>1. ASSUME NEW s \in Merged, NEW i \in DOMAIN file'[s], NEW j \in DOMAIN file'[s],
               NEW e \in Known', i < j, e.cpu = file'[s][j].cpu, file'[s][j].insn < e.insn
        PROVE  file'[s][i].insn < e.insn
    <3>1. i \in Nat /\ j \in Nat /\ e \in Known
      BY <1>1, <1>5
    <3>2. Same(s, i)
      BY <1>5, <2>1, <3>1 DEF Newest
    <3>3. CASE Same(s, j)
      BY <2>1, <3>1, <3>2, <3>3 DEF Same, FileInv, LockOrder
    <3>4. CASE Newest(s, j)
      <4> DEFINE r == file'[s][j]
      <4>1. r \in pend[c] /\ r.cpu = c /\ e.cpu = c /\ r.insn < e.insn
        BY <1>6, <2>1, <3>4 DEF Newest
      <4>2. e.insn \in Nat /\ r.insn \in Nat
        BY <1>6, <3>1, <4>1 DEF FileInv, RecordsInv, Sound, Rec
      <4> HIDE DEF r
      <4>3. CASE \E t \in Merged : \E n \in DOMAIN file[t] : e = file[t][n]
        BY <1>6, <4>1, <4>2, <4>3
      <4>4. CASE \E d \in Cpu : e \in pend[d]
        <5>1. PICK d \in Cpu : e \in pend[d]
          BY <4>4
        <5>2. d = c
          BY <4>1, <5>1 DEF FileInv, PendInv
        <5> QED BY <1>6, <4>1, <4>2, <5>1, <5>2
      <4> QED BY <3>1, <4>3, <4>4, KnownFacts
    <3> QED BY <1>5, <3>3, <3>4
  <2> QED BY <2>1 DEF LockOrder
<1>9. PendInv'
  <2>1. ASSUME NEW d \in Cpu, NEW r \in pend'[d]
        PROVE  /\ r.cpu = d /\ r.insn \in 1 .. clock
               /\ \A q \in pend'[d] : q.insn = r.insn /\ (q.stream = r.stream => q = r)
               /\ \A s \in Merged : \A i \in DOMAIN file'[s] :
                    file'[s][i].cpu = d => file'[s][i].insn < r.insn
    <3>1. d # c /\ pend'[d] = pend[d] /\ r \in pend[d]
      BY <1>2, <2>1
    <3>2. /\ r.cpu = d /\ r.insn \in 1 .. clock
          /\ \A q \in pend[d] : q.insn = r.insn /\ (q.stream = r.stream => q = r)
          /\ \A s \in Merged : \A i \in DOMAIN file[s] :
               file[s][i].cpu = d => file[s][i].insn < r.insn
      BY <3>1 DEF FileInv, PendInv
    <3>3. ASSUME NEW s \in Merged, NEW i \in DOMAIN file'[s], file'[s][i].cpu = d
          PROVE  file'[s][i].insn < r.insn
      <4>1. CASE Same(s, i)
        BY <3>2, <3>3, <4>1 DEF Same
      <4>2. CASE Newest(s, i)
        BY <1>6, <3>1, <3>3, <4>2 DEF Newest
      <4> QED BY <1>5, <4>1, <4>2
    <3> QED BY <3>1, <3>2, <3>3
  <2> QED BY <1>1, <2>1 DEF PendInv
<1> QED BY <1>3, <1>4, <1>7, <1>8, <1>9 DEF FileInv

---------------------------------------------------------------------------
(* The task that runs.                                                      *)

\* A hit keeps what is known of the running tasks.
LEMMA HitRunning ==
  ASSUME TypeOK, FileInv, RunningInv, NEW c \in Cpu, NEW recs, HitStep(c, recs)
  PROVE  RunningInv'
<1>1. /\ Cpu' = Cpu /\ (Telling' <=> Telling) /\ clock' = clock + 1 /\ clock \in Nat
      /\ Known \subseteq Known'
  BY LatchKnown DEF HitStep, Rest, Latch, TypeOK, Cpu, Telling, Channel
<1>2. ASSUME NEW r \in Known
      PROVE  r.insn \in 1 .. clock
  BY DEF FileInv, RecordsInv, Sound
<1>3. ASSUME NEW r \in recs
      PROVE  r.cpu = c /\ r.insn = clock + 1 /\ r.who = Who(c)
             /\ \A q \in recs : r.stream = q.stream => r = q
  BY DEF HitStep, Latch
<1>4. ASSUME NEW k, NEW d, NEW n, LastSwitch(k, d, n)', k \in Known
      PROVE  LastSwitch(k, d, n)
  BY <1>1, <1>4 DEF LastSwitch
<1>5. ASSUME Telling, NEW d \in Cpu, NEW k, LastSwitch(k, d, clock + 1)'
      PROVE  Who(d)' = PidOf(k)
  <2>0. Cpu' = Cpu /\ k \in Known' /\ IsSwitch(k) /\ k.cpu = d /\ k.insn < clock + 2
        /\ \A q \in Known' : IsSwitch(q) /\ q.cpu = d /\ q.insn < clock + 2 => q.insn <= k.insn
    BY <1>1, <1>5 DEF LastSwitch
  <2>1. CASE k \in Known /\ Who(d)' = Who(d)
    <3>1. k.insn < clock + 1
      BY <1>1, <1>2, <2>1
    <3>2. \A q \in Known : IsSwitch(q) /\ q.cpu = d /\ q.insn < clock + 1 => q.insn <= k.insn
      BY <1>1, <1>2, <2>0
    <3>3. LastSwitch(k, d, clock + 1)
      BY <2>0, <2>1, <3>1, <3>2 DEF LastSwitch
    <3> QED BY <1>5, <2>1, <3>3 DEF RunningInv
  <2>2. CASE d # c
    <3>1. k \in Known
      BY <1>3, <2>0, <2>2, LatchKnown DEF HitStep, Rest
    <3> QED BY <2>1, <2>2, <3>1 DEF HitStep, Switched
  <2>3. CASE d = c /\ Who(c)' = Who(c) /\ \A r \in recs : ~IsSwitch(r)
    <3>1. k \in Known
      BY <2>0, <2>3, LatchKnown DEF HitStep, Rest
    <3> QED BY <2>1, <2>3, <3>1
  <2>4. CASE d = c /\ \E r \in recs : IsSwitch(r) /\ Who(c)' = PidOf(r)
    <3>1. PICK r \in recs : IsSwitch(r) /\ Who(c)' = PidOf(r)
      BY <2>4
    <3>2. r \in Known'
      BY <3>1, LatchKnown DEF HitStep, Rest, IsSwitch, Merged
    <3>3. r.insn <= k.insn /\ r.insn = clock + 1
      BY <1>1, <1>3, <2>0, <2>4, <3>1, <3>2
    <3>4. k \in recs
      BY <1>1, <1>2, <2>0, <3>3, LatchKnown DEF HitStep, Rest
    <3>5. k = r
      BY <1>3, <2>0, <3>1, <3>4 DEF IsSwitch
    <3> QED BY <2>4, <3>1, <3>5
  <2> QED BY <1>5, <2>2, <2>3, <2>4 DEF HitStep, Switched
<1>6. ASSUME Telling, NEW r \in Known', r.kind # "switch",
             NEW k, LastSwitch(k, r.cpu, r.insn)'
      PROVE  r.who = PidOf(k)
  <2>1. k \in Known' /\ k.insn < r.insn
    BY <1>6 DEF LastSwitch
  <2>2. k \in Known
    <3>1. r.insn \in Nat /\ r.insn <= clock + 1
      BY <1>1, <1>2, <1>3, LatchKnown DEF HitStep, Rest
    <3>2. k \in recs => k.insn = clock + 1
      BY <1>3
    <3> QED BY <1>1, <2>1, <3>1, <3>2, LatchKnown DEF HitStep, Rest
  <2>3. LastSwitch(k, r.cpu, r.insn)
    BY <1>4, <1>6, <2>2
  <2>4. CASE r \in Known
    BY <1>6, <2>3, <2>4 DEF RunningInv
  <2>5. CASE r \in recs
    BY <1>3, <1>6, <2>3, <2>5 DEF RunningInv
  <2> QED BY <2>4, <2>5, LatchKnown DEF HitStep, Rest
<1>7. RowsInUse'
  BY DEF HitStep
<1>8. Telling' => \A d \in Cpu : \A k : LastSwitch(k, d, clock + 1)' => Who(d)' = PidOf(k)
  BY <1>1, <1>5
<1>9. Telling' => \A r \in Known' : r.kind # "switch" =>
                    \A k : LastSwitch(k, r.cpu, r.insn)' => r.who = PidOf(k)
  BY <1>1, <1>6
<1> QED BY <1>1, <1>7, <1>8, <1>9 DEF RunningInv, PidOf

\* So does a step that keeps the known records, when every switch of them remains.
LEMMA KeepRunning ==
  ASSUME TypeOK, FileInv, RunningInv, UNCHANGED <<kernel, clock>>, RowsInUse',
         \A d \in Cpu : Who(d)' = Who(d), Known' \subseteq Known,
         ~kernel.unreadable => Known' = Known
  PROVE  RunningInv'
<1>1. Cpu' = Cpu /\ (Telling' <=> Telling) /\ (Telling => Known' = Known)
  BY DEF Cpu, Telling, Channel
<1>2. ASSUME Telling, NEW k, NEW d, NEW n
      PROVE  LastSwitch(k, d, n)' <=> LastSwitch(k, d, n)
  BY <1>1, <1>2 DEF LastSwitch
<1>3. Telling' => \A d \in Cpu : \A k : LastSwitch(k, d, clock + 1)' => Who(d)' = PidOf(k)
  <2>1. ASSUME Telling, NEW d \in Cpu, NEW k, LastSwitch(k, d, clock + 1)'
        PROVE  Who(d)' = PidOf(k)
    <3>1. LastSwitch(k, d, clock + 1)
      BY <1>1, <2>1 DEF LastSwitch
    <3> QED BY <2>1, <3>1 DEF RunningInv
  <2> QED BY <1>1, <2>1
<1>4. Telling' => \A r \in Known' : r.kind # "switch" =>
                    \A k : LastSwitch(k, r.cpu, r.insn)' => r.who = PidOf(k)
  BY <1>1, <1>2 DEF RunningInv
<1> QED BY <1>1, <1>3, <1>4 DEF RunningInv, PidOf

---------------------------------------------------------------------------
(* What a step of the merge does.                                           *)

\* The head of one stream comes before the head of every other.
LEMMA MinimalHead ==
  ASSUME TypeOK, Left # {}
  PROVE  Next1 \in Left /\ \A t \in Left : Before(Next1, t)
<1>1. ASSUME NEW s \in Left
      PROVE  s \in Merged /\ at[s] \in Nat /\ at[s] + 1 \in DOMAIN file[s]
             /\ Head1(s).insn \in Nat /\ Order[s] \in Nat
  <2>1. s \in Merged /\ at[s] < Len(file[s])
    BY DEF Left
  <2>2. at[s] \in Nat /\ file[s] \in Seq(Rec)
    BY <2>1 DEF TypeOK
  <2>3. at[s] + 1 \in DOMAIN file[s]
    BY <2>1, <2>2
  <2>4. file[s][at[s] + 1] \in Rec
    BY <2>2, <2>3
  <2>5. Order[s] \in Nat
    BY <2>1 DEF Order, Merged
  <2> QED BY <2>1, <2>2, <2>3, <2>4, <2>5 DEF Head1, Rec
<1>2. \A s, t \in Left : Before(s, t) \/ Before(t, s)
  BY <1>1 DEF Before
<1>3. \A s, t, u \in Left : Before(s, t) /\ Before(t, u) => Before(s, u)
  BY <1>1 DEF Before
<1>4. Left \subseteq {"discon", "watch", "nftrace"}
  BY DEF Left, Merged
<1>5. \E s \in Left : \A t \in Left : Before(s, t)
  <2> SUFFICES ASSUME \A s \in Left : \E t \in Left : ~Before(s, t)
               PROVE  FALSE
    OBVIOUS
  <2> DEFINE Prior(t, s) == Before(t, s) /\ ~Before(s, t)
  <2>1. \A s \in Left : \E t \in Left : Prior(t, s)
    BY <1>2
  <2>2. /\ \A s, t, u \in Left : Prior(u, t) /\ Prior(t, s) => Prior(u, s)
        /\ \A s \in Left : ~Prior(s, s)
    BY <1>2, <1>3
  <2> HIDE DEF Prior
  <2>3. PICK s \in Left : TRUE
    OBVIOUS
  <2>4. PICK t \in Left : Prior(t, s)
    BY <2>1
  <2>5. PICK u \in Left : Prior(u, t)
    BY <2>1
  <2>6. PICK v \in Left : Prior(v, u)
    BY <2>1
  <2>7. s # t /\ s # u /\ s # v /\ t # u /\ t # v /\ u # v
    <3>1. Prior(u, s) /\ Prior(v, t)
      BY <2>2, <2>4, <2>5, <2>6
    <3>2. Prior(v, s)
      BY <2>2, <2>4, <3>1
    <3> QED BY <2>2, <2>4, <2>5, <2>6, <3>1, <3>2
  <2> QED BY <1>4, <2>7
<1> QED BY <1>5, Zenon DEF Next1

\* The head h of stream m, at n, is consumed.
Took(m, n, h) ==
  /\ phase = "merging" /\ UNCHANGED <<kernel, clock, guest, pend, file, phase>>
  /\ m \in Merged /\ n = at[m] + 1 /\ n \in DOMAIN file[m] /\ h = file[m][n]
  /\ \A t \in Merged : at[t] + 1 \in DOMAIN file[t] => h.insn <= file[t][at[t] + 1].insn
  /\ at' = [at EXCEPT ![m] = n]
  /\ DOMAIN curSlot' = DOMAIN curSlot

\* It is dropped, or becomes an event; a switch on the channel tells its task first.
Became(h) ==
  \/ Dropped(h) /\ UNCHANGED <<semantic, events>>
  \/ /\ ~Dropped(h)
     /\ semantic' = IF IsSwitch(h) THEN [semantic EXCEPT ![h.cpu] = PidOf(h)] ELSE semantic
     /\ \E pid : /\ events' = Append(events, Event(h, pid))
                 /\ semantic'[h.cpu] # Absent => pid = semantic'[h.cpu]

\* An entry of the scheduler that is not dropped moves the row of its vCPU; an event has
\* the pid of the row, or of the last switch record.
Seated(h) ==
  /\ curSlot' = IF Entered(h) /\ ~Dropped(h)
                THEN [curSlot EXCEPT ![h.cpu] = TaskByCtx(StateIndexFor(h.insn), h.data.to)]
                ELSE curSlot
  /\ ~Dropped(h) =>
       events' = Append(events, Event(h, Attributed(h.cpu, StateIndexFor(h.insn), curSlot',
                                                    semantic')))

\* A step of the merge consumes one record.
LEMMA MergeTook ==
  ASSUME TypeOK, FileInv, Merge
  PROVE  \E m \in Merged : \E n \in Nat : \E h \in Known :
           Took(m, n, h) /\ Became(h) /\ Seated(h) /\ h.stream = m
<1> DEFINE m == Next1
           n == at[m] + 1
           h == file[m][n]
           si == StateIndexFor(h.insn)
<1>1. m \in Left /\ \A t \in Left : Before(m, t)
  BY MinimalHead DEF Merge
<1>2. m \in Merged /\ at[m] \in Nat /\ n \in Nat /\ n \in DOMAIN file[m] /\ file[m] \in Seq(Rec)
  <2>1. m \in Merged /\ at[m] < Len(file[m])
    BY <1>1 DEF Left
  <2>2. at[m] \in Nat /\ file[m] \in Seq(Rec)
    BY <2>1 DEF TypeOK
  <2> QED BY <2>1, <2>2
<1>3. h \in Known /\ h.stream = m
  BY <1>2, KnownFacts DEF FileInv, StreamOrder
<1>4. h \in Rec /\ h.cpu \in Cpu
  BY <1>3 DEF FileInv, RecordsInv, Sound
<1>5. /\ phase = "merging" /\ at' = [at EXCEPT ![m] = n]
      /\ UNCHANGED <<kernel, clock, guest, pend, file, phase>>
      /\ CASE m = "watch" -> WatchEvent(h, si)
           [] m = "nftrace" -> NftraceEvent(h, si)
           [] OTHER -> DisconEvent(h, si)
  BY DEF Merge, Head1
<1>6. ASSUME NEW t \in Merged, at[t] + 1 \in DOMAIN file[t]
      PROVE  h.insn <= file[t][at[t] + 1].insn
  <2>1. at[t] \in Nat /\ file[t] \in Seq(Rec)
    BY DEF TypeOK
  <2>2. t \in Left
    BY <1>6, <2>1 DEF Left
  <2>3. h.insn \in Nat /\ file[t][at[t] + 1].insn \in Nat
    <3>1. file[t][at[t] + 1] \in Rec
      BY <1>6, <2>1
    <3> QED BY <1>4, <3>1 DEF Rec
  <2> QED BY <1>1, <2>2, <2>3 DEF Before, Head1
<1>7. DOMAIN curSlot = Cpu /\ semantic \in [Cpu -> Int]
  BY DEF TypeOK
<1> HIDE DEF m, n, h, si
<1>8. DOMAIN curSlot' = DOMAIN curSlot /\ Became(h)
  <2>1. CASE m = "watch"
    <3>1. WatchEvent(h, si)
      BY <1>5, <2>1
    <3>2. ~IsSwitch(h)
      BY <1>3, <2>1 DEF IsSwitch
    <3>3. CASE Superseded(h)
      BY <1>3, <2>1, <3>1, <3>3 DEF WatchEvent, Became, Dropped
    <3>4. CASE ~Superseded(h)
      <4>1. PICK slots : /\ slots = IF h.kind = "switch"
                                    THEN [curSlot EXCEPT ![h.cpu] = TaskByCtx(si, h.data.to)]
                                    ELSE curSlot
                         /\ curSlot' = slots /\ semantic' = semantic
                         /\ events' = Append(events,
                                    Event(h, Attributed(h.cpu, si, slots, semantic)))
        BY <3>1, <3>4 DEF WatchEvent
      <4>2. DOMAIN slots = DOMAIN curSlot
        BY <4>1
      <4>3. semantic'[h.cpu] # Absent => Attributed(h.cpu, si, slots, semantic) = semantic'[h.cpu]
        BY <4>1 DEF Attributed
      <4> QED BY <3>2, <3>4, <4>1, <4>2, <4>3 DEF Became, Dropped
    <3> QED BY <3>3, <3>4
  <2>2. CASE m = "nftrace"
    <3>1. NftraceEvent(h, si)
      BY <1>5, <2>2
    <3>2. IsSwitch(h) <=> h.kind = "switch"
      BY <1>3, <2>2 DEF IsSwitch
    <3>3. PICK sem : /\ sem = IF IsSwitch(h) THEN [semantic EXCEPT ![h.cpu] = PidOf(h)]
                              ELSE semantic
                     /\ semantic' = sem /\ curSlot' = curSlot
                     /\ events' = Append(events, Event(h, Attributed(h.cpu, si, curSlot, sem)))
      BY <3>1, <3>2 DEF NftraceEvent, PidOf
    <3>4. sem[h.cpu] # Absent => Attributed(h.cpu, si, curSlot, sem) = sem[h.cpu]
      BY DEF Attributed
    <3>5. ~Dropped(h)
      BY <1>3, <2>2 DEF Dropped
    <3> QED BY <3>3, <3>4, <3>5 DEF Became
  <2>3. CASE m = "discon"
    <3>1. DisconEvent(h, si)
      BY <1>5, <2>3
    <3>2. ~IsSwitch(h) /\ ~Dropped(h)
      BY <1>3, <2>3 DEF IsSwitch, Dropped
    <3>3. semantic[h.cpu] # Absent
            => Attributed(h.cpu, si, curSlot, semantic) = semantic[h.cpu]
      BY DEF Attributed
    <3> QED BY <3>1, <3>2, <3>3 DEF DisconEvent, Became
  <2> QED BY <1>2, <2>1, <2>2, <2>3 DEF Merged
<1>9. Took(m, n, h)
  BY <1>2, <1>5, <1>6, <1>8 DEF Took, n, h
<1>10. Seated(h)
  <2>1. CASE m = "watch"
    <3>1. WatchEvent(h, si) /\ h.stream = "watch"
      BY <1>3, <1>5, <2>1
    <3>2. CASE Superseded(h)
      BY <3>1, <3>2 DEF WatchEvent, Seated, Dropped, Entered
    <3>3. CASE ~Superseded(h)
      BY <3>1, <3>3 DEF WatchEvent, Seated, Dropped, Entered, si
    <3> QED BY <3>2, <3>3
  <2>2. CASE m = "nftrace"
    <3>1. NftraceEvent(h, si) /\ h.stream = "nftrace"
      BY <1>3, <1>5, <2>2
    <3> QED BY <3>1 DEF NftraceEvent, Seated, Dropped, Entered, si
  <2>3. CASE m = "discon"
    <3>1. DisconEvent(h, si) /\ h.stream = "discon"
      BY <1>3, <1>5, <2>3
    <3> QED BY <3>1 DEF DisconEvent, Seated, Dropped, Entered, si
  <2> QED BY <1>2, <2>1, <2>2, <2>3 DEF Merged
<1> QED BY <1>2, <1>3, <1>8, <1>9, <1>10

---------------------------------------------------------------------------
(* A step of the merge keeps the invariants of the merge.                   *)

\* Which records are dropped depends on the file and the kernel alone.
LEMMA DroppedSame ==
  ASSUME UNCHANGED <<kernel, file>>, NEW s, NEW p
  PROVE  DroppedAt(s, p)' <=> DroppedAt(s, p)
BY DEF DroppedAt, Dropped, Superseded, CloneChannel, KallocAfter, Records, Nftrace, Range1

\* What is consumed after a step, and what is left.
LEMMA TookFacts ==
  ASSUME TypeOK, NEW m \in Merged, NEW n \in Nat, NEW h, Took(m, n, h)
  PROVE  /\ file' = file /\ kernel' = kernel /\ Cpu' = Cpu /\ at[m] \in Nat
         /\ n \in 1 .. at'[m] /\ n = at[m] + 1 /\ n > at[m]
         /\ n \in DOMAIN file[m] /\ file[m][n] = h
         /\ \A s \in Merged : \A p \in 1 .. at'[s] :
              /\ p \in DOMAIN file[s]
              /\ p \in 1 .. at[s] \/ (s = m /\ p = n)
         /\ \A s \in Merged : \A p \in 1 .. at[s] : p \in 1 .. at'[s] /\ p \in DOMAIN file[s]
         /\ \A s \in Merged : \A q \in DOMAIN file[s] :
              q > at'[s] => q > at[s] /\ (s = m => q > n)
<1>1. /\ file' = file /\ kernel' = kernel /\ Cpu' = Cpu /\ n = at[m] + 1
      /\ n \in DOMAIN file[m] /\ file[m][n] = h
  BY DEF Took, Cpu
<1>2. \A s \in Merged : at[s] \in Nat /\ at[s] <= Len(file[s]) /\ Len(file[s]) \in Nat
                        /\ DOMAIN file[s] = 1 .. Len(file[s])
  BY DEF TypeOK
<1>3. at'[m] = n /\ \A s \in Merged \ {m} : at'[s] = at[s]
  BY DEF Took, TypeOK
<1>4. ASSUME NEW s \in Merged
      PROVE  /\ \A p \in 1 .. at'[s] : /\ p \in DOMAIN file[s]
                                       /\ p \in 1 .. at[s] \/ (s = m /\ p = n)
             /\ \A p \in 1 .. at[s] : p \in 1 .. at'[s] /\ p \in DOMAIN file[s]
             /\ \A q \in DOMAIN file[s] : q > at'[s] => q > at[s] /\ (s = m => q > n)
  <2>1. CASE s = m
    BY <1>1, <1>2, <1>3, <2>1
  <2>2. CASE s # m
    BY <1>2, <1>3, <2>2
  <2> QED BY <2>1, <2>2
<1> QED BY <1>1, <1>2, <1>3, <1>4

\* Nothing that is left of the vCPU is older than the record that is consumed.
LEMMA TookOldest ==
  ASSUME TypeOK, FileInv, NEW m \in Merged, NEW n \in Nat, NEW h \in Known, Took(m, n, h),
         NEW t \in Merged, NEW q \in DOMAIN file[t], q > at'[t], file[t][q].cpu = h.cpu
  PROVE  h.insn <= file[t][q].insn
<1>1. q > at[t] /\ (t = m => q > n) /\ n \in DOMAIN file[m] /\ file[m][n] = h
  BY TookFacts
<1>2. /\ at[t] \in Nat /\ q \in Nat /\ DOMAIN file[t] = 1 .. Len(file[t]) /\ Len(file[t]) \in Nat
      /\ at[t] + 1 \in DOMAIN file[t]
  <2>1. at[t] \in Nat /\ DOMAIN file[t] = 1 .. Len(file[t]) /\ Len(file[t]) \in Nat
    BY KnownFacts DEF TypeOK
  <2> QED BY <1>1, <2>1
<1> DEFINE g == file[t][at[t] + 1]
           r == file[t][q]
<1>3. h.insn \in Nat /\ g.insn \in Nat /\ r.insn \in Nat
  <2>1. g \in Known /\ r \in Known
    BY <1>2, KnownFacts
  <2> QED BY <2>1 DEF FileInv, RecordsInv, Sound, Rec
<1>4. h.insn <= g.insn
  BY <1>2 DEF Took
<1>5. CASE q = at[t] + 1
  BY <1>4, <1>5
<1>6. CASE q # at[t] + 1
  <2>1. at[t] + 1 < q
    BY <1>1, <1>2, <1>6
  <2>2. r.insn < h.insn => g.insn < h.insn
    BY <1>2, <2>1 DEF FileInv, LockOrder
  <2> QED BY <1>3, <1>4, <2>2
<1> QED BY <1>5, <1>6

\* The records that are consumed are still no younger than those that are left.
LEMMA TookOrder ==
  ASSUME TypeOK, FileInv, MergeOrder, NEW m \in Merged, NEW n \in Nat, NEW h \in Known,
         Took(m, n, h)
  PROVE  MergeOrder'
<1>1. file' = file /\ file[m][n] = h
  BY TookFacts
<1>2. ASSUME NEW s \in Merged, NEW t \in Merged, NEW p \in 1 .. at'[s],
             NEW q \in DOMAIN file[t], q > at'[t], file[s][p].cpu = file[t][q].cpu
      PROVE  file[s][p].insn <= file[t][q].insn
  <2>1. CASE p \in 1 .. at[s]
    <3>1. q > at[t]
      BY <1>2, TookFacts
    <3> QED BY <1>2, <2>1, <3>1 DEF MergeOrder
  <2>2. CASE s = m /\ p = n
    BY <1>1, <1>2, <2>2, TookOldest
  <2> QED BY <2>1, <2>2, TookFacts
<1> QED BY <1>1, <1>2 DEF MergeOrder

\* What becomes of the events: they stay, or one of the record is appended.
LEMMA BecameEvents ==
  ASSUME TypeOK, NEW h, Became(h)
  PROVE  /\ Len(events) \in Nat /\ DOMAIN events = 1 .. Len(events)
         /\ \A i \in DOMAIN events : i \in DOMAIN events' /\ events'[i] = events[i]
         /\ \/ Dropped(h) /\ DOMAIN events' = DOMAIN events /\ semantic' = semantic
            \/ /\ ~Dropped(h) /\ DOMAIN events' = 1 .. Len(events) + 1
               /\ From(events'[Len(events) + 1], h)
               /\ semantic' = IF IsSwitch(h) THEN [semantic EXCEPT ![h.cpu] = PidOf(h)]
                              ELSE semantic
               /\ semantic'[h.cpu] # Absent
                    => events'[Len(events) + 1].pid = semantic'[h.cpu]
         /\ events' \in Seq(Range1(events'))
<1>1. events \in Seq(Range1(events))
  BY DEF TypeOK
<1>2. CASE Dropped(h) /\ UNCHANGED <<semantic, events>>
  BY <1>1, <1>2
<1>3. ASSUME NEW pid, events' = Append(events, Event(h, pid)), ~Dropped(h),
             semantic'[h.cpu] # Absent => pid = semantic'[h.cpu],
             semantic' = IF IsSwitch(h) THEN [semantic EXCEPT ![h.cpu] = PidOf(h)] ELSE semantic
      PROVE  /\ Len(events) \in Nat /\ DOMAIN events = 1 .. Len(events)
             /\ \A i \in DOMAIN events : i \in DOMAIN events' /\ events'[i] = events[i]
             /\ DOMAIN events' = 1 .. Len(events) + 1
             /\ From(events'[Len(events) + 1], h)
             /\ semantic'[h.cpu] # Absent => events'[Len(events) + 1].pid = semantic'[h.cpu]
             /\ events' \in Seq(Range1(events'))
  <2> DEFINE e == Event(h, pid)
  <2>1. From(e, h) /\ e.pid = pid
    BY DEF From, Event
  <2> HIDE DEF e
  <2>2. events' = Append(events, e)
    BY <1>3 DEF e
  <2>3. /\ Len(events) \in Nat /\ DOMAIN events = 1 .. Len(events)
        /\ DOMAIN events' = 1 .. Len(events) + 1
        /\ \A i \in 1 .. Len(events) : events'[i] = events[i]
        /\ events'[Len(events) + 1] = e
        /\ events' \in Seq(Range1(events'))
    BY <1>1, <2>2, AppendAny
  <2> QED BY <1>3, <2>1, <2>3
<1> QED BY <1>2, <1>3 DEF Became

\* Events and consumed records still correspond.
LEMMA TookEvents ==
  ASSUME TypeOK, EventsHaveRecords, RecordsHaveEvents, NEW m \in Merged, NEW n \in Nat, NEW h,
         Took(m, n, h), Became(h)
  PROVE  EventsHaveRecords' /\ RecordsHaveEvents'
<1> DEFINE N == Len(events) + 1
<1>1. file' = file /\ kernel' = kernel /\ n \in 1 .. at'[m] /\ file[m][n] = h
  BY TookFacts
<1>2. \A s, p : DroppedAt(s, p)' <=> DroppedAt(s, p)
  BY <1>1, DroppedSame
<1>3. DroppedAt(m, n) <=> Dropped(h)
  BY <1>1 DEF DroppedAt
<1>4. /\ N \in Nat /\ DOMAIN events = 1 .. Len(events) /\ Len(events) \in Nat
      /\ \A i \in DOMAIN events : i \in DOMAIN events' /\ events'[i] = events[i]
      /\ \/ Dropped(h) /\ DOMAIN events' = DOMAIN events
         \/ ~Dropped(h) /\ DOMAIN events' = 1 .. N /\ From(events'[N], h)
  BY BecameEvents
<1> HIDE DEF N
<1>5. ASSUME NEW i \in DOMAIN events'
      PROVE  \E s \in Merged : \E p \in 1 .. at'[s] :
               From(events'[i], file[s][p]) /\ ~DroppedAt(s, p)
  <2>1. CASE i \in DOMAIN events
    <3>1. PICK s \in Merged : \E p \in 1 .. at[s] : From(events[i], file[s][p]) /\ ~DroppedAt(s, p)
      BY <2>1 DEF EventsHaveRecords
    <3>2. PICK p \in 1 .. at[s] : From(events[i], file[s][p]) /\ ~DroppedAt(s, p)
      BY <3>1
    <3>3. p \in 1 .. at'[s]
      BY TookFacts
    <3> QED BY <1>4, <2>1, <3>2, <3>3
  <2>2. CASE i \notin DOMAIN events
    <3>1. i = N /\ ~Dropped(h) /\ From(events'[N], h)
      BY <1>4, <2>2 DEF N
    <3> QED BY <1>1, <1>3, <3>1
  <2> QED BY <2>1, <2>2
<1>6. ASSUME NEW s \in Merged, NEW p \in 1 .. at'[s]
      PROVE  DroppedAt(s, p) \/ \E i \in DOMAIN events' : From(events'[i], file[s][p])
  <2>1. CASE p \in 1 .. at[s]
    <3>1. CASE DroppedAt(s, p)
      BY <3>1
    <3>2. CASE ~DroppedAt(s, p)
      <4>1. PICK i \in DOMAIN events : From(events[i], file[s][p])
        BY <2>1, <3>2 DEF RecordsHaveEvents
      <4> QED BY <1>4, <4>1
    <3> QED BY <3>1, <3>2
  <2>2. CASE s = m /\ p = n
    <3>1. CASE Dropped(h)
      BY <1>3, <2>2, <3>1
    <3>2. CASE ~Dropped(h)
      <4>1. N \in DOMAIN events' /\ From(events'[N], file[s][p])
        BY <1>1, <1>4, <2>2, <3>2 DEF N
      <4> QED BY <4>1
    <3> QED BY <3>1, <3>2
  <2> QED BY <2>1, <2>2, TookFacts
<1>7. EventsHaveRecords'
  BY <1>1, <1>2, <1>5 DEF EventsHaveRecords, From
<1>8. RecordsHaveEvents'
  BY <1>1, <1>2, <1>6 DEF RecordsHaveEvents, From
<1> QED BY <1>7, <1>8

\* The event of an older record is another one, and no younger on its vCPU.
LEMMA OlderEvent ==
  ASSUME TypeOK, FileInv, MergeOrder, EventsHaveRecords, NEW m \in Merged, NEW n \in Nat,
         NEW h \in Known, Took(m, n, h), h.stream = m, NEW i \in DOMAIN events, NEW e, From(e, h)
  PROVE  /\ ~(/\ events[i].source = e.source /\ events[i].op = e.op
              /\ events[i].kind = e.kind)
         /\ events[i].cpu = e.cpu => events[i].insn <= e.insn
<1>1. PICK s \in Merged : \E p \in 1 .. at[s] : From(events[i], file[s][p])
  BY DEF EventsHaveRecords
<1>2. PICK p \in 1 .. at[s] : From(events[i], file[s][p])
  BY <1>1
<1> DEFINE r == file[s][p]
<1>3. /\ p \in DOMAIN file[s] /\ n \in DOMAIN file[m] /\ file[m][n] = h /\ n = at[m] + 1
      /\ n > at[m] /\ at[m] \in Nat
  BY TookFacts
<1>4. r \in Known /\ r.stream = s
  BY <1>3, KnownFacts DEF FileInv, StreamOrder
<1>5. events[i].cpu = e.cpu => events[i].insn <= e.insn
  <2>1. r.cpu = h.cpu => r.insn <= h.insn
    BY <1>3 DEF MergeOrder
  <2> QED BY <1>2, <2>1 DEF From
<1>6. ASSUME r.stream = h.stream, r.op = h.op
      PROVE  FALSE
  <2>1. s = m /\ p < n
    BY <1>3, <1>4, <1>6
  <2>2. Sound(r) /\ Sound(h) /\ Coherent(r, h)
    BY <1>4 DEF FileInv, RecordsInv
  <2>3. r = h
    <3>1. CASE r.stream = "nftrace"
      BY <1>6, <2>2, <3>1 DEF Coherent
    <3>2. CASE r.stream \in {"discon", "watch"}
      <4>1. r.insn = h.insn
        BY <1>6, <2>2, <3>2 DEF Sound
      <4> QED BY <1>6, <2>2, <4>1 DEF Coherent
    <3> QED BY <1>4, <3>1, <3>2 DEF Merged
  <2>4. r.insn < h.insn
    BY <1>3, <2>1, <2>3 DEF FileInv, StreamOrder
  <2>5. r.insn \in Nat
    BY <2>2 DEF Sound, Rec
  <2> QED BY <2>3, <2>4, <2>5
<1>7. ~(events[i].source = e.source /\ events[i].op = e.op)
  BY <1>2, <1>6 DEF From
<1> QED BY <1>5, <1>7

\* Events remain different, and those of a vCPU in order.
LEMMA TookDiffer ==
  ASSUME TypeOK, FileInv, MergeOrder, EventsHaveRecords, EventsDiffer, VcpuOrderSurvivesMerge,
         NEW m \in Merged, NEW n \in Nat, NEW h \in Known, Took(m, n, h), h.stream = m, Became(h)
  PROVE  EventsDiffer' /\ VcpuOrderSurvivesMerge'
<1> DEFINE N == Len(events) + 1
<1>1. /\ N \in Nat /\ DOMAIN events = 1 .. Len(events) /\ Len(events) \in Nat
      /\ \A i \in DOMAIN events : i \in DOMAIN events' /\ events'[i] = events[i]
      /\ \/ Dropped(h) /\ DOMAIN events' = DOMAIN events
         \/ ~Dropped(h) /\ DOMAIN events' = 1 .. N /\ From(events'[N], h)
  BY BecameEvents
<1>2. ASSUME NEW i \in DOMAIN events'
      PROVE  \/ i \in DOMAIN events
             \/ i = N /\ From(events'[N], h)
  BY <1>1
<1>3. ASSUME NEW i \in DOMAIN events, From(events'[N], h)
      PROVE  /\ ~(/\ events'[i].source = events'[N].source /\ events'[i].op = events'[N].op
                  /\ events'[i].kind = events'[N].kind)
             /\ events'[i].cpu = events'[N].cpu => events'[i].insn <= events'[N].insn
  <2>1. PICK e : e = events'[N] /\ From(e, h)
    BY <1>3
  <2>2. /\ ~(/\ events[i].source = e.source /\ events[i].op = e.op
             /\ events[i].kind = e.kind)
        /\ events[i].cpu = e.cpu => events[i].insn <= e.insn
    BY <2>1, OlderEvent
  <2> QED BY <1>1, <2>1, <2>2
<1>4. \A i \in DOMAIN events : i < N
  BY <1>1
<1> HIDE DEF N
<1>5. ASSUME NEW i \in DOMAIN events', NEW j \in DOMAIN events',
             events'[i].source = events'[j].source, events'[i].op = events'[j].op,
             events'[i].kind = events'[j].kind
      PROVE  i = j
  <2>1. CASE i \in DOMAIN events /\ j \in DOMAIN events
    BY <1>1, <1>5, <2>1 DEF EventsDiffer
  <2>2. CASE i \in DOMAIN events /\ j = N /\ From(events'[N], h)
    BY <1>3, <1>5, <2>2
  <2>3. CASE j \in DOMAIN events /\ i = N /\ From(events'[N], h)
    BY <1>3, <1>5, <2>3
  <2> QED BY <1>2, <2>1, <2>2, <2>3
<1>6. ASSUME NEW i \in DOMAIN events', NEW j \in DOMAIN events',
             i < j, events'[i].cpu = events'[j].cpu
      PROVE  events'[i].insn <= events'[j].insn
  <2>1. CASE i \in DOMAIN events /\ j \in DOMAIN events
    BY <1>1, <1>6, <2>1 DEF VcpuOrderSurvivesMerge
  <2>2. CASE i \in DOMAIN events /\ j = N /\ From(events'[N], h)
    BY <1>3, <1>6, <2>2
  <2>3. CASE i = N
    <3>1. j \in DOMAIN events \/ j = N
      BY <1>2
    <3>2. j \in DOMAIN events => j < N
      BY <1>4
    <3>3. j \in DOMAIN events => j \in Nat
      BY <1>1
    <3> QED BY <1>1, <1>6, <2>3, <3>1, <3>2, <3>3
  <2> QED BY <1>2, <2>1, <2>2, <2>3
<1> QED BY <1>5, <1>6 DEF EventsDiffer, VcpuOrderSurvivesMerge

---------------------------------------------------------------------------
(* A step of the merge keeps what is known of the tasks.                    *)

\* A record of the channel names a pid.
LEMMA PidNamed ==
  ASSUME FileInv, NEW r \in Known, r.stream = "nftrace"
  PROVE  PidOf(r) \in Nat
BY DEF FileInv, RecordsInv, Sound, PidOf, NoPid, NFT_NO_TASK

\* The analysis still knows the last consumed switch.
LEMMA TookSemantic ==
  ASSUME TypeOK, FileInv, MergeOrder, SemanticInv, NEW m \in Merged, NEW n \in Nat,
         NEW h \in Known, Took(m, n, h), h.stream = m, Became(h)
  PROVE  SemanticInv'
<1>1. /\ file' = file /\ kernel' = kernel /\ Cpu' = Cpu /\ n \in 1 .. at'[m] /\ n > at[m]
      /\ n \in DOMAIN file[m] /\ file[m][n] = h /\ "nftrace" \in Merged
  BY TookFacts DEF Merged
<1>2. Telling' <=> Telling
  BY <1>1 DEF Telling, Channel
<1>3. h.insn \in Nat /\ semantic \in [Cpu -> Int]
  BY DEF FileInv, RecordsInv, Sound, Rec, TypeOK
<1> DEFINE sw(c, p) == IsSwitch(file["nftrace"][p]) /\ file["nftrace"][p].cpu = c
<1>4. \A c, p : Told(c, p) <=> p \in 1 .. at["nftrace"] /\ sw(c, p)
  BY DEF Told
<1>5. \A c, p : Told(c, p)' <=> p \in 1 .. at'["nftrace"] /\ sw(c, p)
  BY <1>1 DEF Told
<1>6. \A c, p : Told(c, p)' => Told(c, p) \/ (m = "nftrace" /\ p = n /\ sw(c, p))
  BY <1>1, <1>4, <1>5, TookFacts
<1>7. \A c, p : Told(c, p) => Told(c, p)'
  BY <1>1, <1>4, <1>5, TookFacts
<1>8. ASSUME Telling, NEW c \in Cpu
      PROVE  \/ semantic'[c] = Absent /\ \A p : ~Told(c, p)'
             \/ \E p : /\ Told(c, p)' /\ semantic'[c] = PidOf(file["nftrace"][p])
                       /\ \A q : Told(c, q)' => file["nftrace"][q].insn <= file["nftrace"][p].insn
  <2>1. CASE IsSwitch(h) /\ h.cpu = c
    <3>1. m = "nftrace" /\ ~Dropped(h)
      BY <2>1 DEF IsSwitch, Dropped
    <3>2. semantic'[c] = PidOf(h)
      BY <1>3, <2>1, <3>1, BecameEvents
    <3>3. Told(c, n)'
      BY <1>1, <1>5, <2>1, <3>1
    <3>4. ASSUME NEW q, Told(c, q)'
          PROVE  file["nftrace"][q].insn <= h.insn
      <4>1. CASE Told(c, q)
        BY <1>1, <1>4, <2>1, <3>1, <4>1 DEF MergeOrder
      <4>2. CASE q = n
        BY <1>1, <1>3, <3>1, <4>2
      <4> QED BY <1>6, <3>4, <4>1, <4>2
    <3> QED BY <1>1, <3>1, <3>2, <3>3, <3>4
  <2>2. CASE ~(IsSwitch(h) /\ h.cpu = c)
    <3>1. semantic'[c] = semantic[c]
      BY <1>3, <2>2, BecameEvents
    <3>2. \A p : Told(c, p)' <=> Told(c, p)
      BY <1>1, <1>6, <1>7, <2>2
    <3>3. \/ semantic[c] = Absent /\ \A p : ~Told(c, p)
          \/ \E p : /\ Told(c, p) /\ semantic[c] = PidOf(file["nftrace"][p])
                    /\ \A q : Told(c, q) => file["nftrace"][q].insn <= file["nftrace"][p].insn
      BY <1>8 DEF SemanticInv
    <3> QED BY <3>1, <3>2, <3>3
  <2> QED BY <2>1, <2>2
<1> QED BY <1>1, <1>2, <1>8 DEF SemanticInv, PidOf

\* The last consumed switch is the last switch before the record that is consumed.
LEMMA TookLast ==
  ASSUME TypeOK, FileInv, MergeOrder, NEW m \in Merged, NEW n \in Nat, NEW h \in Known,
         Took(m, n, h), h.stream = m, h.kind # "switch",
         NEW p, Told(h.cpu, p),
         \A q : Told(h.cpu, q) => file["nftrace"][q].insn <= file["nftrace"][p].insn
  PROVE  LastSwitch(file["nftrace"][p], h.cpu, h.insn)
<1> DEFINE k == file["nftrace"][p]
           c == h.cpu
<1>1. /\ n > at[m] /\ n \in DOMAIN file[m] /\ file[m][n] = h /\ "nftrace" \in Merged
      /\ p \in 1 .. at["nftrace"] /\ p \in DOMAIN file["nftrace"] /\ IsSwitch(k) /\ k.cpu = c
  BY TookFacts DEF Merged, Told
<1>2. k \in Known
  BY <1>1, KnownFacts
<1>3. \A r \in Known : r.insn \in Nat
  BY DEF FileInv, RecordsInv, Sound, Rec
<1>4. k.insn < h.insn
  <2>1. k.insn <= h.insn
    BY <1>1 DEF MergeOrder
  <2>2. k.insn # h.insn
    BY <1>1, <1>2 DEF FileInv, RecordsInv, Coherent, IsSwitch
  <2> QED BY <1>2, <1>3, <2>1, <2>2
<1>5. ASSUME NEW q \in Known, IsSwitch(q), q.cpu = c, q.insn < h.insn
      PROVE  q.insn <= k.insn
  <2>1. CASE \E s \in Merged : \E x \in DOMAIN file[s] : q = file[s][x]
    <3>1. PICK s \in Merged : \E x \in DOMAIN file[s] : q = file[s][x]
      BY <2>1
    <3>2. PICK x \in DOMAIN file[s] : q = file[s][x]
      BY <3>1
    <3>3. s = "nftrace"
      BY <1>5, <3>2 DEF FileInv, StreamOrder, IsSwitch
    <3>4. x \in Nat /\ x >= 1 /\ at["nftrace"] \in Nat /\ at'["nftrace"] \in Nat
      <4>1. x \in 1 .. Len(file[s])
        BY KnownFacts
      <4>2. at["nftrace"] \in Nat /\ at' = [at EXCEPT ![m] = n]
        BY <1>1 DEF TypeOK, Took
      <4>3. at'["nftrace"] \in Nat
        BY <1>1, <4>2 DEF TypeOK
      <4> QED BY <4>1, <4>2, <4>3
    <3>5. CASE x \in 1 .. at["nftrace"]
      <4>1. Told(c, x)
        BY <1>5, <3>2, <3>3, <3>5 DEF Told
      <4> QED BY <3>2, <3>3, <4>1
    <3>6. CASE x > at'["nftrace"]
      <4>1. h.insn <= q.insn
        BY <1>5, <3>2, <3>3, <3>6, TookOldest
      <4> QED BY <1>3, <1>5, <4>1
    <3>7. CASE x \in 1 .. at'["nftrace"] /\ x \notin 1 .. at["nftrace"]
      <4>1. q = h
        BY <1>1, <3>2, <3>3, <3>7, TookFacts
      <4> QED BY <1>5, <4>1 DEF IsSwitch
    <3> QED BY <3>4, <3>5, <3>6, <3>7
  <2>2. CASE \E d \in Cpu : q \in pend[d]
    <3>1. PICK d \in Cpu : q \in pend[d]
      BY <2>2
    <3>2. d = c
      BY <1>5, <3>1 DEF FileInv, PendInv
    <3>3. h.insn < q.insn
      BY <1>1, <3>1, <3>2 DEF FileInv, PendInv
    <3> QED BY <1>3, <1>5, <3>3
  <2> QED BY <2>1, <2>2, KnownFacts
<1> QED BY <1>1, <1>2, <1>4, <1>5 DEF LastSwitch

\* Events after a consumed switch still have the pid.
LEMMA TookNamed ==
  ASSUME TypeOK, FileInv, RunningInv, MergeOrder, EventsHaveRecords, SemanticInv, NamedInv,
         NEW m \in Merged, NEW n \in Nat, NEW h \in Known, Took(m, n, h), h.stream = m, Became(h)
  PROVE  NamedInv'
<1> DEFINE N == Len(events) + 1
<1>1. /\ file' = file /\ kernel' = kernel /\ n \in 1 .. at'[m] /\ n > at[m] /\ at[m] \in Nat
      /\ n \in DOMAIN file[m] /\ file[m][n] = h /\ "nftrace" \in Merged
  BY TookFacts DEF Merged
<1>2. Telling' <=> Telling
  BY <1>1 DEF Telling, Channel
<1>3. /\ DOMAIN events = 1 .. Len(events) /\ Len(events) \in Nat
      /\ \A i \in DOMAIN events : i \in DOMAIN events' /\ events'[i] = events[i]
      /\ \/ Dropped(h) /\ DOMAIN events' = DOMAIN events
         \/ /\ ~Dropped(h) /\ DOMAIN events' = 1 .. N /\ From(events'[N], h)
            /\ semantic' = IF IsSwitch(h) THEN [semantic EXCEPT ![h.cpu] = PidOf(h)]
                           ELSE semantic
            /\ semantic'[h.cpu] # Absent => events'[N].pid = semantic'[h.cpu]
  BY BecameEvents
<1>4. \A r \in Known : r.insn \in Nat /\ r.cpu \in Cpu
  BY DEF FileInv, RecordsInv, Sound, Rec
<1>5. ASSUME Telling, NEW j \in DOMAIN events', NEW p \in 1 .. at'["nftrace"],
             events'[j].kind # "switch", IsSwitch(file["nftrace"][p]),
             file["nftrace"][p].cpu = events'[j].cpu,
             file["nftrace"][p].insn < events'[j].insn
      PROVE  events'[j].pid = events'[j].who
  <2>0. p \in DOMAIN file["nftrace"] /\ (p \in 1 .. at["nftrace"] \/ (m = "nftrace" /\ p = n))
    BY <1>1, TookFacts
  <2>1. CASE j \in DOMAIN events /\ p \in 1 .. at["nftrace"]
    <3>1. Told(events[j].cpu, p)
      BY <1>3, <1>5, <2>1 DEF Told
    <3> QED BY <1>3, <1>5, <2>1, <3>1 DEF NamedInv
  <2>2. CASE j \in DOMAIN events /\ m = "nftrace" /\ p = n
    <3>1. PICK s \in Merged : \E x \in 1 .. at[s] : From(events[j], file[s][x])
      BY <2>2 DEF EventsHaveRecords
    <3>2. PICK x \in 1 .. at[s] : From(events[j], file[s][x])
      BY <3>1
    <3>3. x \in DOMAIN file[s]
      BY TookFacts
    <3> DEFINE r == file[s][x]
    <3>4. r \in Known
      BY <3>3, KnownFacts
    <3>5. h.cpu = r.cpu /\ h.insn < r.insn
      BY <1>1, <1>3, <1>5, <2>2, <3>2 DEF From
    <3>6. r.insn <= h.insn
      BY <1>1, <3>5 DEF MergeOrder
    <3> QED BY <1>4, <3>4, <3>5, <3>6
  <2>3. CASE j \notin DOMAIN events
    <3>1. j = N /\ ~Dropped(h) /\ From(events'[N], h)
          /\ semantic' = (IF IsSwitch(h) THEN [semantic EXCEPT ![h.cpu] = PidOf(h)] ELSE semantic)
          /\ (semantic'[h.cpu] # Absent => events'[N].pid = semantic'[h.cpu])
      BY <1>3, <2>3
    <3> HIDE DEF N
    <3>2. h.kind # "switch" /\ ~IsSwitch(h) /\ semantic' = semantic
      BY <1>5, <3>1 DEF From, IsSwitch
    <3>3. p \in 1 .. at["nftrace"]
      BY <1>1, <1>5, <2>0, <3>2
    <3>4. Told(h.cpu, p)
      BY <1>5, <3>1, <3>3 DEF Told, From
    <3>5. h.cpu \in Cpu
      BY <1>4
    <3>6. PICK o : /\ Told(h.cpu, o) /\ semantic[h.cpu] = PidOf(file["nftrace"][o])
                   /\ \A q : Told(h.cpu, q) => file["nftrace"][q].insn <= file["nftrace"][o].insn
      BY <1>5, <3>4, <3>5 DEF SemanticInv
    <3> DEFINE k == file["nftrace"][o]
    <3>7. LastSwitch(k, h.cpu, h.insn)
      BY <3>2, <3>6, TookLast
    <3>8. h.who = PidOf(k)
      BY <1>5, <3>2, <3>7 DEF RunningInv
    <3>9. PidOf(k) \in Nat
      BY <3>7, PidNamed DEF LastSwitch, IsSwitch
    <3>10. events'[N].pid = PidOf(k)
      BY <3>1, <3>2, <3>6, <3>9 DEF Absent
    <3> QED BY <3>1, <3>8, <3>10 DEF From
  <2> QED BY <2>0, <2>1, <2>2, <2>3
<1> QED BY <1>1, <1>2, <1>5 DEF NamedInv, Told

\* The types after a step of the merge.
LEMMA TookType ==
  ASSUME TypeOK, FileInv, NEW m \in Merged, NEW n \in Nat, NEW h \in Known, Took(m, n, h),
         h.stream = m, Became(h)
  PROVE  TypeOK'
<1>1. /\ UNCHANGED <<kernel, clock, table, nextPid, current, doing, free, pend, file, phase>>
      /\ DOMAIN curSlot' = DOMAIN curSlot /\ Cpu' = Cpu
  BY DEF Took, guest, Cpu
<1>2. at' \in [Merged -> Nat] /\ \A s \in Merged : at'[s] <= Len(file[s])
  <2>1. at' = [at EXCEPT ![m] = n] /\ n \in DOMAIN file[m]
    BY DEF Took
  <2>2. n <= Len(file[m])
    BY <2>1, KnownFacts
  <2> QED BY <2>1, <2>2 DEF TypeOK
<1>3. semantic' \in [Cpu -> Int]
  <2>1. CASE IsSwitch(h)
    <3>1. PidOf(h) \in Int
      BY <2>1, PidNamed DEF IsSwitch
    <3>2. semantic \in [Cpu -> Int]
      BY DEF TypeOK
    <3>3. semantic' = semantic \/ semantic' = [semantic EXCEPT ![h.cpu] = PidOf(h)]
      BY BecameEvents
    <3> QED BY <3>1, <3>2, <3>3
  <2>2. CASE ~IsSwitch(h)
    BY <2>2, BecameEvents DEF TypeOK
  <2> QED BY <2>1, <2>2
<1>4. events' \in Seq(Range1(events'))
  BY BecameEvents
<1> QED BY <1>1, <1>2, <1>3, <1>4 DEF TypeOK, Range1

---------------------------------------------------------------------------
(* Every step keeps the inductive invariant.                                *)

\* While the trace is recorded nothing is consumed.
LEMMA NothingYet ==
  ASSUME phase = "recording", MergeInv, SemanticInv, UNCHANGED <<kernel, at, semantic, events>>,
         TypeOK
  PROVE  MergeInv' /\ SemanticInv' /\ NamedInv'
<1>1. /\ \A s \in Merged : at[s] = 0
      /\ events = << >> /\ Cpu' = Cpu /\ (Telling' <=> Telling) /\ "nftrace" \in Merged
  BY DEF MergeInv, Nothing, Cpu, Telling, Channel, Merged
<1>2. \A s \in Merged : 1 .. at'[s] = {}
  BY <1>1
<1>3. DOMAIN events' = {}
  BY <1>1
<1>4. Nothing'
  BY <1>1 DEF Nothing
<1>5. MergeOrder' /\ RecordsHaveEvents'
  BY <1>2 DEF MergeOrder, RecordsHaveEvents
<1>6. EventsHaveRecords' /\ EventsDiffer' /\ VcpuOrderSurvivesMerge' /\ NamedInv'
  BY <1>3 DEF EventsHaveRecords, EventsDiffer, VcpuOrderSurvivesMerge, NamedInv
<1>7. \A c, p : ~Told(c, p)
  BY <1>1 DEF Told
<1>8. \A c, p : ~Told(c, p)'
  BY <1>1, <1>2 DEF Told
<1>9. SemanticInv'
  BY <1>1, <1>7, <1>8 DEF SemanticInv
<1> QED BY <1>4, <1>5, <1>6, <1>9 DEF MergeInv

\* What holds of a hit and its types.
LEMMA HitKeeps ==
  ASSUME IInv, TypeOK', NEW c \in Cpu, NEW recs, HitStep(c, recs)
  PROVE  IInv'
<1>1. FileInv' /\ RunningInv'
  BY HitFile, HitRunning DEF IInv, TaskInv
<1>2. MergeInv' /\ SemanticInv' /\ NamedInv'
  BY NothingYet DEF IInv, TaskInv, HitStep, Rest, Latch
<1> QED BY <1>1, <1>2 DEF IInv, TaskInv

\* What holds of a step of the guest that nothing observes.
LEMMA QuietKeeps ==
  ASSUME IInv, TypeOK', Quiet
  PROVE  IInv'
<1>1. FileInv' /\ Known' = Known
  BY QuietFile DEF IInv, Quiet, Rest
<1>2. RunningInv'
  BY <1>1, KeepRunning DEF IInv, TaskInv, Quiet, Rest
<1>3. MergeInv' /\ SemanticInv' /\ NamedInv'
  BY NothingYet DEF IInv, TaskInv, Quiet, Rest
<1> QED BY <1>1, <1>2, <1>3 DEF IInv, TaskInv

\* Writing, the end of the recording and the merge.
LEMMA WriteKeeps ==
  ASSUME IInv, NEW c \in Cpu, Write(c)
  PROVE  IInv'
<1>1. FileInv' /\ Known' \subseteq Known /\ (~kernel.unreadable => Known' = Known)
  BY WriteFile, WriteKnown DEF IInv, FileInv
<1>2. /\ UNCHANGED <<kernel, clock, table, nextPid, current, doing, free>>
      /\ UNCHANGED <<phase, at, curSlot, semantic, events>>
      /\ Cpu' = Cpu /\ phase = "recording"
      /\ pend' = [pend EXCEPT ![c] = {}]
  BY DEF Write, guest, analysis, Cpu
<1>3. TypeOK'
  <2>1. pend' \in [Cpu -> SUBSET Rec]
    BY <1>2 DEF IInv, TypeOK
  <2>2. ASSUME NEW s \in Merged
        PROVE  file'[s] \in Seq(Rec) /\ at[s] <= Len(file'[s])
    <3>1. file[s] \in Seq(Rec) /\ at[s] \in Nat /\ at[s] <= Len(file[s]) /\ pend[c] \subseteq Rec
      BY DEF IInv, TypeOK
    <3>2. CASE file'[s] = file[s]
      BY <3>1, <3>2
    <3>3. ASSUME NEW r \in pend[c], file'[s] = Append(file[s], r)
          PROVE  file'[s] \in Seq(Rec) /\ at[s] <= Len(file'[s])
      BY <3>1, <3>3
    <3> QED BY <3>2, <3>3, WriteAppends DEF IInv
  <2>3. DOMAIN file' = DOMAIN file
    BY WriteAppends DEF IInv
  <2> QED BY <1>2, <2>1, <2>2, <2>3 DEF IInv, TypeOK, Range1
<1>4. RowsInUse' /\ \A d \in Cpu : Who(d)' = Who(d)
  BY <1>2 DEF IInv, TaskInv, RunningInv, RowsInUse, Who
<1>5. RunningInv'
  BY <1>1, <1>2, <1>4, KeepRunning DEF IInv, TaskInv
<1>6. MergeInv' /\ SemanticInv' /\ NamedInv'
  BY <1>2, NothingYet DEF IInv, TaskInv
<1> QED BY <1>1, <1>3, <1>5, <1>6 DEF IInv, TaskInv

\* The end of the recording.
LEMMA EndKeeps == ASSUME IInv, EndRecording PROVE IInv'
<1>1. /\ UNCHANGED <<kernel, clock, table, nextPid, current, doing, free, pend, file>>
      /\ UNCHANGED <<at, curSlot, semantic, events>>
      /\ Cpu' = Cpu /\ phase = "recording" /\ phase' = "merging"
  BY DEF EndRecording, guest, Cpu
<1>2. TypeOK'
  BY <1>1 DEF IInv, TypeOK, Range1
<1>3. FileInv' /\ Known' = Known
  BY <1>1, QuietFile DEF IInv
<1>4. RowsInUse' /\ \A d \in Cpu : Who(d)' = Who(d)
  BY <1>1 DEF IInv, TaskInv, RunningInv, RowsInUse, Who
<1>5. RunningInv'
  BY <1>1, <1>3, <1>4, KeepRunning DEF IInv, TaskInv
<1>6. MergeInv' /\ SemanticInv' /\ NamedInv'
  BY <1>1, NothingYet DEF IInv, TaskInv
<1> QED BY <1>2, <1>3, <1>5, <1>6 DEF IInv, TaskInv

\* A step of the merge.
LEMMA MergeKeeps == ASSUME IInv, Merge PROVE IInv'
<1>1. TypeOK /\ FileInv /\ RunningInv /\ SemanticInv /\ NamedInv /\ MergeOrder
      /\ EventsHaveRecords /\ RecordsHaveEvents /\ EventsDiffer /\ VcpuOrderSurvivesMerge
  BY DEF IInv, TaskInv, MergeInv
<1>2. PICK m \in Merged : \E n \in Nat : \E h \in Known :
        Took(m, n, h) /\ Became(h) /\ Seated(h) /\ h.stream = m
  BY <1>1, MergeTook
<1>3. PICK n \in Nat : \E h \in Known : Took(m, n, h) /\ Became(h) /\ Seated(h) /\ h.stream = m
  BY <1>2
<1>4. PICK h \in Known : Took(m, n, h) /\ Became(h) /\ Seated(h) /\ h.stream = m
  BY <1>3
<1>5. UNCHANGED <<kernel, clock, table, nextPid, current, doing, free, pend, file>>
      /\ Cpu' = Cpu /\ phase' = "merging"
  BY <1>4 DEF Took, guest, Cpu
<1>6. TypeOK'
  BY <1>1, <1>4, TookType
<1>7. FileInv' /\ Known' = Known
  BY <1>1, <1>5, QuietFile
<1>8. RowsInUse' /\ \A d \in Cpu : Who(d)' = Who(d)
  BY <1>1, <1>5 DEF RunningInv, RowsInUse, Who
<1>9. RunningInv'
  BY <1>1, <1>5, <1>7, <1>8, KeepRunning
<1>10. MergeInv'
  <2>1. Nothing'
    BY <1>5 DEF Nothing
  <2>2. MergeOrder'
    BY <1>1, <1>4, TookOrder
  <2>3. EventsHaveRecords' /\ RecordsHaveEvents'
    BY <1>1, <1>4, TookEvents
  <2>4. EventsDiffer' /\ VcpuOrderSurvivesMerge'
    BY <1>1, <1>4, TookDiffer
  <2> QED BY <2>1, <2>2, <2>3, <2>4 DEF MergeInv
<1>11. SemanticInv' /\ NamedInv'
  BY <1>1, <1>4, TookSemantic, TookNamed
<1> QED BY <1>6, <1>7, <1>9, <1>10, <1>11 DEF IInv, TaskInv

---------------------------------------------------------------------------
(* The steps of the guest.                                                  *)

\* What Front does.
LEMMA FrontFacts ==
  ASSUME NEW S, NEW s \in Seq(S), s # << >>
  PROVE  /\ Front(s) \in Seq(S) /\ Len(s) \in Nat \ {0} /\ Len(s) \in DOMAIN s
         /\ DOMAIN s = 1 .. Len(s) /\ DOMAIN Front(s) = 1 .. Len(s) - 1
         /\ \A i \in 1 .. Len(s) - 1 : Front(s)[i] = s[i]
<1>1. Len(s) \in Nat \ {0} /\ DOMAIN s = 1 .. Len(s)
  OBVIOUS
<1>2. Front(s) \in Seq(S) /\ Len(Front(s)) = Len(s) - 1
      /\ \A i \in 1 .. Len(s) - 1 : Front(s)[i] = s[i]
  BY <1>1 DEF Front
<1> QED BY <1>1, <1>2

\* What a hit does to the types.
LEMMA TypeHit ==
  ASSUME TypeOK, NEW c \in Cpu, NEW recs \in SUBSET Rec, Hit(c, recs)
  PROVE  clock' \in Nat /\ clock' = clock + 1 /\ pend' \in [Cpu -> SUBSET Rec]
         /\ pend'[c] = recs /\ \A d \in Cpu \ {c} : pend'[d] = pend[d]
BY DEF TypeOK, Hit

\* A hit keeps the types when what the guest changes has them.
LEMMA HitTypes ==
  ASSUME TypeOK, NEW c \in Cpu, NEW recs \in SUBSET Rec, Hit(c, recs), UNCHANGED Rest,
         nextPid' \in Nat \ {0}, free' \in Nat, table' \in [Slot -> Nat],
         current' \in [Cpu -> Rows], doing' \in [Cpu -> Seq(Job)]
  PROVE  TypeOK'
<1>1. clock' \in Nat /\ pend' \in [Cpu -> SUBSET Rec]
  BY TypeHit
<1> QED BY <1>1, TypeKeep

\* What every operation in flight says of its clock.
LEMMA JobFacts ==
  ASSUME TypeOK, FileInv, NEW d \in Cpu
  PROVE  /\ doing[d] \in Seq(Job) /\ DOMAIN doing[d] = 1 .. Len(doing[d])
         /\ Len(doing[d]) \in Nat /\ clock \in Nat
         /\ \A i \in DOMAIN doing[d] : /\ doing[d][i] \in Job /\ doing[d][i].op \in Nat
                                       /\ doing[d][i].op # clock + 1
<1>1. doing[d] \in Seq(Job) /\ clock \in Nat
  BY DEF TypeOK
<1>2. \A i \in DOMAIN doing[d] : doing[d][i].op \in 1 .. clock
  BY DEF FileInv, InFlightInv
<1>3. \A i \in DOMAIN doing[d] : doing[d][i].op \in Nat /\ doing[d][i].op # clock + 1
  BY <1>1, <1>2
<1> QED BY <1>1, <1>3

\* Records of the hit itself, the operations in flight unchanged.
LEMMA FliesOn ==
  ASSUME TypeOK, FileInv, NEW c \in Cpu, NEW recs, doing' = doing,
         \A r \in recs : r.op = clock + 1
  PROVE  Flies(c, recs)
BY JobFacts DEF Flies

\* A trap.
LEMMA TrapStep ==
  ASSUME IInv, NEW c \in Cpu, Trap(c)
  PROVE  IInv' /\ \E recs : Observed(c, recs)
<1> DEFINE r == Record(c, "discon", "trap", clock + 1, NoPid)
<1>1. TypeOK /\ FileInv /\ RowsInUse
  BY DEF IInv, TaskInv, RunningInv
<1>2. /\ phase = "recording" /\ pend[c] = {} /\ Hit(c, {r}) /\ UNCHANGED Rest
      /\ UNCHANGED <<table, nextPid, current, doing, free>>
  BY DEF Trap, InGuest, Rest, guest, analysis
<1>3. r \in Rec /\ r = [stream |-> "discon", insn |-> clock + 1, cpu |-> c, kind |-> "trap",
                        op |-> clock + 1, who |-> Who(c), data |-> NoPid]
  <2>1. clock + 1 \in Nat /\ NoPid \in Data
    BY <1>1 DEF TypeOK, Data, NoPid
  <2> QED BY <1>1, <2>1, RecordTyped DEF Merged, Kinds
<1> HIDE DEF r
<1>4. TypeOK'
  <2>1. {r} \in SUBSET Rec
    BY <1>3
  <2> QED BY <1>1, <1>2, <2>1, HitTypes DEF TypeOK
<1>5. Latch(c, {r})
  BY <1>2, <1>3 DEF Latch, Hit
<1>6. Fits(c, {r})
  BY <1>3 DEF Fits
<1>7. Flies(c, {r})
  BY <1>1, <1>2, <1>3, FliesOn
<1>8. Switched(c, {r}) /\ RowsInUse'
  BY <1>1, <1>2, <1>3 DEF Switched, Who, IsSwitch, RowsInUse, Cpu, Rest
<1>9. HitStep(c, {r})
  BY <1>2, <1>5, <1>6, <1>7, <1>8 DEF HitStep
<1>10. Placed(c, {r}) /\ Counted(c, {r})
  BY <1>2, <1>3 DEF Placed, Counted, IsCount, Merged
<1>11. Observed(c, {r})
  BY <1>2, <1>5, <1>10 DEF Observed
<1> QED BY <1>4, <1>9, <1>11, HitKeeps

\* A snapshot's moment.
LEMMA SnapStep ==
  ASSUME IInv, NEW c \in Cpu, Snap(c)
  PROVE  IInv' /\ \E recs : Observed(c, recs)
<1> DEFINE r == Record(c, "snap", "snap", clock + 1, NoPid)
<1>1. TypeOK /\ FileInv /\ RowsInUse
  BY DEF IInv, TaskInv, RunningInv
<1>2. /\ phase = "recording" /\ pend[c] = {} /\ Hit(c, {r}) /\ UNCHANGED Rest
      /\ UNCHANGED <<table, nextPid, current, doing, free>>
  BY DEF Snap, InGuest, Rest, guest, analysis
<1>3. r \in Rec /\ r = [stream |-> "snap", insn |-> clock + 1, cpu |-> c, kind |-> "snap",
                        op |-> clock + 1, who |-> Who(c), data |-> NoPid]
  <2>1. clock + 1 \in Nat /\ NoPid \in Data
    BY <1>1 DEF TypeOK, Data, NoPid
  <2> QED BY <1>1, <2>1, RecordTyped DEF Merged, Kinds
<1> HIDE DEF r
<1>4. TypeOK'
  <2>1. {r} \in SUBSET Rec
    BY <1>3
  <2> QED BY <1>1, <1>2, <2>1, HitTypes DEF TypeOK
<1>5. Latch(c, {r})
  BY <1>2, <1>3 DEF Latch, Hit
<1>6. Fits(c, {r})
  BY <1>3 DEF Fits
<1>7. Flies(c, {r})
  BY <1>1, <1>2, <1>3, FliesOn
<1>8. Switched(c, {r}) /\ RowsInUse'
  BY <1>1, <1>2, <1>3 DEF Switched, Who, IsSwitch, RowsInUse, Cpu, Rest
<1>9. HitStep(c, {r})
  BY <1>2, <1>5, <1>6, <1>7, <1>8 DEF HitStep
<1>10. Placed(c, {r}) /\ Counted(c, {r})
  BY <1>2, <1>3 DEF Placed, Counted, IsCount, Merged
<1>11. Observed(c, {r})
  BY <1>2, <1>5, <1>10 DEF Observed
<1> QED BY <1>4, <1>9, <1>11, HitKeeps

\* The entry of an operation.
LEMMA BeginStep ==
  ASSUME IInv, NEW c \in Cpu, NEW kind \in {"alloc", "free", "fork"}, Begin(c, kind)
  PROVE  IInv' /\ \E recs : Observed(c, recs)
<1> DEFINE r == Record(c, "watch", kind, clock + 1, NoPid)
           job == [kind |-> kind, op |-> clock + 1, done |-> FALSE, count |-> 0]
<1>1. TypeOK /\ FileInv /\ RowsInUse
  BY DEF IInv, TaskInv, RunningInv
<1>2. /\ phase = "recording" /\ pend[c] = {} /\ Hit(c, {r}) /\ UNCHANGED Rest
      /\ UNCHANGED <<table, nextPid, current, free>>
      /\ doing' = [doing EXCEPT ![c] = Append(doing[c], job)]
      /\ kind \in kernel.ops /\ Len(doing[c]) < kernel.depth
  BY DEF Begin, InGuest, Rest, analysis
<1>3. r \in Rec /\ r = [stream |-> "watch", insn |-> clock + 1, cpu |-> c, kind |-> kind,
                        op |-> clock + 1, who |-> Who(c), data |-> NoPid]
  <2>1. clock + 1 \in Nat /\ NoPid \in Data /\ kind \in Kinds
    BY <1>1 DEF TypeOK, Data, NoPid, Kinds, Operations
  <2> QED BY <1>1, <2>1, RecordTyped DEF Merged
<1>4. job \in Job /\ job.op = clock + 1 /\ ~job.done /\ job.kind = kind
  BY <1>1 DEF Job, Operations, TypeOK
<1> HIDE DEF r, job
<1>5. doing \in [Cpu -> Seq(Job)] /\ doing[c] \in Seq(Job)
  BY <1>1 DEF TypeOK
<1>6. doing' \in [Cpu -> Seq(Job)]
  BY <1>2, <1>4, <1>5
<1>7. TypeOK'
  <2>1. {r} \in SUBSET Rec
    BY <1>3
  <2> QED BY <1>1, <1>2, <1>6, <2>1, HitTypes DEF TypeOK
<1>8. Latch(c, {r})
  BY <1>2, <1>3 DEF Latch, Hit
<1>9. Fits(c, {r})
  BY <1>3 DEF Fits
<1>10. Flies(c, {r})
  <2>1. \A q \in {r} : q.op = clock + 1 /\ q.stream # "nftrace"
    BY <1>3
  <2>2. ASSUME NEW d \in Cpu, NEW i \in DOMAIN doing'[d]
        PROVE  \/ i \in DOMAIN doing[d] /\ doing'[d][i].op = doing[d][i].op
               \/ d = c /\ i = Len(doing[c]) + 1 /\ doing'[d][i].op = clock + 1
    <3>1. CASE d = c
      <4>1. doing'[c] = Append(doing[c], job)
        BY <1>2, <1>5
      <4> QED BY <1>4, <1>5, <3>1, <4>1, AppendAny
    <3>2. CASE d # c
      BY <1>2, <1>5, <3>2
    <3> QED BY <3>1, <3>2
  <2> QED BY <1>1, <2>1, <2>2, JobFacts DEF Flies
<1>11. Switched(c, {r}) /\ RowsInUse'
  BY <1>1, <1>2, <1>3 DEF Switched, Who, IsSwitch, RowsInUse, Cpu, Rest
<1>12. HitStep(c, {r})
  BY <1>2, <1>8, <1>9, <1>10, <1>11 DEF HitStep
<1>13. Placed(c, {r})
  BY <1>2, <1>3 DEF Placed, Merged
<1>14. Counted(c, {r})
  <2>1. \A q \in {r} : ~IsCount(q)
    BY <1>3 DEF IsCount
  <2>2. \E jb \in Job : /\ ~jb.done /\ jb.kind \in kernel.ops
                       /\ doing' = [doing EXCEPT ![c] = Append(doing[c], jb)]
    <3>1. /\ job \in Job /\ ~job.done /\ job.kind \in kernel.ops
          /\ doing' = [doing EXCEPT ![c] = Append(doing[c], job)]
      BY <1>2, <1>4
    <3> QED BY <3>1, Zenon
  <2> QED BY <1>2, <2>1, <2>2, Zenon DEF Counted
<1>15. Observed(c, {r})
  BY <1>2, <1>8, <1>13, <1>14 DEF Observed
<1> QED BY <1>7, <1>12, <1>15, HitKeeps

\* The innermost operation returns.
LEMMA ReturnFacts ==
  ASSUME TypeOK, NEW c \in Cpu, doing[c] # << >>, Return(c)
  PROVE  /\ doing' \in [Cpu -> Seq(Job)] /\ Top(c) \in Job
         /\ Len(doing[c]) \in DOMAIN doing[c]
         /\ \A d \in Cpu : \A i \in DOMAIN doing'[d] :
              /\ i \in DOMAIN doing[d] /\ doing'[d][i] = doing[d][i]
              /\ ~(d = c /\ i = Len(doing[c]))
<1>1. doing \in [Cpu -> Seq(Job)] /\ doing[c] \in Seq(Job)
  BY DEF TypeOK
<1>2. doing' = [doing EXCEPT ![c] = Front(doing[c])]
  BY DEF Return
<1>3. /\ Front(doing[c]) \in Seq(Job) /\ Len(doing[c]) \in Nat \ {0}
      /\ Len(doing[c]) \in DOMAIN doing[c] /\ DOMAIN doing[c] = 1 .. Len(doing[c])
      /\ DOMAIN Front(doing[c]) = 1 .. Len(doing[c]) - 1
      /\ \A i \in 1 .. Len(doing[c]) - 1 : Front(doing[c])[i] = doing[c][i]
  BY <1>1, FrontFacts
<1>4. Top(c) \in Job
  BY <1>1, <1>3 DEF Top
<1>5. ASSUME NEW d \in Cpu, NEW i \in DOMAIN doing'[d]
      PROVE  /\ i \in DOMAIN doing[d] /\ doing'[d][i] = doing[d][i]
             /\ ~(d = c /\ i = Len(doing[c]))
  <2>1. CASE d = c
    <3>1. doing'[c] = Front(doing[c])
      BY <1>1, <1>2
    <3>2. i \in 1 .. Len(doing[c]) - 1
      BY <1>3, <2>1, <3>1
    <3> QED BY <1>3, <2>1, <3>1, <3>2
  <2>2. CASE d # c
    BY <1>1, <1>2, <2>2
  <2> QED BY <2>1, <2>2
<1>6. doing' \in [Cpu -> Seq(Job)]
  BY <1>1, <1>2, <1>3
<1> QED BY <1>3, <1>4, <1>5, <1>6

\* The innermost operation is done, whatever else changes.
LEMMA ApplyFacts ==
  ASSUME TypeOK, NEW c \in Cpu, doing[c] # << >>, NEW count \in Nat,
         doing' = [doing EXCEPT ![c][Len(doing[c])] = [@ EXCEPT !.done = TRUE, !.count = count]]
  PROVE  /\ doing' \in [Cpu -> Seq(Job)]
         /\ \A d \in Cpu : \A i \in DOMAIN doing'[d] :
              i \in DOMAIN doing[d] /\ doing'[d][i].op = doing[d][i].op
<1> DEFINE n == Len(doing[c])
           job == [doing[c][n] EXCEPT !.done = TRUE, !.count = count]
           jobs == [doing[c] EXCEPT ![n] = job]
<1>1. doing \in [Cpu -> Seq(Job)] /\ doing[c] \in Seq(Job)
  BY DEF TypeOK
<1>2. n \in Nat \ {0} /\ n \in DOMAIN doing[c] /\ DOMAIN doing[c] = 1 .. n
  BY <1>1, FrontFacts
<1>3. doing[c][n] \in Job
  BY <1>1, <1>2
<1>4. job \in Job /\ job.op = doing[c][n].op
  BY <1>3 DEF Job
<1>5. doing' = [doing EXCEPT ![c] = jobs]
  BY <1>1
<1> HIDE DEF job
<1>6. jobs \in Seq(Job) /\ DOMAIN jobs = DOMAIN doing[c]
      /\ \A i \in DOMAIN jobs : jobs[i].op = doing[c][i].op
  BY <1>1, <1>2, <1>4
<1> HIDE DEF jobs
<1>7. doing' \in [Cpu -> Seq(Job)]
  BY <1>1, <1>5, <1>6
<1>8. ASSUME NEW d \in Cpu, NEW i \in DOMAIN doing'[d]
      PROVE  i \in DOMAIN doing[d] /\ doing'[d][i].op = doing[d][i].op
  BY <1>1, <1>5, <1>6
<1> QED BY <1>7, <1>8

\* The allocator changes the pages.
LEMMA ApplyStep == ASSUME IInv, NEW c \in Cpu, Apply(c) PROVE IInv'
<1>1. TypeOK /\ RowsInUse
  BY DEF IInv, TaskInv, RunningInv
<1>2. /\ phase = "recording" /\ doing[c] # << >> /\ UNCHANGED Rest
      /\ UNCHANGED <<clock, pend, table, nextPid, current>>
      /\ free' = IF Top(c).kind = "free" THEN free + 1 ELSE IF free > 0 THEN free - 1 ELSE 0
      /\ doing' = [doing EXCEPT ![c][Len(doing[c])] = [@ EXCEPT !.done = TRUE, !.count = free']]
  BY DEF Apply, InGuest, Rest, analysis
<1>3. free' \in Nat
  <2>1. free \in Nat
    BY <1>1 DEF TypeOK
  <2> QED BY <1>2, <2>1
<1>4. PICK count \in Nat :
        doing' = [doing EXCEPT ![c][Len(doing[c])] = [@ EXCEPT !.done = TRUE, !.count = count]]
  BY <1>2, <1>3
<1>5. /\ doing' \in [Cpu -> Seq(Job)]
      /\ \A d \in Cpu : \A i \in DOMAIN doing'[d] :
           i \in DOMAIN doing[d] /\ doing'[d][i].op = doing[d][i].op
  BY <1>1, <1>2, <1>4, ApplyFacts
<1>6. TypeOK'
  BY <1>1, <1>2, <1>3, <1>5, TypeKeep DEF TypeOK
<1>7. Quiet
  BY <1>1, <1>2, <1>5 DEF Quiet, Who, RowsInUse, Cpu, Rest
<1> QED BY <1>6, <1>7, QuietKeeps

\* A child takes a row that no task has.
LEMMA SpawnStep == ASSUME IInv, NEW c \in Cpu, NEW s \in Slot, Spawn(c, s) PROVE IInv'
<1>1. TypeOK /\ RowsInUse
  BY DEF IInv, TaskInv, RunningInv
<1>2. /\ phase = "recording" /\ doing[c] # << >> /\ UNCHANGED Rest
      /\ UNCHANGED <<clock, pend, free, current>>
      /\ table[s] = NoPid /\ table' = [table EXCEPT ![s] = nextPid] /\ nextPid' = nextPid + 1
      /\ doing' = [doing EXCEPT ![c][Len(doing[c])] = [@ EXCEPT !.done = TRUE, !.count = nextPid]]
  BY DEF Spawn, InGuest, Rest, analysis
<1>3. nextPid \in Nat \ {0} /\ nextPid' \in Nat \ {0} /\ table \in [Slot -> Nat]
      /\ table' \in [Slot -> Nat]
  BY <1>1, <1>2 DEF TypeOK
<1>4. PICK count \in Nat :
        doing' = [doing EXCEPT ![c][Len(doing[c])] = [@ EXCEPT !.done = TRUE, !.count = count]]
  BY <1>2, <1>3
<1>5. /\ doing' \in [Cpu -> Seq(Job)]
      /\ \A d \in Cpu : \A i \in DOMAIN doing'[d] :
           i \in DOMAIN doing[d] /\ doing'[d][i].op = doing[d][i].op
  BY <1>1, <1>2, <1>4, ApplyFacts
<1>6. TypeOK'
  BY <1>1, <1>2, <1>3, <1>5, TypeKeep DEF TypeOK
<1>7. \A x \in Slot : table[x] # NoPid => table'[x] = table[x]
  BY <1>2, <1>3
<1>8. \A d \in Cpu : Who(d)' = Who(d)
  BY <1>1, <1>2, <1>7 DEF Who, RowsInUse
<1>9. RowsInUse'
  BY <1>1, <1>2, <1>7 DEF RowsInUse, Cpu, Rest
<1>10. Quiet
  BY <1>2, <1>5, <1>8, <1>9 DEF Quiet
<1> QED BY <1>6, <1>10, QuietKeeps

\* A fork that fails.
LEMMA FailStep == ASSUME IInv, NEW c \in Cpu, Fail(c) PROVE IInv'
<1>1. TypeOK /\ RowsInUse
  BY DEF IInv, TaskInv, RunningInv
<1>2. /\ phase = "recording" /\ doing[c] # << >> /\ UNCHANGED Rest /\ Return(c)
      /\ UNCHANGED <<clock, pend, free, table, nextPid, current>>
  BY DEF Fail, InGuest, Rest, analysis
<1>3. /\ doing' \in [Cpu -> Seq(Job)]
      /\ \A d \in Cpu : \A i \in DOMAIN doing'[d] :
           i \in DOMAIN doing[d] /\ doing'[d][i].op = doing[d][i].op
  BY <1>1, <1>2, ReturnFacts
<1>4. TypeOK'
  BY <1>1, <1>2, <1>3, TypeKeep DEF TypeOK
<1>5. Quiet
  BY <1>1, <1>2, <1>3 DEF Quiet, Who, RowsInUse, Cpu, Rest
<1> QED BY <1>4, <1>5, QuietKeeps

\* The completion record of an operation, where the kernel has the channel.
LEMMA CommitStep ==
  ASSUME IInv, NEW c \in Cpu, Commit(c)
  PROVE  IInv' /\ (Channel(Top(c).kind) => \E recs : Observed(c, recs))
<1> DEFINE r == Record(c, "nftrace", Top(c).kind, Top(c).op, Top(c).count)
<1>1. TypeOK /\ FileInv /\ RowsInUse
  BY DEF IInv, TaskInv, RunningInv
<1>2. /\ phase = "recording" /\ pend[c] = {} /\ doing[c] # << >> /\ UNCHANGED Rest /\ Return(c)
      /\ Top(c).done
      /\ UNCHANGED <<table, nextPid, current, free>>
      /\ IF Channel(Top(c).kind) THEN Hit(c, {r}) ELSE UNCHANGED <<clock, pend>>
  BY DEF Commit, InGuest, Rest, analysis
<1>3. /\ doing' \in [Cpu -> Seq(Job)] /\ Top(c) \in Job /\ Len(doing[c]) \in DOMAIN doing[c]
      /\ \A d \in Cpu : \A i \in DOMAIN doing'[d] :
           /\ i \in DOMAIN doing[d] /\ doing'[d][i] = doing[d][i]
           /\ ~(d = c /\ i = Len(doing[c]))
  BY <1>1, <1>2, ReturnFacts
<1>4. (\A d \in Cpu : Who(d)' = Who(d)) /\ RowsInUse'
  BY <1>1, <1>2 DEF Who, RowsInUse, Cpu, Rest
<1>5. CASE Channel(Top(c).kind)
  <2>1. Hit(c, {r})
    BY <1>2, <1>5
  <2>2. r \in Rec /\ r = [stream |-> "nftrace", insn |-> clock + 1, cpu |-> c,
                          kind |-> Top(c).kind, op |-> Top(c).op, who |-> Who(c),
                          data |-> Top(c).count]
    <3>1. Top(c).count \in Data /\ Top(c).op \in Nat /\ Top(c).kind \in Kinds
      BY <1>3 DEF Job, Data, Kinds
    <3> QED BY <1>1, <3>1, RecordTyped DEF Merged
  <2> HIDE DEF r
  <2>3. TypeOK'
    <3>1. {r} \in SUBSET Rec
      BY <2>2
    <3> QED BY <1>1, <1>2, <1>3, <2>1, <3>1, HitTypes DEF TypeOK
  <2>4. Latch(c, {r})
    BY <1>2, <2>1, <2>2 DEF Latch, Hit
  <2>5. Fits(c, {r})
    <3>1. r.stream = "nftrace" /\ r.kind # "switch" /\ Channel(r.kind) /\ r.data \in Nat
      BY <1>3, <1>5, <2>2 DEF Job, Operations
    <3>2. r.op = doing[c][Len(doing[c])].op
      BY <2>2 DEF Top
    <3> QED BY <1>3, <3>1, <3>2 DEF Fits
  <2>6. Flies(c, {r})
    <3>1. r.op = doing[c][Len(doing[c])].op
      BY <2>2 DEF Top
    <3>2. ASSUME NEW d \in Cpu, NEW i \in DOMAIN doing'[d]
          PROVE  i \in DOMAIN doing[d] /\ doing'[d][i].op = doing[d][i].op
                 /\ r.op # doing[d][i].op
      <4>1. i \in DOMAIN doing[d] /\ doing'[d][i] = doing[d][i]
            /\ ~(d = c /\ i = Len(doing[c]))
        BY <1>3
      <4>2. doing[d][i].op # doing[c][Len(doing[c])].op
        BY <1>1, <1>3, <4>1 DEF FileInv, InFlightInv
      <4> QED BY <3>1, <4>1, <4>2
    <3> QED BY <3>2 DEF Flies
  <2>7. Switched(c, {r})
    <3>1. r.kind # "switch"
      BY <1>3, <2>2 DEF Job, Operations
    <3> QED BY <1>4, <3>1 DEF Switched, IsSwitch
  <2>8. HitStep(c, {r})
    BY <1>2, <1>4, <2>4, <2>5, <2>6, <2>7 DEF HitStep
  <2>9. Placed(c, {r})
    <3>1. r.kind # "switch"
      BY <1>3, <2>2 DEF Job, Operations
    <3> QED BY <1>2, <2>2, <3>1 DEF Placed
  <2>10. Counted(c, {r})
    BY <1>2, <2>2 DEF Counted
  <2>11. Observed(c, {r})
    BY <1>2, <2>4, <2>9, <2>10 DEF Observed
  <2> QED BY <2>3, <2>8, <2>11, HitKeeps
<1>6. CASE ~Channel(Top(c).kind)
  <2>1. UNCHANGED <<clock, pend>>
    BY <1>2, <1>6
  <2>2. TypeOK'
    BY <1>1, <1>2, <1>3, <2>1, TypeKeep DEF TypeOK
  <2>3. Quiet
    BY <1>2, <1>3, <1>4, <2>1 DEF Quiet
  <2> QED BY <1>6, <2>2, <2>3, QuietKeeps
<1> QED BY <1>5, <1>6

\* A zombie is reaped.
LEMMA ReapStep == ASSUME IInv, NEW s \in Slot, Reap(s) PROVE IInv'
<1>1. TypeOK /\ RowsInUse
  BY DEF IInv, TaskInv, RunningInv
<1>2. /\ phase = "recording" /\ UNCHANGED Rest
      /\ UNCHANGED <<clock, pend, free, nextPid, current, doing>>
      /\ (\A d \in Cpu : current[d] # s) /\ table' = [table EXCEPT ![s] = NoPid]
  BY DEF Reap, Rest, analysis
<1>3. table \in [Slot -> Nat] /\ table' \in [Slot -> Nat]
  BY <1>1, <1>2 DEF TypeOK, NoPid
<1>4. TypeOK'
  BY <1>1, <1>2, <1>3, TypeKeep DEF TypeOK
<1>5. \A x \in Slot : x # s => table'[x] = table[x]
  BY <1>2, <1>3
<1>6. \A d \in Cpu : Who(d)' = Who(d)
  BY <1>1, <1>2, <1>5 DEF Who, RowsInUse
<1>7. RowsInUse'
  BY <1>1, <1>2, <1>5 DEF RowsInUse, Cpu, Rest
<1>8. Quiet
  BY <1>2, <1>6, <1>7 DEF Quiet
<1> QED BY <1>4, <1>8, QuietKeeps

\* The scheduler gives a vCPU to another task.
LEMMA SwitchStep ==
  ASSUME IInv, NEW c \in Cpu, NEW s \in Slot \cup {NoSlot}, Switch(c, s)
  PROVE  IInv' /\ \E recs : Observed(c, recs)
<1> DEFINE ids == [from |-> current[c], to |-> s]
           pid == IF s = NoSlot THEN NFT_NO_TASK ELSE table[s]
           entry == Record(c, "watch", "switch", clock + 1, ids)
           frame == Record(c, "snap", "snap", clock + 1, NoPid)
           told == Record(c, "nftrace", "switch", clock + 1, pid)
           recs == {entry} \cup (IF kernel.frames THEN {frame} ELSE {})
                     \cup (IF Channel("switch") THEN {told} ELSE {})
<1>1. TypeOK /\ FileInv /\ RowsInUse
  BY DEF IInv, TaskInv, RunningInv
<1>2. /\ phase = "recording" /\ pend[c] = {} /\ UNCHANGED Rest
      /\ UNCHANGED <<table, nextPid, free, doing>>
      /\ Hit(c, recs) /\ current' = [current EXCEPT ![c] = s]
      /\ s # NoSlot => table[s] # NoPid
  BY DEF Switch, InGuest, Rest, analysis
<1>3. /\ clock + 1 \in Nat /\ current \in [Cpu -> Rows] /\ table \in [Slot -> Nat]
      /\ s \in Rows /\ NoPid \in Data
  BY <1>1 DEF TypeOK, Rows, Data, NoPid
<1>4. pid \in Nat \cup {NFT_NO_TASK} /\ pid \in Data
  BY <1>3 DEF Data, NFT_NO_TASK
<1>5. ids \in Data
  BY <1>3 DEF Data
<1> HIDE DEF ids, pid
<1>6. entry \in Rec /\ entry = [stream |-> "watch", insn |-> clock + 1, cpu |-> c,
                                kind |-> "switch", op |-> clock + 1, who |-> Who(c), data |-> ids]
  BY <1>1, <1>3, <1>5, RecordTyped DEF Merged, Kinds
<1>7. frame \in Rec /\ frame = [stream |-> "snap", insn |-> clock + 1, cpu |-> c,
                                kind |-> "snap", op |-> clock + 1, who |-> Who(c), data |-> NoPid]
  BY <1>1, <1>3, RecordTyped DEF Merged, Kinds
<1>8. told \in Rec /\ told = [stream |-> "nftrace", insn |-> clock + 1, cpu |-> c,
                              kind |-> "switch", op |-> clock + 1, who |-> Who(c), data |-> pid]
  BY <1>1, <1>3, <1>4, RecordTyped DEF Merged, Kinds
<1> HIDE DEF entry, frame, told
<1>9. \A r \in recs : r \in {entry, frame, told} /\ (r = told => Channel("switch"))
  BY <1>6, <1>7, <1>8
<1>10. (Channel("switch") => told \in recs) /\ entry \in recs /\ (kernel.frames => frame \in recs)
  OBVIOUS
<1> HIDE DEF recs
<1>11. TypeOK'
  <2>1. recs \in SUBSET Rec
    BY <1>6, <1>7, <1>8, <1>9
  <2>2. current' \in [Cpu -> Rows]
    BY <1>2, <1>3
  <2> QED BY <1>1, <1>2, <2>1, <2>2, HitTypes DEF TypeOK
<1>12. Latch(c, recs)
  <2>1. recs \subseteq Rec
    BY <1>6, <1>7, <1>8, <1>9
  <2>2. \A r \in recs : r.cpu = c /\ r.insn = clock + 1 /\ r.who = Who(c)
    BY <1>6, <1>7, <1>8, <1>9
  <2>3. \A r, q \in recs : r.stream = q.stream => r = q
    BY <1>6, <1>7, <1>8, <1>9
  <2>4. \A r, q \in recs : r.stream \in Merged /\ q.stream \in Merged => r.kind = q.kind
    BY <1>6, <1>7, <1>8, <1>9 DEF Merged
  <2> QED BY <1>2, <2>1, <2>2, <2>3, <2>4 DEF Latch, Hit
<1>13. Fits(c, recs)
  BY <1>4, <1>6, <1>7, <1>8, <1>9 DEF Fits
<1>14. Flies(c, recs)
  <2>1. \A r \in recs : r.op = clock + 1
    BY <1>6, <1>7, <1>8, <1>9
  <2> QED BY <1>1, <1>2, <2>1, FliesOn
<1>15. Cpu' = Cpu /\ current'[c] = s /\ \A d \in Cpu \ {c} : current'[d] = current[d]
  BY <1>2, <1>3 DEF Cpu, Rest
<1>16. Who(c)' = IF s = NoSlot THEN NoPid ELSE table[s]
  BY <1>2, <1>15 DEF Who
<1>17. Switched(c, recs)
  <2>1. \A d \in Cpu \ {c} : Who(d)' = Who(d)
    BY <1>2, <1>15 DEF Who
  <2>2. ASSUME Telling
        PROVE  \E r \in recs : IsSwitch(r) /\ Who(c)' = PidOf(r)
    <3>1. told \in recs /\ IsSwitch(told)
      BY <1>8, <1>10, <2>2 DEF Telling, IsSwitch
    <3>2. Who(c)' = PidOf(told)
      <4>1. CASE s = NoSlot
        BY <1>8, <1>16, <4>1 DEF PidOf, pid
      <4>2. CASE s # NoSlot
        <5>1. pid = table[s] /\ table[s] \in Nat
          BY <1>3, <4>2 DEF pid
        <5> QED BY <1>8, <1>16, <4>2, <5>1 DEF PidOf, NFT_NO_TASK
      <4> QED BY <4>1, <4>2
    <3> QED BY <3>1, <3>2
  <2> QED BY <2>1, <2>2 DEF Switched
<1>18. RowsInUse'
  BY <1>1, <1>2, <1>15 DEF RowsInUse
<1>19. HitStep(c, recs)
  BY <1>2, <1>12, <1>13, <1>14, <1>17, <1>18 DEF HitStep
<1>20. Placed(c, recs)
  <2>1. Entered(entry) /\ entry.data.to = s
    BY <1>6 DEF Entered, ids
  <2>2. kernel.frames => \E q \in recs : q.stream = "snap"
    BY <1>7, <1>10
  <2>3. \A q \in recs : q.stream \in Merged => q.kind = "switch"
    BY <1>6, <1>7, <1>8, <1>9 DEF Merged
  <2> QED BY <1>2, <1>3, <1>10, <2>1, <2>2, <2>3 DEF Placed
<1>21. Counted(c, recs)
  <2>1. \A r \in recs : ~IsCount(r)
    BY <1>6, <1>7, <1>8, <1>9 DEF IsCount
  <2> QED BY <1>2, <2>1 DEF Counted
<1>22. Observed(c, recs)
  BY <1>2, <1>12, <1>20, <1>21 DEF Observed
<1> QED BY <1>11, <1>19, <1>22, HitKeeps

\* The invariant holds before anything has run.
LEMMA InitInv == Init => IInv
<1> SUFFICES ASSUME Init PROVE IInv
  OBVIOUS
<1>1. /\ kernel \in Kernels /\ clock = 0 /\ nextPid = 2 /\ free = kernel.pages
      /\ table = [s \in Slot |-> IF s = CHOOSE t \in Slot : TRUE THEN 1 ELSE NoPid]
      /\ current = [c \in Cpu |-> NoSlot] /\ doing = [c \in Cpu |-> << >>]
      /\ pend = [c \in Cpu |-> {}] /\ file = [s \in Merged \cup {"snap"} |-> << >>]
      /\ phase = "recording" /\ at = [s \in Merged |-> 0]
      /\ curSlot = [c \in Cpu |-> NoSlot] /\ semantic = [c \in Cpu |-> Absent]
      /\ events = << >>
  BY DEF Init
<1>2. TypeOK
  <2>1. << >> \in Seq(Job)
    OBVIOUS
  <2>2. << >> \in Seq(Rec) /\ Len(<< >>) = 0
    OBVIOUS
  <2>3. events \in Seq(Range1(events))
    BY <1>1
  <2>4. table \in [Slot -> Nat] /\ current \in [Cpu -> Rows] /\ doing \in [Cpu -> Seq(Job)]
    BY <1>1, <2>1 DEF NoPid, Rows
  <2>5. pend \in [Cpu -> SUBSET Rec]
    BY <1>1
  <2>6. DOMAIN file = Merged \cup {"snap"} /\ \A s \in Merged : file[s] = << >>
    BY <1>1
  <2>7. at \in [Merged -> Nat] /\ \A s \in Merged : at[s] <= Len(file[s])
    BY <1>1, <2>2, <2>6
  <2>8. DOMAIN curSlot = Cpu /\ semantic \in [Cpu -> Int]
    BY <1>1 DEF Absent
  <2>9. clock \in Nat /\ nextPid \in Nat \ {0} /\ free \in Nat
    BY <1>1, KernelFacts
  <2> QED BY <1>1, <2>2, <2>3, <2>4, <2>5, <2>6, <2>7, <2>8, <2>9 DEF TypeOK
<1>3. \A s \in Merged : DOMAIN file[s] = {}
  BY <1>1
<1>4. Known = {}
  BY <1>1, <1>2, <1>3, KnownFacts
<1>5. FileInv
  <2>1. \A c \in Cpu : DOMAIN doing[c] = {} /\ pend[c] = {}
    BY <1>1
  <2> QED BY <1>3, <1>4, <2>1 DEF FileInv, RecordsInv, InFlightInv, PendInv, StreamOrder, LockOrder
<1>6. MergeInv
  <2>1. DOMAIN events = {} /\ \A s \in Merged : 1 .. at[s] = {}
    BY <1>1
  <2>2. MergeOrder /\ RecordsHaveEvents
    BY <2>1 DEF MergeOrder, RecordsHaveEvents
  <2>3. EventsHaveRecords /\ EventsDiffer /\ VcpuOrderSurvivesMerge
    BY <2>1 DEF EventsHaveRecords, EventsDiffer, VcpuOrderSurvivesMerge
  <2>4. Nothing
    BY <1>1 DEF Nothing
  <2> QED BY <2>2, <2>3, <2>4 DEF MergeInv
<1>7. TaskInv
  <2>1. RunningInv
    BY <1>1, <1>4 DEF RunningInv, RowsInUse, LastSwitch
  <2>2. SemanticInv
    BY <1>1 DEF SemanticInv, Told, Merged
  <2>3. NamedInv
    BY <1>1 DEF NamedInv
  <2> QED BY <2>1, <2>2, <2>3 DEF TaskInv
<1> QED BY <1>2, <1>5, <1>6, <1>7 DEF IInv

\* A step that changes nothing.
LEMMA StutterKeeps == ASSUME IInv, UNCHANGED vars PROVE IInv'
<1>1. /\ UNCHANGED <<kernel, clock, table, nextPid, current, doing, free, pend, file, phase>>
      /\ UNCHANGED <<at, curSlot, semantic, events>> /\ Cpu' = Cpu
  BY DEF vars, Cpu
<1>2. TypeOK'
  BY <1>1 DEF IInv, TypeOK, Range1
<1>3. FileInv' /\ Known' = Known
  BY <1>1, QuietFile DEF IInv
<1>4. RowsInUse' /\ \A d \in Cpu : Who(d)' = Who(d)
  BY <1>1 DEF IInv, TaskInv, RunningInv, RowsInUse, Who
<1>5. RunningInv'
  BY <1>1, <1>3, <1>4, KeepRunning DEF IInv, TaskInv
<1>6. \A s, p : DroppedAt(s, p)' <=> DroppedAt(s, p)
  BY <1>1, DroppedSame
<1>7. Nothing' /\ MergeOrder' /\ EventsDiffer' /\ VcpuOrderSurvivesMerge'
  BY <1>1 DEF IInv, MergeInv, Nothing, MergeOrder, EventsDiffer, VcpuOrderSurvivesMerge
<1>8. EventsHaveRecords' /\ RecordsHaveEvents'
  BY <1>1, <1>6 DEF IInv, MergeInv, EventsHaveRecords, RecordsHaveEvents, From
<1>9. SemanticInv' /\ NamedInv'
  BY <1>1 DEF IInv, TaskInv, SemanticInv, NamedInv, Told, PidOf, Telling, Channel
<1> QED BY <1>2, <1>3, <1>5, <1>7, <1>8, <1>9 DEF IInv, MergeInv, TaskInv

\* IInv is inductive.
LEMMA NextInv == IInv /\ [Next]_vars => IInv'
<1> SUFFICES ASSUME IInv, [Next]_vars PROVE IInv'
  OBVIOUS
<1>1. CASE UNCHANGED vars
  BY <1>1, StutterKeeps
<1>2. ASSUME NEW c \in Cpu, Trap(c) \/ Snap(c) \/ Apply(c)
      PROVE  IInv'
  BY <1>2, TrapStep, SnapStep, ApplyStep
<1>3. ASSUME NEW c \in Cpu, Commit(c) \/ Fail(c) \/ Write(c)
      PROVE  IInv'
  BY <1>3, CommitStep, FailStep, WriteKeeps
<1>4. ASSUME NEW c \in Cpu, NEW kind \in {"alloc", "free", "fork"}, Begin(c, kind)
      PROVE  IInv'
  BY <1>4, BeginStep
<1>5. ASSUME NEW c \in Cpu, NEW s \in Slot, Spawn(c, s)
      PROVE  IInv'
  BY <1>5, SpawnStep
<1>6. ASSUME NEW c \in Cpu, NEW s \in Slot \cup {NoSlot}, Switch(c, s)
      PROVE  IInv'
  BY <1>6, SwitchStep
<1>7. ASSUME NEW s \in Slot, Reap(s)
      PROVE  IInv'
  BY <1>7, ReapStep
<1>8. CASE EndRecording \/ Merge
  BY <1>8, EndKeeps, MergeKeeps
<1> QED BY <1>1, <1>2, <1>3, <1>4, <1>5, <1>6, <1>7, <1>8 DEF Next

\* The invariant holds throughout.
THEOREM TimelineInv == Spec => []IInv
<1> QED BY InitInv, NextInv, PTL DEF Spec

---------------------------------------------------------------------------
(* The snapshots of a recording and the search among them.                  *)

\* One vCPU.
Lone == \A c, d \in Cpu : c = d

\* A snapshot as it is loaded.
State == [insn : Nat, procs : [Slot -> Nat], free : Nat, flight : SUBSET Operations]

\* Snapshots of one vCPU are in clock order, and older than what it latches next.
StatesInv ==
  /\ States \in Seq(State)
  /\ \A i \in DOMAIN States : States[i].insn \in 1 .. clock
  /\ Lone => /\ \A i, j \in DOMAIN States : i < j => States[i].insn < States[j].insn
             /\ \A c \in Cpu : \A r \in pend[c] : \A i \in DOMAIN States :
                  States[i].insn < r.insn

\* What a single vCPU is.
LEMMA LoneCpu == ASSUME TypeOK, Cardinality(Cpu) = 1 PROVE Lone
<1>1. IsFiniteSet(Cpu)
  <2>1. IsFiniteSet(kernel.cpus)
    BY KernelAssumption DEF TypeOK
  <2> QED BY <2>1 DEF Cpu
<1>2. PICK x : Cpu = {x}
  BY <1>1, FS_Singleton
<1> QED BY <1>2 DEF Lone

\* What the snapshots are.
LEMMA StatesFacts ==
  ASSUME States \in Seq(State)
  PROVE  /\ Len(States) \in Nat /\ DOMAIN States = 1 .. Len(States)
         /\ \A i \in DOMAIN States : /\ States[i].insn \in Nat /\ States[i].free \in Nat
                                    /\ States[i].procs \in [Slot -> Nat]
<1>1. Len(States) \in Nat /\ DOMAIN States = 1 .. Len(States)
  OBVIOUS
<1>2. ASSUME NEW i \in DOMAIN States
      PROVE  /\ States[i].insn \in Nat /\ States[i].free \in Nat
             /\ States[i].procs \in [Slot -> Nat]
  <2>1. States[i] \in State
    OBVIOUS
  <2> QED BY <2>1 DEF State
<1> QED BY <1>1, <1>2

\* A round of the search, as a function of the rounds before.
RoundOf(g, k, insn) ==
  IF k = 0 THEN [lo |-> 1, hi |-> Len(States), best |-> 0] ELSE Bisect(g[k - 1], insn)

\* The rounds of the search exist.
LEMMA RoundsExist ==
  ASSUME NEW n \in Nat, NEW insn
  PROVE  \E g : g = [k \in 0 .. n |-> RoundOf(g, k, insn)]
<1> DEFINE Defined == {m \in Nat : \E g : g = [k \in 0 .. m |-> RoundOf(g, k, insn)]}
<1>1. 0 \in Defined
  <2> DEFINE g == [k \in 0 .. 0 |-> RoundOf(<< >>, 0, insn)]
  <2>1. g = [k \in 0 .. 0 |-> RoundOf(g, k, insn)]
    <3>1. \A k \in 0 .. 0 : k = 0 /\ RoundOf(<< >>, 0, insn) = RoundOf(g, k, insn)
      BY DEF RoundOf
    <3> HIDE DEF g
    <3>2. g = [k \in 0 .. 0 |-> RoundOf(<< >>, 0, insn)]
      BY DEF g
    <3> QED BY <3>1, <3>2
  <2> QED BY <2>1
<1>2. ASSUME NEW m \in Nat, m \in Defined PROVE m + 1 \in Defined
  <2>1. PICK g : g = [k \in 0 .. m |-> RoundOf(g, k, insn)]
    BY <1>2
  <2> DEFINE h == [k \in 0 .. (m + 1) |-> IF k = m + 1 THEN Bisect(g[m], insn) ELSE g[k]]
  <2>2. ASSUME NEW k \in 0 .. (m + 1) PROVE h[k] = RoundOf(h, k, insn)
    <3>1. CASE k = m + 1
      <4>1. h[k] = Bisect(g[m], insn) /\ h[m] = g[m] /\ k # 0 /\ k - 1 = m
        BY <3>1
      <4> QED BY <4>1 DEF RoundOf
    <3>2. CASE k # m + 1 /\ k # 0
      <4>1. k \in 0 .. m /\ k - 1 \in 0 .. (m + 1) /\ k - 1 # m + 1
        BY <3>2
      <4>2. h[k] = g[k] /\ h[k - 1] = g[k - 1]
        BY <3>2, <4>1
      <4>3. g[k] = RoundOf(g, k, insn)
        BY <2>1, <4>1
      <4> HIDE DEF h
      <4> QED BY <3>2, <4>2, <4>3 DEF RoundOf
    <3>3. CASE k = 0
      <4>1. k \in 0 .. m /\ k # m + 1
        BY <3>3
      <4>2. h[k] = g[k] /\ g[k] = RoundOf(g, k, insn)
        BY <2>1, <4>1
      <4> HIDE DEF h
      <4> QED BY <3>3, <4>2 DEF RoundOf
    <3> QED BY <3>1, <3>2, <3>3
  <2>3. \E d : h = [k \in 0 .. (m + 1) |-> d[k]]
    <3>1. h = [k \in 0 .. (m + 1) |-> h[k]]
      OBVIOUS
    <3> HIDE DEF h
    <3> QED BY <3>1
  <2> HIDE DEF h
  <2>4. h = [k \in 0 .. (m + 1) |-> RoundOf(h, k, insn)]
    BY <2>2, <2>3
  <2> QED BY <2>4
<1> HIDE DEF Defined
<1>3. n \in Defined
  <2>1. \A m \in Nat : m \in Defined => m + 1 \in Defined
    BY <1>2
  <2> QED BY <1>1, <2>1, NatSetInduction
<1> QED BY <1>3 DEF Defined

\* Where the search stands after k rounds: what is before lo is not after the instruction,
\* what is past hi is, and fewer than n - k snapshots are left.
Bisected(b, k, insn) ==
  /\ b.lo \in Int /\ b.hi \in Int /\ b.best \in Int
  /\ b.lo \in 1 .. Len(States) + 1 /\ b.hi \in 0 .. Len(States) /\ b.best = b.lo - 1
  /\ b.hi - b.lo + 1 >= 0 /\ (b.hi - b.lo + 1 <= Len(States) - k \/ b.hi < b.lo)
  /\ \A i \in 1 .. Len(States) : /\ i < b.lo => States[i].insn <= insn
                                 /\ i > b.hi => insn < States[i].insn
  /\ b = [lo |-> b.lo, hi |-> b.hi, best |-> b.best]

\* A round of the search.
LEMMA BisectStep ==
  ASSUME States \in Seq(State), \A i, j \in DOMAIN States : i < j => States[i].insn < States[j].insn,
         NEW insn \in Nat, NEW k \in Nat, NEW b, Bisected(b, k, insn)
  PROVE  Bisected(Bisect(b, insn), k + 1, insn)
<1> DEFINE n == Len(States)
           mid == (b.lo + b.hi) \div 2
<1>1. n \in Nat /\ DOMAIN States = 1 .. n /\ \A i \in 1 .. n : States[i].insn \in Nat
  BY StatesFacts
<1>2. CASE b.lo > b.hi
  <2>1. Bisect(b, insn) = b
    BY <1>2 DEF Bisect
  <2> QED BY <1>1, <1>2, <2>1 DEF Bisected
<1>3. CASE ~(b.lo > b.hi)
  <2>1. b.lo \in Nat /\ b.hi \in Nat /\ b.lo <= b.hi /\ b.lo >= 1 /\ b.hi <= n
        /\ b.hi - b.lo + 1 <= n - k
    BY <1>1, <1>3 DEF Bisected
  <2>2. mid \in Nat /\ b.lo <= mid /\ mid <= b.hi
    <3> HIDE DEF n
    <3> QED BY <2>1
  <2>3. mid \in 1 .. n
    BY <1>1, <2>1, <2>2
  <2> HIDE DEF mid
  <2>4. CASE States[mid].insn <= insn
    <3>1. Bisect(b, insn) = [b EXCEPT !.lo = mid + 1, !.best = mid]
      BY <1>3, <2>4 DEF Bisect, mid
    <3>2. Bisect(b, insn) = [lo |-> mid + 1, hi |-> b.hi, best |-> mid]
      BY <3>1 DEF Bisected
    <3>3. ASSUME NEW i \in 1 .. n, i < mid + 1
          PROVE  States[i].insn <= insn
      <4>1. i = mid \/ i < mid
        BY <2>3, <3>3
      <4> QED BY <1>1, <2>3, <2>4, <4>1
    <3> DEFINE c == Bisect(b, insn)
    <3>4. c.lo = mid + 1 /\ c.hi = b.hi /\ c.best = mid
      BY <3>2
    <3>5. c = [lo |-> c.lo, hi |-> c.hi, best |-> c.best]
      BY <3>2
    <3> HIDE DEF c, n
    <3>6. \A i \in 1 .. n : i > c.hi => insn < States[i].insn
      BY <3>4 DEF Bisected, n
    <3>7. /\ c.lo \in 1 .. n + 1 /\ c.hi \in 0 .. n /\ c.best = c.lo - 1
          /\ c.hi - c.lo + 1 >= 0 /\ (c.hi - c.lo + 1 <= n - (k + 1) \/ c.hi < c.lo)
      <4>1. c.lo \in 1 .. n + 1 /\ c.hi \in 0 .. n /\ c.best = c.lo - 1
        BY <1>1, <2>1, <2>2, <2>3, <3>4
      <4>2. c.hi - c.lo + 1 >= 0
        BY <2>1, <2>2, <3>4
      <4>3. c.hi - c.lo + 1 <= n - (k + 1)
        BY <1>1, <2>1, <2>2, <3>4
      <4> QED BY <4>1, <4>2, <4>3
    <3>8. \A i \in 1 .. n : i < c.lo => States[i].insn <= insn
      BY <3>3, <3>4
    <3>10. c.lo \in Int /\ c.hi \in Int /\ c.best \in Int
      BY <2>1, <2>2, <3>4
    <3>11. Bisected(c, k + 1, insn)
      BY ONLY <3>5, <3>6, <3>7, <3>8, <3>10 DEF Bisected, n
    <3> QED BY <3>11 DEF c
  <2>5. CASE ~(States[mid].insn <= insn)
    <3>1. Bisect(b, insn) = [b EXCEPT !.hi = mid - 1]
      BY <1>3, <2>5 DEF Bisect, mid
    <3>2. Bisect(b, insn) = [lo |-> b.lo, hi |-> mid - 1, best |-> b.best]
      BY <3>1 DEF Bisected
    <3>3. ASSUME NEW i \in 1 .. n, i > mid - 1
          PROVE  insn < States[i].insn
      <4>1. i = mid \/ mid < i
        BY <2>3, <3>3
      <4>2. insn < States[mid].insn
        BY <1>1, <2>3, <2>5
      <4> QED BY <1>1, <2>3, <4>1, <4>2
    <3> DEFINE c == Bisect(b, insn)
    <3>4. c.lo = b.lo /\ c.hi = mid - 1 /\ c.best = b.best
      BY <3>2
    <3>5. c = [lo |-> c.lo, hi |-> c.hi, best |-> c.best]
      BY <3>2
    <3> HIDE DEF c, n
    <3>6. \A i \in 1 .. n : i < c.lo => States[i].insn <= insn
      BY <3>4 DEF Bisected, n
    <3>7. b.best = b.lo - 1
      BY DEF Bisected
    <3>8. /\ c.lo \in 1 .. n + 1 /\ c.hi \in 0 .. n /\ c.best = c.lo - 1
          /\ c.hi - c.lo + 1 >= 0 /\ (c.hi - c.lo + 1 <= n - (k + 1) \/ c.hi < c.lo)
      <4>1. c.lo \in 1 .. n + 1 /\ c.hi \in 0 .. n /\ c.best = c.lo - 1
        BY <1>1, <2>1, <2>2, <2>3, <3>4, <3>7
      <4>2. c.hi - c.lo + 1 >= 0
        BY <2>1, <2>2, <3>4
      <4>3. c.hi - c.lo + 1 <= n - (k + 1)
        BY <1>1, <2>1, <2>2, <3>4
      <4> QED BY <4>1, <4>2, <4>3
    <3>9. \A i \in 1 .. n : i > c.hi => insn < States[i].insn
      BY <3>3, <3>4
    <3>10. c.lo \in Int /\ c.hi \in Int /\ c.best \in Int
      <4>1. mid - 1 \in Int
        BY <2>2
      <4> QED BY <3>4, <4>1 DEF Bisected
    <3>11. Bisected(c, k + 1, insn)
      BY ONLY <3>5, <3>6, <3>7, <3>8, <3>9, <3>10 DEF Bisected, n
    <3> QED BY <3>11 DEF c
  <2> QED BY <2>4, <2>5
<1> QED BY <1>2, <1>3

\* Among snapshots in clock order the search finds the last that is not after the
\* instruction.
LEMMA IndexFound ==
  ASSUME States \in Seq(State), \A i, j \in DOMAIN States : i < j => States[i].insn < States[j].insn,
         NEW insn \in Nat
  PROVE  /\ StateIndexFor(insn) \in 0 .. Len(States)
         /\ \A i \in 1 .. Len(States) : States[i].insn <= insn <=> i <= StateIndexFor(insn)
<1> DEFINE n == Len(States)
           rounds == CHOOSE g : g = [k \in 0 .. n |-> RoundOf(g, k, insn)]
<1>1. n \in Nat /\ DOMAIN States = 1 .. n /\ \A i \in 1 .. n : States[i].insn \in Nat
  BY StatesFacts
<1>2. rounds = [k \in 0 .. n |-> RoundOf(rounds, k, insn)]
  BY <1>1, RoundsExist
<1>3. StateIndexFor(insn) = rounds[n].best
  BY DEF StateIndexFor, RoundOf
<1> HIDE DEF rounds
<1>4. \A k \in 0 .. n : rounds[k] = RoundOf(rounds, k, insn)
  BY <1>2
<1> DEFINE Good == {k \in Nat : k <= n => Bisected(rounds[k], k, insn)}
<1>5. 0 \in Good
  <2>1. rounds[0] = [lo |-> 1, hi |-> n, best |-> 0]
    BY <1>1, <1>4 DEF RoundOf
  <2>2. Bisected(rounds[0], 0, insn)
    BY <1>1, <2>1 DEF Bisected
  <2> QED BY <2>2
<1>6. ASSUME NEW k \in Nat, k \in Good
      PROVE  k + 1 \in Good
  <2>1. SUFFICES ASSUME k + 1 <= n PROVE Bisected(rounds[k + 1], k + 1, insn)
    OBVIOUS
  <2>2. k <= n /\ k \in 0 .. n /\ k + 1 \in 0 .. n
    BY <1>1, <2>1
  <2>3. rounds[k + 1] = Bisect(rounds[k], insn)
    <3>1. rounds[k + 1] = RoundOf(rounds, k + 1, insn)
      BY <1>4, <2>2
    <3>2. k + 1 # 0 /\ (k + 1) - 1 = k
      OBVIOUS
    <3> QED BY <3>1, <3>2 DEF RoundOf
  <2>4. Bisected(rounds[k], k, insn)
    BY <1>6, <2>2
  <2> QED BY <2>3, <2>4, BisectStep
<1> HIDE DEF Good
<1>7. n \in Good
  <2>1. \A k \in Nat : k \in Good => k + 1 \in Good
    BY <1>6
  <2> QED BY <1>1, <1>5, <2>1, NatSetInduction
<1>8. Bisected(rounds[n], n, insn)
  BY <1>1, <1>7 DEF Good
<1> DEFINE b == rounds[n]
<1>9. b.lo \in Int /\ b.hi \in Int /\ b.hi = b.lo - 1 /\ b.best = b.hi /\ b.hi \in 0 .. n
  <2> HIDE DEF n
  <2> QED BY <1>1, <1>8 DEF Bisected, n
<1>10. \A i \in 1 .. n : (i < b.lo => States[i].insn <= insn) /\ (i > b.hi => insn < States[i].insn)
  BY <1>8 DEF Bisected
<1> HIDE DEF n, b
<1>11. StateIndexFor(insn) = b.hi
  BY <1>3, <1>9 DEF b
<1>12. ASSUME NEW i \in 1 .. n
       PROVE  States[i].insn <= insn <=> i <= b.hi
  BY <1>1, <1>9, <1>10
<1> QED BY <1>9, <1>11, <1>12 DEF n
---------------------------------------------------------------------------
(* A recording that knows tasks only by their rows.                         *)

\* One vCPU with a frame at every entry of the scheduler and no switch records.
Framing == kernel.frames /\ Lone /\ ~Channel("switch")

\* The last entry of the scheduler before an instruction.
LastEntry(k, n) ==
  /\ k \in Known /\ Entered(k) /\ k.insn < n
  /\ \A q \in Known : Entered(q) /\ q.insn < n => q.insn <= k.insn

\* An entry of the scheduler names a row and has a frame, in the file when the entry is;
\* the row is in use there.
EntriesFramed ==
  \A k \in Known : Entered(k) =>
    /\ k.data.to \in Rows
    /\ \/ \E i \in DOMAIN States : States[i].insn = k.insn
       \/ \E d \in Cpu : k \in pend[d] /\ \E q \in pend[d] : q.stream = "snap"
    /\ k.data.to # NoSlot =>
         \A i \in DOMAIN States : States[i].insn = k.insn
           => States[i].procs[k.data.to] # NoPid

\* A snapshot's moment is one of its own or that of the entry.
FramesAlone ==
  \A d \in Cpu : \A r, q \in pend[d] :
    r.stream = "snap" /\ q.stream \in Merged => q.kind = "switch"

\* What the last entry names runs, and has kept its pid in all snapshots since.
RowRuns ==
  \A k \in Known : LastEntry(k, clock + 1) =>
    /\ \A c \in Cpu : current[c] = k.data.to
    /\ k.data.to # NoSlot =>
         \A i \in DOMAIN States : k.insn <= States[i].insn
           => States[i].procs[k.data.to] = table[k.data.to]

\* Whoever a record is of has its pid in the row, in all snapshots since the entry before.
RowTold ==
  \A r \in Known : \A k \in Known : r.kind # "switch" /\ LastEntry(k, r.insn) =>
    IF k.data.to = NoSlot THEN r.who = NoPid
    ELSE /\ r.who # NoPid
         /\ \A i \in DOMAIN States : k.insn <= States[i].insn /\ States[i].insn <= r.insn
              => States[i].procs[k.data.to] = r.who

\* An entry that is consumed.
Shown(p) == p \in 1 .. at["watch"] /\ Entered(file["watch"][p])

\* The analysis has the row of the last consumed entry, and nothing better.
SeatInv ==
  /\ \A c \in Cpu : semantic[c] = Absent
  /\ \/ \A p : ~Shown(p)
     \/ \E p : /\ Shown(p) /\ \A c \in Cpu : curSlot[c] = file["watch"][p].data.to
               /\ \A q : Shown(q) => file["watch"][q].insn <= file["watch"][p].insn

\* An event after an entry has the pid.
FramedInv ==
  \A j \in DOMAIN events : \A p \in 1 .. at["watch"] :
    Shown(p) /\ events[j].kind # "switch" /\ file["watch"][p].insn < events[j].insn
      => events[j].pid = events[j].who

FrameInv == Framing => /\ EntriesFramed /\ FramesAlone /\ RowRuns /\ RowTold
                       /\ SeatInv /\ FramedInv

---------------------------------------------------------------------------
(* A recording that counts pages.                                           *)

\* One vCPU that does one operation after the other, and whose completions are all read.
OneAtATime ==
  /\ Cardinality(Cpu) = 1 /\ kernel.depth <= 1 /\ ~kernel.unreadable
  /\ kernel.ops \cap {"alloc", "free"} \subseteq kernel.channels

\* The last record with counts before an instruction.
LastCount(k, n) ==
  /\ k \in Known /\ IsCount(k) /\ k.insn < n
  /\ \A q \in Known : IsCount(q) /\ q.insn < n => q.insn <= k.insn

\* The pages have changed and the count of them is not yet a record.
Uncounted(c) == doing[c] # << >> /\ Top(c).done /\ Top(c).kind \in {"alloc", "free"}

\* Operations in flight are the kernel's own, one at a time.
OneInFlight ==
  \A c \in Cpu : Len(doing[c]) <= 1 /\ \A i \in DOMAIN doing[c] : doing[c][i].kind \in kernel.ops

\* Between operations the last record has the free pages; within one the operation has.
FreeTold ==
  \A c \in Cpu :
    /\ Uncounted(c) => Top(c).count = free
    /\ ~Uncounted(c) => \A k \in Known : LastCount(k, clock + 1) => k.data = free

\* A snapshot without operations has the count of the last record before it.
StatesTold ==
  \A i \in DOMAIN States : States[i].flight = {} =>
    \A k \in Known : LastCount(k, States[i].insn + 1) => k.data = States[i].free

CountInv == OneAtATime => OneInFlight /\ FreeTold /\ StatesTold

---------------------------------------------------------------------------
(* While the trace is recorded.                                             *)

\* Nothing is consumed.
LEMMA SeatYet ==
  ASSUME TypeOK, Nothing, phase = "recording", SeatInv, UNCHANGED <<kernel, at, semantic, events>>
  PROVE  SeatInv' /\ FramedInv'
<1>1. at'["watch"] = 0 /\ events' = << >> /\ Cpu' = Cpu
  BY DEF Nothing, Merged, Cpu
<1>2. \A p : ~Shown(p)'
  BY <1>1 DEF Shown
<1>3. DOMAIN events' = {}
  BY <1>1
<1> QED BY <1>1, <1>2, <1>3 DEF SeatInv, FramedInv

\* What a hit does to the records of a lone vCPU.
LEMMA LoneHit ==
  ASSUME TypeOK, FileInv, Lone, NEW c \in Cpu, NEW recs, Observed(c, recs)
  PROVE  /\ \A d \in Cpu : d = c /\ pend[d] = {} /\ pend'[d] = recs
         /\ clock \in Nat /\ clock' = clock + 1 /\ Cpu' = Cpu /\ file' = file /\ kernel' = kernel
         /\ Known \subseteq Known' /\ \A r \in recs : r.stream \in Merged => r \in Known'
         /\ \A r \in Known : r.insn \in 1 .. clock
         /\ \A r \in Known' : r \in Known \/ (r \in recs /\ r.stream \in Merged)
         /\ \A r \in recs : r.insn = clock + 1 /\ r.who = Who(c)
<1>1. UNCHANGED Rest /\ Latch(c, recs)
  BY DEF Observed
<1>2. Cpu' = Cpu /\ file' = file /\ kernel' = kernel /\ clock \in Nat /\ clock' = clock + 1
  BY <1>1 DEF Rest, Cpu, Latch, TypeOK
<1>3. \A d \in Cpu : d = c
  BY DEF Lone
<1>4. pend[c] = {} /\ pend'[c] = recs
  BY <1>1 DEF Latch, TypeOK
<1>5. \A r \in Known : r.insn \in 1 .. clock
  BY DEF FileInv, RecordsInv, Sound
<1>6. /\ \A r \in Known' : r \in Known \/ (r \in recs /\ r.stream \in Merged)
      /\ Known \subseteq Known'
      /\ \A r \in recs : r.stream \in Merged => r \in Known'
  BY <1>1, <1>2, LatchKnown
<1>7. \A r \in recs : r.insn = clock + 1 /\ r.who = Who(c)
  BY <1>1 DEF Latch
<1> QED BY <1>2, <1>3, <1>4, <1>5, <1>6, <1>7

\* A hit comes after all snapshots.
LEMMA HitStates ==
  ASSUME TypeOK, FileInv, StatesInv, NEW c \in Cpu, NEW recs, Observed(c, recs)
  PROVE  StatesInv'
<1>1. UNCHANGED Rest /\ Latch(c, recs)
  BY DEF Observed
<1>2. Cpu' = Cpu /\ States' = States /\ clock \in Nat /\ clock' = clock + 1
  BY <1>1 DEF Rest, Cpu, Latch, TypeOK, States
<1>3. \A i \in DOMAIN States : States[i].insn \in 1 .. clock /\ States[i].insn \in 1 .. clock'
                               /\ States[i].insn < clock + 1
  BY <1>2 DEF StatesInv
<1>4. Lone' <=> Lone
  BY <1>2 DEF Lone
<1>5. ASSUME Lone, NEW d \in Cpu, NEW r \in pend'[d], NEW i \in DOMAIN States
      PROVE  States[i].insn < r.insn
  <2>1. r \in recs
    BY <1>5, LoneHit
  <2>2. r.insn = clock + 1
    BY <1>5, <2>1, LoneHit
  <2> QED BY <1>3, <2>2
<1> QED BY <1>2, <1>3, <1>4, <1>5 DEF StatesInv

\* A hit leaves older entries and counts the last before their instructions.
LEMMA HitLast ==
  ASSUME TypeOK, FileInv, Lone, NEW c \in Cpu, NEW recs, Observed(c, recs), NEW k \in Known',
         NEW n \in Nat, n <= clock + 1
  PROVE  (LastEntry(k, n)' => LastEntry(k, n)) /\ (LastCount(k, n)' => LastCount(k, n))
<1>1. k \in Known \/ k.insn = clock + 1
  BY LoneHit
<1>2. clock \in Nat /\ Known \subseteq Known'
  BY LoneHit
<1>3. k.insn = clock + 1 => ~(k.insn < n)
  BY <1>2
<1>4. ASSUME LastEntry(k, n)' PROVE LastEntry(k, n)
  BY <1>1, <1>2, <1>3, <1>4 DEF LastEntry
<1>5. ASSUME LastCount(k, n)' PROVE LastCount(k, n)
  BY <1>1, <1>2, <1>3, <1>5 DEF LastCount
<1> QED BY <1>4, <1>5

\* A hit of a lone vCPU keeps what the rows tell.
LEMMA HitFrame ==
  ASSUME TypeOK, FileInv, RowsInUse, Nothing, StatesInv, FrameInv,
         NEW c \in Cpu, NEW recs, Observed(c, recs)
  PROVE  FrameInv'
<1> USE DEF Merged
<1>1. SUFFICES ASSUME Framing
               PROVE  /\ EntriesFramed' /\ FramesAlone' /\ RowRuns' /\ RowTold'
                      /\ SeatInv' /\ FramedInv'
  <2>1. Framing' <=> Framing
    BY DEF Observed, Rest, Framing, Lone, Cpu, Channel
  <2> QED BY <2>1 DEF FrameInv
<1>2. Lone /\ kernel.frames /\ EntriesFramed /\ RowRuns /\ RowTold /\ SeatInv
  BY <1>1 DEF FrameInv, Framing
<1>3. /\ \A d \in Cpu : d = c /\ pend[d] = {} /\ pend'[d] = recs
      /\ clock \in Nat /\ clock' = clock + 1 /\ Cpu' = Cpu /\ kernel' = kernel
      /\ Known \subseteq Known' /\ \A r \in recs : r.stream \in {"discon", "watch", "nftrace"} => r \in Known'
      /\ \A r \in Known : r.insn \in 1 .. clock
      /\ \A r \in Known' : r \in Known \/ (r \in recs /\ r.stream \in {"discon", "watch", "nftrace"})
      /\ \A r \in recs : r.insn = clock + 1 /\ r.who = Who(c)
  BY <1>2, LoneHit
<1>4. States' = States /\ table' = table /\ phase = "recording"
      /\ UNCHANGED <<kernel, at, semantic, events>>
  BY DEF Observed, Rest, Placed, States, Latch
<1>5. \A i \in DOMAIN States : States[i].insn \in Nat /\ States[i].insn < clock + 1
  BY <1>3 DEF StatesInv
<1>6. /\ \A r, q \in recs : r.stream = q.stream => r = q
      /\ \A r, q \in recs : r.stream = "snap" /\ q.stream \in {"discon", "watch", "nftrace"} => q.kind = "switch"
      /\ \/ current' = current /\ \A r \in recs : r.kind # "switch"
         \/ \E w \in recs : /\ Entered(w) /\ w.data.to \in Rows
                            /\ current' = [current EXCEPT ![c] = w.data.to]
                            /\ \E q \in recs : q.stream = "snap"
  BY <1>2 DEF Observed, Latch, Placed
<1>7. current \in [Cpu -> Rows]
  BY DEF TypeOK
<1>8. ASSUME NEW k \in Known', Entered(k)
      PROVE  /\ k.data.to \in Rows
             /\ \/ \E i \in DOMAIN States : States[i].insn = k.insn
                \/ \E d \in Cpu : k \in pend'[d] /\ \E q \in pend'[d] : q.stream = "snap"
             /\ k.data.to # NoSlot =>
                  \A i \in DOMAIN States : States[i].insn = k.insn
                    => States[i].procs[k.data.to] # NoPid
  <2>1. CASE k \in Known
    BY <1>2, <1>3, <1>8, <2>1 DEF EntriesFramed
  <2>2. CASE k \in recs
    <3>1. k.data.to \in Rows /\ \E q \in recs : q.stream = "snap"
      BY <1>6, <1>8, <2>2 DEF Entered
    <3> QED BY <1>3, <1>5, <2>2, <3>1
  <2> QED BY <1>3, <2>1, <2>2
<1>9. EntriesFramed'
  BY <1>3, <1>4, <1>8 DEF EntriesFramed, Entered
<1>10. FramesAlone'
  BY <1>3, <1>6 DEF FramesAlone
<1>11. ASSUME NEW k \in Known', LastEntry(k, clock + 1)'
       PROVE  /\ \A d \in Cpu : current'[d] = k.data.to
              /\ k.data.to # NoSlot =>
                   \A i \in DOMAIN States : k.insn <= States[i].insn
                     => States[i].procs[k.data.to] = table[k.data.to]
  <2>1. Entered(k) /\ \A q \in Known' : Entered(q) /\ q.insn < clock + 2 => q.insn <= k.insn
    <3>1. clock' + 1 = clock + 2
      BY <1>3
    <3> QED BY <1>11, <3>1 DEF LastEntry, Entered
  <2>2. CASE current' = current /\ \A r \in recs : r.kind # "switch"
    <3>1. k \in Known
      BY <1>3, <2>1, <2>2 DEF Entered
    <3>2. k.insn < clock + 1 /\ \A q \in Known : q.insn < clock + 2 /\ q \in Known'
      BY <1>3, <3>1
    <3>3. LastEntry(k, clock + 1)
      BY <2>1, <3>1, <3>2 DEF LastEntry
    <3> QED BY <1>2, <2>2, <3>1, <3>3 DEF RowRuns
  <2>3. ASSUME NEW w \in recs, Entered(w), current' = [current EXCEPT ![c] = w.data.to]
        PROVE  /\ \A d \in Cpu : current'[d] = k.data.to
               /\ k.data.to # NoSlot =>
                    \A i \in DOMAIN States : k.insn <= States[i].insn
                      => States[i].procs[k.data.to] = table[k.data.to]
    <3>1. w.insn = clock + 1 /\ w \in Known'
      BY <1>3, <2>3 DEF Entered
    <3>2. clock + 1 <= k.insn
      BY <1>3, <2>1, <2>3, <3>1
    <3>3. k \notin Known
      BY <1>3, <3>2
    <3>4. k = w
      BY <1>3, <1>6, <2>1, <2>3, <3>3 DEF Entered
    <3>5. \A d \in Cpu : current'[d] = k.data.to
      BY <1>3, <1>7, <2>3, <3>4
    <3>6. \A i \in DOMAIN States : ~(k.insn <= States[i].insn)
      BY <1>3, <1>5, <3>1, <3>4
    <3> QED BY <3>5, <3>6
  <2> QED BY <1>6, <2>2, <2>3
<1>12. RowRuns'
  BY <1>3, <1>4, <1>11 DEF RowRuns
<1>13. ASSUME NEW r \in Known', NEW k \in Known', r.kind # "switch", LastEntry(k, r.insn)'
       PROVE  IF k.data.to = NoSlot THEN r.who = NoPid
              ELSE /\ r.who # NoPid
                   /\ \A i \in DOMAIN States : k.insn <= States[i].insn /\ States[i].insn <= r.insn
                        => States[i].procs[k.data.to] = r.who
  <2>1. r.insn \in Nat /\ r.insn <= clock + 1
    BY <1>3
  <2>2. LastEntry(k, r.insn)
    BY <1>2, <1>13, <2>1, HitLast
  <2>3. k \in Known
    BY <2>2 DEF LastEntry
  <2>4. CASE r \in Known
    BY <1>2, <1>13, <2>2, <2>3, <2>4 DEF RowTold
  <2>5. CASE r \in recs
    <3>1. r.insn = clock + 1 /\ r.who = Who(c)
      BY <1>3, <2>5
    <3>2. /\ current[c] = k.data.to
          /\ k.data.to # NoSlot =>
               \A i \in DOMAIN States : k.insn <= States[i].insn
                 => States[i].procs[k.data.to] = table[k.data.to]
      BY <1>2, <2>2, <2>3, <3>1 DEF RowRuns
    <3>3. CASE k.data.to = NoSlot
      BY <3>1, <3>2, <3>3 DEF Who
    <3>4. CASE k.data.to # NoSlot
      <4>1. r.who = table[k.data.to] /\ table[k.data.to] # NoPid
        BY <3>1, <3>2, <3>4 DEF Who, RowsInUse
      <4> QED BY <3>2, <3>4, <4>1
    <3> QED BY <3>3, <3>4
  <2> QED BY <1>3, <2>4, <2>5
<1>14. RowTold'
  BY <1>4, <1>13 DEF RowTold
<1>15. SeatInv' /\ FramedInv'
  BY <1>2, <1>4, SeatYet
<1> QED BY <1>9, <1>10, <1>12, <1>14, <1>15

\* A lone vCPU that does one thing at a time.
LEMMA OneFacts ==
  ASSUME TypeOK, OneAtATime, OneInFlight
  PROVE  /\ Lone
         /\ \A c \in Cpu : doing[c] \in Seq(Job) /\ (doing[c] = << >> \/ Len(doing[c]) = 1)
         /\ \A c \in Cpu : Len(doing[c]) < kernel.depth => doing[c] = << >>
<1>1. Lone
  BY LoneCpu DEF OneAtATime
<1>2. kernel.depth \in Nat /\ kernel.depth <= 1
  <2>1. {kernel.depth, kernel.hits, kernel.pages} \subseteq Nat
    BY KernelAssumption DEF TypeOK
  <2>2. kernel.depth \in Nat
    BY <2>1
  <2> QED BY <2>2 DEF OneAtATime
<1>3. ASSUME NEW c \in Cpu
      PROVE  /\ doing[c] \in Seq(Job) /\ (doing[c] = << >> \/ Len(doing[c]) = 1)
             /\ Len(doing[c]) < kernel.depth => doing[c] = << >>
  <2>1. doing[c] \in Seq(Job) /\ Len(doing[c]) <= 1
    BY DEF TypeOK, OneInFlight
  <2>2. Len(doing[c]) \in Nat
    BY <2>1
  <2>3. Len(doing[c]) = 0 => doing[c] = << >>
    BY <2>1
  <2>4. Len(doing[c]) = 0 \/ Len(doing[c]) = 1
    <3>1. \A n \in Nat : n <= 1 => n = 0 \/ n = 1
      OBVIOUS
    <3> QED BY <2>1, <2>2, <3>1, Zenon
  <2>5. Len(doing[c]) < kernel.depth => Len(doing[c]) = 0
    BY <1>2, <2>4
  <2> QED BY <2>1, <2>3, <2>4, <2>5
<1> QED BY <1>1, <1>3

\* Snapshots keep the counts they were told while the guest goes on.
LEMMA HitTold ==
  ASSUME TypeOK, FileInv, Lone, StatesInv, StatesTold, NEW c \in Cpu, NEW recs, Observed(c, recs)
  PROVE  StatesTold'
<1>1. States' = States
  BY DEF Observed, Rest, States
<1>2. ASSUME NEW i \in DOMAIN States, States[i].flight = {}, NEW k \in Known',
             LastCount(k, States[i].insn + 1)'
      PROVE  k.data = States[i].free
  <2>1. PICK n \in Nat : n = States[i].insn + 1 /\ n <= clock + 1
    <3>1. States[i].insn \in 1 .. clock
      BY DEF StatesInv
    <3>2. clock \in Nat
      BY DEF TypeOK
    <3> QED BY <3>1, <3>2
  <2>2. LastCount(k, n)'
    BY <1>1, <1>2, <2>1
  <2>3. LastCount(k, n)
    BY <2>1, <2>2, HitLast
  <2> QED BY <1>2, <2>1, <2>3 DEF StatesTold, LastCount
<1> QED BY <1>1, <1>2 DEF StatesTold

\* A hit keeps what the counts tell.
LEMMA HitCount ==
  ASSUME TypeOK, FileInv, StatesInv, CountInv, NEW c \in Cpu, NEW recs, Observed(c, recs)
  PROVE  CountInv'
<1>1. SUFFICES ASSUME OneAtATime PROVE OneInFlight' /\ FreeTold' /\ StatesTold'
  <2>1. OneAtATime' <=> OneAtATime
    BY DEF Observed, Rest, OneAtATime, Cpu
  <2> QED BY <2>1 DEF CountInv
<1>2. OneInFlight /\ FreeTold /\ StatesTold
  BY <1>1 DEF CountInv
<1>3. /\ Lone
      /\ \A d \in Cpu : doing[d] \in Seq(Job) /\ (doing[d] = << >> \/ Len(doing[d]) = 1)
      /\ \A d \in Cpu : Len(doing[d]) < kernel.depth => doing[d] = << >>
  BY <1>1, <1>2, OneFacts
<1>4. /\ \A d \in Cpu : d = c /\ pend[d] = {} /\ pend'[d] = recs
      /\ clock \in Nat /\ clock' = clock + 1 /\ Cpu' = Cpu /\ kernel' = kernel
      /\ Known \subseteq Known' /\ \A r \in recs : r.stream \in Merged => r \in Known'
      /\ \A r \in Known : r.insn \in 1 .. clock
      /\ \A r \in Known' : r \in Known \/ (r \in recs /\ r.stream \in Merged)
      /\ \A r \in recs : r.insn = clock + 1 /\ r.who = Who(c)
  BY <1>3, LoneHit
<1>5. StatesTold'
  BY <1>2, <1>3, HitTold
<1>6. doing \in [Cpu -> Seq(Job)] /\ free' = free
  BY DEF TypeOK, Observed, Counted
\* Without a count among the records the last one is an older one.
<1>7. ASSUME \A r \in recs : ~IsCount(r), NEW k \in Known', LastCount(k, clock + 1)'
      PROVE  LastCount(k, clock + 1)
  <2>1. clock' + 1 = clock + 2
    BY <1>4
  <2>2. IsCount(k) /\ \A q \in Known' : IsCount(q) /\ q.insn < clock + 2 => q.insn <= k.insn
    BY <1>7, <2>1 DEF LastCount, IsCount
  <2>3. k \in Known
    BY <1>4, <1>7, <2>2
  <2>4. k.insn < clock + 1 /\ \A q \in Known : q.insn < clock + 2 /\ q \in Known'
    BY <1>4, <2>3
  <2> QED BY <2>2, <2>3, <2>4 DEF LastCount
<1>8. CASE doing' = doing /\ \A r \in recs : ~IsCount(r)
  <2>1. OneInFlight'
    BY <1>2, <1>4, <1>8 DEF OneInFlight
  <2>2. \A d \in Cpu : (Uncounted(d)' <=> Uncounted(d)) /\ Top(d)' = Top(d)
    BY <1>8 DEF Uncounted, Top
  <2>3. FreeTold'
    <3>1. \A k \in Known' : LastCount(k, clock + 1)' => LastCount(k, clock + 1) /\ k \in Known
      BY <1>7, <1>8 DEF LastCount
    <3> QED BY <1>2, <1>4, <1>6, <2>2, <3>1 DEF FreeTold
  <2> QED BY <1>5, <2>1, <2>3
<1>9. ASSUME Len(doing[c]) < kernel.depth, \A r \in recs : ~IsCount(r), NEW job \in Job, ~job.done,
             job.kind \in kernel.ops, doing' = [doing EXCEPT ![c] = Append(doing[c], job)]
      PROVE  OneInFlight' /\ FreeTold' /\ StatesTold'
  <2>1. doing[c] = << >>
    BY <1>3, <1>9
  <2>2. doing'[c] = <<job>>
    BY <1>6, <1>9, <2>1
  <2>3. Len(<<job>>) = 1 /\ DOMAIN <<job>> = {1} /\ <<job>>[1] = job /\ <<job>> # << >>
    OBVIOUS
  <2>4. OneInFlight'
    <3>1. \A d \in Cpu' : doing'[d] = <<job>>
      BY <1>4, <2>2
    <3>2. job.kind \in kernel'.ops
      BY <1>4, <1>9
    <3>3. \A d \in Cpu' : Len(doing'[d]) <= 1
      <4>1. Len(<<job>>) <= 1
        OBVIOUS
      <4> QED BY <3>1, <4>1, Zenon
    <3>4. \A d \in Cpu' : \A i \in DOMAIN doing'[d] : doing'[d][i].kind \in kernel'.ops
      BY <2>3, <3>1, <3>2
    <3> QED BY <3>3, <3>4 DEF OneInFlight
  <2>5. ~Uncounted(c)' /\ ~Uncounted(c)
    BY <1>9, <2>1, <2>2, <2>3 DEF Uncounted, Top
  <2>6. FreeTold'
    <3>1. \A k \in Known' : LastCount(k, clock + 1)' => LastCount(k, clock + 1) /\ k \in Known
      BY <1>7, <1>9 DEF LastCount
    <3> QED BY <1>2, <1>4, <1>6, <2>5, <3>1 DEF FreeTold
  <2> QED BY <1>5, <2>4, <2>6
<1>10. ASSUME doing[c] # << >>, Top(c).done, Return(c), NEW r, recs = {r}, r.stream = "nftrace",
              r.kind = Top(c).kind, r.data = Top(c).count
       PROVE  OneInFlight' /\ FreeTold' /\ StatesTold'
  <2>1. Len(doing[c]) = 1
    BY <1>3, <1>10
  <2>2. Front(doing[c]) = << >>
    BY <1>3, <2>1 DEF Front
  <2>3. doing'[c] = << >>
    BY <1>6, <1>10, <2>2 DEF Return
  <2>4. OneInFlight'
    <3>1. Len(<< >>) = 0 /\ DOMAIN << >> = {}
      OBVIOUS
    <3> QED BY <1>4, <2>3, <3>1 DEF OneInFlight
  <2>5. ~Uncounted(c)'
    BY <2>3 DEF Uncounted
  <2>6. CASE IsCount(r)
    <3>1. r.data = free
      BY <1>2, <1>10, <2>6 DEF Uncounted, IsCount, FreeTold
    <3>2. ASSUME NEW k \in Known', LastCount(k, clock + 1)'
          PROVE  k.data = free
      <4>1. clock' + 1 = clock + 2 /\ r \in Known' /\ r.insn = clock + 1
        BY <1>4, <1>10 DEF Merged
      <4>2. \A q \in Known' : IsCount(q) /\ q.insn < clock + 2 => q.insn <= k.insn
        BY <3>2, <4>1 DEF LastCount, IsCount
      <4>3. clock + 1 <= k.insn
        BY <1>4, <2>6, <4>1, <4>2
      <4>4. k = r
        BY <1>4, <1>10, <4>3
      <4> QED BY <3>1, <4>4
    <3>3. FreeTold'
      BY <1>4, <1>6, <2>5, <3>2 DEF FreeTold
    <3> QED BY <1>5, <2>4, <3>3
  <2>7. CASE ~IsCount(r)
    <3>1. ~Uncounted(c)
      BY <1>10, <2>7 DEF Uncounted, IsCount
    <3>2. \A k \in Known' : LastCount(k, clock + 1)' => LastCount(k, clock + 1) /\ k \in Known
      BY <1>7, <1>10, <2>7 DEF LastCount
    <3>3. FreeTold'
      BY <1>2, <1>4, <1>6, <2>5, <3>1, <3>2 DEF FreeTold
    <3> QED BY <1>5, <2>4, <3>3
  <2> QED BY <2>6, <2>7
<1> QED BY <1>8, <1>9, <1>10 DEF Observed, Counted

\* The snapshot that a record leaves in the file.
Taken(r) == [insn |-> r.insn, procs |-> table, free |-> free, flight |-> InFlight]

\* The snapshots after a vCPU has written: at most one more, of this moment.
LEMMA WriteSnap ==
  ASSUME TypeOK, PendInv, States \in Seq(State), NEW c \in Cpu, Write(c)
  PROVE  /\ States' \in Seq(State)
         /\ \A i \in DOMAIN States : i \in DOMAIN States' /\ States'[i] = States[i]
         /\ \A i \in DOMAIN States' :
              \/ i \in DOMAIN States /\ States'[i] = States[i]
              \/ /\ i = Len(States) + 1
                 /\ \E r \in pend[c] : r.stream = "snap" /\ States'[i] = Taken(r)
         /\ \A r \in pend[c] : r.stream = "snap" => \E i \in DOMAIN States' : States'[i].insn = r.insn
<1>1. States' = States \o Of(pend[c], "snap")
  <2>1. PICK lost \in IF kernel.unreadable THEN BOOLEAN ELSE {FALSE} :
          file' = [s \in DOMAIN file |->
                     IF lost /\ s = "nftrace" THEN file[s] ELSE file[s] \o Of(pend[c], s)]
    BY DEF Write
  <2>2. "snap" \in DOMAIN file
    BY DEF TypeOK
  <2> QED BY <2>1, <2>2 DEF States
<1>2. Len(States) \in Nat /\ DOMAIN States = 1 .. Len(States)
  OBVIOUS
<1>3. CASE \A r \in pend[c] : r.stream # "snap"
  <2>1. Of(pend[c], "snap") = << >>
    BY <1>3 DEF Of
  <2>2. States' = States
    BY <1>1, <2>1
  <2> QED BY <1>3, <2>2
<1>4. CASE \E r \in pend[c] : r.stream = "snap"
  <2> DEFINE own == {q \in pend[c] : q.stream = "snap"}
  <2>1. PICK r : r \in own /\ r = CHOOSE q \in own : TRUE
    BY <1>4
  <2>2. own # {}
    BY <1>4
  <2>3. Of(pend[c], "snap") = <<Taken(r)>>
    BY <2>1, <2>2 DEF Of, Stored, Taken
  <2>4. r \in pend[c] /\ r.stream = "snap" /\ r \in Rec
    BY <2>1 DEF TypeOK
  <2> HIDE DEF own
  <2>5. Taken(r) \in State
    <3>1. InFlight \subseteq Operations
      <4>1. ASSUME NEW d \in Cpu, NEW i \in DOMAIN doing[d]
            PROVE  doing[d][i].kind \in Operations
        <5>1. doing[d] \in Seq(Job)
          BY DEF TypeOK
        <5>2. doing[d][i] \in Job
          BY <5>1
        <5> QED BY <5>2 DEF Job
      <4> QED BY <4>1 DEF InFlight
    <3>2. table \in [Slot -> Nat] /\ free \in Nat /\ r.insn \in Nat
      BY <2>4 DEF TypeOK, Rec
    <3> QED BY <3>1, <3>2 DEF Taken, State
  <2>6. States' = Append(States, Taken(r))
    <3>1. \A e \in State : States \o <<e>> = Append(States, e)
      OBVIOUS
    <3> QED BY <1>1, <2>3, <2>5, <3>1
  <2> DEFINE n == Len(States) + 1
  <2>7. /\ States' \in Seq(State) /\ DOMAIN States' = 1 .. n /\ States'[n] = Taken(r)
        /\ \A i \in DOMAIN States : i \in DOMAIN States' /\ States'[i] = States[i]
    BY <1>2, <2>5, <2>6
  <2>8. \A i \in DOMAIN States' : i \in DOMAIN States \/ i = n
    BY <1>2, <2>7
  <2>9. n \in DOMAIN States' /\ States'[n].insn = r.insn
    BY <1>2, <2>7 DEF Taken
  <2>10. \A q \in pend[c] : q.insn = r.insn
    BY <2>4 DEF PendInv
  <2> HIDE DEF n
  <2>11. \A i \in DOMAIN States' :
              \/ i \in DOMAIN States /\ States'[i] = States[i]
              \/ /\ i = n
                 /\ \E q \in pend[c] : q.stream = "snap" /\ States'[i] = Taken(q)
    BY <2>4, <2>7, <2>8
  <2>12. \A q \in pend[c] : q.stream = "snap" => \E i \in DOMAIN States' : States'[i].insn = q.insn
    BY <2>9, <2>10
  <2> QED BY <2>7, <2>11, <2>12 DEF n
<1> QED BY <1>3, <1>4

\* What a lone vCPU waits to write is the newest.
LEMMA Newest ==
  ASSUME TypeOK, FileInv, Lone, NEW c \in Cpu, NEW q \in pend[c], NEW r \in Known
  PROVE  /\ r.insn <= q.insn /\ q.insn \in 1 .. clock
         /\ r.insn = q.insn => r \in pend[c] /\ r.stream \in Merged
<1>1. r.cpu = c /\ r.insn \in Nat /\ q.insn \in 1 .. clock /\ q.insn \in Nat
  BY DEF FileInv, RecordsInv, Sound, PendInv, Rec, Lone, TypeOK
<1>2. CASE \E s \in Merged : \E i \in DOMAIN file[s] : r = file[s][i]
  <2>1. r.insn < q.insn
    BY <1>1, <1>2 DEF FileInv, PendInv
  <2> QED BY <1>1, <2>1
<1>3. CASE r.stream \in Merged /\ \E d \in Cpu : r \in pend[d]
  <2>1. r \in pend[c]
    BY <1>3 DEF Lone
  <2>2. r.insn = q.insn
    BY <2>1 DEF FileInv, PendInv
  <2> QED BY <1>1, <1>3, <2>1, <2>2
<1> QED BY <1>2, <1>3, KnownFacts

\* Writing keeps the snapshots in order.
LEMMA WriteStates ==
  ASSUME TypeOK, FileInv, StatesInv, NEW c \in Cpu, Write(c)
  PROVE  StatesInv'
<1>1. Cpu' = Cpu /\ clock' = clock /\ pend' = [pend EXCEPT ![c] = {}] /\ clock \in Nat
  BY DEF Write, Cpu, TypeOK
<1>2. /\ States' \in Seq(State)
      /\ \A i \in DOMAIN States' :
           \/ i \in DOMAIN States /\ States'[i] = States[i]
           \/ /\ i = Len(States) + 1
              /\ \E r \in pend[c] : r.stream = "snap" /\ States'[i] = Taken(r)
  BY WriteSnap DEF StatesInv, FileInv
<1>3. ASSUME NEW i \in DOMAIN States', i = Len(States) + 1,
             NEW r \in pend[c], States'[i] = Taken(r)
      PROVE  /\ States'[i].insn = r.insn /\ r.insn \in 1 .. clock
             /\ Lone => \A j \in DOMAIN States : States[j].insn < r.insn
  BY <1>3 DEF Taken, FileInv, PendInv, StatesInv
<1>4. \A i \in DOMAIN States' : States'[i].insn \in 1 .. clock'
  BY <1>1, <1>2, <1>3 DEF StatesInv
<1>5. ASSUME Lone, NEW i \in DOMAIN States', NEW j \in DOMAIN States', i < j
      PROVE  States'[i].insn < States'[j].insn
  <2>1. Len(States) \in Nat /\ DOMAIN States = 1 .. Len(States) /\ j \in Nat /\ i \in Nat
    BY <1>2, StatesFacts DEF StatesInv
  <2>2. i \in DOMAIN States /\ States'[i] = States[i]
    BY <1>2, <1>5, <2>1
  <2>3. CASE j \in DOMAIN States /\ States'[j] = States[j]
    BY <1>5, <2>2, <2>3 DEF StatesInv
  <2>4. ASSUME j = Len(States) + 1, NEW r \in pend[c], States'[j] = Taken(r)
        PROVE  States'[i].insn < States'[j].insn
    BY <1>3, <1>5, <2>2, <2>4
  <2> QED BY <1>2, <2>3, <2>4
<1>6. Lone => \A d \in Cpu : pend'[d] = {}
  BY <1>1 DEF Lone, TypeOK
<1>7. Lone' <=> Lone
  BY <1>1 DEF Lone
<1> QED BY <1>1, <1>2, <1>4, <1>5, <1>6, <1>7 DEF StatesInv

\* Writing keeps what the rows tell: a snapshot of another moment than the scheduler's
\* entry comes with no record.
LEMMA WriteFrame ==
  ASSUME TypeOK, FileInv, RowsInUse, Nothing, StatesInv, FrameInv, NEW c \in Cpu, Write(c)
  PROVE  FrameInv'
<1>1. SUFFICES ASSUME Framing
               PROVE  /\ EntriesFramed' /\ FramesAlone' /\ RowRuns' /\ RowTold'
                      /\ SeatInv' /\ FramedInv'
  <2>1. Framing' <=> Framing
    BY DEF Write, Framing, Lone, Cpu, Channel
  <2> QED BY <2>1 DEF FrameInv
<1>2. Lone /\ EntriesFramed /\ FramesAlone /\ RowRuns /\ RowTold /\ SeatInv
  BY <1>1 DEF FrameInv, Framing
<1>3. /\ UNCHANGED <<kernel, clock, table, current, at, semantic, events>>
      /\ phase = "recording" /\ Cpu' = Cpu /\ clock \in Nat
      /\ \A d \in Cpu : d = c /\ pend'[d] = {}
  BY <1>2 DEF Write, guest, analysis, Cpu, TypeOK, Lone
<1>4. Known' \subseteq Known /\ \A q \in Known : Entered(q) => q \in Known'
  BY WriteKnown DEF FileInv, Entered
<1>5. /\ \A i \in DOMAIN States : i \in DOMAIN States' /\ States'[i] = States[i]
      /\ \A i \in DOMAIN States' :
           \/ i \in DOMAIN States /\ States'[i] = States[i]
           \/ \E r \in pend[c] : r.stream = "snap" /\ States'[i] = Taken(r)
      /\ \A r \in pend[c] : r.stream = "snap" => \E i \in DOMAIN States' : States'[i].insn = r.insn
  BY WriteSnap DEF StatesInv, FileInv
<1>6. ASSUME NEW k \in Known, NEW n, LastEntry(k, n)' PROVE LastEntry(k, n)
  BY <1>4, <1>6 DEF LastEntry, Entered
<1>7. ASSUME NEW k \in Known, Entered(k), NEW q \in pend[c], k.insn = q.insn
      PROVE  LastEntry(k, clock + 1)
  <2>1. \A p \in Known : p.insn <= k.insn
    BY <1>2, <1>7, Newest
  <2>2. k.insn < clock + 1
    BY <1>2, <1>3, <1>7, Newest
  <2> QED BY <1>7, <2>1, <2>2 DEF LastEntry
<1>8. ASSUME NEW k \in Known, Entered(k)
      PROVE  /\ k.data.to \in Rows
             /\ \E i \in DOMAIN States' : States'[i].insn = k.insn
             /\ k.data.to # NoSlot =>
                  \A i \in DOMAIN States' : States'[i].insn = k.insn
                    => States'[i].procs[k.data.to] # NoPid
  <2>1. k.data.to \in Rows
    BY <1>2, <1>8 DEF EntriesFramed
  <2>2. \E i \in DOMAIN States' : States'[i].insn = k.insn
    <3>1. CASE \E i \in DOMAIN States : States[i].insn = k.insn
      BY <1>5, <3>1
    <3>2. ASSUME NEW d \in Cpu, k \in pend[d], NEW q \in pend[d], q.stream = "snap"
          PROVE  \E i \in DOMAIN States' : States'[i].insn = k.insn
      <4>1. q \in pend[c] /\ q.insn = k.insn
        BY <1>3, <3>2 DEF FileInv, PendInv
      <4> QED BY <1>5, <3>2, <4>1
    <3> QED BY <1>2, <1>8, <3>1, <3>2 DEF EntriesFramed
  <2>3. ASSUME k.data.to # NoSlot, NEW i \in DOMAIN States', States'[i].insn = k.insn
        PROVE  States'[i].procs[k.data.to] # NoPid
    <3>1. CASE i \in DOMAIN States /\ States'[i] = States[i]
      BY <1>2, <1>8, <2>3, <3>1 DEF EntriesFramed
    <3>2. ASSUME NEW q \in pend[c], States'[i] = Taken(q)
          PROVE  States'[i].procs[k.data.to] # NoPid
      <4>1. k.insn = q.insn /\ States'[i].procs = table
        BY <2>3, <3>2 DEF Taken
      <4>2. current[c] = k.data.to
        BY <1>2, <1>7, <1>8, <4>1 DEF RowRuns
      <4> QED BY <2>3, <4>1, <4>2 DEF RowsInUse
    <3> QED BY <1>5, <3>1, <3>2
  <2> QED BY <2>1, <2>2, <2>3
<1>9. EntriesFramed'
  BY <1>4, <1>8 DEF EntriesFramed, Entered
<1>10. FramesAlone'
  BY <1>3 DEF FramesAlone
<1>11. RowRuns'
  <2>1. ASSUME NEW k \in Known, LastEntry(k, clock + 1)'
        PROVE  /\ \A d \in Cpu : current[d] = k.data.to
               /\ k.data.to # NoSlot =>
                    \A i \in DOMAIN States' : k.insn <= States'[i].insn
                      => States'[i].procs[k.data.to] = table[k.data.to]
    <3>1. LastEntry(k, clock + 1)
      <4>1. PICK n : n = clock + 1 /\ n = clock' + 1
        BY <1>3
      <4>2. LastEntry(k, n)'
        BY <2>1, <4>1 DEF LastEntry
      <4> QED BY <1>6, <4>1, <4>2
    <3>2. /\ \A d \in Cpu : current[d] = k.data.to
          /\ k.data.to # NoSlot =>
               \A i \in DOMAIN States : k.insn <= States[i].insn
                 => States[i].procs[k.data.to] = table[k.data.to]
      BY <1>2, <3>1 DEF RowRuns
    <3>3. \A q \in pend[c] : Taken(q).procs = table
      BY DEF Taken
    <3> QED BY <1>5, <3>2, <3>3
  <2> QED BY <1>3, <1>4, <2>1 DEF RowRuns
<1>12. ASSUME NEW r \in Known, NEW k \in Known, r.kind # "switch", LastEntry(k, r.insn)'
       PROVE  IF k.data.to = NoSlot THEN r.who = NoPid
              ELSE /\ r.who # NoPid
                   /\ \A i \in DOMAIN States' : k.insn <= States'[i].insn /\ States'[i].insn <= r.insn
                        => States'[i].procs[k.data.to] = r.who
  <2>1. LastEntry(k, r.insn)
    BY <1>6, <1>12
  <2>2. IF k.data.to = NoSlot THEN r.who = NoPid
        ELSE /\ r.who # NoPid
             /\ \A i \in DOMAIN States : k.insn <= States[i].insn /\ States[i].insn <= r.insn
                  => States[i].procs[k.data.to] = r.who
    BY <1>2, <1>12, <2>1 DEF RowTold
  <2>3. ASSUME NEW q \in pend[c], q.stream = "snap"
        PROVE  ~(Taken(q).insn <= r.insn)
    <3>1. r.insn <= q.insn /\ (r.insn = q.insn => r \in pend[c] /\ r.stream \in Merged)
      BY <1>2, Newest
    <3>2. r.insn # q.insn
      BY <1>2, <1>12, <2>3, <3>1 DEF FramesAlone
    <3>3. r.insn \in Nat /\ q.insn \in Nat
      BY DEF FileInv, RecordsInv, Sound, PendInv, Rec, TypeOK
    <3>4. Taken(q).insn = q.insn
      BY DEF Taken
    <3> QED BY <3>1, <3>2, <3>3, <3>4
  <2> QED BY <1>5, <2>2, <2>3
<1>13. RowTold'
  BY <1>4, <1>12 DEF RowTold
<1>14. SeatInv' /\ FramedInv'
  BY <1>2, <1>3, SeatYet
<1> QED BY <1>9, <1>10, <1>11, <1>13, <1>14

\* Writing keeps what the counts tell.
LEMMA WriteCount ==
  ASSUME TypeOK, FileInv, StatesInv, CountInv, NEW c \in Cpu, Write(c)
  PROVE  CountInv'
<1>1. SUFFICES ASSUME OneAtATime PROVE OneInFlight' /\ FreeTold' /\ StatesTold'
  <2>1. OneAtATime' <=> OneAtATime
    BY DEF Write, OneAtATime, Cpu
  <2> QED BY <2>1 DEF CountInv
<1>2. OneInFlight /\ FreeTold /\ StatesTold /\ Lone
  BY <1>1, OneFacts DEF CountInv
<1>3. UNCHANGED <<kernel, clock, doing, free>> /\ Cpu' = Cpu /\ clock \in Nat
  BY DEF Write, guest, Cpu, TypeOK
<1>4. Known' = Known
  BY <1>1, WriteKnown DEF OneAtATime, FileInv
<1>5. OneInFlight'
  BY <1>2, <1>3 DEF OneInFlight
<1>6. FreeTold'
  BY <1>2, <1>3, <1>4 DEF FreeTold, Uncounted, Top, LastCount
<1>7. \A i \in DOMAIN States' :
           \/ i \in DOMAIN States /\ States'[i] = States[i]
           \/ \E r \in pend[c] : r.stream = "snap" /\ States'[i] = Taken(r)
  BY WriteSnap DEF StatesInv, FileInv
<1>8. ASSUME NEW i \in DOMAIN States', States'[i].flight = {}, NEW k \in Known,
             LastCount(k, States'[i].insn + 1)
      PROVE  k.data = States'[i].free
  <2>1. CASE i \in DOMAIN States /\ States'[i] = States[i]
    BY <1>2, <1>8, <2>1 DEF StatesTold
  <2>2. ASSUME NEW q \in pend[c], States'[i] = Taken(q)
        PROVE  k.data = States'[i].free
    <3>1. InFlight = {} /\ States'[i].free = free /\ States'[i].insn = q.insn
      BY <1>8, <2>2 DEF Taken
    <3>2. \A x \in DOMAIN doing[c] : doing[c][x].kind \in InFlight
      BY DEF InFlight
    <3>3. doing[c] = << >>
      <4>1. doing[c] \in Seq(Job) /\ 1 \notin DOMAIN doing[c]
        BY <3>1, <3>2 DEF TypeOK
      <4>2. Len(doing[c]) \in Nat /\ ~(Len(doing[c]) >= 1)
        BY <4>1
      <4>3. Len(doing[c]) = 0
        BY <4>2
      <4> QED BY <4>1, <4>3
    <3>4. ~Uncounted(c)
      BY <3>3 DEF Uncounted
    <3>5. \A r \in Known : r.insn <= q.insn /\ q.insn \in 1 .. clock /\ r.insn \in Nat
      BY <1>2, Newest DEF FileInv, RecordsInv, Sound, Rec
    <3>6. LastCount(k, clock + 1)
      <4>1. \A r \in Known : r.insn < q.insn + 1 /\ r.insn < clock + 1
        BY <1>3, <3>5
      <4> QED BY <1>8, <3>1, <4>1 DEF LastCount
    <3> QED BY <1>2, <3>1, <3>4, <3>6 DEF FreeTold
  <2> QED BY <1>7, <2>1, <2>2
<1>9. StatesTold'
  BY <1>4, <1>8 DEF StatesTold, LastCount
<1> QED BY <1>5, <1>6, <1>9

\* Steps that latch and write nothing.
LEMMA IdleStates ==
  ASSUME UNCHANGED <<kernel, clock, pend, file>>
  PROVE  /\ Known' = Known /\ Cpu' = Cpu /\ States' = States
         /\ StatesInv => StatesInv'
BY DEF Cpu, Known, Filed, Waiting, Range1, States, StatesInv, Lone

\* They keep what the rows tell as long as no running task loses its row.
LEMMA IdleRows ==
  ASSUME UNCHANGED <<kernel, clock, pend, file, current>>, kernel \in Kernels,
         \A c \in Cpu : current[c] # NoSlot => table'[current[c]] = table[current[c]],
         EntriesFramed /\ FramesAlone /\ RowRuns /\ RowTold
  PROVE  EntriesFramed' /\ FramesAlone' /\ RowRuns' /\ RowTold'
<1>1. Known' = Known /\ Cpu' = Cpu /\ States' = States /\ Cpu # {}
  BY IdleStates, KernelFacts
<1>2. EntriesFramed' /\ FramesAlone'
  BY <1>1 DEF EntriesFramed, FramesAlone
<1>3. RowTold'
  BY <1>1 DEF RowTold, LastEntry
<1>4. ASSUME NEW k \in Known, LastEntry(k, clock + 1)
      PROVE  /\ \A c \in Cpu : current[c] = k.data.to
             /\ k.data.to # NoSlot =>
                  \A i \in DOMAIN States : k.insn <= States[i].insn
                    => States[i].procs[k.data.to] = table'[k.data.to]
  <2>1. /\ \A c \in Cpu : current[c] = k.data.to
        /\ k.data.to # NoSlot =>
             \A i \in DOMAIN States : k.insn <= States[i].insn
               => States[i].procs[k.data.to] = table[k.data.to]
    BY <1>4 DEF RowRuns
  <2>2. k.data.to # NoSlot => table'[k.data.to] = table[k.data.to]
    BY <1>1, <2>1
  <2> QED BY <2>1, <2>2
<1>5. RowRuns'
  BY <1>1, <1>4 DEF RowRuns, LastEntry
<1> QED BY <1>2, <1>3, <1>5

\* A step before the merge that latches and writes nothing.
LEMMA IdleFrame ==
  ASSUME TypeOK, Nothing, phase = "recording", FrameInv,
         UNCHANGED <<kernel, clock, pend, file, current, at, semantic, events>>,
         \A c \in Cpu : current[c] # NoSlot => table'[current[c]] = table[current[c]]
  PROVE  FrameInv'
<1>1. Framing' <=> Framing
  BY DEF Framing, Lone, Cpu, Channel
<1>2. ASSUME Framing
      PROVE  EntriesFramed' /\ FramesAlone' /\ RowRuns' /\ RowTold'
  BY <1>2, IdleRows DEF FrameInv, TypeOK
<1>3. Framing => SeatInv' /\ FramedInv'
  BY SeatYet DEF FrameInv
<1> QED BY <1>1, <1>2, <1>3 DEF FrameInv

\* A step that counts nothing.
LEMMA IdleCount ==
  ASSUME CountInv, UNCHANGED <<kernel, clock, pend, file, free>>,
         \/ doing' = doing
         \/ OneAtATime => /\ OneInFlight'
                          /\ \A c \in Cpu : ~Uncounted(c) /\ ~Uncounted(c)'
  PROVE  CountInv'
<1>1. SUFFICES ASSUME OneAtATime PROVE OneInFlight' /\ FreeTold' /\ StatesTold'
  <2>1. OneAtATime' <=> OneAtATime
    BY DEF OneAtATime, Cpu
  <2> QED BY <2>1 DEF CountInv
<1>2. OneInFlight /\ FreeTold /\ StatesTold
  BY <1>1 DEF CountInv
<1>3. Known' = Known /\ Cpu' = Cpu /\ States' = States
  BY IdleStates
<1>4. StatesTold'
  BY <1>2, <1>3 DEF StatesTold, LastCount
<1>5. CASE doing' = doing
  BY <1>2, <1>3, <1>4, <1>5 DEF OneInFlight, FreeTold, Uncounted, Top, LastCount
<1>6. CASE OneInFlight' /\ \A c \in Cpu : ~Uncounted(c) /\ ~Uncounted(c)'
  <2>1. FreeTold'
    BY <1>2, <1>3, <1>6 DEF FreeTold, LastCount
  <2> QED BY <1>4, <1>6, <2>1
<1> QED BY <1>1, <1>5, <1>6

---------------------------------------------------------------------------
(* The steps of the guest.                                                  *)

\* The snapshots, the rows and the counts.
SInv == StatesInv /\ FrameInv /\ CountInv

\* A hit.
LEMMA ObservedKeeps ==
  ASSUME IInv, SInv, NEW c \in Cpu, NEW recs, Observed(c, recs)
  PROVE  SInv'
BY HitStates, HitFrame, HitCount DEF IInv, SInv, TaskInv, MergeInv, RunningInv

\* The operation of a lone vCPU that goes on with it.
LEMMA LoneJob ==
  ASSUME TypeOK, CountInv, OneAtATime, NEW c \in Cpu, doing[c] # << >>
  PROVE  /\ \A d \in Cpu : d = c
         /\ Len(doing[c]) = 1 /\ DOMAIN doing[c] = {1} /\ Top(c) = doing[c][1]
         /\ doing[c][1] \in Job /\ doing[c][1].kind \in kernel.ops
         /\ Return(c) => doing'[c] = << >>
<1>1. /\ Lone /\ doing[c] \in Seq(Job) /\ Len(doing[c]) = 1 /\ OneInFlight
  BY OneFacts DEF CountInv
<1>2. DOMAIN doing[c] = {1} /\ doing[c][1] \in Job
  <2>1. DOMAIN doing[c] = 1 .. 1
    BY <1>1
  <2>2. 1 .. 1 = {1}
    OBVIOUS
  <2> QED BY <1>1, <2>1, <2>2
<1>3. Front(doing[c]) = << >>
  BY <1>1 DEF Front
<1>4. Return(c) => doing'[c] = << >>
  BY <1>3 DEF Return, TypeOK
<1> QED BY <1>1, <1>2, <1>4 DEF Lone, Top, OneInFlight

\* The critical section: its count is the pages it leaves.
LEMMA ApplyTold == ASSUME IInv, SInv, NEW c \in Cpu, Apply(c) PROVE SInv'
<1>1. /\ UNCHANGED <<kernel, clock, pend, file, current, at, semantic, events>> /\ table' = table
      /\ phase = "recording" /\ doing[c] # << >> /\ ~Top(c).done /\ Top(c).kind \in {"alloc", "free"}
      /\ doing' = [doing EXCEPT ![c][Len(doing[c])] = [@ EXCEPT !.done = TRUE, !.count = free']]
  BY DEF Apply, InGuest, analysis
<1>2. TypeOK /\ Nothing /\ FrameInv /\ StatesInv /\ CountInv
  BY DEF IInv, MergeInv, SInv
<1>3. StatesInv' /\ FrameInv'
  BY <1>1, <1>2, IdleStates, IdleFrame
<1>4. ASSUME OneAtATime
      PROVE  OneInFlight' /\ FreeTold' /\ StatesTold'
  <2>1. /\ \A d \in Cpu : d = c
        /\ Len(doing[c]) = 1 /\ DOMAIN doing[c] = {1} /\ Top(c) = doing[c][1]
        /\ doing[c][1] \in Job /\ doing[c][1].kind \in kernel.ops
    BY <1>1, <1>2, <1>4, LoneJob
  <2>2. Known' = Known /\ Cpu' = Cpu /\ States' = States
    BY <1>1, IdleStates
  <2>3. doing'[c] = [doing[c] EXCEPT ![1] = [@ EXCEPT !.done = TRUE, !.count = free']]
    BY <1>1, <1>2, <2>1 DEF TypeOK
  <2> DEFINE job == [doing[c][1] EXCEPT !.done = TRUE, !.count = free']
  <2>4. job.kind = doing[c][1].kind /\ job.done /\ job.count = free'
    BY <2>1 DEF Job
  <2>5. doing[c] \in Seq(Job)
    BY <1>2 DEF TypeOK
  <2>6. doing'[c] = [doing[c] EXCEPT ![1] = job]
    BY <2>3
  <2> HIDE DEF job
  <2>7. Len(doing'[c]) = 1 /\ DOMAIN doing'[c] = {1} /\ doing'[c][1] = job
    BY <2>1, <2>5, <2>6
  <2>8. OneInFlight'
    <3>1. Len(doing'[c]) <= 1
      BY <2>7
    <3> QED BY <1>1, <2>1, <2>2, <2>4, <2>7, <3>1 DEF OneInFlight
  <2>9. doing'[c] # << >> /\ Top(c)' = job
    BY <2>7 DEF Top
  <2>10. Uncounted(c)'
    BY <1>1, <2>1, <2>4, <2>9 DEF Uncounted
  <2>11. FreeTold'
    BY <2>1, <2>2, <2>4, <2>9, <2>10 DEF FreeTold
  <2>12. StatesTold'
    BY <1>2, <1>4, <2>2 DEF StatesTold, LastCount, CountInv
  <2> QED BY <2>8, <2>11, <2>12
<1>5. OneAtATime' <=> OneAtATime
  BY <1>1 DEF OneAtATime, Cpu
<1> QED BY <1>3, <1>4, <1>5 DEF SInv, CountInv

\* A child is born in a row that nothing runs in.
LEMMA SpawnTold == ASSUME IInv, SInv, NEW c \in Cpu, NEW s \in Slot, Spawn(c, s) PROVE SInv'
<1>1. /\ UNCHANGED <<kernel, clock, pend, file, current, free, at, semantic, events>>
      /\ phase = "recording" /\ doing[c] # << >> /\ ~Top(c).done /\ Top(c).kind = "fork"
      /\ table[s] = NoPid /\ table' = [table EXCEPT ![s] = nextPid]
      /\ doing' = [doing EXCEPT ![c][Len(doing[c])] = [@ EXCEPT !.done = TRUE, !.count = nextPid]]
  BY DEF Spawn, InGuest, analysis
<1>2. TypeOK /\ Nothing /\ FrameInv /\ StatesInv /\ CountInv /\ RowsInUse
  BY DEF IInv, MergeInv, SInv, TaskInv, RunningInv
<1>3. \A d \in Cpu : current[d] # NoSlot => table'[current[d]] = table[current[d]]
  BY <1>1, <1>2 DEF RowsInUse, TypeOK
<1>4. StatesInv' /\ FrameInv'
  BY <1>1, <1>2, <1>3, IdleStates, IdleFrame
<1>5. ASSUME OneAtATime
      PROVE  OneInFlight' /\ \A d \in Cpu : ~Uncounted(d) /\ ~Uncounted(d)'
  <2>1. /\ \A d \in Cpu : d = c
        /\ Len(doing[c]) = 1 /\ DOMAIN doing[c] = {1} /\ Top(c) = doing[c][1]
        /\ doing[c][1] \in Job /\ doing[c][1].kind \in kernel.ops
    BY <1>1, <1>2, <1>5, LoneJob
  <2>2. doing'[c] = [doing[c] EXCEPT ![1] = [@ EXCEPT !.done = TRUE, !.count = nextPid]]
    BY <1>1, <1>2, <2>1 DEF TypeOK
  <2> DEFINE job == [doing[c][1] EXCEPT !.done = TRUE, !.count = nextPid]
  <2>3. job.kind = doing[c][1].kind
    BY <2>1 DEF Job
  <2>4. doing[c] \in Seq(Job)
    BY <1>2 DEF TypeOK
  <2>5. doing'[c] = [doing[c] EXCEPT ![1] = job]
    BY <2>2
  <2> HIDE DEF job
  <2>6. Len(doing'[c]) = 1 /\ DOMAIN doing'[c] = {1} /\ doing'[c][1] = job
    BY <2>1, <2>4, <2>5
  <2>7. OneInFlight'
    <3>1. Len(doing'[c]) <= 1
      BY <2>6
    <3>2. Cpu' = Cpu
      BY <1>1 DEF Cpu
    <3> QED BY <1>1, <2>1, <2>3, <2>6, <3>1, <3>2 DEF OneInFlight
  <2>8. Top(c)' = job
    BY <2>6 DEF Top
  <2> QED BY <1>1, <2>1, <2>3, <2>7, <2>8 DEF Uncounted
<1> QED BY <1>1, <1>2, <1>4, <1>5, IdleCount DEF SInv

\* A lone operation returns and was not one that counts.
LEMMA ReturnTold ==
  ASSUME TypeOK, CountInv, NEW c \in Cpu, doing[c] # << >>, Return(c), ~Uncounted(c),
         kernel' = kernel
  PROVE  OneAtATime => OneInFlight' /\ \A d \in Cpu : ~Uncounted(d) /\ ~Uncounted(d)'
<1>1. SUFFICES ASSUME OneAtATime
               PROVE  OneInFlight' /\ \A d \in Cpu : ~Uncounted(d) /\ ~Uncounted(d)'
  OBVIOUS
<1>2. (\A d \in Cpu : d = c) /\ doing'[c] = << >> /\ Cpu' = Cpu
  BY <1>1, LoneJob DEF Cpu
<1>3. Len(<< >>) <= 1 /\ DOMAIN << >> = {}
  OBVIOUS
<1>4. OneInFlight'
  BY <1>2, <1>3 DEF OneInFlight
<1> QED BY <1>2, <1>4 DEF Uncounted

\* A fork that fails.
LEMMA FailTold == ASSUME IInv, SInv, NEW c \in Cpu, Fail(c) PROVE SInv'
<1>1. /\ UNCHANGED <<kernel, clock, pend, file, current, free, at, semantic, events>>
      /\ table' = table /\ phase = "recording" /\ doing[c] # << >> /\ ~Top(c).done /\ Return(c)
  BY DEF Fail, InGuest, analysis
<1>2. TypeOK /\ Nothing /\ FrameInv /\ StatesInv /\ CountInv
  BY DEF IInv, MergeInv, SInv
<1>3. StatesInv' /\ FrameInv'
  BY <1>1, <1>2, IdleStates, IdleFrame
<1>4. CountInv'
  BY <1>1, <1>2, ReturnTold, IdleCount DEF Uncounted
<1> QED BY <1>3, <1>4 DEF SInv

\* A completion: without a channel for its kind it is silent, and then counts nothing.
LEMMA CommitTold == ASSUME IInv, SInv, NEW c \in Cpu, Commit(c) PROVE SInv'
<1>1. CASE Channel(Top(c).kind)
  BY <1>1, CommitStep, ObservedKeeps
<1>2. CASE ~Channel(Top(c).kind)
  <2>1. /\ UNCHANGED <<kernel, clock, pend, file, current, free, at, semantic, events>>
        /\ table' = table /\ phase = "recording" /\ doing[c] # << >> /\ Return(c)
    BY <1>2 DEF Commit, InGuest, analysis
  <2>2. TypeOK /\ Nothing /\ FrameInv /\ StatesInv /\ CountInv
    BY DEF IInv, MergeInv, SInv
  <2>3. StatesInv' /\ FrameInv'
    BY <2>1, <2>2, IdleStates, IdleFrame
  <2>4. OneAtATime => ~Uncounted(c)
    BY <1>2, <2>1, <2>2, LoneJob DEF Uncounted, OneAtATime, Channel
  <2>5. CountInv'
    BY <2>1, <2>2, <2>4, ReturnTold, IdleCount
  <2> QED BY <2>3, <2>5 DEF SInv
<1> QED BY <1>1, <1>2

\* A row that nothing runs in is free again.
LEMMA ReapTold == ASSUME IInv, SInv, NEW s \in Slot, Reap(s) PROVE SInv'
<1>1. /\ UNCHANGED <<kernel, clock, pend, file, current, doing, free, at, semantic, events>>
      /\ phase = "recording" /\ table' = [table EXCEPT ![s] = NoPid]
      /\ \A c \in Cpu : current[c] # s
  BY DEF Reap, analysis
<1>2. TypeOK /\ Nothing /\ FrameInv /\ StatesInv /\ CountInv
  BY DEF IInv, MergeInv, SInv
<1>3. \A d \in Cpu : current[d] # NoSlot => table'[current[d]] = table[current[d]]
  BY <1>1, <1>2 DEF TypeOK
<1> QED BY <1>1, <1>2, <1>3, IdleStates, IdleFrame, IdleCount DEF SInv

\* Writing.
LEMMA WriteTold == ASSUME IInv, SInv, NEW c \in Cpu, Write(c) PROVE SInv'
BY WriteStates, WriteFrame, WriteCount DEF IInv, SInv, TaskInv, MergeInv, RunningInv

\* The end of the recording.
LEMMA EndTold == ASSUME IInv, SInv, EndRecording PROVE SInv'
<1>1. /\ UNCHANGED <<kernel, clock, pend, file, current, doing, free, at, semantic, events>>
      /\ table' = table /\ phase = "recording"
  BY DEF EndRecording, guest
<1>2. TypeOK /\ Nothing /\ FrameInv /\ StatesInv /\ CountInv
  BY DEF IInv, MergeInv, SInv
<1> QED BY <1>1, <1>2, IdleStates, IdleFrame, IdleCount DEF SInv

---------------------------------------------------------------------------
(* A step of the merge keeps what the rows tell.                            *)

\* The pid of a row in use is the one in the state the search starts from.
LEMMA SlotFound ==
  ASSUME States \in Seq(State), NEW si \in 1 .. Len(States), NEW s \in Slot,
         States[si].procs[s] # NoPid
  PROVE  PidBySlotAt(si, s) = States[si].procs[s]
<1> DEFINE n == Len(States)
           order == [i \in 1 .. n |-> IF i <= n - si + 1 THEN si + i - 1 ELSE n - i + 1]
           I == {i \in 1 .. Len(order) : States[order[i]].procs[s] # NoPid}
<1>1. n \in Nat /\ si # 0 /\ si \in Nat /\ si <= n /\ 1 \in 1 .. n
  OBVIOUS
<1>2. SearchOrder(si) = order
  BY <1>1 DEF SearchOrder
<1>3. Len(order) = n
  <2>1. order \in Seq(Int)
    BY <1>1
  <2> QED BY <1>1, <2>1
<1>4. order[1] = si
  BY <1>1
<1>5. PICK i : /\ i = (IF I # {} THEN Min(I) ELSE 0)
               /\ PidBySlotAt(si, s) = IF i = 0 THEN NoPid ELSE States[order[i]].procs[s]
  BY <1>2 DEF PidBySlotAt, SelectInSeq
<1>6. 1 \in I /\ I \subseteq Nat /\ \A x \in I : 1 <= x
  BY <1>1, <1>3, <1>4
<1> HIDE DEF order, I
<1>7. Min(I) \in I /\ \A x \in I : Min(I) <= x
  BY <1>6, Zenon DEF Min
<1>8. i = 1
  <2>1. PICK x : x = Min(I) /\ x \in I /\ x <= 1
    BY <1>6, <1>7
  <2>2. x \in Nat /\ 1 <= x
    BY <1>6, <2>1
  <2>3. x = 1
    BY <2>1, <2>2
  <2> QED BY <1>5, <1>6, <2>1, <2>3
<1> QED BY <1>4, <1>5, <1>8

\* The snapshot at an instruction is the one the search finds there.
LEMMA FrameFound ==
  ASSUME StatesInv, Lone, clock \in Nat, NEW i \in DOMAIN States, NEW insn \in Nat,
         States[i].insn <= insn
  PROVE  /\ StateIndexFor(insn) \in 1 .. Len(States)
         /\ States[i].insn <= States[StateIndexFor(insn)].insn
         /\ States[StateIndexFor(insn)].insn <= insn
         /\ States[i].insn = insn => StateIndexFor(insn) = i
<1>1. /\ States \in Seq(State) /\ \A x, y \in DOMAIN States : x < y => States[x].insn < States[y].insn
      /\ DOMAIN States = 1 .. Len(States) /\ Len(States) \in Nat
      /\ \A x \in DOMAIN States : States[x].insn \in Nat
  BY StatesFacts DEF StatesInv
<1>2. PICK si : /\ si = StateIndexFor(insn) /\ si \in 0 .. Len(States)
                /\ \A x \in 1 .. Len(States) : States[x].insn <= insn <=> x <= si
  BY <1>1, IndexFound
<1>3. i \in Nat /\ i <= si /\ si \in 1 .. Len(States) /\ si \in Nat
  BY <1>1, <1>2
<1>4. States[si].insn <= insn
  BY <1>2, <1>3
<1>5. i = si \/ States[i].insn < States[si].insn
  BY <1>1, <1>3
<1> QED BY <1>1, <1>2, <1>3, <1>4, <1>5

\* An entry that is in the file has its frame there.
LEMMA FrameFiled ==
  ASSUME TypeOK, FileInv, Lone, EntriesFramed, NEW s \in Merged, NEW p \in DOMAIN file[s],
         Entered(file[s][p])
  PROVE  \E i \in DOMAIN States : States[i].insn = file[s][p].insn
<1> DEFINE k == file[s][p]
<1>1. k \in Known
  BY KnownFacts
<1>2. ASSUME NEW d \in Cpu, k \in pend[d]
      PROVE  FALSE
  <2>1. k.cpu = d /\ k.insn \in Nat
    BY <1>2 DEF FileInv, PendInv, TypeOK
  <2>2. k.insn < k.insn
    BY <1>2, <2>1 DEF FileInv, PendInv
  <2> QED BY <2>1, <2>2
<1> QED BY <1>1, <1>2 DEF EntriesFramed

\* Without switch records no entry of the scheduler is dropped and no pid is told.
LEMMA NoSwitches ==
  ASSUME TypeOK, FileInv, ~Channel("switch")
  PROVE  /\ \A r \in Known : ~IsSwitch(r)
         /\ \A h : Entered(h) => ~Dropped(h)
<1>1. \A r \in Known : ~IsSwitch(r)
  BY DEF FileInv, RecordsInv, Sound, IsSwitch
<1>2. ASSUME NEW h, Entered(h), Dropped(h)
      PROVE  FALSE
  <2>1. Records(h.cpu, "switch") # {}
    BY <1>2 DEF Entered, Dropped, Superseded
  <2>2. PICK r \in Nftrace : r.kind = "switch"
    BY <2>1 DEF Records
  <2>3. PICK p \in DOMAIN file["nftrace"] : r = file["nftrace"][p]
    BY DEF Nftrace, Range1
  <2>4. r \in Known /\ r.stream = "nftrace"
    BY <2>3, KnownFacts DEF FileInv, StreamOrder, Merged
  <2> QED BY <1>1, <2>2, <2>4 DEF IsSwitch
<1> QED BY <1>1, <1>2

\* The last consumed entry is the last before the record that is consumed.
LEMMA TookEntry ==
  ASSUME TypeOK, FileInv, MergeOrder, Lone, NEW m \in Merged, NEW n \in Nat, NEW h \in Known,
         Took(m, n, h), h.stream = m, h.kind # "switch",
         NEW p, Shown(p), \A q : Shown(q) => file["watch"][q].insn <= file["watch"][p].insn
  PROVE  LastEntry(file["watch"][p], h.insn)
<1> DEFINE k == file["watch"][p]
<1>1. /\ n > at[m] /\ n \in DOMAIN file[m] /\ file[m][n] = h /\ "watch" \in Merged
      /\ p \in 1 .. at["watch"] /\ p \in DOMAIN file["watch"] /\ Entered(k)
  BY TookFacts DEF Merged, Shown
<1>2. k \in Known
  BY <1>1, KnownFacts
<1>3. \A r \in Known : r.insn \in Nat /\ r.cpu = h.cpu
  BY DEF FileInv, RecordsInv, Sound, Rec, Lone
<1>4. k.insn < h.insn
  <2>1. k.insn <= h.insn
    BY <1>1, <1>2, <1>3 DEF MergeOrder
  <2>2. k.insn # h.insn
    BY <1>1, <1>2 DEF FileInv, RecordsInv, Coherent, Entered
  <2> QED BY <1>2, <1>3, <2>1, <2>2
<1>5. ASSUME NEW q \in Known, Entered(q), q.insn < h.insn
      PROVE  q.insn <= k.insn
  <2>1. CASE \E s \in Merged : \E x \in DOMAIN file[s] : q = file[s][x]
    <3>1. PICK s \in Merged : \E x \in DOMAIN file[s] : q = file[s][x]
      BY <2>1
    <3>2. PICK x \in DOMAIN file[s] : q = file[s][x]
      BY <3>1
    <3>3. s = "watch"
      BY <1>5, <3>2 DEF FileInv, StreamOrder, Entered
    <3>4. x \in Nat /\ x >= 1 /\ at["watch"] \in Nat /\ at'["watch"] \in Nat
      <4>1. x \in 1 .. Len(file[s])
        BY KnownFacts
      <4>2. at["watch"] \in Nat /\ at' = [at EXCEPT ![m] = n]
        BY <1>1 DEF TypeOK, Took
      <4>3. at'["watch"] \in Nat
        BY <1>1, <4>2 DEF TypeOK
      <4> QED BY <4>1, <4>2, <4>3
    <3>5. CASE x \in 1 .. at["watch"]
      <4>1. Shown(x)
        BY <1>5, <3>2, <3>3, <3>5 DEF Shown
      <4> QED BY <3>2, <3>3, <4>1
    <3>6. CASE x > at'["watch"]
      <4>1. h.insn <= q.insn
        BY <1>3, <3>2, <3>3, <3>6, TookOldest
      <4> QED BY <1>3, <1>5, <4>1
    <3>7. CASE x \in 1 .. at'["watch"] /\ x \notin 1 .. at["watch"]
      <4>1. q = h
        BY <1>1, <3>2, <3>3, <3>7, TookFacts
      <4> QED BY <1>5, <4>1 DEF Entered
    <3> QED BY <3>4, <3>5, <3>6, <3>7
  <2>2. CASE \E d \in Cpu : q \in pend[d]
    <3>1. PICK d \in Cpu : q \in pend[d]
      BY <2>2
    <3>2. h.cpu = d /\ h.insn < q.insn
      BY <1>1, <1>3, <3>1 DEF FileInv, PendInv
    <3> QED BY <1>3, <1>5, <3>2
  <2> QED BY <2>1, <2>2, KnownFacts
<1> QED BY <1>1, <1>2, <1>4, <1>5 DEF LastEntry

\* The row that is remembered at an entry is the one it names.
LEMMA RowSeated ==
  ASSUME TypeOK, FileInv, StatesInv, Lone, EntriesFramed, NEW s \in Merged,
         NEW p \in DOMAIN file[s], Entered(file[s][p])
  PROVE  TaskByCtx(StateIndexFor(file[s][p].insn), file[s][p].data.to) = file[s][p].data.to
<1> DEFINE h == file[s][p]
           si == StateIndexFor(h.insn)
<1>1. h \in Known /\ h.insn \in Nat /\ clock \in Nat
  BY KnownFacts DEF FileInv, RecordsInv, Sound, Rec, TypeOK
<1>2. CASE h.data.to = NoSlot
  BY <1>2 DEF TaskByCtx
<1>3. CASE h.data.to # NoSlot
  <2>1. PICK i \in DOMAIN States : States[i].insn = h.insn
    BY FrameFiled
  <2>2. h.data.to \in Slot /\ States[i].procs[h.data.to] # NoPid
    BY <1>1, <1>3, <2>1 DEF EntriesFramed, Rows
  <2>3. si = i /\ si \in 1 .. Len(States)
    <3>1. States[i].insn <= h.insn
      BY <1>1, <2>1
    <3> QED BY <1>1, <2>1, <3>1, FrameFound
  <2>4. PidBySlotAt(si, h.data.to) # NoPid
    BY <2>2, <2>3, SlotFound DEF StatesInv
  <2> QED BY <2>4, <1>3 DEF TaskByCtx
<1> QED BY <1>2, <1>3

\* The analysis still has the row of the last consumed entry.
LEMMA TookSeat ==
  ASSUME TypeOK, FileInv, MergeOrder, StatesInv, Framing, EntriesFramed, SeatInv,
         NEW m \in Merged, NEW n \in Nat, NEW h \in Known, Took(m, n, h), h.stream = m,
         Became(h), Seated(h)
  PROVE  SeatInv' /\ semantic' = semantic
<1>1. /\ file' = file /\ kernel' = kernel /\ Cpu' = Cpu /\ n \in 1 .. at'[m] /\ n > at[m]
      /\ n \in DOMAIN file[m] /\ file[m][n] = h /\ "watch" \in Merged
  BY TookFacts DEF Merged
<1>2. Lone /\ ~Channel("switch") /\ h.cpu \in Cpu /\ \A d \in Cpu : d = h.cpu
  BY DEF Framing, Lone, FileInv, RecordsInv, Sound
<1>3. ~IsSwitch(h) /\ (Entered(h) => ~Dropped(h))
  BY <1>2, NoSwitches
<1>4. semantic' = semantic
  BY <1>3, BecameEvents
<1>5. \A r \in Known : r.insn \in Nat /\ r.cpu = h.cpu
  BY <1>2 DEF FileInv, RecordsInv, Sound, Rec
<1>6. DOMAIN curSlot = Cpu
  BY DEF TypeOK
<1>7. \A p : Shown(p)' => Shown(p) \/ (m = "watch" /\ p = n /\ Entered(h))
  BY <1>1, TookFacts DEF Shown, Entered
<1>8. \A p : Shown(p) => Shown(p)'
  BY <1>1, TookFacts DEF Shown, Entered
<1>9. CASE Entered(h)
  <2>1. m = "watch"
    BY <1>9 DEF Entered
  <2>2. \A d \in Cpu : curSlot'[d] = h.data.to
    <3>1. curSlot' = [curSlot EXCEPT ![h.cpu] = TaskByCtx(StateIndexFor(h.insn), h.data.to)]
      BY <1>3, <1>9 DEF Seated
    <3>2. TaskByCtx(StateIndexFor(h.insn), h.data.to) = h.data.to
      BY <1>1, <1>2, <1>9, RowSeated
    <3> QED BY <1>2, <1>6, <3>1, <3>2
  <2>3. Shown(n)'
    BY <1>1, <1>9, <2>1 DEF Shown, Entered
  <2>4. ASSUME NEW q, Shown(q)'
        PROVE  file["watch"][q].insn <= h.insn
    <3>1. CASE Shown(q)
      <4>1. q \in 1 .. at["watch"] /\ q \in DOMAIN file["watch"]
        BY <1>1, <3>1, TookFacts DEF Shown
      <4>2. file["watch"][q] \in Known
        BY <1>1, <4>1, KnownFacts
      <4> QED BY <1>1, <1>5, <2>1, <4>1, <4>2 DEF MergeOrder
    <3>2. CASE q = n
      BY <1>1, <1>5, <2>1, <3>2
    <3> QED BY <1>7, <2>4, <3>1, <3>2
  <2>5. \A d \in Cpu : semantic[d] = Absent
    BY DEF SeatInv
  <2> QED BY <1>1, <1>4, <2>1, <2>2, <2>3, <2>4, <2>5 DEF SeatInv
<1>10. CASE ~Entered(h)
  <2>1. curSlot' = curSlot /\ \A p : Shown(p)' <=> Shown(p)
    BY <1>7, <1>8, <1>10 DEF Seated
  <2> QED BY <1>1, <1>4, <2>1 DEF SeatInv
<1> QED BY <1>4, <1>9, <1>10

\* Events after a consumed entry still have the pid.
LEMMA TookFramed ==
  ASSUME TypeOK, FileInv, MergeOrder, EventsHaveRecords, StatesInv, Framing, EntriesFramed,
         RowTold, SeatInv, FramedInv,
         NEW m \in Merged, NEW n \in Nat, NEW h \in Known, Took(m, n, h), h.stream = m,
         Became(h), Seated(h)
  PROVE  FramedInv'
<1> DEFINE N == Len(events) + 1
<1>1. /\ file' = file /\ kernel' = kernel /\ Cpu' = Cpu /\ n \in 1 .. at'[m] /\ n > at[m]
      /\ n \in DOMAIN file[m] /\ file[m][n] = h /\ "watch" \in Merged
  BY TookFacts DEF Merged
<1>2. Lone /\ ~Channel("switch") /\ h.cpu \in Cpu /\ \A d \in Cpu : d = h.cpu
  BY DEF Framing, Lone, FileInv, RecordsInv, Sound
<1>3. /\ DOMAIN events = 1 .. Len(events) /\ Len(events) \in Nat
      /\ \A i \in DOMAIN events : i \in DOMAIN events' /\ events'[i] = events[i]
      /\ \/ Dropped(h) /\ DOMAIN events' = DOMAIN events
         \/ ~Dropped(h) /\ DOMAIN events' = 1 .. N /\ From(events'[N], h)
  BY BecameEvents
<1>4. \A r \in Known : r.insn \in Nat /\ r.cpu = h.cpu
  BY <1>2 DEF FileInv, RecordsInv, Sound, Rec
<1>5. semantic' = semantic /\ semantic[h.cpu] = Absent
  BY <1>2, TookSeat DEF SeatInv
<1>6. ASSUME NEW j \in DOMAIN events', NEW p \in 1 .. at'["watch"], Entered(file["watch"][p]),
             events'[j].kind # "switch", file["watch"][p].insn < events'[j].insn
      PROVE  events'[j].pid = events'[j].who
  <2>0. p \in DOMAIN file["watch"] /\ (p \in 1 .. at["watch"] \/ (m = "watch" /\ p = n))
    BY <1>1, TookFacts
  <2>1. CASE j \in DOMAIN events /\ p \in 1 .. at["watch"]
    <3>1. Shown(p)
      BY <1>6, <2>1 DEF Shown
    <3> QED BY <1>3, <1>6, <2>1, <3>1 DEF FramedInv
  <2>2. CASE j \in DOMAIN events /\ m = "watch" /\ p = n
    <3>1. PICK s \in Merged : \E x \in 1 .. at[s] : From(events[j], file[s][x])
      BY <2>2 DEF EventsHaveRecords
    <3>2. PICK x \in 1 .. at[s] : From(events[j], file[s][x])
      BY <3>1
    <3>3. x \in DOMAIN file[s]
      BY TookFacts
    <3> DEFINE r == file[s][x]
    <3>4. r \in Known
      BY <3>3, KnownFacts
    <3>5. h.insn < r.insn
      BY <1>1, <1>3, <1>6, <2>2, <3>2 DEF From
    <3>6. r.insn <= h.insn
      BY <1>1, <1>4, <3>4 DEF MergeOrder
    <3> QED BY <1>4, <3>4, <3>5, <3>6
  <2>3. CASE j \notin DOMAIN events
    <3>1. j = N /\ ~Dropped(h) /\ From(events'[N], h)
      BY <1>3, <2>3
    <3>2. h.kind # "switch" /\ ~Entered(h) /\ curSlot' = curSlot
      BY <1>6, <3>1 DEF From, Entered, Seated
    <3>3. Shown(p)
      BY <1>1, <1>6, <2>0, <3>2 DEF Shown
    <3>4. PICK o : /\ Shown(o) /\ \A d \in Cpu : curSlot[d] = file["watch"][o].data.to
                   /\ \A q : Shown(q) => file["watch"][q].insn <= file["watch"][o].insn
      BY <3>3 DEF SeatInv
    <3> DEFINE k == file["watch"][o]
               si == StateIndexFor(h.insn)
    <3>5. LastEntry(k, h.insn)
      BY <1>2, <3>2, <3>4, TookEntry
    <3>6. /\ k \in Known /\ k.insn < h.insn /\ Entered(k)
          /\ IF k.data.to = NoSlot THEN h.who = NoPid
             ELSE /\ h.who # NoPid
                  /\ \A i \in DOMAIN States : k.insn <= States[i].insn /\ States[i].insn <= h.insn
                       => States[i].procs[k.data.to] = h.who
      BY <3>2, <3>5 DEF RowTold, LastEntry
    <3>7. events'[N].pid = IF k.data.to = NoSlot THEN NoPid ELSE PidBySlotAt(si, k.data.to)
      <4>1. events' = Append(events, Event(h, Attributed(h.cpu, si, curSlot, semantic)))
        BY <1>5, <3>1, <3>2 DEF Seated
      <4>2. Attributed(h.cpu, si, curSlot, semantic)
              = IF k.data.to = NoSlot THEN NoPid ELSE PidBySlotAt(si, k.data.to)
        BY <1>2, <1>5, <3>4 DEF Attributed
      <4>3. events'[N] = Event(h, Attributed(h.cpu, si, curSlot, semantic))
        <5>1. events \in Seq(Range1(events))
          BY DEF TypeOK
        <5> QED BY <4>1, <5>1, AppendAny
      <4> QED BY <4>2, <4>3 DEF Event
    <3>8. CASE k.data.to = NoSlot
      BY <3>1, <3>6, <3>7, <3>8 DEF From
    <3>9. CASE k.data.to # NoSlot
      <4>1. o \in DOMAIN file["watch"]
        BY <1>1, <3>4, TookFacts DEF Shown
      <4>2. PICK i \in DOMAIN States : States[i].insn = k.insn
        BY <1>1, <1>2, <3>6, <4>1, FrameFiled
      <4>3. k.insn \in Nat /\ h.insn \in Nat /\ clock \in Nat /\ States[i].insn <= h.insn
        BY <1>4, <3>6, <4>2 DEF TypeOK
      <4>4. si \in 1 .. Len(States) /\ k.insn <= States[si].insn /\ States[si].insn <= h.insn
        BY <1>2, <4>2, <4>3, FrameFound
      <4>5. States \in Seq(State) /\ si \in DOMAIN States
        BY <4>4 DEF StatesInv
      <4>6. States[si].procs[k.data.to] = h.who /\ h.who # NoPid
        BY <3>6, <3>9, <4>4, <4>5
      <4>7. k.data.to \in Slot
        BY <3>6, <3>9 DEF EntriesFramed, Rows
      <4>8. PidBySlotAt(si, k.data.to) = h.who
        BY <4>4, <4>5, <4>6, <4>7, SlotFound
      <4> QED BY <3>1, <3>7, <3>9, <4>8 DEF From
    <3> QED BY <3>8, <3>9
  <2> QED BY <2>0, <2>1, <2>2, <2>3
<1> QED BY <1>1, <1>6 DEF FramedInv, Shown, Entered

\* A step of the merge.
LEMMA MergeTold == ASSUME IInv, SInv, Merge PROVE SInv'
<1>1. TypeOK /\ FileInv /\ MergeOrder /\ EventsHaveRecords /\ StatesInv /\ FrameInv /\ CountInv
  BY DEF IInv, MergeInv, SInv
<1>2. PICK m \in Merged : \E n \in Nat : \E h \in Known :
        Took(m, n, h) /\ Became(h) /\ Seated(h) /\ h.stream = m
  BY <1>1, MergeTook
<1>3. PICK n \in Nat : \E h \in Known : Took(m, n, h) /\ Became(h) /\ Seated(h) /\ h.stream = m
  BY <1>2
<1>4. PICK h \in Known : Took(m, n, h) /\ Became(h) /\ Seated(h) /\ h.stream = m
  BY <1>3
<1>5. UNCHANGED <<kernel, clock, pend, file, current, doing, free>> /\ table' = table
  BY <1>4 DEF Took, guest
<1>6. StatesInv' /\ CountInv'
  BY <1>1, <1>5, IdleStates, IdleCount
<1>7. Framing' <=> Framing
  BY <1>5 DEF Framing, Lone, Cpu, Channel
<1>8. ASSUME Framing
      PROVE  /\ EntriesFramed' /\ FramesAlone' /\ RowRuns' /\ RowTold'
             /\ SeatInv' /\ FramedInv'
  <2>1. EntriesFramed /\ FramesAlone /\ RowRuns /\ RowTold /\ SeatInv /\ FramedInv
    BY <1>1, <1>8 DEF FrameInv
  <2>2. EntriesFramed' /\ FramesAlone' /\ RowRuns' /\ RowTold'
    BY <1>1, <1>5, <2>1, IdleRows DEF TypeOK
  <2>3. SeatInv'
    BY <1>1, <1>4, <1>8, <2>1, TookSeat
  <2>4. FramedInv'
    BY <1>1, <1>4, <1>8, <2>1, TookFramed
  <2> QED BY <2>2, <2>3, <2>4
<1> QED BY <1>6, <1>7, <1>8 DEF SInv, FrameInv

\* Initially.
LEMMA InitTold == Init => SInv
<1> SUFFICES ASSUME Init PROVE SInv
  OBVIOUS
<1>1. /\ kernel \in Kernels /\ clock = 0 /\ current = [c \in Cpu |-> NoSlot]
      /\ doing = [c \in Cpu |-> << >>] /\ pend = [c \in Cpu |-> {}]
      /\ file = [s \in Merged \cup {"snap"} |-> << >>] /\ at = [s \in Merged |-> 0]
      /\ semantic = [c \in Cpu |-> Absent] /\ events = << >>
  BY DEF Init
<1>2. TypeOK
  BY InitInv DEF IInv
<1>3. States = << >> /\ DOMAIN States = {} /\ \A s \in Merged : DOMAIN file[s] = {}
  <2>1. file["snap"] = << >> /\ \A s \in Merged : file[s] = << >>
    BY <1>1
  <2>2. DOMAIN << >> = {}
    OBVIOUS
  <2> QED BY <2>1, <2>2 DEF States
<1>4. Known = {} /\ \A c \in Cpu : pend[c] = {}
  BY <1>1, <1>2, <1>3, KnownFacts
<1>5. StatesInv
  <2>1. States \in Seq(State)
    BY <1>3
  <2> QED BY <1>3, <1>4, <2>1 DEF StatesInv
<1>6. FrameInv
  <2>1. \A p : ~Shown(p)
    BY <1>1 DEF Shown, Merged
  <2>2. SeatInv /\ FramedInv
    BY <1>1, <2>1 DEF SeatInv, FramedInv
  <2>3. EntriesFramed /\ FramesAlone /\ RowRuns /\ RowTold
    BY <1>4 DEF EntriesFramed, FramesAlone, RowRuns, RowTold
  <2> QED BY <2>2, <2>3 DEF FrameInv
<1>7. CountInv
  <2>1. \A c \in Cpu : doing[c] = << >>
    BY <1>1
  <2>2. Len(<< >>) <= 1 /\ DOMAIN << >> = {}
    OBVIOUS
  <2>3. OneInFlight
    BY <2>1, <2>2 DEF OneInFlight
  <2>4. FreeTold /\ StatesTold
    BY <1>3, <1>4, <2>1 DEF FreeTold, StatesTold, Uncounted
  <2> QED BY <2>3, <2>4 DEF CountInv
<1> QED BY <1>5, <1>6, <1>7 DEF SInv

\* A step that changes nothing.
LEMMA StutterTold == ASSUME SInv, UNCHANGED vars PROVE SInv'
<1>1. /\ UNCHANGED <<kernel, clock, table, current, doing, free, pend, file, at>>
      /\ UNCHANGED <<curSlot, semantic, events>>
  BY DEF vars
<1>2. Known' = Known /\ Cpu' = Cpu /\ States' = States
  BY <1>1, IdleStates
<1>3. StatesInv' /\ CountInv'
  BY <1>1, IdleStates, IdleCount DEF SInv
<1>4. Framing' <=> Framing
  BY <1>1 DEF Framing, Lone, Cpu, Channel
<1>5. ASSUME Framing
      PROVE  FrameInv'
  <2>1. EntriesFramed /\ FramesAlone /\ RowRuns /\ RowTold /\ SeatInv /\ FramedInv
    BY <1>5 DEF SInv, FrameInv
  <2>2. EntriesFramed' /\ FramesAlone'
    BY <1>1, <1>2, <2>1 DEF EntriesFramed, FramesAlone
  <2>3. RowRuns' /\ RowTold'
    BY <1>1, <1>2, <2>1 DEF RowRuns, RowTold, LastEntry
  <2>4. SeatInv' /\ FramedInv'
    BY <1>1, <1>2, <2>1 DEF SeatInv, FramedInv, Shown
  <2> QED BY <2>2, <2>3, <2>4 DEF FrameInv
<1> QED BY <1>3, <1>4, <1>5 DEF SInv, FrameInv

\* The snapshots keep what they tell at every step.
LEMMA NextTold == IInv /\ SInv /\ [Next]_vars => SInv'
<1> SUFFICES ASSUME IInv, SInv, [Next]_vars PROVE SInv'
  OBVIOUS
<1>1. CASE UNCHANGED vars
  BY <1>1, StutterTold
<1>2. ASSUME NEW c \in Cpu, Trap(c) \/ Snap(c)
      PROVE  SInv'
  <2>1. PICK recs : Observed(c, recs)
    BY <1>2, TrapStep, SnapStep
  <2> QED BY <2>1, ObservedKeeps
<1>3. ASSUME NEW c \in Cpu, NEW kind \in {"alloc", "free", "fork"}, Begin(c, kind)
      PROVE  SInv'
  BY <1>3, BeginStep, ObservedKeeps
<1>4. ASSUME NEW c \in Cpu, NEW s \in Slot \cup {NoSlot}, Switch(c, s)
      PROVE  SInv'
  BY <1>4, SwitchStep, ObservedKeeps
<1>5. ASSUME NEW c \in Cpu, Apply(c) \/ Commit(c) \/ Fail(c) \/ Write(c)
      PROVE  SInv'
  BY <1>5, ApplyTold, CommitTold, FailTold, WriteTold
<1>6. ASSUME NEW c \in Cpu, NEW s \in Slot, Spawn(c, s)
      PROVE  SInv'
  BY <1>6, SpawnTold
<1>7. ASSUME NEW s \in Slot, Reap(s)
      PROVE  SInv'
  BY <1>7, ReapTold
<1>8. CASE EndRecording \/ Merge
  BY <1>8, EndTold, MergeTold
<1> QED BY <1>1, <1>2, <1>3, <1>4, <1>5, <1>6, <1>7, <1>8 DEF Next

\* What the snapshots, the rows and the counts tell holds throughout.
THEOREM SnapshotsInv == Spec => []SInv
<1> QED BY InitTold, NextTold, TimelineInv, PTL DEF Spec

---------------------------------------------------------------------------
(* Results.                                                                 *)

\* The events of a vCPU come out in the order of its instructions although no stream
\* is in clock order: heapq.merge of unsorted streams is enough for cur_slot.
THEOREM MergeKeepsOrder == Spec => []VcpuOrderSurvivesMerge
<1>1. IInv => VcpuOrderSurvivesMerge
  BY DEF IInv, MergeInv
<1> QED BY <1>1, TimelineInv, PTL

\* After one switch record of a vCPU all its events carry the pid that ran, whatever
\* rows were reused, as long as the kernel has the channel and its records are readable.
THEOREM SemanticTasks == Spec => []SemanticEventsNameTheTask
<1>1. ASSUME IInv
      PROVE  SemanticEventsNameTheTask
  <2>1. SUFFICES ASSUME Telling, NEW i \in DOMAIN events, NEW j \in DOMAIN events,
                        Before1(events[i], events[j]), events[i].source = "nftrace",
                        events[i].kind = "switch", events[j].kind # "switch"
                 PROVE  events[j].pid = events[j].who
    BY DEF SemanticEventsNameTheTask, Telling
  <2>2. PICK s \in Merged : \E p \in 1 .. at[s] : From(events[i], file[s][p])
    BY <1>1 DEF IInv, MergeInv, EventsHaveRecords
  <2>3. PICK p \in 1 .. at[s] : From(events[i], file[s][p])
    BY <2>2
  <2>4. p \in DOMAIN file[s]
    BY <1>1, KnownFacts DEF IInv, TypeOK
  <2>5. s = "nftrace" /\ IsSwitch(file[s][p])
    BY <1>1, <2>1, <2>3, <2>4 DEF IInv, FileInv, StreamOrder, From, IsSwitch
  <2>6. Told(events[j].cpu, p) /\ file["nftrace"][p].insn < events[j].insn
    BY <2>1, <2>3, <2>5 DEF Told, From, Before1
  <2> QED BY <1>1, <2>1, <2>5, <2>6 DEF IInv, TaskInv, NamedInv
<1>2. IInv => SemanticEventsNameTheTask
  BY <1>1
<1> QED BY <1>2, TimelineInv, PTL

\* A completion record within the lag and the entry of its operation never both become
\* events.
LEMMA EntryOrCompletion ==
  ASSUME IInv, NEW r \in Nftrace, r.kind = "switch" \/ r.insn - r.op <= MaxLag,
         NEW q \in Known, q.stream # "nftrace", q.op = r.op, q.kind = r.kind
  PROVE  Dropped(q)
<1>1. r \in Known /\ r.stream = "nftrace"
  <2>1. PICK p \in DOMAIN file["nftrace"] : r = file["nftrace"][p]
    BY DEF Nftrace, Range1
  <2> QED BY <2>1, KnownFacts DEF IInv, FileInv, StreamOrder, Merged
<1>2. Sound(r) /\ Sound(q) /\ Coherent(r, q) /\ Coherent(q, r)
  BY <1>1 DEF IInv, FileInv, RecordsInv
<1>3. r.kind \in {"alloc", "free", "fork", "switch"}
  BY <1>1, <1>2, KernelFacts DEF Sound, Channel, IInv, TypeOK
<1>4. q.stream = "watch" /\ q.op = q.insn
  BY <1>2, <1>3 DEF Sound, Merged
<1>5. q.cpu = r.cpu
  BY <1>1, <1>2, <1>4 DEF Coherent
<1>6. r \in Records(q.cpu, r.kind)
  BY <1>5 DEF Records
<1>7. CASE r.kind = "fork"
  BY <1>4, <1>7 DEF Dropped, Superseded, CloneChannel
<1>8. CASE r.kind \in {"switch", "free"}
  BY <1>4, <1>6, <1>8 DEF Dropped, Superseded
<1>9. CASE r.kind = "alloc"
  <2>1. r.op < r.insn /\ r.insn - r.op <= MaxLag /\ r.op = q.insn
    BY <1>1, <1>2, <1>4, <1>9 DEF Sound
  <2>2. r.insn \in Nat /\ q.insn \in Nat
    BY <1>2 DEF Sound, Rec
  <2>3. KallocAfter(q.cpu, q.insn)
    BY <1>6, <1>9, <2>1, <2>2 DEF KallocAfter
  <2> QED BY <1>4, <1>9, <2>3 DEF Dropped, Superseded
<1> QED BY <1>3, <1>7, <1>8, <1>9

\* An operation of the guest is one event of the report, never its entry and its
\* completion; and an entry without an event has a channel that stands for it.
THEOREM OneEvent == Spec => []OperationsAreOneEvent
<1>1. ASSUME IInv, Done
      PROVE  OperationsAreOneEvent
  <2>1. /\ TypeOK /\ FileInv /\ EventsHaveRecords /\ RecordsHaveEvents /\ EventsDiffer
        /\ kernel \in Kernels /\ {"watch", "nftrace"} \subseteq Merged
    BY <1>1 DEF IInv, MergeInv, TypeOK, Merged
  <2>2. ASSUME NEW s \in Merged, NEW p \in DOMAIN file[s]
        PROVE  p \in 1 .. at[s] /\ file[s][p] \in Known /\ file[s][p].stream = s
    <3>1. at[s] \in Nat /\ at[s] <= Len(file[s]) /\ DOMAIN file[s] = 1 .. Len(file[s])
          /\ Len(file[s]) \in Nat
      BY <2>1, KnownFacts DEF TypeOK
    <3>2. ~(at[s] < Len(file[s]))
      BY <1>1 DEF Done, Left
    <3> QED BY <2>1, <3>1, <3>2, KnownFacts DEF FileInv, StreamOrder
  <2>3. ASSUME NEW r \in Nftrace, r.kind = "switch" \/ r.insn - r.op <= MaxLag
        PROVE  Cardinality({i \in DOMAIN events : events[i].op = r.op
                                                 /\ events[i].kind = r.kind}) = 1
    <3> DEFINE E == {i \in DOMAIN events : events[i].op = r.op /\ events[i].kind = r.kind}
    <3>1. PICK p \in DOMAIN file["nftrace"] : r = file["nftrace"][p]
      BY DEF Nftrace, Range1
    <3>2. r.stream = "nftrace" /\ ~DroppedAt("nftrace", p) /\ p \in 1 .. at["nftrace"]
      BY <2>1, <2>2, <3>1 DEF DroppedAt, Dropped
    <3>3. PICK i \in DOMAIN events : From(events[i], r)
      BY <2>1, <3>1, <3>2 DEF RecordsHaveEvents
    <3>4. ASSUME NEW j \in E
          PROVE  j = i
      <4>1. PICK s \in Merged : \E x \in 1 .. at[s] : From(events[j], file[s][x])
                                                      /\ ~DroppedAt(s, x)
        BY <2>1 DEF EventsHaveRecords
      <4>2. PICK x \in 1 .. at[s] : From(events[j], file[s][x]) /\ ~DroppedAt(s, x)
        BY <4>1
      <4>3. PICK q : q = file[s][x] /\ q \in Known /\ ~Dropped(q) /\ From(events[j], q)
        <5>1. x \in DOMAIN file[s]
          BY <2>1, KnownFacts DEF TypeOK
        <5> QED BY <2>2, <4>2, <5>1 DEF DroppedAt
      <4>4. q.op = r.op /\ q.kind = r.kind
        BY <4>3 DEF From
      <4>5. q.stream = "nftrace"
        BY <1>1, <2>3, <4>3, <4>4, EntryOrCompletion
      <4>6. events[j].source = events[i].source /\ events[j].op = events[i].op
            /\ events[j].kind = events[i].kind
        BY <3>2, <3>3, <4>3, <4>4, <4>5 DEF From
      <4> QED BY <2>1, <4>6 DEF EventsDiffer
    <3>5. E = {i}
      BY <3>3, <3>4 DEF From
    <3> QED BY <3>5, FS_Singleton
  <2>4. ASSUME NEW r \in Range1(file["watch"])
        PROVE  \/ \E i \in DOMAIN events : events[i].op = r.op
               \/ Channel(r.kind) /\ (\/ kernel.cloneDeclared
                                      \/ \E q \in Nftrace : q.kind = r.kind)
    <3>1. PICK p \in DOMAIN file["watch"] : r = file["watch"][p]
      BY DEF Range1
    <3>2. p \in 1 .. at["watch"]
      BY <2>1, <2>2, <3>1
    <3>3. CASE ~DroppedAt("watch", p)
      <4>1. \E i \in DOMAIN events : From(events[i], r)
        BY <2>1, <3>1, <3>2, <3>3 DEF RecordsHaveEvents
      <4> QED BY <4>1 DEF From
    <3>4. CASE DroppedAt("watch", p)
      <4>1. Superseded(r)
        BY <3>1, <3>4 DEF DroppedAt, Dropped
      <4>2. \A q \in Nftrace : Channel(q.kind)
        <5>1. ASSUME NEW q \in Nftrace
              PROVE  Channel(q.kind)
          <6>1. PICK x \in DOMAIN file["nftrace"] : q = file["nftrace"][x]
            BY DEF Nftrace, Range1
          <6>2. q \in Known /\ q.stream = "nftrace"
            BY <2>1, <2>2, <6>1
          <6> QED BY <2>1, <6>2 DEF FileInv, RecordsInv, Sound
        <5> QED BY <5>1
      <4>3. (\E q \in Nftrace : q.kind = r.kind) \/ (r.kind = "fork" /\ kernel.cloneDeclared)
        <5>1. \A c, kind : Records(c, kind) # {} => \E q \in Nftrace : q.kind = kind
          BY DEF Records
        <5>2. \A c, n : KallocAfter(c, n) => Records(c, "alloc") # {}
          BY DEF KallocAfter
        <5> QED BY <4>1, <5>1, <5>2 DEF Superseded, CloneChannel
      <4>4. r.kind = "fork" /\ kernel.cloneDeclared => Channel(r.kind)
        BY <2>1, KernelFacts DEF Channel
      <4> QED BY <4>2, <4>3, <4>4
    <3> QED BY <3>3, <3>4
  <2> QED BY <2>3, <2>4 DEF OperationsAreOneEvent
<1>2. IInv => OperationsAreOneEvent
  BY <1>1 DEF OperationsAreOneEvent
<1> QED BY <1>2, TimelineInv, PTL

\* After one entry of the scheduler all events carry the pid that ran, on one vCPU with a
\* frame at every entry and no semantic records: the binary search finds a snapshot at the
\* event or at the entry before it, and the remembered row still has its task there,
\* however often rows are reused.
THEOREM FramedTasks == Spec => []FramedEventsNameTheTask
<1>1. ASSUME IInv, SInv
      PROVE  FramedEventsNameTheTask
  <2>1. SUFFICES ASSUME kernel.frames, Cardinality(Cpu) = 1, ~Channel("switch"),
                        NEW i \in DOMAIN events, NEW j \in DOMAIN events,
                        Before1(events[i], events[j]), events[i].kind = "switch",
                        events[j].kind # "switch"
                 PROVE  events[j].pid = events[j].who
    BY DEF FramedEventsNameTheTask
  <2>2. FramedInv
    BY <1>1, <2>1, LoneCpu DEF IInv, SInv, FrameInv, Framing
  <2>3. PICK s \in Merged : \E p \in 1 .. at[s] : From(events[i], file[s][p])
    BY <1>1 DEF IInv, MergeInv, EventsHaveRecords
  <2>4. PICK p \in 1 .. at[s] : From(events[i], file[s][p])
    BY <2>3
  <2> DEFINE r == file[s][p]
  <2>5. p \in DOMAIN file[s]
    BY <1>1, KnownFacts DEF IInv, TypeOK
  <2>6. r \in Known /\ r.stream = s /\ r.kind = "switch" /\ r.insn < events[j].insn
    BY <1>1, <2>1, <2>4, <2>5, KnownFacts DEF IInv, FileInv, StreamOrder, From, Before1
  <2>7. s = "watch"
    BY <1>1, <2>1, <2>6 DEF IInv, FileInv, RecordsInv, Sound, Merged
  <2>8. Shown(p) /\ p \in 1 .. at["watch"]
    BY <2>6, <2>7 DEF Shown, Entered
  <2> QED BY <2>1, <2>2, <2>6, <2>7, <2>8 DEF FramedInv
<1>2. IInv /\ SInv => FramedEventsNameTheTask
  BY <1>1
<1> QED BY <1>2, TimelineInv, SnapshotsInv, PTL

\* Both kinds of recording name the task that ran.
THEOREM TaskNamed == Spec => []EventsNameTheTask
<1>1. SemanticEventsNameTheTask /\ FramedEventsNameTheTask => EventsNameTheTask
  BY DEF EventsNameTheTask
<1> QED BY <1>1, SemanticTasks, FramedTasks, PTL

\* The counts that an instruction is told are those of the last record before it.
LEMMA LatestCount ==
  ASSUME TypeOK, FileInv, Lone, NEW n \in Nat, PhysFree(n) # Absent,
         \A c \in Cpu : \A r \in pend[c] : n < r.insn
  PROVE  \E k \in Known : LastCount(k, n + 1) /\ PhysFree(n) = k.data
<1> DEFINE older == {i \in Counts : file.nftrace[i].insn <= n}
<1>1. /\ "nftrace" \in Merged /\ DOMAIN file["nftrace"] = 1 .. Len(file["nftrace"])
      /\ Len(file["nftrace"]) \in Nat
      /\ \A i \in DOMAIN file["nftrace"] : file["nftrace"][i] \in Known
  BY KnownFacts DEF Merged
<1>2. older # {} /\ PhysFree(n) = file.nftrace[CHOOSE i \in older : \A j \in older : SortedBefore(j, i)].data
  BY DEF PhysFree
<1>3. \A r \in Known : r.insn \in Nat /\ \A q \in Known : r.cpu = q.cpu
  BY DEF FileInv, RecordsInv, Sound, Rec, Lone
<1>4. older \subseteq 1 .. Len(file["nftrace"])
  BY <1>1 DEF Counts
<1>5. PICK m \in older : \A y \in older : m >= y
  BY <1>1, <1>2, <1>4, MaxOfRange
<1>6. ASSUME NEW y \in older
      PROVE  SortedBefore(y, m)
  <2>1. m \in DOMAIN file["nftrace"] /\ y \in DOMAIN file["nftrace"] /\ m \in Nat /\ y \in Nat
    BY <1>1, <1>4
  <2>2. file["nftrace"][y] \in Known /\ file["nftrace"][m] \in Known
    BY <1>1, <2>1
  <2>3. y = m \/ y < m
    BY <1>5, <2>1
  <2>4. y < m => file["nftrace"][y].insn < file["nftrace"][m].insn
    BY <1>1, <1>3, <2>1, <2>2 DEF FileInv, StreamOrder
  <2> QED BY <2>1, <2>3, <2>4 DEF SortedBefore
<1>7. PICK i \in older : /\ PhysFree(n) = file["nftrace"][i].data
                         /\ \A j \in older : SortedBefore(j, i)
  <2>1. \E i \in older : \A j \in older : SortedBefore(j, i)
    BY <1>6
  <2> HIDE DEF older
  <2> QED BY <1>2, <2>1
<1> DEFINE k == file["nftrace"][i]
<1>8. k \in Known /\ IsCount(k) /\ k.insn <= n
  <2>1. i \in DOMAIN file["nftrace"] /\ k.kind \in {"alloc", "free"} /\ k.insn <= n
    BY <1>1, <1>4 DEF Counts
  <2> QED BY <1>1, <2>1 DEF FileInv, StreamOrder, IsCount
<1>9. ASSUME NEW q \in Known, IsCount(q), q.insn < n + 1
      PROVE  q.insn <= k.insn
  <2>1. q.insn <= n /\ q.insn \in Nat /\ k.insn \in Nat
    BY <1>3, <1>8, <1>9
  <2>2. ~\E c \in Cpu : q \in pend[c]
    BY <2>1
  <2>3. PICK s \in Merged : \E x \in DOMAIN file[s] : q = file[s][x]
    BY <2>2, KnownFacts
  <2>4. PICK x \in DOMAIN file[s] : q = file[s][x]
    BY <2>3
  <2>5. s = "nftrace"
    BY <1>9, <2>4 DEF FileInv, StreamOrder, IsCount
  <2>6. x \in older
    BY <1>9, <2>1, <2>4, <2>5 DEF Counts, IsCount
  <2>7. SortedBefore(x, i)
    BY <1>7, <2>6
  <2> QED BY <2>1, <2>4, <2>5, <2>7 DEF SortedBefore
<1>10. k.insn < n + 1
  BY <1>3, <1>8
<1> QED BY <1>7, <1>8, <1>9, <1>10 DEF LastCount

\* A snapshot without operations in flight shows the guest's free pages: on one vCPU that
\* does one operation at a time, whose counts all have a channel and are all read.
THEOREM CountersExact == Spec => [](OneAtATime => CountersAreExact)
<1>1. ASSUME IInv, SInv, OneAtATime
      PROVE  CountersAreExact
  <2>1. TypeOK /\ FileInv /\ StatesInv /\ Lone /\ StatesTold
    BY <1>1, LoneCpu DEF IInv, SInv, CountInv, OneAtATime
  <2>2. ASSUME NEW i \in DOMAIN States, States[i].flight = {}, PhysFree(States[i].insn) # Absent
        PROVE  PhysFree(States[i].insn) = States[i].free
    <3>1. PICK n \in Nat : n = States[i].insn
      BY <2>1, StatesFacts DEF StatesInv
    <3>2. \A c \in Cpu : \A r \in pend[c] : n < r.insn
      BY <2>1, <3>1 DEF StatesInv
    <3>3. PICK k \in Known : LastCount(k, n + 1) /\ PhysFree(n) = k.data
      BY <2>1, <2>2, <3>1, <3>2, LatestCount
    <3>4. k.data = States[i].free
      BY <2>1, <2>2, <3>1, <3>3 DEF StatesTold
    <3> QED BY <3>1, <3>3, <3>4
  <2> QED BY <2>2 DEF CountersAreExact
<1>2. IInv /\ SInv => (OneAtATime => CountersAreExact)
  BY <1>1
<1> QED BY <1>2, TimelineInv, SnapshotsInv, PTL
=============================================================================
