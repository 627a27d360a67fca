---------------------------- MODULE EventTimeline ----------------------------
(***************************************************************************)
(* From what the guest kernel does to the events of the report.  Guest     *)
(* tasks trap, allocate, free, fork and switch on several vCPUs; function  *)
(* entries (watch hits), traps (discons) and the kernel's own semantic     *)
(* records (nftrace) reach the file as three streams, each latched with    *)
(* the instruction clock before the file lock is taken.  build_events      *)
(* merges the streams, decides which records stand for one operation, and  *)
(* says which task an event belongs to.                                    *)
(***************************************************************************)
EXTENDS Integers, Sequences, FiniteSets, SequencesExt

CONSTANTS
  Kernels,   \* the guest kernels and recordings (see KernelAssumption)
  Slot,      \* rows of the process table; a row's context address is the row
  MaxLag     \* NFT_MAX_LAG

ASSUME KernelAssumption ==
  /\ MaxLag \in Nat
  /\ \A k \in Kernels :
       /\ k.cpus \in (SUBSET Nat) \ {{}} /\ IsFiniteSet(k.cpus)
       /\ k.ops \subseteq {"trap", "alloc", "free", "fork", "switch", "reap", "snap"}
       /\ k.channels \subseteq {"alloc", "free", "fork", "switch"}
       /\ {k.frames, k.cloneDeclared, k.unreadable} \subseteq BOOLEAN
       /\ k.cloneDeclared => "fork" \in k.channels   \* manifest REFERENCE.md:79
       /\ {k.depth, k.hits, k.pages} \subseteq Nat

NoSlot == "none"   \* the scheduler's own context, or no row
NoPid  == 0
NFT_NO_TASK == -1
Absent == -2

VARIABLES
  kernel,    \* the guest: its vCPUs, operations, semantic channels
  clock,     \* instructions retired by all vCPUs
  table,     \* the process table: the pid in each row
  nextPid,
  current,   \* the row each vCPU runs
  doing,     \* operations in flight on each vCPU, innermost last
  free,      \* free pages
  pend,      \* records latched by a vCPU that waits for nf.lock
  file,      \* the streams of the trace, as nftrace.load keeps them
  phase,     \* recording, merging
  at,        \* build_events: records consumed of each stream
  curSlot, semantic,   \* cur_slot and _semantic_current
  events

guest    == <<table, nextPid, current, doing, free>>
analysis == <<phase, at, curSlot, semantic, events>>
vars == <<kernel, clock, table, nextPid, current, doing, free, pend, file, phase, at,
          curSlot, semantic, events>>

Cpu == kernel.cpus
Channel(kind) == kind \in kernel.channels
Merged == {"discon", "watch", "nftrace"}
Order == [discon |-> 0, watch |-> 1, nftrace |-> 2]

Init ==
  /\ kernel \in Kernels
  /\ clock = 0 /\ nextPid = 2 /\ free = kernel.pages
  /\ table = [s \in Slot |-> IF s = CHOOSE t \in Slot : TRUE THEN 1 ELSE NoPid]
  /\ current = [c \in Cpu |-> NoSlot]
  /\ doing = [c \in Cpu |-> << >>]
  /\ pend = [c \in Cpu |-> {}]
  /\ file = [s \in Merged \cup {"snap"} |-> << >>]
  /\ phase = "recording" /\ at = [s \in Merged |-> 0]
  /\ curSlot = [c \in Cpu |-> NoSlot]
  /\ semantic = [c \in Cpu |-> Absent]
  /\ events = << >>

---------------------------------------------------------------------------
(* The guest and the plugin.  A record carries the operation it belongs to *)
(* (op, the clock of its entry) and the pid that ran (who): the analysis   *)
(* reads neither.                                                          *)

Who(c) == IF current[c] = NoSlot THEN NoPid ELSE table[current[c]]

Record(c, stream, kind, op, data) ==
  [stream |-> stream, insn |-> clock + 1, cpu |-> c, kind |-> kind, op |-> op,
   who |-> Who(c), data |-> data]

\* vCPU c executes an observed instruction and latches the clock.
Hit(c, records) ==
  /\ clock < kernel.hits
  /\ clock' = clock + 1
  /\ pend' = [pend EXCEPT ![c] = records]

InGuest(c) == phase = "recording" /\ pend[c] = {}

Top(c) == doing[c][Len(doing[c])]

Trap(c) ==
  /\ InGuest(c) /\ "trap" \in kernel.ops
  /\ Hit(c, {Record(c, "discon", "trap", clock + 1, NoPid)})
  /\ UNCHANGED <<kernel, guest, file, analysis>>

Snap(c) ==
  /\ InGuest(c) /\ "snap" \in kernel.ops
  /\ Hit(c, {Record(c, "snap", "snap", clock + 1, NoPid)})
  /\ UNCHANGED <<kernel, guest, file, analysis>>

\* Entry of the allocator, of free or of fork.
Begin(c, kind) ==
  /\ InGuest(c) /\ kind \in kernel.ops \cap {"alloc", "free", "fork"}
  /\ Len(doing[c]) < kernel.depth
  /\ Hit(c, {Record(c, "watch", kind, clock + 1, NoPid)})
  /\ doing' = [doing EXCEPT ![c] =
                 Append(@, [kind |-> kind, op |-> clock + 1, done |-> FALSE, count |-> 0])]
  /\ UNCHANGED <<kernel, table, nextPid, current, free, file, analysis>>

\* The allocator's critical section changes the pages and reads the counts.
Apply(c) ==
  /\ InGuest(c) /\ doing[c] # << >> /\ ~Top(c).done
  /\ Top(c).kind \in {"alloc", "free"}
  /\ free' = IF Top(c).kind = "free" THEN free + 1 ELSE IF free > 0 THEN free - 1 ELSE 0
  /\ doing' = [doing EXCEPT ![c][Len(doing[c])] = [@ EXCEPT !.done = TRUE, !.count = free']]
  /\ UNCHANGED <<kernel, clock, table, nextPid, current, pend, file, analysis>>

\* A child takes a free row.
Spawn(c, s) ==
  /\ InGuest(c) /\ doing[c] # << >> /\ ~Top(c).done
  /\ Top(c).kind = "fork" /\ table[s] = NoPid
  /\ table' = [table EXCEPT ![s] = nextPid] /\ nextPid' = nextPid + 1
  /\ doing' = [doing EXCEPT ![c][Len(doing[c])] = [@ EXCEPT !.done = TRUE, !.count = nextPid]]
  /\ UNCHANGED <<kernel, clock, current, free, pend, file, analysis>>

Return(c) == doing' = [doing EXCEPT ![c] = Front(@)]

\* nftrace_commit_point, after the allocator's lock has been released; a kernel
\* without the channel returns silently.
Commit(c) ==
  /\ InGuest(c) /\ doing[c] # << >> /\ Top(c).done
  /\ IF Channel(Top(c).kind)
     THEN Hit(c, {Record(c, "nftrace", Top(c).kind, Top(c).op, Top(c).count)})
     ELSE UNCHANGED <<clock, pend>>
  /\ Return(c)
  /\ UNCHANGED <<kernel, table, nextPid, current, free, file, analysis>>

\* A fork that fails returns without a record.
Fail(c) ==
  /\ InGuest(c) /\ doing[c] # << >> /\ ~Top(c).done /\ Top(c).kind = "fork"
  /\ Return(c)
  /\ UNCHANGED <<kernel, clock, table, nextPid, current, free, pend, file, analysis>>

\* A zombie is reaped by whoever runs elsewhere: its row is free again.
Reap(s) ==
  /\ phase = "recording" /\ "reap" \in kernel.ops
  /\ table[s] # NoPid /\ \A c \in Cpu : current[c] # s
  /\ table' = [table EXCEPT ![s] = NoPid]
  /\ UNCHANGED <<kernel, clock, nextPid, current, doing, free, pend, file, analysis>>

\* The scheduler of vCPU c gives it to row s.  The context addresses are the
\* arguments of the watched entry; the pids are in the semantic record.
Switch(c, s) ==
  LET ids == [from |-> current[c], to |-> s]
      pid == IF s = NoSlot THEN NFT_NO_TASK ELSE table[s]
      entry == Record(c, "watch", "switch", clock + 1, ids)
      frame == Record(c, "snap", "snap", clock + 1, NoPid)
  IN /\ InGuest(c) /\ "switch" \in kernel.ops /\ doing[c] = << >>
     /\ s # current[c]
     /\ s # NoSlot => table[s] # NoPid /\ \A d \in Cpu : current[d] # s
     /\ Hit(c, {entry} \cup (IF kernel.frames THEN {frame} ELSE {})
               \cup (IF Channel("switch")
                     THEN {Record(c, "nftrace", "switch", clock + 1, pid)} ELSE {}))
     /\ current' = [current EXCEPT ![c] = s]
     /\ UNCHANGED <<kernel, table, nextPid, doing, free, file, analysis>>

\* The vCPU gets nf.lock: its records reach the file, a snapshot with the
\* memory of this moment; an nftrace record may be unreadable.
InFlight == UNION {{doing[c][i].kind : i \in DOMAIN doing[c]} : c \in Cpu}
Stored(r) == IF r.stream # "snap" THEN r
             ELSE [insn |-> r.insn, procs |-> table, free |-> free, flight |-> InFlight]
\* The records a vCPU waits to write, one of a stream at most.
Of(records, s) ==
  LET own == {r \in records : r.stream = s}
  IN IF own = {} THEN << >> ELSE <<Stored(CHOOSE r \in own : TRUE)>>

Write(c) ==
  /\ phase = "recording" /\ pend[c] # {}
  /\ \E lost \in IF kernel.unreadable THEN BOOLEAN ELSE {FALSE} :
       file' = [s \in DOMAIN file |->
                  IF lost /\ s = "nftrace" THEN file[s]
                  ELSE file[s] \o Of(pend[c], s)]
  /\ pend' = [pend EXCEPT ![c] = {}]
  /\ UNCHANGED <<kernel, clock, guest, analysis>>

---------------------------------------------------------------------------
(* The indexes the analysis builds over the loaded trace.                   *)

Range1(s) == {s[i] : i \in DOMAIN s}
Nftrace == Range1(file.nftrace)
Records(c, kind) == {r \in Nftrace : r.cpu = c /\ r.kind = kind}

\* The records that carry allocator counts.
\* A mutant of Counts that reads them from allocation records only.
CountsOfAllocations == {i \in DOMAIN file.nftrace : file.nftrace[i].kind = "alloc"}
Counts == {i \in DOMAIN file.nftrace : file.nftrace[i].kind \in {"alloc", "free"}}

\* The place of the j-th record is not after that of the i-th once they are sorted by
\* clock; the sort is stable.
SortedBefore(j, i) ==
  \/ file.nftrace[j].insn < file.nftrace[i].insn
  \/ file.nftrace[j].insn = file.nftrace[i].insn /\ j <= i

\* The latest allocator counts at an instruction, by clock.
PhysFree(insn) ==
  LET older == {i \in Counts : file.nftrace[i].insn <= insn}
  IN IF older = {} THEN Absent
     ELSE file.nftrace[CHOOSE i \in older : \A j \in older : SortedBefore(j, i)].data

\* state_index_for: a binary search over the snapshots in file order, 0 for none.
States == file.snap
Bisect(b, insn) ==
  LET mid == (b.lo + b.hi) \div 2
  IN IF b.lo > b.hi THEN b
     ELSE IF States[mid].insn <= insn THEN [b EXCEPT !.lo = mid + 1, !.best = mid]
          ELSE [b EXCEPT !.hi = mid - 1]
StateIndexFor(insn) ==
  LET n == Len(States)
      rounds[k \in 0..n] == IF k = 0 THEN [lo |-> 1, hi |-> n, best |-> 0]
                            ELSE Bisect(rounds[k - 1], insn)
  IN rounds[n].best

\* A mutant of SearchOrder: from the first state on.
SearchFromFirst(si) == [i \in 1..Len(States) |-> i]

\* The states from si forwards, then backwards.
SearchOrder(si) ==
  LET n == Len(States)
      start == IF si = 0 THEN 1 ELSE si
  IN [i \in 1..n |-> IF i <= n - start + 1 THEN start + i - 1 ELSE n - i + 1]

\* _pid_by_slot_at: the pid the first of them has in the row.
PidBySlotAt(si, s) ==
  LET order == SearchOrder(si)
      i == SelectInSeq(order, LAMBDA k : States[k].procs[s] # NoPid)
  IN IF i = 0 THEN NoPid ELSE States[order[i]].procs[s]

\* _task_by_ctx: the row with this context, when some state has a task in it.
TaskByCtx(si, ctx) ==
  IF ctx = NoSlot \/ PidBySlotAt(si, ctx) = NoPid THEN NoSlot ELSE ctx

\* _nft_kalloc_after: a later allocation record of the vCPU, not too late.
KallocAfter(c, insn) ==
  \E r \in Records(c, "alloc") : r.insn > insn /\ r.insn - insn <= MaxLag

\* A mutant of CloneChannel: every kernel is taken to have the channel.
CloneChannelAssumed == TRUE

\* _nft_clone_channel
CloneChannel == kernel.cloneDeclared \/ \E r \in Nftrace : r.kind = "fork"

---------------------------------------------------------------------------
(* build_events, one record per step.                                       *)

Head1(s) == file[s][at[s] + 1]
Left == {s \in Merged : at[s] < Len(file[s])}

\* A mutant of Before: the key of the merge with its parts swapped.
BeforeByStream(s, t) == Order[s] <= Order[t]

\* heapq.merge: the smallest head by clock, then by stream.
Before(s, t) == \/ Head1(s).insn < Head1(t).insn
                \/ Head1(s).insn = Head1(t).insn /\ Order[s] <= Order[t]
Next1 == CHOOSE s \in Left : \A t \in Left : Before(s, t)

\* _attribute
Attributed(c, si, slots, sem) ==
  IF sem[c] # Absent THEN sem[c]
  ELSE IF slots[c] = NoSlot THEN NoPid ELSE PidBySlotAt(si, slots[c])

Event(r, pid) == [insn |-> r.insn, cpu |-> r.cpu, kind |-> r.kind, pid |-> pid,
                  source |-> r.stream, op |-> r.op, who |-> r.who]

\* Mutants of Superseded: switches are counted twice; a clone entry waits for
\* a later record.
SupersededButSwitches(r) ==
  \/ r.kind = "fork" /\ CloneChannel
  \/ r.kind = "free" /\ Records(r.cpu, "free") # {}
  \/ r.kind = "alloc" /\ KallocAfter(r.cpu, r.insn)
\* _watch_event: entries that a completion record stands for are dropped.
Superseded(r) ==
  \/ r.kind = "fork" /\ CloneChannel
  \/ r.kind = "switch" /\ Records(r.cpu, "switch") # {}
  \/ r.kind = "free" /\ Records(r.cpu, "free") # {}
  \/ r.kind = "alloc" /\ KallocAfter(r.cpu, r.insn)

WatchEvent(r, si) ==
  LET slots == IF r.kind = "switch"
               THEN [curSlot EXCEPT ![r.cpu] = TaskByCtx(si, r.data.to)] ELSE curSlot
  IN IF Superseded(r) THEN UNCHANGED <<curSlot, semantic, events>>
     ELSE /\ curSlot' = slots
          /\ events' = Append(events, Event(r, Attributed(r.cpu, si, slots, semantic)))
          /\ UNCHANGED semantic

\* A mutant of NftraceEvent: a switch to the idle task keeps the last pid.
NftraceEventKeepsIdle(r, si) ==
  LET sem == IF r.kind = "switch" /\ r.data # NFT_NO_TASK
             THEN [semantic EXCEPT ![r.cpu] = r.data] ELSE semantic
  IN /\ semantic' = sem
     /\ events' = Append(events, Event(r, Attributed(r.cpu, si, curSlot, sem)))
     /\ UNCHANGED curSlot

\* _nftrace_event: a switch record names the destination.
NftraceEvent(r, si) ==
  LET sem == IF r.kind = "switch"
             THEN [semantic EXCEPT ![r.cpu] = IF r.data = NFT_NO_TASK THEN NoPid ELSE r.data]
             ELSE semantic
  IN /\ semantic' = sem
     /\ events' = Append(events, Event(r, Attributed(r.cpu, si, curSlot, sem)))
     /\ UNCHANGED curSlot

\* _discon_event
DisconEvent(r, si) ==
  /\ events' = Append(events, Event(r, Attributed(r.cpu, si, curSlot, semantic)))
  /\ UNCHANGED <<curSlot, semantic>>

\* The recording ends: records that wait for the lock are not in the file.
EndRecording ==
  /\ phase = "recording" /\ phase' = "merging"
  /\ UNCHANGED <<kernel, clock, guest, pend, file, at, curSlot, semantic, events>>

Merge ==
  /\ phase = "merging" /\ Left # {}
  /\ LET r == Head1(Next1)
         si == StateIndexFor(r.insn)
     IN CASE Next1 = "watch" -> WatchEvent(r, si)
          [] Next1 = "nftrace" -> NftraceEvent(r, si)
          [] OTHER -> DisconEvent(r, si)
  /\ at' = [at EXCEPT ![Next1] = @ + 1]
  /\ UNCHANGED <<kernel, clock, guest, pend, file, phase>>

Next ==
  \/ \E c \in Cpu :
       \/ Trap(c) \/ Snap(c) \/ Apply(c) \/ Commit(c) \/ Fail(c) \/ Write(c)
       \/ \E kind \in {"alloc", "free", "fork"} : Begin(c, kind)
       \/ \E s \in Slot : Spawn(c, s)
       \/ \E s \in Slot \cup {NoSlot} : Switch(c, s)
  \/ \E s \in Slot : Reap(s)
  \/ EndRecording \/ Merge

Spec == Init /\ [][Next]_vars

---------------------------------------------------------------------------
(* Properties.                                                              *)

Done == phase = "merging" /\ Left = {}
Before1(e, f) == e.insn < f.insn /\ e.cpu = f.cpu

\* Each stream is out of clock order when vCPUs wait for the file lock, and
\* heapq.merge expects sorted streams; still the events of one vCPU come out in
\* its own order, so that a switch never affects an event before it.
VcpuOrderSurvivesMerge ==
  \A i, j \in DOMAIN events :
    i < j /\ events[i].cpu = events[j].cpu => events[i].insn <= events[j].insn

\* An event after a switch names the pid that ran.  The first switch record of the
\* semantic channel is enough, whatever rows are reused or snapshots missing ...
SemanticEventsNameTheTask ==
  Channel("switch") /\ ~kernel.unreadable =>
    \A i, j \in DOMAIN events :
      /\ Before1(events[i], events[j]) /\ events[i].source = "nftrace"
      /\ events[i].kind = "switch" /\ events[j].kind # "switch"
      => events[j].pid = events[j].who

\* ... and on one vCPU without that channel a frame at every switch entry is: the
\* row that is remembered at the switch is looked up in a state no older than it.
FramedEventsNameTheTask ==
  kernel.frames /\ Cardinality(Cpu) = 1 /\ ~Channel("switch") =>
    \A i, j \in DOMAIN events :
      /\ Before1(events[i], events[j])
      /\ events[i].kind = "switch" /\ events[j].kind # "switch"
      => events[j].pid = events[j].who

\* In both kinds of recording the events are attributed to the task that ran.
EventsNameTheTask == SemanticEventsNameTheTask /\ FramedEventsNameTheTask

\* An operation is one event, never an entry and a completion both, when its
\* completion record followed the entry within the lag; and an entry without an
\* event is one that a completion record of its kind stands for: where the kernel
\* has no channel, no entry is dropped.
OperationsAreOneEvent ==
  Done =>
    /\ \A r \in Nftrace : r.kind = "switch" \/ r.insn - r.op <= MaxLag =>
         Cardinality({i \in DOMAIN events : events[i].op = r.op /\ events[i].kind = r.kind}) = 1
    /\ \A r \in Range1(file.watch) :
         \/ \E i \in DOMAIN events : events[i].op = r.op
         \/ Channel(r.kind) /\ (\/ kernel.cloneDeclared
                                \/ \E q \in Nftrace : q.kind = r.kind)

\* The free count of a snapshot is the guest's when no allocation is in flight.
CountersAreExact ==
  phase = "merging" =>
    \A i \in DOMAIN States :
      States[i].flight = {} /\ PhysFree(States[i].insn) # Absent
        => PhysFree(States[i].insn) = States[i].free
=============================================================================
