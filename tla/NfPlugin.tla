------------------------------ MODULE NfPlugin ------------------------------
(***************************************************************************)
(* The recording plugin as a concurrent program: each vCPU thread executes *)
(* guest instructions and runs the plugin's callbacks; a callback reads    *)
(* the instruction clock before it takes nf.lock, and does everything else *)
(* inside the lock.  nf_snapshot is one step here, because it runs wholly  *)
(* inside the lock (its inside is the module SnapshotDelta).               *)
(***************************************************************************)
EXTENDS Integers, Sequences, FiniteSets, FiniteSetsExt


CONSTANT Configs   \* the recordings: plugin arguments, watch list, vCPUs, bounds

VARIABLE config    \* the configuration of this recording, set by the install
Vcpu          == config.vcpu       \* vCPU numbers, below NF_MAX_VCPUS
Watch         == config.watch      \* ids of the observation points
Snap          == config.snap       \* the watches tagged @snap or @esnap
Throttle      == config.throttle   \* ... @esnap
Nft           == config.nft        \* ... @nft
Rate          == config.rate       \* the @rN tag of each watch, 0 without one
Returns       == config.returns
SampleEvery   == config.sample
SnapEvery     == config.every
BootSnapEvery == config.boot
SnapStart     == config.start
MaxInsn       == config.maxinsn
EvSnapMin     == config.evsnapmin
EvSnapMax     == config.evsnapmax
DiskMayFill   == config.diskMayFill    \* fwrite may fail
Wrap          == 1024                  \* stands for 2^64
MaxRetired    == config.maxRetired     \* model bound: instructions per behaviour
MaxCallbacks  == config.maxCallbacks   \* model bound: deadline and watch callbacks
MaxEvents     == config.maxEvents      \* model bound: idle, resume, discon, return

Nobody        == 16                    \* NF_MAX_VCPUS: no vCPU has this number

ASSUME PluginAssumption ==
  \A c \in Configs :
    /\ c.vcpu \in SUBSET (0 .. Nobody - 1) /\ c.vcpu # {}
    /\ c.snap \subseteq c.watch /\ c.throttle \subseteq c.snap /\ c.nft \subseteq c.watch
    /\ IsFiniteSet(c.watch) /\ c.rate \in [c.watch -> Nat]
    /\ {c.sample, c.every, c.boot, c.start, c.maxinsn} \subseteq Nat
    /\ c.start = 0 => c.boot = 0       \* record.py sets it so
    /\ c.evsnapmin \in Nat \ {0} /\ c.evsnapmax \in Nat \ {0}
    /\ {c.diskMayFill, c.returns} \subseteq BOOLEAN
    /\ c.maxRetired \in Nat /\ c.maxRetired + c.evsnapmin < Wrap

Never  == Wrap - 1   \* UINT64_MAX

VARIABLES
  retired,     \* the scoreboard: instructions retired by each vCPU
  pc,          \* what each vCPU thread is doing
  lat,         \* its latched clock (and watch id) while it waits for nf.lock
  lock,        \* owner of nf.lock between steps
  out,         \* nf.out is open
  trace,       \* records written, with the reason of each snapshot
  nextSample, nextSnap, startSnapDone, finalSnapDone,
  live,        \* nf.shadow_pages is not NULL
  truncated,
  hits,        \* per-watch hit counter of the rate limit
  drops,       \* nf.n_watch_drops
  evSnaps, lastEvSnap,
  nSnapshots, nDiscons, nSamples, nWatchHits, nReturns, nNftrace, nNftraceFail,
  callbacks,   \* model bounds only: callbacks of both kinds
  crashed,     \* the process died of undefined behaviour
  exited,      \* the process has run its exit handlers
  lost         \* history: a record could not be written

clock    == <<nextSample, nextSnap, startSnapDone, finalSnapDone>>
counters == <<nDiscons, nSamples, nWatchHits, nReturns, nNftrace, nNftraceFail>>
throttle == <<evSnaps, lastEvSnap>>
snapVars == <<live, truncated, nSnapshots>>
rated    == <<hits, drops>>
process  == <<lock, crashed, exited, lost>>
vars == <<retired, pc, lat, lock, out, trace, nextSample, nextSnap, startSnapDone,
          finalSnapDone, live, truncated, hits, drops, evSnaps, lastEvSnap,
          nSnapshots, nDiscons, nSamples, nWatchHits, nReturns, nNftrace,
          nNftraceFail, callbacks, crashed, exited, lost, config>>

NoClock == [insn |-> 0, what |-> "none"]

Sum == MapThenSumSet(LAMBDA v : retired[v], Vcpu)   \* qemu_plugin_u64_sum
Running == ~crashed /\ ~exited
Free == lock = Nobody

\* The clock nf_tb_check reads: with one vCPU, its own counter.
TbClockOwn(v) == retired[v]
TbClock(v) == IF Cardinality(Vcpu) = 1 THEN retired[v] ELSE Sum

Init ==
  /\ config \in Configs
  /\ retired = [v \in Vcpu |-> 0]
  /\ pc = [v \in Vcpu |-> "new"]
  /\ lat = [v \in Vcpu |-> NoClock]
  /\ lock = Nobody /\ out = TRUE /\ trace = << >>
  /\ nextSample = IF SampleEvery # 0 THEN SampleEvery ELSE Never
  /\ nextSnap = IF SnapEvery = 0 THEN Never
                ELSE IF BootSnapEvery # 0 THEN BootSnapEvery ELSE SnapEvery
  /\ startSnapDone = FALSE /\ finalSnapDone = FALSE
  /\ live = (SnapEvery # 0) /\ truncated = FALSE
  /\ hits = [w \in Watch |-> 0] /\ drops = 0
  /\ evSnaps = 0 /\ lastEvSnap = 0
  /\ nSnapshots = 0 /\ nDiscons = 0 /\ nSamples = 0 /\ nWatchHits = 0
  /\ nReturns = 0 /\ nNftrace = 0 /\ nNftraceFail = 0
  /\ callbacks = [deadline |-> 0, event |-> 0] /\ crashed = FALSE /\ exited = FALSE /\ lost = FALSE

---------------------------------------------------------------------------
(* Records.  nf_write_rec drops everything once nf.out is closed.           *)

Record(type, v, insn, why) == [type |-> type, cpu |-> v, insn |-> insn, why |-> why]
WrittenUnchecked(recs) == trace \o recs
Written(recs) == IF out THEN trace \o recs ELSE trace

\* nf_snapshot: nothing without shadow pages; ftell on a closed nf.out is
\* undefined (a NULL stream); the byte budget may be hit for the first time.
NoSnapshot == UNCHANGED <<snapVars, crashed>>

Snapshot(before, v, insn, why, after) ==
  IF ~live THEN trace' = Written(before \o after) /\ NoSnapshot
  ELSE /\ nSnapshots' = nSnapshots + 1
       /\ crashed' = ~out
       /\ trace' = Written(before \o <<Record("SNAPMARK", v, insn, why)>> \o after)
       /\ truncated' \in BOOLEAN
       /\ live' = ~truncated'

\* Bounds of the model, not of the code.
CountCallback == callbacks.deadline < MaxCallbacks
                 /\ callbacks' = [callbacks EXCEPT !.deadline = @ + 1]
CountEvent == callbacks.event < MaxEvents
              /\ callbacks' = [callbacks EXCEPT !.event = @ + 1]

---------------------------------------------------------------------------
(* vCPU life cycle and guest execution.                                     *)

Retire(v) ==
  /\ Running /\ pc[v] = "guest" /\ Sum < MaxRetired
  /\ retired' = [retired EXCEPT ![v] = @ + 1]
  /\ UNCHANGED <<config, pc, lat, process, out, trace, clock, snapVars, rated, throttle,
                 counters, callbacks>>

\* nf_vcpu_init: a VCPU record, up.
VcpuInit(v) ==
  /\ Running /\ Free /\ pc[v] = "new"
  /\ pc' = [pc EXCEPT ![v] = "guest"]
  /\ trace' = Written(<<Record("VCPU", v, Sum, "up")>>)
  /\ UNCHANGED <<config, retired, lat, process, out, clock, snapVars, rated, throttle,
                 counters, callbacks>>

\* nf_vcpu_idle and nf_vcpu_resume.
Idle(v, from, to) ==
  /\ Running /\ Free /\ pc[v] = from /\ CountEvent
  /\ pc' = [pc EXCEPT ![v] = to]
  /\ trace' = Written(<<Record("IDLE", v, Sum, to)>>)
  /\ UNCHANGED <<config, retired, lat, process, out, clock, snapVars, rated, throttle,
                 counters>>

\* nf_vcpu_exit: the first vCPU to leave takes the final snapshot.
VcpuExit(v) ==
  LET down == <<Record("VCPU", v, Sum, "down")>>
  IN /\ Running /\ Free /\ pc[v] \in {"guest", "idle"}
     /\ pc' = [pc EXCEPT ![v] = "gone"]
     /\ finalSnapDone' = (finalSnapDone \/ SnapEvery # 0)
     /\ IF SnapEvery # 0 /\ ~finalSnapDone
        THEN Snapshot(<< >>, v, Sum, "final", down)
        ELSE trace' = Written(down) /\ NoSnapshot
     /\ UNCHANGED <<config, retired, lat, lock, exited, lost, out, nextSample, nextSnap,
                    startSnapDone, rated, throttle, counters, callbacks>>

---------------------------------------------------------------------------
(* nf_tb_check.                                                             *)

\* The end of a callback: its local variables are gone.
BackToGuest(v) ==
  /\ pc' = [pc EXCEPT ![v] = "guest"]
  /\ lat' = [lat EXCEPT ![v] = NoClock]

\* Before the lock: read the clock, stop at maxinsn, or return early.
TbEnter(v) ==
  LET insn == TbClock(v)
  IN /\ Running /\ pc[v] = "guest" /\ CountCallback
     /\ \/ /\ MaxInsn # 0 /\ insn >= MaxInsn
           /\ pc' = [pc EXCEPT ![v] = "finish"]
        \/ /\ ~(MaxInsn # 0 /\ insn >= MaxInsn)
           /\ insn >= nextSample \/ insn >= nextSnap
           /\ SampleEvery # 0 \/ SnapEvery # 0
           /\ pc' = [pc EXCEPT ![v] = "tb"]
     /\ lat' = [lat EXCEPT ![v] = [insn |-> insn, what |-> "none"]]
     /\ UNCHANGED <<config, retired, process, out, trace, clock, snapVars, rated, throttle,
                    counters>>

SampleDueUntested(insn) == SampleEvery # 0
SampleDue(insn) == SampleEvery # 0 /\ insn >= nextSample
CrossedStart(insn) == ~startSnapDone /\ SnapStart # 0 /\ insn >= SnapStart
SnapDueOnGridOnly(insn) == SnapEvery # 0 /\ insn >= nextSnap
SnapDue(insn) == SnapEvery # 0 /\ (CrossedStart(insn) \/ insn >= nextSnap)

\* Inside the lock: the sample and snapshot deadlines are tested again.
TbLocked(v) ==
  LET insn == lat[v].insn
      sampled == SampleDue(insn)
      due == SnapDue(insn)
      interval == IF insn >= SnapStart \/ BootSnapEvery = 0 THEN SnapEvery
                                                            ELSE BootSnapEvery
      recs == IF sampled THEN <<Record("SAMPLE", v, insn, "grid")>> ELSE << >>
  IN /\ Running /\ Free /\ pc[v] = "tb"
     /\ BackToGuest(v)
     /\ nextSample' = IF sampled THEN insn + SampleEvery ELSE nextSample
     /\ nSamples' = IF sampled THEN nSamples + 1 ELSE nSamples
     /\ nextSnap' = IF due THEN insn + interval ELSE nextSnap
     /\ startSnapDone' = (startSnapDone \/ (due /\ CrossedStart(insn)))
     /\ IF due THEN Snapshot(recs, v, insn, "grid", << >>)
               ELSE trace' = Written(recs) /\ NoSnapshot
     /\ UNCHANGED <<config, retired, lock, exited, lost, out, finalSnapDone, rated, throttle,
                    nDiscons, nWatchHits, nReturns, nNftrace, nNftraceFail, callbacks>>

---------------------------------------------------------------------------
(* nf_discon, nf_return_hit: clock first, then the lock, then the record.   *)

EventEnter(v, what) ==
  /\ Running /\ pc[v] = "guest" /\ retired[v] > 0 /\ CountEvent
  /\ pc' = [pc EXCEPT ![v] = "event"]
  /\ lat' = [lat EXCEPT ![v] = [insn |-> Sum, what |-> what]]
  /\ UNCHANGED <<config, retired, process, out, trace, clock, snapVars, rated, throttle,
                 counters>>

EventLocked(v) ==
  /\ Running /\ Free /\ pc[v] = "event"
  /\ BackToGuest(v)
  /\ trace' = Written(<<Record(lat[v].what, v, lat[v].insn, "event")>>)
  /\ nDiscons' = nDiscons + (IF lat[v].what = "DISCON" THEN 1 ELSE 0)
  /\ nReturns' = nReturns + (IF lat[v].what = "RETURN" THEN 1 ELSE 0)
  /\ UNCHANGED <<config, retired, process, out, clock, snapVars, rated, throttle,
                 nSamples, nWatchHits, nNftrace, nNftraceFail, callbacks>>

---------------------------------------------------------------------------
(* nf_watch_hit.                                                            *)

RateLimited(w) == Rate[w] > 1 /\ w \notin Snap \cup Nft

DroppedAfterIncrement(w) == RateLimited(w) /\ (hits[w] + 1) % Rate[w] # 0
Dropped(w) == RateLimited(w) /\ hits[w] % Rate[w] # 0

\* Before the lock: the rate limit keeps hits 0, rate, 2 * rate, ...  The
\* watched instruction has been counted already.
WatchEnter(v, w) ==
  /\ Running /\ pc[v] = "guest" /\ retired[v] > 0 /\ CountCallback
  /\ hits' = IF RateLimited(w) THEN [hits EXCEPT ![w] = @ + 1] ELSE hits
  /\ IF Dropped(w)
     THEN drops' = drops + 1 /\ UNCHANGED <<pc, lat>>
     ELSE /\ pc' = [pc EXCEPT ![v] = "watch"]
          /\ lat' = [lat EXCEPT ![v] = [insn |-> Sum, what |-> w]]
          /\ UNCHANGED drops
  /\ UNCHANGED <<config, retired, process, out, trace, clock, snapVars, throttle, counters>>

\* The limit on @esnap snapshots; the subtraction is unsigned.
Calm(insn) ==
  /\ evSnaps < EvSnapMax
  /\ lastEvSnap = 0 \/ (insn - lastEvSnap) % Wrap >= EvSnapMin

\* The nftrace record that a0 points to may be unreadable.
WatchLocked(v) ==
  LET insn == lat[v].insn
      w == lat[v].what
      snap == w \in Snap /\ SnapEvery # 0 /\ (w \in Throttle => Calm(insn))
      counted == snap /\ w \in Throttle
  IN /\ Running /\ Free /\ pc[v] = "watch"
     /\ BackToGuest(v)
     /\ nWatchHits' = nWatchHits + 1
     /\ evSnaps' = IF counted THEN evSnaps + 1 ELSE evSnaps
     /\ lastEvSnap' = IF counted THEN insn ELSE lastEvSnap
     /\ \E readable \in IF w \in Nft THEN BOOLEAN ELSE {FALSE} :
          LET hit == <<Record("WATCHPC", v, insn, w)>>
              recs == IF readable THEN Append(hit, Record("NFTRACE", v, insn, w)) ELSE hit
          IN /\ nNftrace' = IF readable THEN nNftrace + 1 ELSE nNftrace
             /\ nNftraceFail' = IF w \in Nft /\ ~readable THEN nNftraceFail + 1
                                                          ELSE nNftraceFail
             /\ IF snap
                THEN Snapshot(recs, v, insn, IF counted THEN "esnap" ELSE "snap", << >>)
                ELSE trace' = Written(recs) /\ NoSnapshot
     /\ UNCHANGED <<config, retired, lock, exited, lost, out, clock, rated, nDiscons, nSamples,
                    nReturns, callbacks>>

---------------------------------------------------------------------------
(* nf_finish, and nf_die inside the lock.                                   *)

Totals == [insns |-> Sum, snapshots |-> nSnapshots, discons |-> nDiscons,
           samples |-> nSamples, watchHits |-> nWatchHits,
           truncated |-> truncated, watchDrops |-> drops]

\* Four META records (left out) and END, then the file is closed; once only.
Finish ==
  /\ Running /\ Free
  /\ trace' = Written(<<Record("END", 0, Sum, Totals)>>)
  /\ out' = FALSE
  /\ UNCHANGED <<config, retired, lock, crashed, lost, clock, snapVars, rated, throttle,
                 counters, callbacks>>

FinishForgetsUnlock(v) ==
  /\ pc[v] = "finish" /\ Running /\ Free
  /\ lock' = IF out THEN lock ELSE v
  /\ trace' = Written(<<Record("END", 0, Sum, Totals)>>)
  /\ out' = FALSE
  /\ BackToGuest(v)
  /\ UNCHANGED <<config, exited, retired, crashed, lost, clock, snapVars, rated, throttle,
                 counters, callbacks>>

FinishAtMaxInsn(v) ==
  /\ pc[v] = "finish"
  /\ Finish
  /\ BackToGuest(v)
  /\ UNCHANGED exited

\* QEMU has paused its vCPUs and leaves through exit(): nf_atexit.
AtExit ==
  /\ \A v \in Vcpu : pc[v] \in {"new", "guest", "idle", "gone"}
  /\ Finish
  /\ exited' = TRUE
  /\ UNCHANGED <<pc, lat>>

WriteErrorIgnored(v) ==
  /\ DiskMayFill /\ Running /\ Free /\ out
  /\ pc[v] \in {"tb", "event", "watch"}
  /\ BackToGuest(v)
  /\ lost' = TRUE
  /\ UNCHANGED <<config, retired, lock, crashed, exited, out, trace, clock, snapVars, rated,
                 throttle, counters, callbacks>>

\* fwrite fails inside the lock: nf_die calls exit() with nf.lock held, exit()
\* runs nf_atexit on the same thread, which waits for nf.lock: no step follows.
WriteFails(v) ==
  /\ DiskMayFill /\ Running /\ Free /\ out
  /\ pc[v] \in {"tb", "event", "watch"}
  /\ pc' = [pc EXCEPT ![v] = "dying"]
  /\ lock' = v /\ lost' = TRUE
  /\ UNCHANGED <<config, retired, lat, crashed, exited, out, trace, clock, snapVars, rated,
                 throttle, counters, callbacks>>

Locked(v) == TbLocked(v) \/ EventLocked(v) \/ WatchLocked(v) \/ FinishAtMaxInsn(v)

Next ==
  \/ \E v \in Vcpu :
       \/ Retire(v) \/ VcpuInit(v) \/ VcpuExit(v)
       \/ Idle(v, "guest", "idle") \/ Idle(v, "idle", "guest")
       \/ TbEnter(v) \/ TbLocked(v)
       \/ EventEnter(v, "DISCON") \/ (Returns /\ EventEnter(v, "RETURN"))
       \/ EventLocked(v)
       \/ \E w \in Watch : WatchEnter(v, w)
       \/ WatchLocked(v)
       \/ FinishAtMaxInsn(v) \/ WriteFails(v)
  \/ AtExit

Spec == Init /\ [][Next]_vars

\* A vCPU thread that waits for nf.lock gets it once it is free: the lock
\* holders are operating-system threads that run, whatever the guest does.
AnyVcpu == UNION {c.vcpu : c \in Configs}
FairSpec == Spec /\ \A v \in AnyVcpu :
              WF_vars(v \in Vcpu /\ Locked(v))

---------------------------------------------------------------------------
(* Properties.                                                              *)

Pos(type) == {i \in DOMAIN trace : trace[i].type = type}
Marks(why) == {i \in Pos("SNAPMARK") : trace[i].why = why}
Count(type) == Cardinality(Pos(type))

\* Two records of one vCPU never go back in time, although the clock is read
\* before the lock: the per-cpu call stacks of callstack.py are built on this.
PerVcpuOrder ==
  \A i, j \in DOMAIN trace :
    i < j /\ trace[i].cpu = trace[j].cpu /\ trace[j].type # "END"
      => trace[i].insn <= trace[j].insn

\* The unlocked test of nf_tb_check lets several vCPUs through at one deadline;
\* still no two SAMPLEs are closer than sample instructions, in file order.
SamplesSpaced ==
  \A i, j \in Pos("SAMPLE") : i < j => trace[j].insn - trace[i].insn >= SampleEvery

\* After snapstart the memory is never older than snap instructions when a
\* sample is taken, unless snapshots have stopped at the byte budget: crossing
\* snapstart takes a snapshot at once, whatever the boot interval had planned.
\* The snapshot stands before the sample in the file, or right behind it: one
\* callback writes both.
DenseFromStart ==
  SnapEvery # 0 /\ ~truncated =>
    \A i \in Pos("SAMPLE") :
      trace[i].insn >= SnapStart /\ trace[i].insn >= SnapEvery =>
        \E j \in Marks("grid") :
          /\ j <= i + 1 /\ trace[j].insn >= SnapStart
          /\ trace[i].insn - trace[j].insn < SnapEvery

\* event-stream.md 2.7: two snapshots of the @esnap watches are at least
\* evsnapmin instructions apart, and a run has at most evsnapmax of them.
EventSnapsLimited ==
  /\ Cardinality(Marks("esnap")) <= EvSnapMax
  /\ \A i, j \in Marks("esnap") :
       i < j => trace[j].insn - trace[i].insn >= EvSnapMin

Waiting(w) == {v \in Vcpu : pc[v] = "watch" /\ lat[v].what = w}
Kept(w) == Cardinality({i \in Pos("WATCHPC") : trace[i].why = w})
           + Cardinality(Waiting(w))

\* The @rN limit keeps exactly the hits 0, N, 2N, ... of a watch whatever vCPUs
\* they fall on, and accounts for every other hit as a drop.
RateLimitKeepsOneInN ==
  out /\ ~lost =>
    LET limited == {w \in Watch : RateLimited(w)}
    IN /\ \A w \in limited : Kept(w) = (hits[w] + Rate[w] - 1) \div Rate[w]
       /\ drops = MapThenSumSet(LAMBDA w : hits[w] - Kept(w), limited)

\* END is honest: a recording that lost a record never carries it (the coverage
\* audit takes it for a complete trace), and whatever callbacks race with
\* nf_finish it is the last record and says of the file what the reader finds.
EndIsHonest ==
  \A i \in Pos("END") :
    LET e == trace[i].why
    IN /\ ~lost /\ i = Len(trace)
       /\ e.snapshots = Count("SNAPMARK") /\ e.discons = Count("DISCON")
       /\ e.samples = Count("SAMPLE") /\ e.watchHits = Count("WATCHPC")
       /\ \A j \in DOMAIN trace : trace[j].insn <= e.insns

\* A vCPU thread that entered a callback returns to guest code, also when
\* another one is closing the file, unless the disk is full: then nf_die calls
\* exit() and no vCPU is meant to go on.
CallbacksReturn ==
  \A v \in AnyVcpu :
    (v \in Vcpu /\ pc[v] \in {"tb", "event", "watch", "finish"})
      ~> (v \notin Vcpu \/ pc[v] = "guest" \/ crashed \/ lost)
=============================================================================
