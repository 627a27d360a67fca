--------------------------- MODULE NfPlugin_proofs ---------------------------
(***************************************************************************)
(* Theorems about NfPlugin, for every set of configurations: any vCPUs     *)
(* below NF_MAX_VCPUS, any watches, intervals and limits, and any number   *)
(* of instructions and callbacks.  A step inside nf.lock is first reduced  *)
(* to what it writes (Writes); the invariant is then about the file, the   *)
(* clocks latched outside the lock, and the counters.                      *)
(***************************************************************************)
EXTENDS NfPlugin, Counting

\* The watches of any configuration.
AnyWatch == UNION {c.watch : c \in Configs}
\* What a vCPU thread can be doing; Inside: it has read the clock and waits for nf.lock.
Phase    == {"new", "guest", "idle", "gone", "tb", "event", "watch", "finish", "dying"}
Inside   == {"tb", "event", "watch"}
\* The reasons a record can carry besides a watch.
Reason   == {"up", "down", "guest", "idle", "grid", "event", "final", "snap", "esnap"}
\* What an END record carries.
Total    == [insns : Nat, snapshots : Nat, discons : Nat, samples : Nat, watchHits : Nat,
             truncated : BOOLEAN, watchDrops : Nat]
\* The records of the vCPUs, the END record, and both.
Plain    == [type : {"VCPU", "IDLE", "SNAPMARK", "SAMPLE", "DISCON", "RETURN", "WATCHPC",
                     "NFTRACE"},
             cpu : 0 .. Nobody - 1, insn : Nat, why : Reason \cup AnyWatch]
End      == [type : {"END"}, cpu : {0}, insn : Nat, why : Total]
Rec      == Plain \cup End

\* The types of the variables.
TypeInv ==
  /\ config \in Configs
  /\ retired \in [Vcpu -> Nat] /\ pc \in [Vcpu -> Phase]
  /\ lat \in [Vcpu -> [insn : Nat, what : {"none", "DISCON", "RETURN"} \cup AnyWatch]]
  /\ \A v \in Vcpu : /\ pc[v] = "event" => lat[v].what \in {"DISCON", "RETURN"}
                     /\ pc[v] = "watch" => lat[v].what \in Watch
  /\ lock \in Vcpu \cup {Nobody}
  /\ {out, live, truncated, crashed, exited, lost, startSnapDone, finalSnapDone} \subseteq BOOLEAN
  /\ trace \in Seq(Rec)
  /\ nextSample \in Nat /\ nextSnap \in Nat
  /\ hits \in [Watch -> Nat] /\ drops \in Nat
  /\ evSnaps \in Nat /\ lastEvSnap \in Nat
  /\ {nSnapshots, nDiscons, nSamples, nWatchHits, nReturns, nNftrace, nNftraceFail} \subseteq Nat

\* What PluginAssumption says of the configuration of this recording.
LEMMA ConfigFacts ==
  ASSUME config \in Configs
  PROVE  /\ Vcpu \subseteq 0 .. Nobody - 1 /\ Vcpu # {} /\ IsFiniteSet(Vcpu)
         /\ Watch \subseteq AnyWatch /\ IsFiniteSet(Watch)
         /\ Snap \subseteq Watch /\ Throttle \subseteq Snap /\ Nft \subseteq Watch
         /\ Rate \in [Watch -> Nat]
         /\ SampleEvery \in Nat /\ SnapEvery \in Nat /\ BootSnapEvery \in Nat
         /\ SnapStart \in Nat /\ MaxInsn \in Nat /\ EvSnapMin \in Nat /\ EvSnapMax \in Nat
         /\ SnapStart = 0 => BootSnapEvery = 0
<1>1. Vcpu \subseteq 0 .. Nobody - 1 /\ Vcpu # {}
  BY PluginAssumption DEF Vcpu
<1>2. IsFiniteSet(Vcpu)
  <2>1. IsFiniteSet(0 .. Nobody - 1)
    <3>1. Nobody - 1 \in Int
      BY DEF Nobody
    <3> QED BY <3>1, FS_Interval
  <2>2. Vcpu \in SUBSET (0 .. Nobody - 1)
    BY <1>1
  <2> QED BY <2>1, <2>2, FS_Subset
<1>3. Watch \subseteq AnyWatch
  BY DEF Watch, AnyWatch
<1>4. /\ IsFiniteSet(Watch) /\ Snap \subseteq Watch /\ Throttle \subseteq Snap
      /\ Nft \subseteq Watch
  BY PluginAssumption DEF Watch, Snap, Throttle, Nft
<1>7. Rate \in [Watch -> Nat]
  BY PluginAssumption DEF Watch, Rate
<1>5. /\ SampleEvery \in Nat /\ SnapEvery \in Nat /\ BootSnapEvery \in Nat
      /\ SnapStart \in Nat /\ MaxInsn \in Nat
      /\ SnapStart = 0 => BootSnapEvery = 0
  BY PluginAssumption DEF SampleEvery, SnapEvery, BootSnapEvery, SnapStart, MaxInsn
<1>6. EvSnapMin \in Nat /\ EvSnapMax \in Nat
  BY PluginAssumption DEF EvSnapMin, EvSnapMax
<1> QED BY <1>1, <1>2, <1>3, <1>4, <1>5, <1>6, <1>7

---------------------------------------------------------------------------
(* The clock: qemu_plugin_u64_sum over the vCPUs.                          *)

\* qemu_plugin_u64_sum adds up the counters of the vCPUs,
LEMMA SumIsSumOver == Sum = SumOver(retired, Vcpu)
  BY DEF Sum, SumOver, MapThenSumSet, MapThenFoldSet

\* and so it does after a step.
LEMMA NextSumIsSumOver == Sum' = SumOver(retired', Vcpu')
  BY DEF Sum, SumOver, MapThenSumSet, MapThenFoldSet

\* The clock is a number, and the one nf_tb_check reads is the same clock:
\* with one vCPU its counter is the sum.
LEMMA SumFacts ==
  ASSUME config \in Configs, retired \in [Vcpu -> Nat]
  PROVE  /\ Sum \in Nat
         /\ \A v \in Vcpu : TbClock(v) = Sum
<1>1. IsFiniteSet(Vcpu)
  BY ConfigFacts
<1>2. Sum \in Nat
  BY <1>1, SumIsSumOver, SumIsNat
<1>3. ASSUME NEW v \in Vcpu, Cardinality(Vcpu) = 1 PROVE retired[v] = Sum
  <2>1. PICK x : Vcpu = {x}
    BY <1>1, <1>3, FS_Singleton
  <2>2. SumOver(retired, {v}) = retired[v]
    BY SumOfOne
  <2> QED BY <2>1, <2>2, SumIsSumOver
<1> QED BY <1>2, <1>3 DEF TbClock

\* The clock stands still while no instruction retires
LEMMA SumStays ==
  ASSUME UNCHANGED <<config, retired>>
  PROVE  Sum' = Sum
BY SumIsSumOver, NextSumIsSumOver DEF Vcpu

\* and advances by one when one does, on whatever vCPU.
LEMMA SumGrows ==
  ASSUME config \in Configs, retired \in [Vcpu -> Nat], NEW v \in Vcpu, Retire(v)
  PROVE  Sum' = Sum + 1
<1>1. config' = config /\ retired' = [retired EXCEPT ![v] = @ + 1]
  BY DEF Retire
<1>2. IsFiniteSet(Vcpu) /\ Vcpu' = Vcpu
  BY <1>1, ConfigFacts DEF Vcpu
<1>3. SumOver(retired', Vcpu) = SumOver(retired, Vcpu) + 1
  BY <1>1, <1>2, SumBump
<1> QED BY <1>2, <1>3, SumIsSumOver, NextSumIsSumOver

---------------------------------------------------------------------------
(* Records, and what a snapshot adds to them.                              *)

\* The types of record a vCPU writes; the records of vCPU v at clock x; the
\* records of one type; the hits of one watch.
Kind == {"VCPU", "IDLE", "SNAPMARK", "SAMPLE", "DISCON", "RETURN", "WATCHPC", "NFTRACE"}
Own(v, x) == {r \in Plain : r.cpu = v /\ r.insn = x}
OfType(t) == {r \in Rec : r.type = t}
Hits(w) == {r \in Rec : r.type = "WATCHPC" /\ r.why = w}

\* A record is of its vCPU, at its clock and of its type.
LEMMA RecordOwn ==
  ASSUME config \in Configs, NEW v \in Vcpu, NEW x \in Nat, NEW t \in Kind,
         NEW w \in Reason \cup AnyWatch
  PROVE  /\ Record(t, v, x, w) \in Own(v, x)
         /\ Record(t, v, x, w).type = t /\ Record(t, v, x, w).why = w
         /\ \A u : Record(t, v, x, w) \in OfType(u) <=> t = u
<1>1. v \in 0 .. Nobody - 1
  BY ConfigFacts
<1> QED BY <1>1 DEF Record, Own, Plain, Rec, Kind, OfType

\* So is a SNAPMARK, which is no hit of a watch.
LEMMA MarkOwn ==
  ASSUME TypeInv, NEW v \in Vcpu, NEW x \in Nat, NEW why \in Reason
  PROVE  /\ Record("SNAPMARK", v, x, why) \in Own(v, x)
         /\ Record("SNAPMARK", v, x, why).type = "SNAPMARK"
         /\ \A u : Record("SNAPMARK", v, x, why) \in OfType(u) <=> "SNAPMARK" = u
         /\ \A w : Record("SNAPMARK", v, x, why) \notin Hits(w)
<1>1. config \in Configs /\ "SNAPMARK" \in Kind /\ why \in Reason \cup AnyWatch
  BY DEF TypeInv, Kind
<1>2. /\ Record("SNAPMARK", v, x, why) \in Own(v, x)
      /\ Record("SNAPMARK", v, x, why).type = "SNAPMARK"
      /\ \A u : Record("SNAPMARK", v, x, why) \in OfType(u) <=> "SNAPMARK" = u
  BY <1>1, RecordOwn
<1> QED BY <1>2 DEF Hits

\* Records of one vCPU at one clock are records.
LEMMA OwnSeq ==
  ASSUME NEW v, NEW x, NEW s \in Seq(Own(v, x))
  PROVE  s \in Seq(Plain) /\ s \in Seq(Rec)
BY DEF Own, Rec

\* While the shadow pages live, recs has a SNAPMARK behind its first k records.
Marked(recs, v, x, why, k) ==
  live => k + 1 \in DOMAIN recs /\ recs[k + 1] = Record("SNAPMARK", v, x, why)

\* What nf_snapshot adds to the records before and after it: one SNAPMARK if
\* the shadow pages live, nothing otherwise.
SnapRecs(recs, before, v, x, why, after) ==
  /\ recs \in Seq(Own(v, x)) /\ trace' = Written(recs)
  /\ Marked(recs, v, x, why, Len(before))
  /\ \A G : Tally(recs, G) = Tally(before, G) + Tally(after, G)
              + (IF live /\ Record("SNAPMARK", v, x, why) \in G THEN 1 ELSE 0)
  /\ nSnapshots' = nSnapshots + (IF live THEN 1 ELSE 0)
  /\ \A i \in DOMAIN before : i \in DOMAIN recs /\ recs[i] = before[i]
  /\ \A i \in DOMAIN recs : \/ recs[i].type = "SNAPMARK"
                            \/ i \in DOMAIN before
                            \/ \E j \in DOMAIN after : recs[i] = after[j]

\* The variables of nf_snapshot keep their types.
SnapTypes == /\ nSnapshots' \in Nat /\ live' \in BOOLEAN /\ truncated' \in BOOLEAN
             /\ crashed' \in BOOLEAN

\* nf_snapshot writes the records around it and at most one SNAPMARK, which it
\* counts.
LEMMA SnapshotEffect ==
  ASSUME TypeInv, NEW v \in Vcpu, NEW x \in Nat, NEW why \in Reason,
         NEW before \in Seq(Own(v, x)), NEW after \in Seq(Own(v, x)),
         Snapshot(before, v, x, why, after)
  PROVE  SnapTypes /\ \E recs : SnapRecs(recs, before, v, x, why, after)
<1> DEFINE m == Record("SNAPMARK", v, x, why)
<1>1. m \in Own(v, x) /\ m.type = "SNAPMARK" /\ \A u : m \in OfType(u) <=> "SNAPMARK" = u
  BY MarkOwn
<1>2. \A G : Tally(before, G) \in Nat /\ Tally(after, G) \in Nat
  BY TallyIsNat
<1>3. CASE ~live
  <2>1. before \o after \in Seq(Own(v, x))
    OBVIOUS
  <2>2. \A G : Tally(before \o after, G) = Tally(before, G) + Tally(after, G)
    BY TallyConcat
  <2>3. trace' = Written(before \o after) /\ UNCHANGED <<live, truncated, nSnapshots, crashed>>
    BY <1>3 DEF Snapshot, NoSnapshot, snapVars
  <2>4. \A i \in DOMAIN (before \o after) :
             \/ i \in DOMAIN before
             \/ \E j \in DOMAIN after : (before \o after)[i] = after[j]
    <3> SUFFICES ASSUME NEW i \in DOMAIN (before \o after)
                 PROVE  \/ i \in DOMAIN before
                        \/ \E j \in DOMAIN after : (before \o after)[i] = after[j]
      OBVIOUS
    <3>1. CASE i <= Len(before)
      BY <3>1
    <3>2. CASE i > Len(before)
      <4>1. i - Len(before) \in DOMAIN after /\ (before \o after)[i] = after[i - Len(before)]
        BY <3>2
      <4> QED BY <4>1
    <3> QED BY <3>1, <3>2
  <2> DEFINE recs == before \o after
  <2>5. \A G : Tally(recs, G) = Tally(before, G) + Tally(after, G)
                                        + (IF live /\ m \in G THEN 1 ELSE 0)
    BY <1>2, <1>3, <2>2
  <2>6. Marked(recs, v, x, why, Len(before))
    BY <1>3 DEF Marked
  <2>7. recs \in Seq(Own(v, x)) /\ trace' = Written(recs)
    BY <2>1, <2>3
  <2>8. nSnapshots' = nSnapshots + (IF live THEN 1 ELSE 0)
    BY <1>3, <2>3 DEF TypeInv
  <2>9. \A i \in DOMAIN recs : recs[i].type = "SNAPMARK"
                   \/ i \in DOMAIN before
                   \/ (\E j \in DOMAIN after : recs[i] = after[j])
    BY <2>4
  <2>11. \A i \in DOMAIN before : i \in DOMAIN recs /\ recs[i] = before[i]
    OBVIOUS
  <2> HIDE DEF recs
  <2>10. /\ nSnapshots' \in Nat /\ live' \in BOOLEAN
         /\ truncated' \in BOOLEAN /\ crashed' \in BOOLEAN
    BY <2>3 DEF TypeInv
  <2> QED BY <2>5, <2>6, <2>7, <2>8, <2>9, <2>10, <2>11 DEF SnapRecs, SnapTypes
<1>4. CASE live
  <2> DEFINE recs == before \o <<m>> \o after
  <2>1. /\ nSnapshots' = nSnapshots + 1 /\ crashed' = ~out
        /\ truncated' \in BOOLEAN /\ live' = ~truncated' /\ trace' = Written(recs)
    BY <1>4 DEF Snapshot
  <2>2. before \o <<m>> \in Seq(Own(v, x)) /\ recs \in Seq(Own(v, x))
    BY <1>1
  <2>3. \A G : Tally(recs, G) = Tally(before \o <<m>>, G) + Tally(after, G)
    BY <2>2, TallyConcat
  <2>4. \A G : Tally(before \o <<m>>, G) = Tally(before, G) + Tally(<<m>>, G)
    <3>1. <<m>> \in Seq(Own(v, x))
      BY <1>1
    <3> HIDE DEF m
    <3> QED BY <3>1, TallyConcat
  <2>5. \A G : Tally(<<m>>, G) = IF m \in G THEN 1 ELSE 0
    BY <1>1, TallyOne
  <2>6. \A G : Tally(recs, G) = Tally(before, G) + Tally(after, G)
                                        + (IF live /\ m \in G THEN 1 ELSE 0)
    <3> HIDE DEF m, recs
    <3> QED BY <1>1, <1>2, <1>4, <2>3, <2>4, <2>5
  <2>7. Marked(recs, v, x, why, Len(before))
    <3>1. Len(before) + 1 \in DOMAIN recs /\ recs[Len(before) + 1] = m
      BY <1>1
    <3> HIDE DEF recs
    <3> QED BY <3>1 DEF Marked
  <2>8. \A i \in DOMAIN recs : recs[i].type = "SNAPMARK"
                   \/ i \in DOMAIN before
                   \/ (\E j \in DOMAIN after : recs[i] = after[j])
    <3> SUFFICES ASSUME NEW i \in DOMAIN recs
                 PROVE  \/ recs[i].type = "SNAPMARK"
                        \/ i \in DOMAIN before
                        \/ \E j \in DOMAIN after : recs[i] = after[j]
      OBVIOUS
    <3>1. CASE i <= Len(before)
      BY <3>1
    <3>2. CASE i = Len(before) + 1
      BY <1>1, <3>2
    <3>3. CASE i > Len(before) + 1
      <4>1. i - (Len(before) + 1) \in DOMAIN after /\ recs[i] = after[i - (Len(before) + 1)]
        BY <3>3
      <4> QED BY <4>1
    <3> QED BY <3>1, <3>2, <3>3
  <2>9. nSnapshots' \in Nat /\ live' \in BOOLEAN /\ crashed' \in BOOLEAN
    BY <2>1 DEF TypeInv
  <2>10. \A i \in DOMAIN before : i \in DOMAIN recs /\ recs[i] = before[i]
    BY <1>1
  <2> HIDE DEF recs
  <2> QED BY <1>4, <2>1, <2>2, <2>6, <2>7, <2>8, <2>9, <2>10 DEF SnapRecs, SnapTypes
<1> QED BY <1>3, <1>4 DEF TypeInv

---------------------------------------------------------------------------
(* What the steps inside the lock write.                                   *)

\* No record and no latched clock is ahead of the clock, and a vCPU that waits
\* for nf.lock has written nothing newer than the clock it latched: its own
\* records all come from callbacks it has left.
TimeInv ==
  /\ \A i \in DOMAIN trace : trace[i].insn <= Sum
  /\ \A v \in Vcpu : pc[v] \in Inside =>
       /\ lat[v].insn <= Sum
       /\ \A i \in DOMAIN trace :
            trace[i].cpu = v /\ trace[i].type # "END" => trace[i].insn <= lat[v].insn

\* The counters of END count what recs adds, and a watch has its one record
\* when the callback of that watch writes.
Counted(v, recs) ==
  /\ nSnapshots' = nSnapshots + Tally(recs, OfType("SNAPMARK"))
  /\ nDiscons'   = nDiscons + Tally(recs, OfType("DISCON"))
  /\ nSamples'   = nSamples + Tally(recs, OfType("SAMPLE"))
  /\ nWatchHits' = nWatchHits + Tally(recs, OfType("WATCHPC"))
  /\ \A w \in Watch : Tally(recs, Hits(w)) = IF pc[v] = "watch" /\ lat[v].what = w THEN 1 ELSE 0

\* A SAMPLE is the first record of its callback, is due, and moves the deadline.
Sampled(x, recs) ==
  /\ \A i \in DOMAIN recs : recs[i].type = "SAMPLE" =>
       i = 1 /\ SampleEvery # 0 /\ x >= nextSample /\ nextSample' = x + SampleEvery
  /\ (\A i \in DOMAIN recs : recs[i].type # "SAMPLE") => nextSample' = nextSample

\* What every step inside the lock does: it writes records of one vCPU at one
\* clock that is not older than the vCPU's earlier ones, and counts them.
Writes(v, x, recs) ==
  /\ x \in Nat /\ x <= Sum /\ recs \in Seq(Own(v, x))
  /\ \A i \in DOMAIN trace : trace[i].cpu = v /\ trace[i].type # "END" => trace[i].insn <= x
  /\ trace' = Written(recs)
  /\ Counted(v, recs) /\ Sampled(x, recs)

\* A record that is neither counted by a watch nor sampled.
OneRecord(v, x, r) == r \in Own(v, x) /\ r.type \in {"VCPU", "IDLE", "DISCON", "RETURN"}

\* A step that writes one VCPU, IDLE, DISCON or RETURN record.
LEMMA OneRecordWrites ==
  ASSUME TypeInv, NEW v \in Vcpu, NEW x \in Nat, NEW r, OneRecord(v, x, r), x <= Sum,
         \A i \in DOMAIN trace : trace[i].cpu = v /\ trace[i].type # "END" => trace[i].insn <= x,
         trace' = Written(<<r>>), pc[v] # "watch",
         UNCHANGED <<nSnapshots, nSamples, nWatchHits, nextSample>>,
         nDiscons' = nDiscons + IF r.type = "DISCON" THEN 1 ELSE 0
  PROVE  Writes(v, x, <<r>>)
<1>1. r \in Own(v, x) /\ <<r>> \in Seq(Own(v, x)) /\ r \in Rec
  BY DEF OneRecord, Own, Rec
<1>2. \A G : Tally(<<r>>, G) = IF r \in G THEN 1 ELSE 0
  BY <1>1, TallyOne
<1>3. /\ r \notin OfType("SNAPMARK") /\ r \notin OfType("SAMPLE") /\ r \notin OfType("WATCHPC")
      /\ r \in OfType("DISCON") <=> r.type = "DISCON"
      /\ \A w : r \notin Hits(w)
  BY <1>1 DEF OneRecord, OfType, Hits
<1>4. Counted(v, <<r>>)
  <2>1. /\ Tally(<<r>>, OfType("SNAPMARK")) = 0 /\ Tally(<<r>>, OfType("SAMPLE")) = 0
        /\ Tally(<<r>>, OfType("WATCHPC")) = 0
        /\ Tally(<<r>>, OfType("DISCON")) = IF r.type = "DISCON" THEN 1 ELSE 0
        /\ \A w : Tally(<<r>>, Hits(w)) = 0
    BY <1>2, <1>3
  <2>2. nSnapshots \in Nat /\ nSamples \in Nat /\ nWatchHits \in Nat
    BY DEF TypeInv
  <2>3. nSnapshots' = nSnapshots /\ nSamples' = nSamples /\ nWatchHits' = nWatchHits
    OBVIOUS
  <2> QED BY <2>1, <2>2, <2>3 DEF Counted
<1>5. Sampled(x, <<r>>)
  BY DEF Sampled, OneRecord
<1> QED BY <1>1, <1>4, <1>5 DEF Writes

\* nf_vcpu_init writes so,
LEMMA VcpuInitWrites ==
  ASSUME TypeInv, TimeInv, NEW v \in Vcpu, VcpuInit(v)
  PROVE  \E x \in Nat : \E recs : Writes(v, x, recs)
<1> DEFINE r == Record("VCPU", v, Sum, "up")
<1>1. Sum \in Nat /\ Sum <= Sum
  BY SumFacts DEF TypeInv
<1>2. OneRecord(v, Sum, r) /\ r.type = "VCPU"
  BY <1>1, RecordOwn DEF TypeInv, Kind, Reason, OneRecord
<1>3. /\ trace' = Written(<<r>>) /\ pc[v] # "watch"
      /\ UNCHANGED <<nSnapshots, nSamples, nWatchHits, nextSample, nDiscons>>
  BY DEF VcpuInit, counters, clock, snapVars
<1>4. nDiscons' = nDiscons + IF r.type = "DISCON" THEN 1 ELSE 0
  BY <1>2, <1>3 DEF TypeInv
<1>5. \A i \in DOMAIN trace : trace[i].insn <= Sum
  BY DEF TimeInv
<1> HIDE DEF r
<1>6. Writes(v, Sum, <<r>>)
  BY <1>1, <1>2, <1>3, <1>4, <1>5, OneRecordWrites
<1> QED BY <1>1, <1>6

\* nf_vcpu_idle and nf_vcpu_resume,
LEMMA IdleWrites ==
  ASSUME TypeInv, TimeInv, NEW v \in Vcpu, NEW from \in {"guest", "idle"},
         NEW to \in {"guest", "idle"}, Idle(v, from, to)
  PROVE  \E x \in Nat : \E recs : Writes(v, x, recs)
<1> DEFINE r == Record("IDLE", v, Sum, to)
<1>1. Sum \in Nat /\ Sum <= Sum
  BY SumFacts DEF TypeInv
<1>2. OneRecord(v, Sum, r) /\ r.type = "IDLE"
  BY SMTT(40), <1>1, RecordOwn DEF TypeInv, Kind, Reason, OneRecord
<1>3. /\ trace' = Written(<<r>>) /\ pc[v] # "watch"
      /\ UNCHANGED <<nSnapshots, nSamples, nWatchHits, nextSample, nDiscons>>
  BY DEF Idle, counters, clock, snapVars
<1>4. nDiscons' = nDiscons + IF r.type = "DISCON" THEN 1 ELSE 0
  BY <1>2, <1>3 DEF TypeInv
<1>5. \A i \in DOMAIN trace : trace[i].insn <= Sum
  BY DEF TimeInv
<1> HIDE DEF r
<1>6. Writes(v, Sum, <<r>>)
  BY <1>1, <1>2, <1>3, <1>4, <1>5, OneRecordWrites
<1> QED BY <1>1, <1>6

\* nf_discon and nf_return_hit,
LEMMA EventWrites ==
  ASSUME TypeInv, TimeInv, NEW v \in Vcpu, EventLocked(v)
  PROVE  \E x \in Nat : \E recs : Writes(v, x, recs)
<1> DEFINE x == lat[v].insn
           r == Record(lat[v].what, v, x, "event")
<1>0. pc[v] = "event" /\ trace' = Written(<<r>>)
      /\ UNCHANGED <<nSnapshots, nSamples, nWatchHits, nextSample>>
  BY DEF EventLocked, clock, snapVars
<1>1. x \in Nat /\ lat[v].what \in {"DISCON", "RETURN"} /\ x <= Sum
      /\ \A i \in DOMAIN trace : trace[i].cpu = v /\ trace[i].type # "END" => trace[i].insn <= x
  BY <1>0 DEF TypeInv, TimeInv, Inside
<1>2. OneRecord(v, x, r) /\ r.type = lat[v].what
  BY SMTT(40), <1>1, RecordOwn DEF TypeInv, Kind, Reason, OneRecord
<1>3. nDiscons' = nDiscons + IF r.type = "DISCON" THEN 1 ELSE 0
  BY <1>2 DEF EventLocked
<1> HIDE DEF r, x
<1>5. Writes(v, x, <<r>>)
  BY <1>0, <1>1, <1>2, <1>3, OneRecordWrites
<1> QED BY <1>1, <1>5

\* and nf_vcpu_exit, with or without the final snapshot.
LEMMA ExitWrites ==
  ASSUME TypeInv, TimeInv, NEW v \in Vcpu, VcpuExit(v)
  PROVE  SnapTypes /\ \E x \in Nat : \E recs : Writes(v, x, recs)
<1> DEFINE r == Record("VCPU", v, Sum, "down")
<1>1. Sum \in Nat /\ Sum <= Sum
  BY SumFacts DEF TypeInv
<1>2. OneRecord(v, Sum, r) /\ r.type = "VCPU"
  BY SMTT(40), <1>1, RecordOwn DEF TypeInv, Kind, Reason, OneRecord
<1>3. \A i \in DOMAIN trace : trace[i].insn <= Sum
  BY DEF TimeInv
<1>4. /\ pc[v] # "watch"
      /\ UNCHANGED <<nSamples, nWatchHits, nextSample, nDiscons>>
      /\ \/ trace' = Written(<<r>>) /\ NoSnapshot
         \/ Snapshot(<< >>, v, Sum, "final", <<r>>)
  BY DEF VcpuExit, counters
<1>5. nDiscons' = nDiscons + IF r.type = "DISCON" THEN 1 ELSE 0
  BY <1>2, <1>4 DEF TypeInv
<1>6. CASE trace' = Written(<<r>>) /\ NoSnapshot
  <2>1. nSnapshots' = nSnapshots /\ UNCHANGED <<live, truncated, crashed>>
    BY <1>6 DEF NoSnapshot, snapVars
  <2> HIDE DEF r
  <2>2. Writes(v, Sum, <<r>>)
    BY <1>1, <1>2, <1>3, <1>4, <1>5, <1>6, <2>1, OneRecordWrites
  <2>3. SnapTypes
    BY <2>1 DEF TypeInv, SnapTypes
  <2> QED BY <1>1, <2>2, <2>3
<1>7. CASE Snapshot(<< >>, v, Sum, "final", <<r>>)
  <2> DEFINE m == Record("SNAPMARK", v, Sum, "final")
             e == << >>
  <2>1. /\ r \in Own(v, Sum) /\ r \in Rec
        /\ e \in Seq(Own(v, Sum)) /\ <<r>> \in Seq(Own(v, Sum)) /\ DOMAIN e = {}
    BY <1>2 DEF OneRecord, Own, Rec
  <2>2. "final" \in Reason
    BY DEF Reason
  <2>3. Snapshot(e, v, Sum, "final", <<r>>)
    BY <1>7
  <2> HIDE DEF r, m, e
  <2>4. SnapTypes /\ \E recs : SnapRecs(recs, e, v, Sum, "final", <<r>>)
    BY <1>1, <2>1, <2>2, <2>3, SnapshotEffect
  <2>14. PICK recs : SnapRecs(recs, e, v, Sum, "final", <<r>>)
    BY <2>4
  <2>5. /\ recs \in Seq(Own(v, Sum)) /\ trace' = Written(recs)
        /\ \A G : Tally(recs, G) = Tally(e, G) + Tally(<<r>>, G)
                   + (IF live /\ m \in G THEN 1 ELSE 0)
        /\ nSnapshots' = nSnapshots + (IF live THEN 1 ELSE 0)
        /\ \A i \in DOMAIN recs : recs[i].type = "SNAPMARK"
                   \/ i \in DOMAIN e
                   \/ (\E j \in DOMAIN <<r>> : recs[i] = <<r>>[j])
    BY <2>14 DEF SnapRecs, m
  <2>6. \A G : Tally(e, G) = 0 /\ Tally(<<r>>, G) = IF r \in G THEN 1 ELSE 0
    <3>1. \A G : Tally(e, G) = 0
      BY TallyEmpty DEF e
    <3> QED BY <2>1, <3>1, TallyOne
  <2>7. \A G : Tally(recs, G) = (IF r \in G THEN 1 ELSE 0) + (IF live /\ m \in G THEN 1 ELSE 0)
    BY <2>5, <2>6
  <2>8. \A u : m \in OfType(u) <=> "SNAPMARK" = u
    BY <1>1, <2>2, RecordOwn DEF TypeInv, Kind, m
  <2>9. m.type = "SNAPMARK"
    BY DEF m, Record
  <2>10. /\ \A u : r \in OfType(u) <=> "VCPU" = u
         /\ \A w : r \notin Hits(w) /\ m \notin Hits(w)
    BY <1>2, <2>1, <2>9 DEF OfType, Hits
  <2>11. Counted(v, recs)
    <3>1. /\ Tally(recs, OfType("SNAPMARK")) = IF live THEN 1 ELSE 0
          /\ Tally(recs, OfType("DISCON")) = 0 /\ Tally(recs, OfType("SAMPLE")) = 0
          /\ Tally(recs, OfType("WATCHPC")) = 0
          /\ \A w : Tally(recs, Hits(w)) = 0
      BY <2>7, <2>8, <2>10
    <3>2. nSamples' = nSamples /\ nWatchHits' = nWatchHits /\ nDiscons' = nDiscons
          /\ nSamples \in Nat /\ nWatchHits \in Nat /\ nDiscons \in Nat
      BY <1>4 DEF TypeInv
    <3> QED BY <1>4, <2>5, <3>1, <3>2 DEF Counted
  <2>12. Sampled(Sum, recs)
    <3>1. \A i \in DOMAIN recs : recs[i].type # "SAMPLE"
      BY <1>2, <2>1, <2>5
    <3>2. nextSample' = nextSample
      BY <1>4
    <3> QED BY <3>1, <3>2 DEF Sampled
  <2>13. Writes(v, Sum, recs)
    BY <1>1, <1>3, <2>5, <2>11, <2>12 DEF Writes
  <2> QED BY <1>1, <2>4, <2>13
<1> QED BY <1>4, <1>6, <1>7

\* recs is s, with a SNAPMARK behind it if a snapshot was asked for and taken.
Extends(recs, s, v, x, why, snapped) ==
  /\ recs \in Seq(Own(v, x)) /\ trace' = Written(recs)
  /\ snapped => Marked(recs, v, x, why, Len(s))
  /\ \A u \in Kind \ {"SNAPMARK"} : Tally(recs, OfType(u)) = Tally(s, OfType(u))
  /\ nSnapshots' = nSnapshots + Tally(recs, OfType("SNAPMARK"))
  /\ \A w : Tally(recs, Hits(w)) = Tally(s, Hits(w))
  /\ \A i \in DOMAIN s : i \in DOMAIN recs /\ recs[i] = s[i]
  /\ \A i \in DOMAIN recs : recs[i].type = "SNAPMARK" \/ i \in DOMAIN s

\* A callback that may take a snapshot writes its records and at most a
\* SNAPMARK behind them.
LEMMA MaybeSnapshot ==
  ASSUME TypeInv, NEW v \in Vcpu, NEW x \in Nat, NEW why \in Reason,
         NEW s \in Seq(Own(v, x)), Tally(s, OfType("SNAPMARK")) = 0, NEW snapped \in BOOLEAN,
         IF snapped THEN Snapshot(s, v, x, why, << >>) ELSE trace' = Written(s) /\ NoSnapshot
  PROVE  SnapTypes /\ \E recs : Extends(recs, s, v, x, why, snapped)
<1>1. CASE ~snapped
  <2>1. trace' = Written(s) /\ nSnapshots' = nSnapshots /\ UNCHANGED <<live, truncated, crashed>>
    BY <1>1 DEF NoSnapshot, snapVars
  <2>2. SnapTypes
    BY <2>1 DEF TypeInv, SnapTypes
  <2>3. Extends(s, s, v, x, why, snapped)
    BY <1>1, <2>1 DEF Extends, TypeInv
  <2> QED BY <2>2, <2>3
<1>2. CASE snapped
  <2> DEFINE m == Record("SNAPMARK", v, x, why)
             e == << >>
  <2>1. e \in Seq(Own(v, x)) /\ DOMAIN e = {} /\ \A G : Tally(e, G) = 0
    BY TallyEmpty
  <2>2. Snapshot(s, v, x, why, e)
    BY <1>2
  <2>3. /\ \A u : m \in OfType(u) <=> "SNAPMARK" = u
        /\ m.type = "SNAPMARK" /\ \A w : m \notin Hits(w)
    BY MarkOwn
  <2> HIDE DEF m, e
  <2>4. SnapTypes /\ \E recs : SnapRecs(recs, s, v, x, why, e)
    BY <2>1, <2>2, SnapshotEffect
  <2>5. PICK recs : SnapRecs(recs, s, v, x, why, e)
    BY <2>4
  <2>6. /\ recs \in Seq(Own(v, x)) /\ trace' = Written(recs) /\ Marked(recs, v, x, why, Len(s))
        /\ \A G : Tally(recs, G) = Tally(s, G) + Tally(e, G) + (IF live /\ m \in G THEN 1 ELSE 0)
        /\ nSnapshots' = nSnapshots + (IF live THEN 1 ELSE 0)
        /\ \A i \in DOMAIN s : i \in DOMAIN recs /\ recs[i] = s[i]
        /\ \A i \in DOMAIN recs : recs[i].type = "SNAPMARK" \/ i \in DOMAIN s
    BY <2>1, <2>5 DEF SnapRecs, m
  <2>7. \A G : Tally(s, G) \in Nat
    BY TallyIsNat
  <2>8. \A G : m \notin G => Tally(recs, G) = Tally(s, G)
    BY <2>1, <2>6, <2>7
  <2>9. \A u \in Kind \ {"SNAPMARK"} : Tally(recs, OfType(u)) = Tally(s, OfType(u))
    BY <2>3, <2>8
  <2>10. \A w : Tally(recs, Hits(w)) = Tally(s, Hits(w))
    BY <2>3, <2>8
  <2>11. Tally(recs, OfType("SNAPMARK")) = IF live THEN 1 ELSE 0
    BY <2>1, <2>3, <2>6
  <2>12. Extends(recs, s, v, x, why, snapped)
    BY <2>6, <2>9, <2>10, <2>11 DEF Extends
  <2> QED BY <2>4, <2>12
<1> QED BY <1>1, <1>2

\* nf_tb_check inside the lock: at most one SAMPLE and, when a snapshot is due
\* and can be taken, a SNAPMARK right behind it.
LEMMA TbWrites ==
  ASSUME TypeInv, TimeInv, NEW v \in Vcpu, TbLocked(v)
  PROVE  SnapTypes /\ \E recs : /\ Writes(v, lat[v].insn, recs)
                                /\ SnapDue(lat[v].insn) =>
                                     \E k \in {0, 1} : Marked(recs, v, lat[v].insn, "grid", k)
<1> DEFINE x == lat[v].insn
           r == Record("SAMPLE", v, x, "grid")
           s == IF SampleDue(x) THEN <<r>> ELSE << >>
<1>1. pc[v] = "tb" /\ UNCHANGED <<nDiscons, nWatchHits>>
  BY DEF TbLocked
<1>2. x \in Nat /\ x <= Sum
      /\ \A i \in DOMAIN trace : trace[i].cpu = v /\ trace[i].type # "END" => trace[i].insn <= x
  BY <1>1 DEF TypeInv, TimeInv, Inside
<1>3. /\ r \in Own(v, x) /\ r.type = "SAMPLE" /\ \A u : r \in OfType(u) <=> "SAMPLE" = u
      /\ \A w : r \notin Hits(w)
  BY SMTT(40), <1>2, RecordOwn DEF TypeInv, Kind, Reason, Hits
<1>4. IF SnapDue(x) THEN Snapshot(s, v, x, "grid", << >>) ELSE trace' = Written(s) /\ NoSnapshot
  BY DEF TbLocked
<1>5. /\ nSamples' = IF SampleDue(x) THEN nSamples + 1 ELSE nSamples
      /\ nextSample' = IF SampleDue(x) THEN x + SampleEvery ELSE nextSample
  BY DEF TbLocked
<1>6. /\ s \in Seq(Own(v, x))
      /\ \A G : Tally(s, G) = IF SampleDue(x) /\ r \in G THEN 1 ELSE 0
  <2>1. CASE SampleDue(x)
    <3>1. s = <<r>> /\ <<r>> \in Seq(Own(v, x))
      BY <1>3, <2>1
    <3> HIDE DEF s, r
    <3> QED BY <1>3, <2>1, <3>1, TallyOne
  <2>2. CASE ~SampleDue(x)
    <3>1. s = << >> /\ << >> \in Seq(Own(v, x))
      BY <2>2
    <3> HIDE DEF s, r
    <3> QED BY <2>2, <3>1, TallyEmpty
  <2> QED BY <2>1, <2>2
<1>7. "grid" \in Reason /\ SnapDue(x) \in BOOLEAN
  BY DEF Reason, SnapDue
<1>8. DOMAIN s = (IF SampleDue(x) THEN {1} ELSE {}) /\ Len(s) \in {0, 1}
  OBVIOUS
<1>9. SampleDue(x) => s[1] = r
  OBVIOUS
<1> HIDE DEF s, r, x
<1>10. Tally(s, OfType("SNAPMARK")) = 0 /\ Tally(s, OfType("DISCON")) = 0
       /\ Tally(s, OfType("WATCHPC")) = 0 /\ \A w : Tally(s, Hits(w)) = 0
       /\ Tally(s, OfType("SAMPLE")) = IF SampleDue(x) THEN 1 ELSE 0
  BY <1>3, <1>6
<1>11. SnapTypes /\ \E recs : Extends(recs, s, v, x, "grid", SnapDue(x))
  BY <1>2, <1>4, <1>6, <1>7, <1>10, MaybeSnapshot
<1>12. PICK recs : Extends(recs, s, v, x, "grid", SnapDue(x))
  BY <1>11
<1>13. /\ nSamples \in Nat /\ nDiscons \in Nat /\ nWatchHits \in Nat
  BY DEF TypeInv
<1>14. Counted(v, recs)
  BY <1>1, <1>5, <1>10, <1>12, <1>13 DEF Counted, Extends, Kind
<1>15. Sampled(x, recs)
  <2>1. CASE SampleDue(x)
    <3>1. SampleEvery # 0 /\ x >= nextSample /\ nextSample' = x + SampleEvery
      BY <1>5, <2>1 DEF SampleDue
    <3>2. \A i \in DOMAIN recs : recs[i].type = "SAMPLE" => i = 1
      BY <1>8, <1>12, <2>1 DEF Extends
    <3>3. 1 \in DOMAIN recs /\ recs[1].type = "SAMPLE"
      BY <1>3, <1>8, <1>9, <1>12, <2>1 DEF Extends
    <3> QED BY <3>1, <3>2, <3>3 DEF Sampled
  <2>2. CASE ~SampleDue(x)
    <3>1. nextSample' = nextSample
      BY <1>5, <2>2
    <3>2. \A i \in DOMAIN recs : recs[i].type # "SAMPLE"
      BY <1>8, <1>12, <2>2 DEF Extends
    <3> QED BY <3>1, <3>2 DEF Sampled
  <2> QED BY <2>1, <2>2
<1>16. Writes(v, x, recs)
  BY <1>2, <1>12, <1>14, <1>15 DEF Writes, Extends
<1>17. SnapDue(x) => \E k \in {0, 1} : Marked(recs, v, x, "grid", k)
  BY <1>8, <1>12 DEF Extends
<1> QED BY <1>11, <1>16, <1>17 DEF x

\* nf_watch_hit inside the lock: one WATCHPC, an NFTRACE perhaps, a SNAPMARK
\* perhaps.
LEMMA WatchWrites ==
  ASSUME TypeInv, TimeInv, NEW v \in Vcpu, WatchLocked(v)
  PROVE  SnapTypes /\ \E x \in Nat : \E recs : Writes(v, x, recs)
<1> DEFINE x == lat[v].insn
           w == lat[v].what
           h == Record("WATCHPC", v, x, w)
           n == Record("NFTRACE", v, x, w)
           snap == w \in Snap /\ SnapEvery # 0 /\ (w \in Throttle => Calm(x))
           why == IF snap /\ w \in Throttle THEN "esnap" ELSE "snap"
<1>1. pc[v] = "watch" /\ nWatchHits' = nWatchHits + 1
      /\ UNCHANGED <<nDiscons, nSamples, nextSample>>
  BY DEF WatchLocked, clock
<1>2. x \in Nat /\ x <= Sum /\ w \in Watch
      /\ \A i \in DOMAIN trace : trace[i].cpu = v /\ trace[i].type # "END" => trace[i].insn <= x
  BY <1>1 DEF TypeInv, TimeInv, Inside
<1>3. w \in AnyWatch /\ config \in Configs
  BY <1>2, ConfigFacts DEF TypeInv
<1>4. /\ h \in Own(v, x) /\ h.type = "WATCHPC" /\ \A u : h \in OfType(u) <=> "WATCHPC" = u
      /\ n \in Own(v, x) /\ n.type = "NFTRACE" /\ \A u : n \in OfType(u) <=> "NFTRACE" = u
      /\ h.why = w
  BY <1>2, <1>3, RecordOwn DEF Kind
<1>5. h \in Rec /\ \A u : (h \in Hits(u) <=> u = w) /\ n \notin Hits(u)
  BY <1>4 DEF Hits, Own, Rec
<1>6. \E s \in {<<h>>, Append(<<h>>, n)} :
        IF snap THEN Snapshot(s, v, x, why, << >>) ELSE trace' = Written(s) /\ NoSnapshot
  BY DEF WatchLocked
<1>7. PICK s \in {<<h>>, Append(<<h>>, n)} :
        IF snap THEN Snapshot(s, v, x, why, << >>) ELSE trace' = Written(s) /\ NoSnapshot
  BY <1>6
<1>8. why \in Reason /\ snap \in BOOLEAN
  BY DEF Reason
<1> HIDE DEF h, n, x, w, snap, why
<1>9. s \in Seq(Own(v, x)) /\ \A i \in DOMAIN s : s[i] \in {h, n}
  <2>1. CASE s = <<h>>
    BY <1>4, <2>1
  <2>2. CASE s = Append(<<h>>, n)
    BY <1>4, <2>2
  <2> QED BY <2>1, <2>2
<1>10. \A G : n \notin G => Tally(s, G) = IF h \in G THEN 1 ELSE 0
  <2>1. <<h>> \in Seq(Own(v, x))
    BY <1>4
  <2>2. \A G : Tally(<<h>>, G) = IF h \in G THEN 1 ELSE 0
    BY <1>4, TallyOne
  <2>3. \A G : Tally(Append(<<h>>, n), G) = IF n \in G THEN Tally(<<h>>, G) + 1 ELSE Tally(<<h>>, G)
    BY ZenonT(40), <1>4, <2>1, TallyAppend
  <2> QED BY <2>2, <2>3
<1>11. Tally(s, OfType("SNAPMARK")) = 0 /\ Tally(s, OfType("DISCON")) = 0
       /\ Tally(s, OfType("WATCHPC")) = 1 /\ Tally(s, OfType("SAMPLE")) = 0
       /\ \A u : Tally(s, Hits(u)) = IF u = w THEN 1 ELSE 0
  BY <1>4, <1>5, <1>10
<1>12. SnapTypes /\ \E recs : Extends(recs, s, v, x, why, snap)
  BY <1>2, <1>7, <1>8, <1>9, <1>11, MaybeSnapshot
<1>13. PICK recs : Extends(recs, s, v, x, why, snap)
  BY <1>12
<1>14. /\ nSamples \in Nat /\ nDiscons \in Nat /\ nWatchHits \in Nat
  BY DEF TypeInv
<1>15. Counted(v, recs)
  BY <1>1, <1>11, <1>13, <1>14 DEF Counted, Extends, Kind, w
<1>16. Sampled(x, recs)
  <2>1. \A i \in DOMAIN recs : recs[i].type # "SAMPLE"
    BY <1>4, <1>9, <1>13 DEF Extends
  <2> QED BY <1>1, <2>1 DEF Sampled
<1>17. Writes(v, x, recs)
  BY <1>2, <1>13, <1>15, <1>16 DEF Writes, Extends
<1> QED BY <1>2, <1>12, <1>17

---------------------------------------------------------------------------
(* The kinds of step, and the types.                                       *)

\* The steps inside the lock that write records of a vCPU; the ones that read
\* the clock before it; nf_finish.
WriteStep(v) ==
  \/ VcpuInit(v) \/ VcpuExit(v)
  \/ Idle(v, "guest", "idle") \/ Idle(v, "idle", "guest")
  \/ TbLocked(v) \/ EventLocked(v) \/ WatchLocked(v)

EnterStep(v) ==
  \/ TbEnter(v) \/ EventEnter(v, "DISCON") \/ EventEnter(v, "RETURN")
  \/ \E w \in Watch : WatchEnter(v, w)

FinishStep == AtExit \/ \E v \in Vcpu : FinishAtMaxInsn(v)

\* Every step is one of these, an instruction that retires or a failed write.
LEMMA StepKinds ==
  ASSUME Next
  PROVE  \/ \E v \in Vcpu : Retire(v) \/ WriteStep(v) \/ EnterStep(v) \/ WriteFails(v)
         \/ FinishStep
BY DEF Next, WriteStep, EnterStep, FinishStep

\* Every step inside the lock writes as Writes says.
LEMMA WriteStepWrites ==
  ASSUME TypeInv, TimeInv, NEW v \in Vcpu, WriteStep(v)
  PROVE  SnapTypes /\ \E x \in Nat : \E recs : Writes(v, x, recs)
<1>1. CASE VcpuInit(v)
  <2>1. UNCHANGED <<snapVars, crashed>>
    BY <1>1 DEF VcpuInit, process
  <2>2. SnapTypes
    BY <2>1 DEF SnapTypes, TypeInv, snapVars
  <2> QED BY <1>1, <2>2, VcpuInitWrites
<1>2. CASE Idle(v, "guest", "idle")
  <2>1. UNCHANGED <<snapVars, crashed>>
    BY <1>2 DEF Idle, process
  <2>2. SnapTypes
    BY <2>1 DEF SnapTypes, TypeInv, snapVars
  <2> QED BY <1>2, <2>2, IdleWrites
<1>3. CASE Idle(v, "idle", "guest")
  <2>1. UNCHANGED <<snapVars, crashed>>
    BY <1>3 DEF Idle, process
  <2>2. SnapTypes
    BY <2>1 DEF SnapTypes, TypeInv, snapVars
  <2> QED BY <1>3, <2>2, IdleWrites
<1>4. CASE VcpuExit(v)
  BY <1>4, ExitWrites
<1>5. CASE TbLocked(v)
  <2>1. lat[v].insn \in Nat
    BY DEF TypeInv
  <2> QED BY <1>5, <2>1, TbWrites
<1>6. CASE EventLocked(v)
  <2>1. UNCHANGED <<snapVars, crashed>>
    BY <1>6 DEF EventLocked, process
  <2>2. SnapTypes
    BY <2>1 DEF SnapTypes, TypeInv, snapVars
  <2> QED BY <1>6, <2>2, EventWrites
<1>7. CASE WatchLocked(v)
  BY <1>7, WatchWrites
<1> QED BY <1>1, <1>2, <1>3, <1>4, <1>5, <1>6, <1>7 DEF WriteStep

\* A step inside the lock leaves the clock, the lock, the file and the other
\* vCPUs alone, and its vCPU leaves the callback.
LEMMA WriteStepFrame ==
  ASSUME TypeInv, NEW v \in Vcpu, WriteStep(v)
  PROVE  /\ UNCHANGED <<config, retired, lock, out, lost, exited, hits, drops>>
         /\ pc' \in [Vcpu -> Phase] /\ pc'[v] \notin Inside
         /\ lat' \in [Vcpu -> [insn : Nat, what : {"none", "DISCON", "RETURN"} \cup AnyWatch]]
         /\ \A u \in Vcpu \ {v} : pc'[u] = pc[u] /\ lat'[u] = lat[u]
<1> USE DEF TypeInv, Phase, Inside, process, rated
<1>0. NoClock \in [insn : Nat, what : {"none", "DISCON", "RETURN"} \cup AnyWatch]
  BY DEF NoClock
<1>1. CASE VcpuInit(v)
  BY <1>1 DEF VcpuInit
<1>2. CASE Idle(v, "guest", "idle")
  BY <1>2 DEF Idle
<1>3. CASE Idle(v, "idle", "guest")
  BY <1>3 DEF Idle
<1>4. CASE VcpuExit(v)
  BY <1>4 DEF VcpuExit
<1>5. CASE TbLocked(v)
  BY <1>0, <1>5 DEF TbLocked, BackToGuest
<1>6. CASE EventLocked(v)
  BY <1>0, <1>6 DEF EventLocked, BackToGuest
<1>7. CASE WatchLocked(v)
  BY <1>0, <1>7 DEF WatchLocked, BackToGuest
<1> QED BY <1>1, <1>2, <1>3, <1>4, <1>5, <1>6, <1>7 DEF WriteStep

\* Such a step keeps the types of the file and of the counters
LEMMA WritesTyped ==
  ASSUME TypeInv, NEW v, NEW x, NEW recs, Writes(v, x, recs)
  PROVE  trace' \in Seq(Rec) /\ {nSnapshots', nDiscons', nSamples', nWatchHits'} \subseteq Nat
<1>1. recs \in Seq(Rec)
  BY OwnSeq DEF Writes
<1>2. trace' \in Seq(Rec)
  BY <1>1 DEF TypeInv, Writes, Written
<1>3. \A G : Tally(recs, G) \in Nat
  BY <1>1, TallyIsNat
<1>4. nSnapshots \in Nat /\ nDiscons \in Nat /\ nSamples \in Nat /\ nWatchHits \in Nat
  BY DEF TypeInv
<1>5. /\ nSnapshots' = nSnapshots + Tally(recs, OfType("SNAPMARK"))
      /\ nDiscons'   = nDiscons + Tally(recs, OfType("DISCON"))
      /\ nSamples'   = nSamples + Tally(recs, OfType("SAMPLE"))
      /\ nWatchHits' = nWatchHits + Tally(recs, OfType("WATCHPC"))
  BY DEF Writes, Counted
<1> QED BY SMTT(40), <1>2, <1>3, <1>4, <1>5

\* The types of the variables only the deadlines and the limits use.
OtherTypes ==
  /\ {startSnapDone, finalSnapDone} \subseteq BOOLEAN
  /\ nextSample \in Nat /\ nextSnap \in Nat /\ evSnaps \in Nat /\ lastEvSnap \in Nat
  /\ {nReturns, nNftrace, nNftraceFail} \subseteq Nat

\* and those of the deadlines and limits.
LEMMA WriteStepOthers ==
  ASSUME TypeInv, NEW v \in Vcpu, WriteStep(v)
  PROVE  OtherTypes'
<1>0. /\ SampleEvery \in Nat /\ SnapEvery \in Nat /\ BootSnapEvery \in Nat
      /\ lat[v].insn \in Nat
  BY ConfigFacts DEF TypeInv
<1> USE DEF TypeInv, OtherTypes, clock, throttle, counters
<1>1. CASE VcpuInit(v)
  BY <1>1 DEF VcpuInit
<1>2. CASE Idle(v, "guest", "idle")
  BY <1>2 DEF Idle
<1>3. CASE Idle(v, "idle", "guest")
  BY <1>3 DEF Idle
<1>4. CASE VcpuExit(v)
  BY <1>4 DEF VcpuExit
<1>5. CASE TbLocked(v)
  <2>1. /\ nextSample' \in {nextSample, lat[v].insn + SampleEvery}
        /\ nextSnap' \in {nextSnap, lat[v].insn + SnapEvery, lat[v].insn + BootSnapEvery}
        /\ startSnapDone' = (startSnapDone \/ (SnapDue(lat[v].insn) /\ CrossedStart(lat[v].insn)))
        /\ UNCHANGED <<finalSnapDone, evSnaps, lastEvSnap, nReturns, nNftrace, nNftraceFail>>
    BY <1>5 DEF TbLocked
  <2>2. nextSample' \in Nat /\ nextSnap' \in Nat
    BY SMTT(40), <1>0, <2>1
  <2>3. startSnapDone' \in BOOLEAN
    BY <2>1
  <2> QED BY <2>1, <2>2, <2>3
<1>6. CASE EventLocked(v)
  BY SMTT(40), <1>6 DEF EventLocked
<1>7. CASE WatchLocked(v)
  <2>1. /\ evSnaps' \in {evSnaps, evSnaps + 1} /\ lastEvSnap' \in {lastEvSnap, lat[v].insn}
        /\ nNftrace' \in {nNftrace, nNftrace + 1}
        /\ nNftraceFail' \in {nNftraceFail, nNftraceFail + 1}
        /\ UNCHANGED <<startSnapDone, finalSnapDone, nextSample, nextSnap, nReturns>>
    BY <1>7 DEF WatchLocked
  <2> QED BY SMTT(40), <1>0, <2>1
<1> QED BY <1>1, <1>2, <1>3, <1>4, <1>5, <1>6, <1>7 DEF WriteStep

\* The END record is a record.
LEMMA EndTyped ==
  ASSUME TypeInv
  PROVE  Record("END", 0, Sum, Totals) \in End /\ Sum \in Nat
<1>1. Sum \in Nat
  BY SumFacts DEF TypeInv
<1>2. Totals \in Total
  BY <1>1 DEF TypeInv, Totals, Total
<1> QED BY <1>1, <1>2 DEF Record, End

\* The types hold in the beginning
LEMMA InitTypes == Init => TypeInv
<1> SUFFICES ASSUME Init PROVE TypeInv
  OBVIOUS
<1>1. /\ SampleEvery \in Nat /\ SnapEvery \in Nat /\ BootSnapEvery \in Nat
  BY ConfigFacts DEF Init
<1>2. Never \in Nat
  BY DEF Never, Wrap
<1>3. nextSample \in Nat /\ nextSnap \in Nat
  BY <1>1, <1>2 DEF Init
<1>4. /\ config \in Configs
      /\ retired \in [Vcpu -> Nat] /\ pc \in [Vcpu -> Phase]
      /\ lat \in [Vcpu -> [insn : Nat, what : {"none", "DISCON", "RETURN"} \cup AnyWatch]]
      /\ \A v \in Vcpu : pc[v] = "new"
      /\ hits \in [Watch -> Nat]
  BY DEF Init, Phase, NoClock
<1>5. /\ trace \in Seq(Rec) /\ lock \in Vcpu \cup {Nobody}
      /\ {out, live, truncated, crashed, exited, lost, startSnapDone, finalSnapDone} \subseteq BOOLEAN
      /\ drops \in Nat /\ evSnaps \in Nat /\ lastEvSnap \in Nat
      /\ {nSnapshots, nDiscons, nSamples, nWatchHits, nReturns, nNftrace, nNftraceFail} \subseteq Nat
  <2>1. trace \in Seq(Rec) /\ lock \in Vcpu \cup {Nobody}
    BY DEF Init
  <2>2. live \in BOOLEAN
    BY DEF Init
  <2>3. {out, truncated, crashed, exited, lost, startSnapDone, finalSnapDone} \subseteq BOOLEAN
    BY DEF Init
  <2>4. /\ drops \in Nat /\ evSnaps \in Nat /\ lastEvSnap \in Nat
        /\ {nSnapshots, nDiscons, nSamples, nWatchHits, nReturns, nNftrace, nNftraceFail} \subseteq Nat
    BY DEF Init
  <2> QED BY <2>1, <2>2, <2>3, <2>4
<1> QED BY <1>3, <1>4, <1>5 DEF TypeInv

\* and every step keeps them.
LEMMA TypeStep ==
  ASSUME TypeInv, TimeInv, Next
  PROVE  TypeInv'
<1>1. ASSUME NEW v \in Vcpu, Retire(v) PROVE TypeInv'
  BY SMTT(40), <1>1 DEF Retire, TypeInv, process, clock, snapVars, rated, throttle, counters,
     Vcpu, Watch
<1>2. ASSUME NEW v \in Vcpu, WriteStep(v) PROVE TypeInv'
  <2>1. SnapTypes /\ \E x \in Nat : \E recs : Writes(v, x, recs)
    BY <1>2, WriteStepWrites
  <2>2. trace' \in Seq(Rec) /\ {nSnapshots', nDiscons', nSamples', nWatchHits'} \subseteq Nat
    BY <2>1, WritesTyped
  <2>3. OtherTypes'
    BY <1>2, WriteStepOthers
  <2>4. /\ UNCHANGED <<config, retired, lock, out, lost, exited, hits, drops>>
        /\ pc' \in [Vcpu -> Phase] /\ pc'[v] \notin Inside
        /\ lat' \in [Vcpu -> [insn : Nat, what : {"none", "DISCON", "RETURN"} \cup AnyWatch]]
        /\ \A u \in Vcpu \ {v} : pc'[u] = pc[u] /\ lat'[u] = lat[u]
    BY <1>2, WriteStepFrame
  <2>5. \A u \in Vcpu : /\ pc'[u] = "event" => lat'[u].what \in {"DISCON", "RETURN"}
                        /\ pc'[u] = "watch" => lat'[u].what \in Watch
    BY <2>4 DEF TypeInv, Inside
  <2> QED BY <2>1, <2>2, <2>3, <2>4, <2>5 DEF TypeInv, SnapTypes, OtherTypes, Vcpu, Watch
<1>3. ASSUME NEW v \in Vcpu, EnterStep(v) PROVE TypeInv'
  <2>1. Sum \in Nat /\ TbClock(v) \in Nat /\ Watch \subseteq AnyWatch
    BY SumFacts, ConfigFacts DEF TypeInv
  <2> USE DEF TypeInv, process, clock, snapVars, rated, throttle, counters, Vcpu, Watch, Phase
  <2>2. CASE TbEnter(v)
    BY <2>1, <2>2 DEF TbEnter
  <2>3. ASSUME NEW what \in {"DISCON", "RETURN"}, EventEnter(v, what) PROVE TypeInv'
    BY <2>1, <2>3 DEF EventEnter
  <2>4. ASSUME NEW w \in Watch, WatchEnter(v, w) PROVE TypeInv'
    <3>1. hits' \in [Watch -> Nat] /\ drops' \in Nat
      BY SMTT(40), <2>4 DEF WatchEnter
    <3>2. /\ pc' \in [Vcpu -> Phase]
          /\ lat' \in [Vcpu -> [insn : Nat, what : {"none", "DISCON", "RETURN"} \cup AnyWatch]]
          /\ \A u \in Vcpu : /\ pc'[u] = "event" => lat'[u].what \in {"DISCON", "RETURN"}
                             /\ pc'[u] = "watch" => lat'[u].what \in Watch
      <4>1. CASE Dropped(w)
        BY <2>4, <4>1 DEF WatchEnter
      <4>2. CASE ~Dropped(w)
        <5>1. [insn |-> Sum, what |-> w]
                \in [insn : Nat, what : {"none", "DISCON", "RETURN"} \cup AnyWatch]
          BY <2>1
        <5>2. /\ pc' = [pc EXCEPT ![v] = "watch"]
              /\ lat' = [lat EXCEPT ![v] = [insn |-> Sum, what |-> w]]
          BY <2>4, <4>2 DEF WatchEnter
        <5>3. lat' \in [Vcpu -> [insn : Nat, what : {"none", "DISCON", "RETURN"} \cup AnyWatch]]
          BY <5>1, <5>2
        <5> QED BY <5>2, <5>3
      <4> QED BY <4>1, <4>2
    <3> QED BY <2>4, <3>1, <3>2 DEF WatchEnter
  <2> QED BY <1>3, <2>2, <2>3, <2>4 DEF EnterStep
<1>4. ASSUME NEW v \in Vcpu, WriteFails(v) PROVE TypeInv'
  BY <1>4 DEF WriteFails, TypeInv, process, clock, snapVars, rated, throttle, counters,
     Vcpu, Watch, Phase
<1>5. CASE FinishStep
  <2>1. Record("END", 0, Sum, Totals) \in Rec
    BY EndTyped DEF Rec
  <2>2. Finish /\ config' = config
    BY <1>5 DEF FinishStep, AtExit, FinishAtMaxInsn, Finish
  <2>3. trace' \in Seq(Rec) /\ out' = FALSE
    BY <2>1, <2>2 DEF Finish, Written, TypeInv
  <2>4. NoClock \in [insn : Nat, what : {"none", "DISCON", "RETURN"} \cup AnyWatch]
    BY DEF NoClock
  <2>5. /\ pc' \in [Vcpu -> Phase] /\ exited' \in BOOLEAN
        /\ lat' \in [Vcpu -> [insn : Nat, what : {"none", "DISCON", "RETURN"} \cup AnyWatch]]
        /\ \A u \in Vcpu : /\ pc'[u] = "event" => lat'[u].what \in {"DISCON", "RETURN"}
                           /\ pc'[u] = "watch" => lat'[u].what \in Watch
    <3>1. CASE AtExit
      BY <3>1 DEF AtExit, TypeInv
    <3>2. ASSUME NEW v \in Vcpu, FinishAtMaxInsn(v)
          PROVE  /\ pc' \in [Vcpu -> Phase] /\ exited' \in BOOLEAN
                 /\ lat' \in [Vcpu -> [insn : Nat, what : {"none", "DISCON", "RETURN"} \cup AnyWatch]]
                 /\ \A u \in Vcpu : /\ pc'[u] = "event" => lat'[u].what \in {"DISCON", "RETURN"}
                                    /\ pc'[u] = "watch" => lat'[u].what \in Watch
      BY <2>4, <3>2 DEF FinishAtMaxInsn, BackToGuest, TypeInv, Phase
    <3> QED BY <1>5, <3>1, <3>2 DEF FinishStep
  <2> QED BY <2>2, <2>3, <2>5
          DEF Finish, TypeInv, clock, snapVars, rated, throttle, counters, Vcpu, Watch
<1> QED BY <1>1, <1>2, <1>3, <1>4, <1>5, StepKinds

---------------------------------------------------------------------------
(* The file, the samples and the order of the records.                     *)

\* Until the file is closed the counters count what is in it; END is the last
\* record of a closed file and carries the counts; a record is lost only by a
\* thread that keeps the lock, so that nobody closes the file after that.
FileInv ==
  /\ \A i \in DOMAIN trace : trace[i].type = "END" => ~out
  /\ lost => lock # Nobody /\ out
  /\ out => /\ nSnapshots = Tally(trace, OfType("SNAPMARK"))
            /\ nDiscons = Tally(trace, OfType("DISCON"))
            /\ nSamples = Tally(trace, OfType("SAMPLE"))
            /\ nWatchHits = Tally(trace, OfType("WATCHPC"))
  /\ \A i \in DOMAIN trace : trace[i].type = "END" =>
       /\ i = Len(trace)
       /\ trace[i].why.snapshots = Tally(trace, OfType("SNAPMARK"))
       /\ trace[i].why.discons = Tally(trace, OfType("DISCON"))
       /\ trace[i].why.samples = Tally(trace, OfType("SAMPLE"))
       /\ trace[i].why.watchHits = Tally(trace, OfType("WATCHPC"))
       /\ \A j \in DOMAIN trace : trace[j].insn <= trace[i].why.insns

\* The deadline is a full interval behind every SAMPLE.
SampleInv ==
  /\ \A i \in Pos("SAMPLE") : SampleEvery # 0 /\ trace[i].insn + SampleEvery <= nextSample
  /\ SamplesSpaced

\* What a writing step does to the file: nothing once it is closed, otherwise
\* it adds records of one vCPU at one clock.
LEMMA WritesFile ==
  ASSUME TypeInv, NEW v \in Vcpu, NEW x \in Nat, NEW recs, Writes(v, x, recs)
  PROVE  /\ DOMAIN trace = 1 .. Len(trace) /\ Len(trace) \in Nat
         /\ \/ trace' = trace
            \/ /\ out /\ DOMAIN trace' = 1 .. Len(trace')
               /\ Len(trace') = Len(trace) + Len(recs) /\ Len(recs) \in Nat
               /\ trace' = trace \o recs
               /\ \A i \in DOMAIN trace : i \in DOMAIN trace' /\ trace'[i] = trace[i]
               /\ \A i \in DOMAIN trace' \ DOMAIN trace :
                    /\ i - Len(trace) \in DOMAIN recs
                    /\ trace'[i] = recs[i - Len(trace)]
                    /\ trace'[i].cpu = v /\ trace'[i].insn = x /\ trace'[i].type \in Kind
<1>1. trace \in Seq(Rec) /\ recs \in Seq(Rec) /\ recs \in Seq(Own(v, x))
  BY OwnSeq DEF TypeInv, Writes
<1>2. \A i \in DOMAIN recs : recs[i].cpu = v /\ recs[i].insn = x /\ recs[i].type \in Kind
  BY <1>1 DEF Own, Plain, Kind
<1>3. CASE out
  <2>1. trace' = trace \o recs
    BY <1>3 DEF Writes, Written
  <2> QED BY <1>1, <1>2, <1>3, <2>1
<1>4. CASE ~out
  BY <1>1, <1>4 DEF Writes, Written
<1> QED BY <1>3, <1>4 DEF TypeInv

\* The clock never goes back, and advances only when an instruction retires.
LEMMA SumMonotone ==
  ASSUME TypeInv, Next
  PROVE  /\ Sum \in Nat /\ Sum' \in Nat /\ Sum <= Sum'
         /\ ~(\E v \in Vcpu : Retire(v)) => Sum' = Sum
<1>1. Sum \in Nat
  BY SumFacts DEF TypeInv
<1>2. CASE \E v \in Vcpu : Retire(v)
  BY SMTT(40), <1>1, <1>2, SumGrows DEF TypeInv
<1>3. CASE ~(\E v \in Vcpu : Retire(v))
  <2>1. UNCHANGED <<config, retired>>
    <3>1. CASE FinishStep
      BY <3>1 DEF FinishStep, AtExit, FinishAtMaxInsn, Finish
    <3>2. ASSUME NEW v \in Vcpu, WriteStep(v) PROVE UNCHANGED <<config, retired>>
      BY <3>2, WriteStepFrame
    <3>3. ASSUME NEW v \in Vcpu, EnterStep(v) \/ WriteFails(v) PROVE UNCHANGED <<config, retired>>
      BY <3>3 DEF EnterStep, TbEnter, EventEnter, WatchEnter, WriteFails
    <3> QED BY <1>3, <3>1, <3>2, <3>3, StepKinds
  <2> QED BY <1>1, <2>1, SumStays
<1> QED BY <1>2, <1>3

\* nf_finish closes the file, behind an END record the first time.
LEMMA FinishFile ==
  ASSUME TypeInv, FinishStep
  PROVE  /\ ~out' /\ DOMAIN trace = 1 .. Len(trace) /\ Len(trace) \in Nat
         /\ \/ ~out /\ trace' = trace
            \/ /\ out /\ trace' = Append(trace, Record("END", 0, Sum, Totals))
               /\ DOMAIN trace' = 1 .. (Len(trace) + 1)  /\ Len(trace') = Len(trace) + 1
               /\ \A i \in DOMAIN trace : trace'[i] = trace[i]
               /\ trace'[Len(trace) + 1] = Record("END", 0, Sum, Totals)
<1>1. Finish
  BY DEF FinishStep, AtExit, FinishAtMaxInsn
<1>2. Record("END", 0, Sum, Totals) \in Rec
  BY EndTyped DEF Rec
<1> DEFINE e == Record("END", 0, Sum, Totals)
<1>3. ~out' /\ trace' = IF out THEN trace \o <<e>> ELSE trace
  BY <1>1 DEF Finish, Written
<1> HIDE DEF e
<1>4. trace \in Seq(Rec) /\ e \in Rec
  BY <1>2 DEF TypeInv, e
<1>5. trace \o <<e>> = Append(trace, e)
  BY <1>4
<1> QED BY <1>3, <1>4, <1>5 DEF e

\* TimeInv is kept: the clock only grows, a callback latches it as it is, and
\* what a vCPU writes carries the clock it latched.
LEMMA TimeStep ==
  ASSUME TypeInv, TimeInv, Next
  PROVE  TimeInv'
<1>1. ASSUME NEW v \in Vcpu, Retire(v) PROVE TimeInv'
  <2>1. UNCHANGED <<config, trace, pc, lat>>
    BY <1>1 DEF Retire
  <2>2. Sum \in Nat /\ Sum' \in Nat /\ Sum <= Sum'
    BY SumMonotone
  <2>3. \A i \in DOMAIN trace : trace[i].insn \in Nat
    BY DEF TypeInv, Rec, Plain, End
  <2>4. \A u \in Vcpu : lat[u].insn \in Nat
    BY DEF TypeInv
  <2> QED BY <2>1, <2>2, <2>3, <2>4 DEF TimeInv, Vcpu
<1>2. ASSUME NEW v \in Vcpu, WriteStep(v) PROVE TimeInv'
  <2>1. PICK x \in Nat : \E recs : Writes(v, x, recs)
    BY <1>2, WriteStepWrites
  <2>2. PICK recs : Writes(v, x, recs)
    BY <2>1
  <2>3. x <= Sum
    BY <2>2 DEF Writes
  <2>4. \A i \in DOMAIN trace' : \/ i \in DOMAIN trace /\ trace'[i] = trace[i]
                                 \/ trace'[i].cpu = v /\ trace'[i].insn = x
    BY <2>2, WritesFile
  <2>5. /\ UNCHANGED <<config, retired>> /\ pc'[v] \notin Inside
        /\ \A u \in Vcpu \ {v} : pc'[u] = pc[u] /\ lat'[u] = lat[u]
    BY <1>2, WriteStepFrame
  <2>6. Sum' = Sum /\ Vcpu' = Vcpu
    BY <2>5, SumStays DEF Vcpu
  <2> QED BY <2>3, <2>4, <2>5, <2>6 DEF TimeInv
<1>3. ASSUME NEW v \in Vcpu, EnterStep(v) PROVE TimeInv'
  <2>1. UNCHANGED <<config, retired, trace>>
    BY <1>3 DEF EnterStep, TbEnter, EventEnter, WatchEnter
  <2>2. Sum' = Sum /\ Sum \in Nat /\ TbClock(v) = Sum /\ Vcpu' = Vcpu
    BY <2>1, SumStays, SumFacts DEF Vcpu, TypeInv
  <2>3. /\ \A u \in Vcpu \ {v} : pc'[u] = pc[u] /\ lat'[u] = lat[u]
        /\ (pc'[v] = pc[v] /\ lat'[v] = lat[v]) \/ lat'[v].insn = Sum
    <3> USE DEF TypeInv
    <3>1. CASE TbEnter(v)
      BY <2>2, <3>1 DEF TbEnter
    <3>2. ASSUME NEW what, EventEnter(v, what)
          PROVE  /\ \A u \in Vcpu \ {v} : pc'[u] = pc[u] /\ lat'[u] = lat[u]
                 /\ (pc'[v] = pc[v] /\ lat'[v] = lat[v]) \/ lat'[v].insn = Sum
      BY <3>2 DEF EventEnter
    <3>3. ASSUME NEW w \in Watch, WatchEnter(v, w)
          PROVE  /\ \A u \in Vcpu \ {v} : pc'[u] = pc[u] /\ lat'[u] = lat[u]
                 /\ (pc'[v] = pc[v] /\ lat'[v] = lat[v]) \/ lat'[v].insn = Sum
      BY <3>3 DEF WatchEnter
    <3> QED BY <1>3, <3>1, <3>2, <3>3 DEF EnterStep
  <2> QED BY <2>1, <2>2, <2>3 DEF TimeInv
<1>4. ASSUME NEW v \in Vcpu, WriteFails(v) PROVE TimeInv'
  <2>1. UNCHANGED <<config, retired, trace, lat>>
        /\ pc' = [pc EXCEPT ![v] = "dying"]
    BY <1>4 DEF WriteFails
  <2>2. Sum' = Sum /\ Vcpu' = Vcpu
    BY <2>1, SumStays DEF Vcpu
  <2>3. \A u \in Vcpu : pc'[u] \in Inside => pc[u] \in Inside
    BY <2>1 DEF TypeInv, Inside
  <2> QED BY <2>1, <2>2, <2>3 DEF TimeInv
<1>5. CASE FinishStep
  <2>1. UNCHANGED <<config, retired>>
    BY <1>5 DEF FinishStep, AtExit, FinishAtMaxInsn, Finish
  <2>2. Sum' = Sum /\ Sum \in Nat /\ Vcpu' = Vcpu
    BY <2>1, SumStays, SumFacts DEF Vcpu, TypeInv
  <2>3. \A i \in DOMAIN trace' : \/ i \in DOMAIN trace /\ trace'[i] = trace[i]
                                 \/ trace'[i].type = "END" /\ trace'[i].insn = Sum
    BY <1>5, FinishFile DEF Record
  <2>4. \A u \in Vcpu : pc'[u] \in Inside => pc[u] \in Inside /\ lat'[u] = lat[u]
    <3>1. CASE AtExit
      BY <3>1 DEF AtExit
    <3>2. ASSUME NEW v \in Vcpu, FinishAtMaxInsn(v)
          PROVE  \A u \in Vcpu : pc'[u] \in Inside => pc[u] \in Inside /\ lat'[u] = lat[u]
      BY <3>2 DEF FinishAtMaxInsn, BackToGuest, TypeInv, Inside
    <3> QED BY <1>5, <3>1, <3>2 DEF FinishStep
  <2> QED BY <2>2, <2>3, <2>4 DEF TimeInv
<1> QED BY <1>1, <1>2, <1>3, <1>4, <1>5, StepKinds

\* The steps that write nothing.
QuietStep(v) == Retire(v) \/ EnterStep(v) \/ WriteFails(v)

\* They leave the file, the deadlines, the snapshots and the counters alone.
LEMMA QuietFrame ==
  ASSUME NEW v \in Vcpu, QuietStep(v)
  PROVE  UNCHANGED <<config, trace, out, nextSample, nextSnap, startSnapDone, live, truncated,
                     nSnapshots, nDiscons, nSamples, nWatchHits>>
<1> USE DEF process, clock, snapVars, counters
<1>1. CASE Retire(v)
  BY <1>1 DEF Retire
<1>2. CASE TbEnter(v)
  BY <1>2 DEF TbEnter
<1>3. ASSUME NEW what, EventEnter(v, what)
      PROVE  UNCHANGED <<config, trace, out, nextSample, nextSnap, startSnapDone, live, truncated,
                         nSnapshots, nDiscons, nSamples, nWatchHits>>
  BY <1>3 DEF EventEnter
<1>4. ASSUME NEW w, WatchEnter(v, w)
      PROVE  UNCHANGED <<config, trace, out, nextSample, nextSnap, startSnapDone, live, truncated,
                         nSnapshots, nDiscons, nSamples, nWatchHits>>
  BY <1>4 DEF WatchEnter
<1>5. CASE WriteFails(v)
  BY <1>5 DEF WriteFails
<1> QED BY <1>1, <1>2, <1>3, <1>4, <1>5 DEF QuietStep, EnterStep

\* nf_finish gets the lock and changes neither counters nor deadlines.
LEMMA FinishFrame ==
  ASSUME FinishStep
  PROVE  /\ UNCHANGED <<config, retired, lock, lost, nextSample, nextSnap, startSnapDone, live,
                        truncated, nSnapshots, nDiscons, nSamples, nWatchHits, hits, drops>>
         /\ lock = Nobody
BY DEF FinishStep, AtExit, FinishAtMaxInsn, Finish, Free, clock, snapVars, counters, rated

\* The per-vCPU order is kept: whoever writes latched its clock after its own
\* earlier records were written.
LEMMA OrderStep ==
  ASSUME TypeInv, TimeInv, FileInv, PerVcpuOrder, Next
  PROVE  PerVcpuOrder'
<1>1. ASSUME NEW v \in Vcpu, QuietStep(v) PROVE PerVcpuOrder'
  BY <1>1, QuietFrame DEF PerVcpuOrder
<1>2. ASSUME NEW v \in Vcpu, WriteStep(v) PROVE PerVcpuOrder'
  <2>1. PICK x \in Nat : \E recs : Writes(v, x, recs)
    BY <1>2, WriteStepWrites
  <2>2. PICK recs : Writes(v, x, recs)
    BY <2>1
  <2>3. CASE trace' = trace
    BY <2>3 DEF PerVcpuOrder
  <2>4. CASE trace' # trace
    <3>1. /\ out /\ DOMAIN trace = 1 .. Len(trace) /\ Len(trace) \in Nat
          /\ DOMAIN trace' = 1 .. Len(trace') /\ Len(trace') \in Nat
          /\ \A i \in DOMAIN trace : trace'[i] = trace[i]
          /\ \A i \in DOMAIN trace' \ DOMAIN trace : trace'[i].cpu = v /\ trace'[i].insn = x
      BY <2>2, <2>4, WritesFile
    <3>2. \A i \in DOMAIN trace : trace[i].cpu = v => trace[i].insn <= x
      BY <2>2, <3>1 DEF Writes, FileInv
    <3> SUFFICES ASSUME NEW i \in DOMAIN trace', NEW j \in DOMAIN trace', i < j,
                        trace'[i].cpu = trace'[j].cpu, trace'[j].type # "END"
                 PROVE  trace'[i].insn <= trace'[j].insn
      BY DEF PerVcpuOrder
    <3>3. CASE j \in DOMAIN trace
      <4>1. i \in DOMAIN trace
        <5>1. i \in Int /\ i >= 1
          BY <3>1
        <5> QED BY <3>1, <3>3, <5>1
      <4> QED BY <3>1, <3>3, <4>1 DEF PerVcpuOrder
    <3>4. CASE j \notin DOMAIN trace
      BY <3>1, <3>2, <3>4
    <3> QED BY <3>3, <3>4
  <2> QED BY <2>3, <2>4
<1>3. CASE FinishStep
  <2>1. CASE trace' = trace
    BY <2>1 DEF PerVcpuOrder
  <2>2. CASE trace' # trace
    <3>1. /\ DOMAIN trace' = 1 .. (Len(trace) + 1) /\ DOMAIN trace = 1 .. Len(trace)
          /\ Len(trace) \in Nat
          /\ \A i \in DOMAIN trace : trace'[i] = trace[i]
          /\ trace'[Len(trace) + 1].type = "END"
      BY <1>3, <2>2, FinishFile DEF Record
    <3> SUFFICES ASSUME NEW i \in DOMAIN trace', NEW j \in DOMAIN trace', i < j,
                        trace'[i].cpu = trace'[j].cpu, trace'[j].type # "END"
                 PROVE  trace'[i].insn <= trace'[j].insn
      BY DEF PerVcpuOrder
    <3>2. i \in DOMAIN trace /\ j \in DOMAIN trace
      BY <3>1
    <3> QED BY <3>1, <3>2 DEF PerVcpuOrder
  <2> QED BY <2>1, <2>2
<1> QED BY <1>1, <1>2, <1>3, StepKinds DEF QuietStep

\* The spacing is kept: the deadline is tested again inside the lock.
LEMMA SampleStep ==
  ASSUME TypeInv, TimeInv, SampleInv, Next
  PROVE  SampleInv'
<1>0. SampleEvery \in Nat /\ \A i \in DOMAIN trace : trace[i].insn \in Nat
  <2>1. SampleEvery \in Nat
    BY ConfigFacts DEF TypeInv
  <2>2. \A i \in DOMAIN trace : trace[i].insn \in Nat
    BY DEF TypeInv, Rec, Plain, End
  <2> QED BY <2>1, <2>2
<1>1. ASSUME NEW v \in Vcpu, QuietStep(v) PROVE SampleInv'
  BY <1>1, QuietFrame DEF SampleInv, SamplesSpaced, Pos, SampleEvery
<1>2. ASSUME NEW v \in Vcpu, WriteStep(v) PROVE SampleInv'
  <2>1. PICK x \in Nat : \E recs : Writes(v, x, recs)
    BY <1>2, WriteStepWrites
  <2>2. PICK recs : Writes(v, x, recs)
    BY <2>1
  <2>3. SampleEvery' = SampleEvery
    BY <1>2, WriteStepFrame DEF SampleEvery
  <2>4. nextSample' >= nextSample /\ nextSample' \in Nat /\ nextSample \in Nat
    <3>1. nextSample \in Nat
      BY DEF TypeInv
    <3>2. Sampled(x, recs)
      BY <2>2 DEF Writes
    <3>3. \/ nextSample' = nextSample
          \/ x >= nextSample /\ nextSample' = x + SampleEvery
      BY <3>2 DEF Sampled
    <3> QED BY <1>0, <3>1, <3>3
  <2>5. CASE trace' = trace
    BY <1>0, <2>3, <2>4, <2>5 DEF SampleInv, SamplesSpaced, Pos
  <2>6. CASE trace' # trace
    <3>1. /\ DOMAIN trace = 1 .. Len(trace) /\ Len(trace) \in Nat
          /\ DOMAIN trace' = 1 .. Len(trace') /\ Len(trace') \in Nat
          /\ \A i \in DOMAIN trace : i \in DOMAIN trace' /\ trace'[i] = trace[i]
          /\ \A i \in DOMAIN trace' \ DOMAIN trace :
               trace'[i].insn = x /\ i - Len(trace) \in DOMAIN recs
               /\ trace'[i] = recs[i - Len(trace)]
      BY <2>2, <2>6, WritesFile
    <3>2. \A i \in DOMAIN trace' \ DOMAIN trace : trace'[i].type = "SAMPLE" =>
            i = Len(trace) + 1 /\ SampleEvery # 0 /\ x >= nextSample /\ nextSample' = x + SampleEvery
      <4>1. Sampled(x, recs)
        BY <2>2 DEF Writes
      <4> SUFFICES ASSUME NEW i \in DOMAIN trace' \ DOMAIN trace, trace'[i].type = "SAMPLE"
                   PROVE  i = Len(trace) + 1 /\ SampleEvery # 0 /\ x >= nextSample
                          /\ nextSample' = x + SampleEvery
        OBVIOUS
      <4>2. i - Len(trace) \in DOMAIN recs /\ recs[i - Len(trace)].type = "SAMPLE"
        BY <3>1
      <4>3. i - Len(trace) = 1 /\ SampleEvery # 0 /\ x >= nextSample /\ nextSample' = x + SampleEvery
        BY <4>1, <4>2 DEF Sampled
      <4> QED BY <3>1, <4>3
    <3>3. \A i \in Pos("SAMPLE")' : SampleEvery' # 0 /\ trace'[i].insn + SampleEvery' <= nextSample'
      <4> SUFFICES ASSUME NEW i \in DOMAIN trace', trace'[i].type = "SAMPLE"
                   PROVE  SampleEvery # 0 /\ trace'[i].insn + SampleEvery <= nextSample'
        BY <2>3 DEF Pos
      <4>1. CASE i \in DOMAIN trace
        <5>1. SampleEvery # 0 /\ trace[i].insn + SampleEvery <= nextSample
          BY <3>1, <4>1 DEF SampleInv, Pos
        <5> QED BY <1>0, <2>4, <3>1, <4>1, <5>1
      <4>2. CASE i \notin DOMAIN trace
        BY <1>0, <3>1, <3>2, <4>2
      <4> QED BY <4>1, <4>2
    <3>4. SamplesSpaced'
      <4> SUFFICES ASSUME NEW i \in DOMAIN trace', NEW j \in DOMAIN trace', i < j,
                          trace'[i].type = "SAMPLE", trace'[j].type = "SAMPLE"
                   PROVE  trace'[j].insn - trace'[i].insn >= SampleEvery
        BY <2>3 DEF SamplesSpaced, Pos
      <4>1. CASE j \in DOMAIN trace
        <5>1. i \in DOMAIN trace
          BY <3>1, <4>1
        <5> QED BY <3>1, <4>1, <5>1 DEF SampleInv, SamplesSpaced, Pos
      <4>2. CASE j \notin DOMAIN trace
        <5>1. j = Len(trace) + 1 /\ x >= nextSample /\ trace'[j].insn = x
          BY <3>1, <3>2, <4>2
        <5>2. i \in DOMAIN trace
          BY <3>1, <5>1
        <5>3. trace[i].insn + SampleEvery <= nextSample
          BY <3>1, <5>2 DEF SampleInv, Pos
        <5> QED BY <1>0, <2>4, <3>1, <5>1, <5>2, <5>3
      <4> QED BY <4>1, <4>2
    <3> QED BY <3>3, <3>4 DEF SampleInv
  <2> QED BY <2>5, <2>6
<1>3. CASE FinishStep
  <2>1. UNCHANGED <<config, nextSample>>
    BY <1>3, FinishFrame
  <2>2. CASE trace' = trace
    BY <2>1, <2>2 DEF SampleInv, SamplesSpaced, Pos, SampleEvery
  <2>3. CASE trace' # trace
    <3>1. /\ DOMAIN trace' = 1 .. (Len(trace) + 1) /\ DOMAIN trace = 1 .. Len(trace)
          /\ Len(trace) \in Nat
          /\ \A i \in DOMAIN trace : trace'[i] = trace[i]
          /\ trace'[Len(trace) + 1].type = "END"
      BY <1>3, <2>3, FinishFile DEF Record
    <3>2. \A i \in Pos("SAMPLE")' : i \in Pos("SAMPLE") /\ trace'[i] = trace[i]
      BY <3>1 DEF Pos
    <3> QED BY <2>1, <3>2 DEF SampleInv, SamplesSpaced, SampleEvery
  <2> QED BY <2>2, <2>3
<1> QED BY <1>1, <1>2, <1>3, StepKinds DEF QuietStep

\* The counters stay true to the file through every step, and END copies them.
LEMMA FileStep ==
  ASSUME TypeInv, TimeInv, FileInv, Next
  PROVE  FileInv'
<1>1. ASSUME NEW v \in Vcpu, QuietStep(v) PROVE FileInv'
  <2>1. UNCHANGED <<trace, out, nSnapshots, nDiscons, nSamples, nWatchHits>>
    BY <1>1, QuietFrame
  <2>2. lost' => lock' # Nobody /\ out'
    <3>1. CASE WriteFails(v)
      <4>1. v # Nobody
        <5>1. v \in 0 .. Nobody - 1
          BY ConfigFacts DEF TypeInv
        <5>2. Nobody \in Int
          BY DEF Nobody
        <5> QED BY <5>1, <5>2
      <4> QED BY <3>1, <4>1 DEF WriteFails
    <3>2. CASE ~WriteFails(v)
      <4>1. UNCHANGED <<lost, lock, out>>
        BY <1>1, <3>2 DEF QuietStep, Retire, EnterStep, TbEnter, EventEnter, WatchEnter, process
      <4> QED BY <4>1 DEF FileInv
    <3> QED BY <3>1, <3>2
  <2> QED BY <2>1, <2>2 DEF FileInv
<1>2. ASSUME NEW v \in Vcpu, WriteStep(v) PROVE FileInv'
  <2>1. PICK x \in Nat : \E recs : Writes(v, x, recs)
    BY <1>2, WriteStepWrites
  <2>2. PICK recs : Writes(v, x, recs)
    BY <2>1
  <2>3. UNCHANGED <<out, lost, lock>>
    BY <1>2, WriteStepFrame
  <2>4. CASE ~out
    <3>1. trace' = trace
      BY <2>4, <2>2 DEF Writes, Written
    <3> QED BY <2>3, <2>4, <3>1 DEF FileInv
  <2>5. CASE out
    <3>1. trace' = trace \o recs
      BY <2>5, <2>2 DEF Writes, Written
    <3>2. recs \in Seq(Rec) /\ trace \in Seq(Rec)
      BY <2>2, OwnSeq DEF Writes, TypeInv
    <3>3. \A G : Tally(trace', G) = Tally(trace, G) + Tally(recs, G)
      BY <3>1, <3>2, TallyConcat
    <3>4. Counted(v, recs)
      BY <2>2 DEF Writes
    <3>5. /\ nSnapshots' = Tally(trace', OfType("SNAPMARK"))
          /\ nDiscons' = Tally(trace', OfType("DISCON"))
          /\ nSamples' = Tally(trace', OfType("SAMPLE"))
          /\ nWatchHits' = Tally(trace', OfType("WATCHPC"))
      BY <2>5, <3>3, <3>4 DEF Counted, FileInv
    <3>6. \A i \in DOMAIN trace' : trace'[i].type # "END"
      <4>1. \A i \in DOMAIN trace : trace[i].type # "END"
        BY <2>5 DEF FileInv
      <4>2. \A i \in DOMAIN trace' : \/ i \in DOMAIN trace /\ trace'[i] = trace[i]
                                     \/ trace'[i].type \in Kind
        BY <2>2, WritesFile
      <4> QED BY <4>1, <4>2 DEF Kind
    <3> QED BY <2>3, <3>5, <3>6 DEF FileInv
  <2> QED BY <2>4, <2>5 DEF TypeInv
<1>3. CASE FinishStep
  <2>1. lock = Nobody /\ ~out' /\ UNCHANGED <<lost, lock>>
    BY <1>3, FinishFrame, FinishFile
  <2>2. ~lost' /\ ~lost
    BY <2>1 DEF FileInv, TypeInv
  <2>3. CASE ~out
    <3>1. trace' = trace
      BY <1>3, <2>3, FinishFile
    <3> QED BY <2>1, <2>2, <3>1 DEF FileInv
  <2>4. CASE out
    <3> DEFINE e == Record("END", 0, Sum, Totals)
    <3>0. e \in Rec /\ e.type = "END" /\ e.insn = Sum /\ e.why = Totals /\ trace \in Seq(Rec)
      BY EndTyped DEF Rec, Record, TypeInv
    <3>1. /\ trace' = Append(trace, e)
          /\ DOMAIN trace' = 1 .. (Len(trace) + 1) /\ Len(trace') = Len(trace) + 1
          /\ DOMAIN trace = 1 .. Len(trace) /\ Len(trace) \in Nat
          /\ \A i \in DOMAIN trace : trace'[i] = trace[i]
          /\ trace'[Len(trace) + 1] = e
      BY <1>3, <2>4, FinishFile
    <3> HIDE DEF e
    <3>2. \A G : e \notin G => Tally(trace', G) = Tally(trace, G)
      BY <3>0, <3>1, TallyAppend
    <3>3. \A t \in Kind : Tally(trace', OfType(t)) = Tally(trace, OfType(t))
      BY <3>0, <3>2 DEF OfType, Kind
    <3>4. \A i \in DOMAIN trace : trace[i].type # "END"
      BY <2>4 DEF FileInv
    <3>5. \A i \in DOMAIN trace' : trace'[i].type = "END" => i = Len(trace')
      BY <3>1, <3>4
    <3>6. /\ Totals.snapshots = nSnapshots /\ Totals.discons = nDiscons
          /\ Totals.samples = nSamples /\ Totals.watchHits = nWatchHits /\ Totals.insns = Sum
      BY DEF Totals
    <3>7. /\ e.why.snapshots = Tally(trace', OfType("SNAPMARK"))
          /\ e.why.discons = Tally(trace', OfType("DISCON"))
          /\ e.why.samples = Tally(trace', OfType("SAMPLE"))
          /\ e.why.watchHits = Tally(trace', OfType("WATCHPC"))
      BY <2>4, <3>0, <3>3, <3>6 DEF FileInv, Kind
    <3>8. \A j \in DOMAIN trace' : trace'[j].insn <= e.why.insns
      <4>1. \A j \in DOMAIN trace : trace[j].insn <= Sum
        BY DEF TimeInv
      <4>2. Sum <= Sum /\ e.why.insns = Sum
        BY <3>0, <3>6, EndTyped
      <4> SUFFICES ASSUME NEW j \in DOMAIN trace' PROVE trace'[j].insn <= e.why.insns
        OBVIOUS
      <4>3. CASE j \in DOMAIN trace
        BY <3>1, <4>1, <4>2, <4>3
      <4>4. CASE j \notin DOMAIN trace
        <5>1. j = Len(trace) + 1
          BY <3>1, <4>4
        <5> QED BY <3>0, <3>1, <4>2, <5>1
      <4> QED BY <4>3, <4>4
    <3>9. \A i \in DOMAIN trace' : trace'[i].type = "END" => trace'[i] = e
      BY <3>1, <3>5
    <3> QED BY <2>1, <2>2, <3>5, <3>7, <3>8, <3>9 DEF FileInv
  <2> QED BY <2>3, <2>4 DEF TypeInv
<1> QED BY <1>1, <1>2, <1>3, StepKinds DEF QuietStep

\* Count is the number of records of a type.
LEMMA CountIsTally ==
  ASSUME TypeInv, NEW t
  PROVE  Count(t) = Tally(trace, OfType(t))
<1>1. \A i \in DOMAIN trace : trace[i] \in Rec
  BY DEF TypeInv
<1>2. Pos(t) = {i \in DOMAIN trace : trace[i] \in OfType(t)}
  BY <1>1 DEF Pos, OfType
<1> QED BY <1>2 DEF Count, Tally

\* FileInv makes END honest.
LEMMA HonestFromFile ==
  ASSUME TypeInv, FileInv
  PROVE  EndIsHonest
<1>1. \A t : Count(t) = Tally(trace, OfType(t))
  BY CountIsTally
<1> QED BY <1>1 DEF FileInv, EndIsHonest, Pos

\* The base of the invariant holds in the beginning
LEMMA InitBase ==
  ASSUME Init
  PROVE  TypeInv /\ TimeInv /\ FileInv /\ SampleInv /\ PerVcpuOrder
<1>1. TypeInv
  BY InitTypes
<1>2. trace = << >> /\ DOMAIN trace = {}
  BY DEF Init
<1>3. \A G : Tally(trace, G) = 0
  BY <1>2, TallyEmpty
<1>4. TimeInv
  BY <1>2 DEF Init, TimeInv, Inside
<1>5. FileInv
  BY <1>2, <1>3 DEF Init, FileInv
<1>6. SampleInv /\ PerVcpuOrder
  BY <1>2 DEF SampleInv, SamplesSpaced, PerVcpuOrder, Pos
<1> QED BY <1>1, <1>4, <1>5, <1>6

\* The part of the invariant about order, spacing and the file.
Base == TypeInv /\ TimeInv /\ FileInv /\ SampleInv /\ PerVcpuOrder

\* and every step keeps it.
LEMMA BaseStep == Base /\ [Next]_vars => Base'
<1>1. ASSUME Base, Next PROVE Base'
  BY <1>1, TypeStep, TimeStep, FileStep, SampleStep, OrderStep DEF Base
<1>2. ASSUME Base, UNCHANGED vars PROVE Base'
  <2>1. Sum' = Sum
    BY <1>2, SumStays DEF vars
  <2> USE <1>2 DEF Base, vars
  <2>2. TypeInv'
    BY DEF TypeInv, Vcpu, Watch
  <2>3. TimeInv'
    BY <2>1 DEF TimeInv, Vcpu
  <2>4. FileInv'
    BY DEF FileInv
  <2>5. SampleInv' /\ PerVcpuOrder'
    BY DEF SampleInv, SamplesSpaced, Pos, SampleEvery, PerVcpuOrder
  <2> QED BY <2>2, <2>3, <2>4, <2>5
<1> QED BY <1>1, <1>2

---------------------------------------------------------------------------
(* The rate limit of the watches.                                          *)

\* The watches with a rate limit, the hits of w the limit should have kept, and
\* the ones it should have dropped.
Limited == {w \in Watch : RateLimited(w)}
Due(w)  == (hits[w] + Rate[w] - 1) \div Rate[w]
Missed  == [w \in Limited |-> hits[w] - Due(w)]

\* Every hit that was due has its record or a vCPU that waits to write it, and
\* the drops are the hits that were not due.
RateInv ==
  /\ out /\ ~lost => \A w \in Limited :
                       Tally(trace, Hits(w)) + Cardinality(Waiting(w)) = Due(w)
  /\ drops = SumOver(Missed, Limited)

\* There are finitely many limited watches and their numbers are numbers.
LEMMA LimitedFacts ==
  ASSUME TypeInv
  PROVE  /\ IsFiniteSet(Limited) /\ Limited \subseteq Watch
         /\ \A w \in Limited : /\ Rate[w] \in Nat /\ Rate[w] > 1 /\ hits[w] \in Nat
                               /\ Due(w) \in Nat
<1>1. IsFiniteSet(Watch) /\ Rate \in [Watch -> Nat] /\ Limited \subseteq Watch
  BY ConfigFacts DEF TypeInv, Limited
<1>2. IsFiniteSet(Limited)
  BY <1>1, FS_Subset
<1> SUFFICES ASSUME NEW w \in Limited
             PROVE  Rate[w] \in Nat /\ Rate[w] > 1 /\ hits[w] \in Nat /\ Due(w) \in Nat
  BY <1>1, <1>2
<1>3. Rate[w] \in Nat /\ Rate[w] > 1 /\ hits[w] \in Nat
  BY <1>1 DEF Limited, RateLimited, TypeInv
<1>4. hits[w] + Rate[w] - 1 \in Nat
  BY <1>3
<1>5. Due(w) \in Nat
  BY <1>3, <1>4, DivRem DEF Due
<1> QED BY <1>3, <1>5

\* Finitely many vCPUs wait.
LEMMA WaitingFacts ==
  ASSUME TypeInv, NEW w
  PROVE  IsFiniteSet(Waiting(w)) /\ Cardinality(Waiting(w)) \in Nat /\ Waiting(w) \subseteq Vcpu
<1>1. IsFiniteSet(Vcpu) /\ Waiting(w) \in SUBSET Vcpu
  BY ConfigFacts DEF TypeInv, Waiting
<1> QED BY <1>1, FS_Subset, FS_CardinalityType

\* In the beginning nothing is due and nothing was dropped.
LEMMA InitRate ==
  ASSUME Init
  PROVE  RateInv
<1>1. TypeInv /\ trace = << >> /\ drops = 0
  BY InitTypes DEF Init
<1>2. \A w \in Limited : Due(w) = 0 /\ hits[w] = 0
  <2> SUFFICES ASSUME NEW w \in Limited PROVE Due(w) = 0 /\ hits[w] = 0
    OBVIOUS
  <2>1. hits[w] = 0 /\ Rate[w] \in Nat /\ Rate[w] > 1
    BY <1>1, LimitedFacts DEF Init
  <2>2. (Rate[w] - 1) \div Rate[w] = 0
    <3>1. Rate[w] - 1 \in Nat /\ Rate[w] - 1 < Rate[w] /\ Rate[w] - 1 = Rate[w] * 0 + (Rate[w] - 1)
      BY <2>1
    <3> QED BY <2>1, <3>1, DivUnique
  <2>3. hits[w] + Rate[w] - 1 = Rate[w] - 1
    BY <2>1
  <2> QED BY <2>1, <2>2, <2>3 DEF Due
<1>3. SumOver(Missed, Limited) = 0
  <2>1. \A w \in Limited : Missed[w] = 0
    BY <1>2 DEF Missed
  <2> QED BY <1>1, <2>1, LimitedFacts, SumOfZeros
<1>4. \A w \in Limited : Tally(trace, Hits(w)) = 0 /\ Cardinality(Waiting(w)) = 0
  <2> SUFFICES ASSUME NEW w \in Limited
               PROVE  Tally(trace, Hits(w)) = 0 /\ Cardinality(Waiting(w)) = 0
    OBVIOUS
  <2>1. Waiting(w) = {}
    BY DEF Init, Waiting
  <2> QED BY <1>1, <2>1, TallyEmpty, FS_EmptySet
<1> QED BY <1>1, <1>2, <1>3, <1>4 DEF RateInv

\* The sum of the next state is over the next state's hits.
LEMMA NextMissed == SumOver(Missed, Limited)' = SumOver(Missed', Limited')
BY DEF SumOver, MapThenSumSet, MapThenFoldSet

\* Without a hit nothing becomes due.
LEMMA SameRates ==
  ASSUME UNCHANGED <<config, hits>>
  PROVE  /\ Limited' = Limited /\ Missed' = Missed /\ \A w : Due(w)' = Due(w)
         /\ SumOver(Missed, Limited)' = SumOver(Missed, Limited)
<1>1. Limited' = Limited /\ \A w : Due(w)' = Due(w)
  BY DEF Limited, Due, RateLimited, Rate, Snap, Nft, Watch
<1>2. Missed' = Missed
  BY <1>1 DEF Missed
<1> QED BY <1>1, <1>2, NextMissed

\* A step of another watch, or of none, leaves the vCPUs waiting for w.
LEMMA SameWaiting ==
  ASSUME TypeInv, Vcpu' = Vcpu, NEW v \in Vcpu, NEW w,
         ~(pc[v] = "watch" /\ lat[v].what = w), ~(pc'[v] = "watch" /\ lat'[v].what = w),
         \A u \in Vcpu \ {v} : pc'[u] = pc[u] /\ lat'[u] = lat[u]
  PROVE  Waiting(w)' = Waiting(w)
BY DEF Waiting

\* A hit: every N-th of a limited watch is due and waits for the lock, the
\* others are dropped, and no other watch is touched.
LEMMA WatchEnterRate ==
  ASSUME TypeInv, RateInv, NEW v \in Vcpu, NEW w \in Watch, WatchEnter(v, w)
  PROVE  RateInv'
<1>1. /\ UNCHANGED <<config, trace, out, lost>> /\ Vcpu' = Vcpu /\ Watch' = Watch
      /\ pc[v] = "guest" /\ Limited' = Limited
  BY DEF WatchEnter, process, Vcpu, Watch, Limited, RateLimited, Rate, Snap, Nft
<1>2. /\ pc[v] # "watch"
      /\ \A u \in Vcpu \ {v} : pc'[u] = pc[u] /\ lat'[u] = lat[u]
      /\ IF Dropped(w) THEN drops' = drops + 1 /\ UNCHANGED <<pc, lat>>
                       ELSE drops' = drops /\ pc'[v] = "watch" /\ lat'[v].what = w
  BY <1>1 DEF WatchEnter, TypeInv
<1>3. \A u \in Limited : u # w => Waiting(u)' = Waiting(u)
  <2> SUFFICES ASSUME NEW u \in Limited, u # w PROVE Waiting(u)' = Waiting(u)
    OBVIOUS
  <2>1. ~(pc'[v] = "watch" /\ lat'[v].what = u)
    BY <1>1, <1>2
  <2> QED BY <1>1, <1>2, <2>1, SameWaiting
<1>4. CASE w \notin Limited
  <2>1. hits' = hits /\ ~Dropped(w)
    BY <1>4 DEF WatchEnter, Limited, Dropped
  <2>2. drops' = drops /\ Limited' = Limited /\ (\A u : Due(u)' = Due(u))
        /\ SumOver(Missed, Limited)' = SumOver(Missed, Limited)
    BY <1>1, <1>2, <2>1, SameRates
  <2>3. \A u \in Limited : Waiting(u)' = Waiting(u)
    BY <1>3, <1>4
  <2> QED BY <1>1, <2>2, <2>3 DEF RateInv, Hits
<1>5. CASE w \in Limited
  <2>1. /\ hits[w] \in Nat /\ Rate[w] \in Nat /\ Rate[w] > 1 /\ Due(w) \in Nat
        /\ IsFiniteSet(Limited) /\ Limited \subseteq Watch
        /\ \A u \in Limited : hits[u] \in Nat /\ Due(u) \in Nat
    BY <1>5, LimitedFacts
  <2>2. hits' = [hits EXCEPT ![w] = @ + 1] /\ (Dropped(w) <=> hits[w] % Rate[w] # 0)
    BY <1>5 DEF WatchEnter, Limited, Dropped
  <2>3. hits'[w] = hits[w] + 1 /\ \A u \in Watch \ {w} : hits'[u] = hits[u]
    BY <2>2 DEF TypeInv
  <2>4. Due(w)' = Due(w) + IF hits[w] % Rate[w] = 0 THEN 1 ELSE 0
    <3>1. Due(w)' = (hits[w] + 1 + Rate[w] - 1) \div Rate[w]
      BY <1>1, <2>3 DEF Due, Rate
    <3> QED BY <2>1, <3>1, CeilGrows DEF Due
  <2>5. \A u \in Limited : u # w => Due(u)' = Due(u)
    BY <1>1, <2>1, <2>3 DEF Due, Rate
  <2>6. drops' = SumOver(Missed, Limited)'
    <3> DEFINE f == Missed
               g == Missed'
    <3>1. /\ \A u \in Limited : f[u] = hits[u] - Due(u) /\ g[u] = hits'[u] - Due(u)'
      BY <1>1 DEF Missed
    <3>2. \A u \in Limited \ {w} : g[u] = f[u]
      BY <2>1, <2>3, <2>5, <3>1
    <3>3. \A u \in Limited : f[u] \in Int /\ g[u] \in Int
      <4>1. \A u \in Limited : f[u] \in Int
        BY <2>1, <3>1
      <4>2. g[w] \in Int
        BY <1>5, <2>1, <2>3, <2>4, <3>1
      <4> QED BY <3>2, <4>1, <4>2
    <3>4. g[w] = f[w] + IF hits[w] % Rate[w] = 0 THEN 0 ELSE 1
      BY <1>5, <2>1, <2>3, <2>4, <3>1
    <3> HIDE DEF f, g
    <3>5. SumOver(g, Limited) = SumOver(f, Limited) - f[w] + g[w]
      BY <1>5, <2>1, <3>2, <3>3, SumChange
    <3>6. SumOver(f, Limited) \in Int
      BY <2>1, <3>3, SumIsInt
    <3>7. drops = SumOver(f, Limited)
      BY DEF RateInv, f
    <3>8. drops' = drops + IF hits[w] % Rate[w] = 0 THEN 0 ELSE 1
      BY <1>2, <2>2 DEF TypeInv
    <3>9. drops' = SumOver(g, Limited)
      BY <1>5, <3>3, <3>4, <3>5, <3>6, <3>7, <3>8
    <3> QED BY <1>1, <3>9, NextMissed DEF g
  <2>7. Cardinality(Waiting(w)') = Cardinality(Waiting(w)) + IF Dropped(w) THEN 0 ELSE 1
    <3>1. IsFiniteSet(Waiting(w)) /\ Cardinality(Waiting(w)) \in Nat
      BY WaitingFacts
    <3>2. CASE Dropped(w)
      <4>1. Waiting(w)' = Waiting(w)
        BY <1>1, <1>2, <3>2 DEF Waiting
      <4> QED BY <3>1, <3>2, <4>1
    <3>3. CASE ~Dropped(w)
      <4>1. Waiting(w)' = Waiting(w) \cup {v} /\ v \notin Waiting(w)
        BY <1>1, <1>2, <3>3 DEF Waiting
      <4> QED BY <3>1, <3>3, <4>1, FS_AddElement
    <3> QED BY <3>2, <3>3
  <2>8. ASSUME out, ~lost, NEW u \in Limited
        PROVE  Tally(trace, Hits(u)) + Cardinality(Waiting(u)') = Due(u)'
    <3>1. Tally(trace, Hits(u)) + Cardinality(Waiting(u)) = Due(u)
      BY <2>8 DEF RateInv
    <3>2. CASE u # w
      BY <1>3, <2>5, <3>1, <3>2
    <3>3. CASE u = w
      <4>1. Tally(trace, Hits(w)) \in Nat /\ Cardinality(Waiting(w)) \in Nat
        BY TallyIsNat, WaitingFacts DEF TypeInv
      <4> QED BY <2>1, <2>2, <2>4, <2>7, <3>1, <3>3, <4>1
    <3> QED BY <3>2, <3>3
  <2> QED BY <1>1, <2>6, <2>8 DEF RateInv, Hits
<1> QED BY <1>4, <1>5

\* RateInv is kept: a waiting vCPU that gets the lock leaves its one record.
LEMMA RateStep ==
  ASSUME TypeInv, TimeInv, FileInv, RateInv, Next
  PROVE  RateInv'
<1>1. ASSUME NEW v \in Vcpu, QuietStep(v) PROVE RateInv'
  <2>1. CASE \E w \in Watch : WatchEnter(v, w)
    BY <2>1, WatchEnterRate
  <2>2. CASE Retire(v) \/ TbEnter(v) \/ EventEnter(v, "DISCON") \/ EventEnter(v, "RETURN")
    <3>1. /\ UNCHANGED <<config, trace, out, lost, hits, drops>> /\ Vcpu' = Vcpu
          /\ pc[v] # "watch" /\ pc'[v] # "watch"
          /\ \A u \in Vcpu \ {v} : pc'[u] = pc[u] /\ lat'[u] = lat[u]
      BY <2>2 DEF Retire, TbEnter, EventEnter, process, rated, Vcpu, TypeInv
    <3>2. \A w : Waiting(w)' = Waiting(w)
      BY <3>1, SameWaiting
    <3> QED BY <3>1, <3>2, SameRates DEF RateInv, Hits
  <2>3. CASE WriteFails(v)
    <3>1. lost' /\ UNCHANGED <<config, hits, drops>>
      BY <2>3 DEF WriteFails, rated
    <3> QED BY <3>1, SameRates DEF RateInv
  <2> QED BY <1>1, <2>1, <2>2, <2>3 DEF QuietStep, EnterStep
<1>2. ASSUME NEW v \in Vcpu, WriteStep(v) PROVE RateInv'
  <2>1. PICK x \in Nat : \E recs : Writes(v, x, recs)
    BY <1>2, WriteStepWrites
  <2>2. PICK recs : Writes(v, x, recs)
    BY <2>1
  <2>3. /\ UNCHANGED <<config, out, lost, hits, drops>> /\ pc'[v] # "watch"
        /\ \A u \in Vcpu \ {v} : pc'[u] = pc[u] /\ lat'[u] = lat[u]
        /\ Vcpu' = Vcpu
    BY <1>2, WriteStepFrame DEF Inside, Vcpu
  <2>4. ASSUME out, ~lost, NEW w \in Limited
        PROVE  Tally(trace', Hits(w)) + Cardinality(Waiting(w)') = Due(w)
    <3>1. trace' = trace \o recs /\ recs \in Seq(Rec) /\ trace \in Seq(Rec) /\ Counted(v, recs)
      BY <2>2, <2>4, OwnSeq DEF Writes, Written, TypeInv
    <3>2. Tally(trace', Hits(w)) = Tally(trace, Hits(w)) + Tally(recs, Hits(w))
      BY <3>1, TallyConcat
    <3>3. Tally(trace, Hits(w)) + Cardinality(Waiting(w)) = Due(w)
      BY <2>4 DEF RateInv
    <3>4. w \in Watch /\ Tally(trace, Hits(w)) \in Nat
      BY <3>1, LimitedFacts, TallyIsNat
    <3>5. IsFiniteSet(Waiting(w)) /\ Cardinality(Waiting(w)) \in Nat
      BY WaitingFacts
    <3>6. CASE pc[v] = "watch" /\ lat[v].what = w
      <4>1. v \in Waiting(w) /\ Waiting(w)' = Waiting(w) \ {v}
        BY <2>3, <3>6 DEF Waiting
      <4>2. Cardinality(Waiting(w)') = Cardinality(Waiting(w)) - 1
        BY <3>5, <4>1, FS_RemoveElement
      <4>3. Tally(recs, Hits(w)) = 1
        BY <3>1, <3>4, <3>6 DEF Counted
      <4> QED BY <3>2, <3>3, <3>4, <3>5, <4>2, <4>3
    <3>7. CASE ~(pc[v] = "watch" /\ lat[v].what = w)
      <4>1. Waiting(w)' = Waiting(w)
        BY <2>3, <3>7, SameWaiting
      <4>2. Tally(recs, Hits(w)) = 0
        BY <3>1, <3>4, <3>7 DEF Counted
      <4> QED BY <3>2, <3>3, <3>4, <4>1, <4>2
    <3> QED BY <3>6, <3>7
  <2> QED BY <2>3, <2>4, SameRates DEF RateInv, Hits
<1>3. CASE FinishStep
  <2>1. ~out' /\ UNCHANGED <<config, hits, drops>>
    BY <1>3, FinishFrame, FinishFile
  <2> QED BY <2>1, SameRates DEF RateInv
<1> QED BY <1>1, <1>2, <1>3, StepKinds DEF QuietStep

\* The sum in the property is the sum of the missed hits, when every due hit was
\* kept: two folds over the same set of equal summands.
LEMMA DropsAreMissed ==
  ASSUME \A w \in Limited : Kept(w) = Due(w)
  PROVE  MapThenSumSet(LAMBDA w : hits[w] - Kept(w), Limited) = SumOver(Missed, Limited)
<1>1. \A w \in Limited : Missed[w] = hits[w] - Kept(w)
  BY DEF Missed
<1> DEFINE Kepts(it) == [s \in SUBSET Limited |->
                          IF s = {} THEN 0
                          ELSE (hits[CHOOSE w \in s : TRUE] - Kept(CHOOSE w \in s : TRUE))
                                  + it[s \ {CHOOSE w \in s : TRUE}]]
           Misses(it) == [s \in SUBSET Limited |->
                           IF s = {} THEN 0
                           ELSE Missed[CHOOSE w \in s : TRUE] + it[s \ {CHOOSE w \in s : TRUE}]]
<1>2. \A it : Kepts(it) = Misses(it)
  <2>1. \A s \in SUBSET Limited : s # {} => (CHOOSE w \in s : TRUE) \in Limited
    OBVIOUS
  <2> QED BY <1>1, <2>1
<1>3. MapThenSumSet(LAMBDA w : hits[w] - Kept(w), Limited)
        = (CHOOSE it : it = Kepts(it))[Limited]
  BY DEF MapThenSumSet, MapThenFoldSet
<1>4. SumOver(Missed, Limited) = (CHOOSE it : it = Misses(it))[Limited]
  BY DEF MapThenSumSet, MapThenFoldSet, SumOver
<1> HIDE DEF Kepts, Misses
<1>5. (CHOOSE it : it = Kepts(it)) = (CHOOSE it : it = Misses(it))
  BY <1>2
<1> QED BY <1>3, <1>4, <1>5

\* RateInv implies the property a run checks.
LEMMA RateFromInv ==
  ASSUME TypeInv, RateInv
  PROVE  RateLimitKeepsOneInN
<1> SUFFICES ASSUME out, ~lost
             PROVE  /\ \A w \in Limited : Kept(w) = Due(w)
                    /\ drops = MapThenSumSet(LAMBDA w : hits[w] - Kept(w), Limited)
  BY DEF RateLimitKeepsOneInN, Limited, Due
<1>1. \A w : Kept(w) = Tally(trace, Hits(w)) + Cardinality(Waiting(w))
  <2> SUFFICES ASSUME NEW w
               PROVE  {i \in Pos("WATCHPC") : trace[i].why = w}
                        = {i \in DOMAIN trace : trace[i] \in Hits(w)}
    BY DEF Kept, Tally
  <2> QED BY DEF Pos, Hits, TypeInv
<1>2. \A w \in Limited : Kept(w) = Due(w)
  BY <1>1 DEF RateInv
<1>3. drops = SumOver(Missed, Limited)
  BY DEF RateInv
<1> QED BY <1>2, <1>3, DropsAreMissed

---------------------------------------------------------------------------
(* Snapshots from snapstart on.                                            *)

\* What a snapshot may do to the byte budget.
LiveStep == \/ UNCHANGED <<live, truncated>>
            \/ live /\ truncated' \in BOOLEAN /\ live' = ~truncated'

\* The next snapshot is planned a full interval behind a snapshot taken after
\* snapstart, or is the very first of a recording without snapstart.
Covered ==
  \/ SnapStart = 0 /\ nextSnap = SnapEvery
  \/ \E j \in Marks("grid") : trace[j].insn >= SnapStart /\ nextSnap = trace[j].insn + SnapEvery

\* From snapstart on the plan never lags, as long as snapshots are taken.
DenseInv ==
  /\ SnapEvery # 0 => live = ~truncated
  /\ out /\ SnapEvery # 0 /\ ~truncated /\ (startSnapDone \/ SnapStart = 0) => Covered
  /\ DenseFromStart

\* nf_snapshot frees the shadow pages only when it hits the budget,
LEMMA SnapshotLive ==
  ASSUME NEW before, NEW v, NEW x, NEW why, NEW after, Snapshot(before, v, x, why, after)
  PROVE  LiveStep
BY DEF Snapshot, NoSnapshot, snapVars, LiveStep

\* and nothing else does.
LEMMA WriteStepLive ==
  ASSUME NEW v \in Vcpu, WriteStep(v)
  PROVE  LiveStep
<1> USE DEF process, clock, snapVars, counters, NoSnapshot
<1>1. CASE VcpuInit(v)
  BY <1>1 DEF VcpuInit, LiveStep
<1>2. CASE Idle(v, "guest", "idle") \/ Idle(v, "idle", "guest")
  BY <1>2 DEF Idle, LiveStep
<1>3. CASE VcpuExit(v)
  <2>1. \/ NoSnapshot
        \/ Snapshot(<< >>, v, Sum, "final", <<Record("VCPU", v, Sum, "down")>>)
    BY <1>3 DEF VcpuExit
  <2> QED BY <2>1, SnapshotLive DEF LiveStep
<1>4. CASE TbLocked(v)
  <2>1. \/ NoSnapshot \/ \E before, x : Snapshot(before, v, x, "grid", << >>)
    BY <1>4 DEF TbLocked
  <2> QED BY <2>1, SnapshotLive DEF LiveStep
<1>5. CASE EventLocked(v)
  BY <1>5 DEF EventLocked, LiveStep
<1>6. CASE WatchLocked(v)
  <2>1. \/ NoSnapshot \/ \E before, x, why : Snapshot(before, v, x, why, << >>)
    BY <1>6 DEF WatchLocked
  <2> QED BY <2>1, SnapshotLive DEF LiveStep
<1> QED BY <1>1, <1>2, <1>3, <1>4, <1>5, <1>6 DEF WriteStep

\* Only nf_tb_check moves the deadlines.
LEMMA OtherDeadlines ==
  ASSUME NEW v \in Vcpu, WriteStep(v), ~TbLocked(v)
  PROVE  UNCHANGED <<nextSample, nextSnap, startSnapDone>>
BY DEF WriteStep, VcpuInit, VcpuExit, Idle, EventLocked, WatchLocked, clock

\* The other steps inside the lock add no SAMPLE and keep the plan.
LEMMA DenseKept ==
  ASSUME TypeInv, TimeInv, DenseInv, NEW v \in Vcpu, WriteStep(v), ~TbLocked(v)
  PROVE  DenseInv'
<1>0. SampleEvery \in Nat /\ nextSample \in Nat
  BY ConfigFacts DEF TypeInv
<1>1. PICK x \in Nat : \E recs : Writes(v, x, recs)
  BY WriteStepWrites
<1>2. PICK recs : Writes(v, x, recs)
  BY <1>1
<1>3. UNCHANGED <<config, out, nextSample, nextSnap, startSnapDone>>
  BY WriteStepFrame, OtherDeadlines
<1>4. LiveStep
  BY WriteStepLive
<1>5. /\ SnapEvery' = SnapEvery /\ SnapStart' = SnapStart
      /\ SnapEvery # 0 => live' = ~truncated'
      /\ SnapEvery # 0 /\ ~truncated' => ~truncated
  BY <1>3, <1>4 DEF LiveStep, DenseInv, SnapEvery, SnapStart, TypeInv
<1>6. \A i \in DOMAIN trace : i \in DOMAIN trace' /\ trace'[i] = trace[i]
  BY <1>2, WritesFile
<1>7. \A i \in DOMAIN trace' : trace'[i].type = "SAMPLE" => i \in DOMAIN trace
  <2> SUFFICES ASSUME NEW i \in DOMAIN trace' \ DOMAIN trace, trace'[i].type = "SAMPLE"
               PROVE  FALSE
    OBVIOUS
  <2>1. i - Len(trace) \in DOMAIN recs /\ recs[i - Len(trace)].type = "SAMPLE"
    BY <1>2, WritesFile
  <2>2. SampleEvery # 0 /\ x >= nextSample /\ nextSample' = x + SampleEvery
    BY <1>2, <2>1 DEF Writes, Sampled
  <2> QED BY <1>0, <1>3, <2>2
<1>8. \A j \in Marks("grid") : j \in Marks("grid")' /\ trace'[j] = trace[j]
  BY <1>6 DEF Marks, Pos
<1>9. Covered => Covered'
  BY <1>3, <1>5, <1>8 DEF Covered
<1>10. SnapEvery # 0 /\ ~truncated' => (DenseFromStart => DenseFromStart')
  <2> SUFFICES ASSUME SnapEvery # 0, ~truncated, DenseFromStart,
                      NEW i \in DOMAIN trace', trace'[i].type = "SAMPLE",
                      trace'[i].insn >= SnapStart, trace'[i].insn >= SnapEvery
               PROVE  \E j \in Marks("grid")' :
                        /\ j <= i + 1 /\ trace'[j].insn >= SnapStart
                        /\ trace'[i].insn - trace'[j].insn < SnapEvery
    BY <1>5 DEF DenseFromStart, Pos
  <2>1. i \in Pos("SAMPLE") /\ trace'[i] = trace[i]
    BY <1>6, <1>7 DEF Pos
  <2> QED BY <1>8, <2>1 DEF DenseFromStart
<1> QED BY <1>3, <1>5, <1>9, <1>10 DEF DenseInv, DenseFromStart

\* nf_tb_check: a sample that finds no snapshot due is within the interval of
\* the last one, any other gets its snapshot right behind it; crossing snapstart
\* takes one at once, and a vCPU that latched its clock before snapstart and
\* gets the lock after that finds none due.
LEMMA DenseTb ==
  ASSUME TypeInv, TimeInv, DenseInv, NEW v \in Vcpu, TbLocked(v)
  PROVE  DenseInv'
<1> DEFINE x == lat[v].insn
<1>0. /\ SampleEvery \in Nat /\ SnapEvery \in Nat /\ SnapStart \in Nat /\ BootSnapEvery \in Nat
      /\ SnapStart = 0 => BootSnapEvery = 0
      /\ nextSample \in Nat /\ nextSnap \in Nat /\ x \in Nat
  <2>1. /\ SampleEvery \in Nat /\ SnapEvery \in Nat /\ SnapStart \in Nat /\ BootSnapEvery \in Nat
        /\ SnapStart = 0 => BootSnapEvery = 0
    BY ConfigFacts DEF TypeInv
  <2>2. nextSample \in Nat /\ nextSnap \in Nat /\ x \in Nat
    BY DEF TypeInv
  <2> QED BY <2>1, <2>2
<1>1. PICK recs : /\ Writes(v, x, recs)
                  /\ SnapDue(x) => \E k \in {0, 1} : Marked(recs, v, x, "grid", k)
  BY TbWrites
<1>2. WriteStep(v)
  BY DEF WriteStep
<1>3. UNCHANGED <<config, out>> /\ LiveStep
  BY <1>2, WriteStepFrame, WriteStepLive
<1>4. /\ nextSnap' = IF SnapDue(x)
                     THEN x + (IF x >= SnapStart \/ BootSnapEvery = 0 THEN SnapEvery
                                                                     ELSE BootSnapEvery)
                     ELSE nextSnap
      /\ startSnapDone' = (startSnapDone \/ (SnapDue(x) /\ CrossedStart(x)))
  BY DEF TbLocked
<1>5. /\ SnapEvery' = SnapEvery /\ SnapStart' = SnapStart
      /\ SnapEvery # 0 => live' = ~truncated'
      /\ SnapEvery # 0 /\ ~truncated' => ~truncated /\ live
  BY <1>3 DEF LiveStep, DenseInv, SnapEvery, SnapStart, TypeInv
<1> HIDE DEF x
<1>6. /\ DOMAIN trace = 1 .. Len(trace) /\ Len(trace) \in Nat
      /\ \A i \in DOMAIN trace : trace[i].insn \in Nat
  BY SMTT(40) DEF TypeInv, Rec, Plain, End
<1>7. CASE SnapEvery = 0 \/ truncated'
  BY <1>5, <1>7 DEF DenseInv, DenseFromStart
<1>8. CASE ~out /\ SnapEvery # 0 /\ ~truncated'
  <2>1. trace' = trace
    BY <1>1, <1>8 DEF Writes, Written
  <2>2. DenseFromStart'
    BY <1>5, <1>8, <2>1 DEF DenseInv, DenseFromStart, Marks, Pos
  <2> QED BY <1>3, <1>5, <1>8, <2>2 DEF DenseInv
<1>9. CASE out /\ SnapEvery # 0 /\ ~truncated'
  <2>1. /\ trace' = trace \o recs
        /\ \A i \in DOMAIN trace : i \in DOMAIN trace' /\ trace'[i] = trace[i]
        /\ \A i \in DOMAIN trace' \ DOMAIN trace :
             /\ i - Len(trace) \in DOMAIN recs /\ trace'[i] = recs[i - Len(trace)]
             /\ trace'[i].insn = x
    <3>1. trace' = trace \o recs
      BY <1>1, <1>9 DEF Writes, Written
    <3>2. recs \in Seq(Own(v, x)) /\ trace \in Seq(Rec)
      BY <1>1 DEF Writes, TypeInv
    <3>3. \A i \in DOMAIN recs : recs[i].insn = x
      BY <3>2 DEF Own
    <3> QED BY <3>1, <3>2, <3>3
  <2>2. \A j \in Marks("grid") : j \in Marks("grid")' /\ trace'[j] = trace[j]
    BY <2>1 DEF Marks, Pos
  <2>3. ~truncated /\ live
    BY <1>5, <1>9
  <2>4. SnapDue(x) => \E j \in Marks("grid")' : j <= Len(trace) + 2 /\ trace'[j].insn = x
    <3> SUFFICES ASSUME SnapDue(x)
                 PROVE  \E j \in Marks("grid")' : j <= Len(trace) + 2 /\ trace'[j].insn = x
      OBVIOUS
    <3>1. PICK k \in {0, 1} : Marked(recs, v, x, "grid", k)
      BY <1>1
    <3>2. k + 1 \in DOMAIN recs /\ recs[k + 1] = Record("SNAPMARK", v, x, "grid")
      BY <2>3, <3>1 DEF Marked
    <3>3. recs \in Seq(Own(v, x)) /\ trace \in Seq(Rec)
      BY <1>1 DEF Writes, TypeInv
    <3>4. Len(trace) + k + 1 \in DOMAIN trace' /\ trace'[Len(trace) + k + 1] = recs[k + 1]
      BY <2>1, <3>2, <3>3
    <3>5. Len(trace) + k + 1 \in Marks("grid")' /\ trace'[Len(trace) + k + 1].insn = x
      BY <3>2, <3>4 DEF Marks, Pos, Record
    <3>6. Len(trace) + k + 1 <= Len(trace) + 2
      BY <1>6
    <3> QED BY <3>5, <3>6
  <2>5. startSnapDone \/ SnapStart = 0 => Covered
    BY <1>9, <2>3 DEF DenseInv
  <2>6. Covered =>
          \/ SnapStart = 0 /\ nextSnap = SnapEvery
          \/ \E j \in Marks("grid") : /\ trace[j].insn >= SnapStart /\ trace[j].insn \in Nat
                                      /\ nextSnap = trace[j].insn + SnapEvery
                                      /\ j <= Len(trace) /\ j \in Nat
    BY <1>6 DEF Covered, Marks, Pos
  <2>7. startSnapDone' \/ SnapStart = 0 => Covered'
    <3> SUFFICES ASSUME startSnapDone' \/ SnapStart = 0 PROVE Covered'
      OBVIOUS
    <3>1. CASE SnapDue(x)
      <4>1. x >= SnapStart
        <5>1. CASE SnapStart = 0
          BY <1>0, <5>1
        <5>2. CASE SnapStart # 0 /\ startSnapDone
          <6>1. x >= nextSnap
            BY <3>1, <5>2 DEF SnapDue, CrossedStart
          <6>2. nextSnap >= SnapStart
            BY <1>0, <2>5, <2>6, <5>2
          <6> QED BY <1>0, <6>1, <6>2
        <5>3. CASE SnapStart # 0 /\ ~startSnapDone
          <6>1. CrossedStart(x)
            BY <1>4, <3>1, <5>3
          <6> QED BY <6>1 DEF CrossedStart
        <5> QED BY <5>1, <5>2, <5>3
      <4>2. nextSnap' = x + SnapEvery
        BY <1>4, <3>1, <4>1
      <4>3. PICK j \in Marks("grid")' : trace'[j].insn = x
        BY <2>4, <3>1
      <4> QED BY <1>5, <4>1, <4>2, <4>3 DEF Covered
    <3>2. CASE ~SnapDue(x)
      <4>1. nextSnap' = nextSnap /\ Covered
        BY <1>4, <2>5, <3>2
      <4> QED BY <1>5, <2>2, <4>1 DEF Covered
    <3> QED BY <3>1, <3>2
  <2>8. DenseFromStart'
    <3> SUFFICES ASSUME NEW i \in DOMAIN trace', trace'[i].type = "SAMPLE",
                        trace'[i].insn >= SnapStart, trace'[i].insn >= SnapEvery
                 PROVE  \E j \in Marks("grid")' :
                          /\ j <= i + 1 /\ trace'[j].insn >= SnapStart
                          /\ trace'[i].insn - trace'[j].insn < SnapEvery
      BY <1>5 DEF DenseFromStart, Pos
    <3>1. CASE i \in DOMAIN trace
      <4>1. i \in Pos("SAMPLE") /\ trace'[i] = trace[i]
        BY <2>1, <3>1 DEF Pos
      <4>2. DenseFromStart
        BY DEF DenseInv
      <4> QED BY <1>9, <2>2, <2>3, <4>1, <4>2 DEF DenseFromStart
    <3>2. CASE i \notin DOMAIN trace
      <4>1. trace'[i].insn = x /\ i - Len(trace) \in DOMAIN recs
            /\ recs[i - Len(trace)].type = "SAMPLE"
        BY <2>1, <3>2
      <4>2. i - Len(trace) = 1
        BY <1>1, <4>1 DEF Writes, Sampled
      <4>3. i = Len(trace) + 1
        <5>1. i \in Int
          <6>1. trace' \in Seq(Rec)
            BY <1>1, WritesTyped
          <6> QED BY <6>1
        <5> QED BY <1>6, <4>2, <5>1
      <4>4. CASE SnapDue(x)
        <5>1. PICK j \in Marks("grid")' : j <= Len(trace) + 2 /\ trace'[j].insn = x
          BY <2>4, <4>4
        <5>2. j <= i + 1
          BY <1>6, <4>3, <5>1
        <5>3. x - x < SnapEvery
          BY <1>0, <1>9
        <5> QED BY <4>1, <5>1, <5>2, <5>3
      <4>5. CASE ~SnapDue(x)
        <5>1. x < nextSnap /\ (startSnapDone \/ SnapStart = 0)
          BY <1>0, <1>9, <4>1, <4>5 DEF SnapDue, CrossedStart
        <5>2. PICK j \in Marks("grid") : /\ trace[j].insn >= SnapStart /\ trace[j].insn \in Nat
                                         /\ nextSnap = trace[j].insn + SnapEvery
                                         /\ j <= Len(trace) /\ j \in Nat
          BY <1>0, <2>5, <2>6, <4>1, <5>1
        <5>3. j <= i + 1 /\ x - trace[j].insn < SnapEvery
          BY <1>0, <1>6, <4>3, <5>1, <5>2
        <5> QED BY <2>2, <4>1, <5>2, <5>3
      <4> QED BY <4>4, <4>5
    <3> QED BY <3>1, <3>2
  <2> QED BY <1>3, <1>5, <2>3, <2>7, <2>8 DEF DenseInv
<1> QED BY <1>7, <1>8, <1>9 DEF TypeInv

\* So every step keeps DenseInv,
LEMMA DenseStep ==
  ASSUME TypeInv, TimeInv, DenseInv, Next
  PROVE  DenseInv'
<1>1. ASSUME NEW v \in Vcpu, QuietStep(v) PROVE DenseInv'
  <2>1. UNCHANGED <<config, trace, out, nextSnap, startSnapDone, live, truncated>>
    BY <1>1, QuietFrame
  <2> QED BY <2>1 DEF DenseInv, Covered, DenseFromStart, Marks, Pos, SnapEvery, SnapStart
<1>2. ASSUME NEW v \in Vcpu, WriteStep(v) PROVE DenseInv'
  BY <1>2, DenseKept, DenseTb
<1>3. CASE FinishStep
  <2>1. ~out' /\ UNCHANGED <<config, live, truncated>>
    BY <1>3, FinishFrame, FinishFile
  <2>2. \/ trace' = trace
        \/ /\ DOMAIN trace' = 1 .. (Len(trace) + 1) /\ DOMAIN trace = 1 .. Len(trace)
           /\ \A i \in DOMAIN trace : i \in DOMAIN trace' /\ trace'[i] = trace[i]
           /\ trace'[Len(trace) + 1].type = "END" /\ Len(trace) \in Nat
    BY <1>3, FinishFile DEF Record
  <2>3. /\ \A i \in Pos("SAMPLE")' : i \in Pos("SAMPLE") /\ trace'[i] = trace[i]
        /\ \A j \in Marks("grid") : j \in Marks("grid")' /\ trace'[j] = trace[j]
    BY <2>2 DEF Pos, Marks
  <2>4. DenseFromStart'
    BY <2>1, <2>3 DEF DenseInv, DenseFromStart, SnapEvery, SnapStart
  <2> QED BY <2>1, <2>4 DEF DenseInv, SnapEvery
<1> QED BY <1>1, <1>2, <1>3, StepKinds DEF QuietStep

\* which holds in the beginning: record.py gives no boot interval without
\* snapstart.
LEMMA InitDense ==
  ASSUME Init
  PROVE  DenseInv
<1>1. /\ SnapStart = 0 => BootSnapEvery = 0
  BY ConfigFacts DEF Init
<1>2. trace = << >> /\ ~startSnapDone /\ live = (SnapEvery # 0) /\ ~truncated
  BY DEF Init
<1>3. SnapEvery # 0 /\ SnapStart = 0 => nextSnap = SnapEvery
  BY <1>1 DEF Init
<1>4. DenseFromStart
  BY <1>2 DEF DenseFromStart, Pos
<1> QED BY <1>2, <1>3, <1>4 DEF DenseInv, Covered

---------------------------------------------------------------------------
(* The inductive invariant and the theorems.                               *)

\* The inductive invariant.
IInv == Base /\ RateInv /\ DenseInv

\* Every step keeps it.
LEMMA Inductive == IInv /\ [Next]_vars => IInv'
<1>1. ASSUME Base, [Next]_vars PROVE Base'
  BY <1>1, BaseStep
<1>2. ASSUME IInv, Next PROVE RateInv' /\ DenseInv'
  BY <1>2, RateStep, DenseStep DEF IInv, Base
<1>3. ASSUME IInv, UNCHANGED vars PROVE RateInv' /\ DenseInv'
  <2> USE <1>3 DEF IInv, vars
  <2>1. RateInv'
    BY SameRates DEF RateInv, Hits, Waiting, Vcpu
  <2>2. DenseInv'
    BY DEF DenseInv, Covered, DenseFromStart, Marks, Pos, SnapEvery, SnapStart
  <2> QED BY <2>1, <2>2
<1> QED BY <1>1, <1>2, <1>3 DEF IInv

\* It holds in every state of a recording, whatever the number of vCPUs and
\* watches, the intervals, the limits and the length of the run.
THEOREM Invariant == Spec => []IInv
<1>1. Init => IInv
  BY InitBase, InitRate, InitDense DEF IInv, Base
<1> QED BY <1>1, Inductive, PTL DEF Spec

\* The variables keep their types.
THEOREM TypeCorrect == Spec => []TypeInv
<1>1. IInv => TypeInv
  BY DEF IInv, Base
<1> QED BY <1>1, Invariant, PTL

\* nf_cb, nf_watch_hit, nf_discon: two records of one vCPU never go back in time,
\* although every clock is read before the lock.
THEOREM OrderSafe == Spec => []PerVcpuOrder
<1>1. IInv => PerVcpuOrder
  BY DEF IInv, Base
<1> QED BY <1>1, Invariant, PTL

\* nf_tb_check: two SAMPLEs are never closer than the interval, whatever vCPUs
\* pass the unlocked test together.
THEOREM SpacingSafe == Spec => []SamplesSpaced
<1>1. IInv => SamplesSpaced
  BY DEF IInv, Base, SampleInv
<1> QED BY <1>1, Invariant, PTL

\* nf_finish: END is the last record, says what the file holds, and is never
\* written to a file that lost a record.
THEOREM EndSafe == Spec => []EndIsHonest
<1>1. IInv => EndIsHonest
  BY HonestFromFile DEF IInv, Base
<1> QED BY <1>1, Invariant, PTL

\* nf_watch_hit: exactly one hit in N of a limited watch is kept, every other is
\* counted as dropped, on whatever vCPUs they fall.
THEOREM RateSafe == Spec => []RateLimitKeepsOneInN
<1>1. IInv => RateLimitKeepsOneInN
  BY RateFromInv DEF IInv, Base
<1> QED BY <1>1, Invariant, PTL

\* nf_tb_check: after snapstart every sample has a snapshot less than one
\* interval old, before it or right behind it.
THEOREM DenseSafe == Spec => []DenseFromStart
<1>1. IInv => DenseFromStart
  BY DEF IInv, DenseInv
<1> QED BY <1>1, Invariant, PTL
==============================================================================
