----------------------------- MODULE ReportAudit -----------------------------
(***************************************************************************)
(* The numbers of a report and the audit of them (Analysis.metrics,        *)
(* bundle._coverage).  A guest allocates, reads through its block cache    *)
(* and uses the disk; watched entries are counted, perhaps one in `rate';  *)
(* the kernel may add semantic records; snapshots decode or do not; the    *)
(* recording ends with END or is cut.  From what was recorded alone the    *)
(* report gives each metric a number or none and counts its atomic units.  *)
(***************************************************************************)
EXTENDS Integers, Sequences, FiniteSets

CONSTANTS
  Setups,     \* kernels, manifests, watch lists and bounds
  AuditOps    \* bound: guest operations, and snapshots

Op == {"phys.alloc", "bcache.read", "disk.io"}

ASSUME AuditAssumption ==
  /\ AuditOps \in Nat
  /\ \A s \in Setups :
       /\ s.mapped \subseteq Op        \* kinds with functions in the manifest
       /\ s.present \subseteq Op       \* kinds whose functions are in this ELF
       /\ s.rate \in [s.armed -> Nat] /\ s.armed \subseteq s.mapped \cap s.present
       /\ s.declared \subseteq Op \ s.present    \* [absent] why = feature
       /\ s.naChannels \subseteq {"physical_counters", "processes", "resources"}
       /\ {s.derive, s.symbols, s.kalloc, s.snapshots, s.tellsWrites} \subseteq BOOLEAN
       /\ s.accounting \in {"one_to_one", "semantic", "unverified"}

None == -1

VARIABLES
  setup,
  truth,      \* what the guest did: operations of each kind, and cache hits
  missing,    \* cache misses whose disk read has not begun
  hitCount,   \* the rate limit: hits of each watched kind
  events,     \* normalized events of each kind
  reads,      \* disk.io events that are reads
  results,    \* NFT_CACHE_READ records by outcome
  kallocs,    \* NFT_KALLOC records
  drops,
  states,     \* the decoded snapshots
  allocatorStart,   \* the first snapshot after an allocator record, 0 without one
  ending      \* recording, ended (END was written), cut

auditVars == <<setup, truth, missing, hitCount, events, reads, results, kallocs, drops,
               states, allocatorStart, ending>>

AuditStart(at) ==
  /\ setup \in Setups
  /\ truth = [k \in Op \cup {"hits"} |-> 0] /\ missing = 0
  /\ hitCount = [k \in Op |-> 0] /\ events = [k \in Op |-> 0] /\ reads = 0
  /\ results = [hit |-> 0, miss |-> 0, error |-> 0]
  /\ kallocs = 0 /\ drops = 0 /\ states = << >>
  /\ allocatorStart = 0 /\ ending = at
AuditInit == AuditStart("recording")

---------------------------------------------------------------------------
(* The guest and what is recorded of it.                                    *)

Recording == ending = "recording"
Armed(k) == k \in setup.armed
Limited(k) == Armed(k) /\ setup.rate[k] > 1
Keeps(k) == Recording /\ Armed(k) /\ (Limited(k) => hitCount[k] % setup.rate[k] = 0)

\* One operation of kind k reaches its watched entry.
Entry(k) ==
  /\ k \in setup.present /\ ending # "ended" /\ ~setup.snapshots
  /\ truth[k] < AuditOps
  /\ hitCount' = IF Recording /\ Limited(k) THEN [hitCount EXCEPT ![k] = @ + 1] ELSE hitCount
  /\ drops' = IF Recording /\ Limited(k) /\ ~Keeps(k) THEN drops + 1 ELSE drops
  /\ UNCHANGED <<setup, states, allocatorStart, ending>>

Counted(k) == [events EXCEPT ![k] = IF Keeps(k) THEN @ + 1 ELSE @]

\* With the channel the event is the KALLOC record, and the entry is dropped.
GuestAlloc ==
  /\ Entry("phys.alloc")
  /\ truth' = [truth EXCEPT !["phys.alloc"] = @ + 1]
  /\ IF setup.kalloc /\ Recording
     THEN kallocs' = kallocs + 1 /\ events' = [events EXCEPT !["phys.alloc"] = @ + 1]
     ELSE UNCHANGED kallocs /\ events' = Counted("phys.alloc")
  /\ UNCHANGED <<missing, reads, results>>

\* A cache request: a hit, a miss whose disk read follows, or an error.
GuestRead(outcome) ==
  /\ Entry("bcache.read")
  /\ outcome = "error" => setup.accounting # "one_to_one"
  /\ outcome = "miss" => "disk.io" \in setup.present
  /\ truth' = [truth EXCEPT !["bcache.read"] = @ + 1,
                            !.hits = IF outcome = "hit" THEN @ + 1 ELSE @]
  /\ missing' = IF outcome = "miss" THEN missing + 1 ELSE missing
  /\ events' = Counted("bcache.read")
  /\ results' = IF setup.accounting = "semantic" /\ Recording
                THEN [results EXCEPT ![outcome] = @ + 1] ELSE results
  /\ UNCHANGED <<reads, kallocs>>

\* The disk: the read of a miss, or a write.
GuestDisk(write) ==
  /\ Entry("disk.io")
  /\ ~write => missing > 0
  /\ missing' = IF write THEN missing ELSE missing - 1
  /\ truth' = [truth EXCEPT !["disk.io"] = @ + 1]
  /\ events' = Counted("disk.io")
  /\ reads' = IF Keeps("disk.io") /\ ~write THEN reads + 1 ELSE reads
  /\ UNCHANGED <<results, kallocs>>

\* A snapshot, with what the decoder can read of it; "no" where a table is not
\* initialized yet (Lazy/Once), which is told apart from a failure.
Snapshot ==
  /\ setup.snapshots /\ Recording /\ Len(states) < AuditOps
  /\ \E complete, phys, counters \in BOOLEAN, procs, table \in {"ok", "no", "bad"} :
       states' = Append(states, [complete |-> complete, phys |-> phys,
                                 counters |-> counters, procs |-> procs, table |-> table])
  /\ UNCHANGED <<setup, truth, missing, hitCount, events, reads, results, kallocs, drops,
                 allocatorStart, ending>>

\* The first allocator record; snapshot i is taken at instruction i.
FirstAllocatorRecord ==
  /\ setup.snapshots /\ Recording /\ allocatorStart = 0
  /\ allocatorStart' = Len(states) + 1
  /\ UNCHANGED <<setup, truth, missing, hitCount, events, reads, results, kallocs, drops,
                 states, ending>>

End ==
  /\ Recording /\ ending' \in {"ended", "cut"}
  /\ UNCHANGED <<setup, truth, missing, hitCount, events, reads, results, kallocs, drops,
                 states, allocatorStart>>

---------------------------------------------------------------------------
(* Analysis.metrics                                                         *)

Value(k) == IF events[k] > 0 THEN events[k] ELSE IF Armed(k) THEN 0 ELSE None

\* A mutant of Sampled: the allocation metric counts as exact in any case.
SampledButAllocations == {k \in setup.armed \ {"phys.alloc"} : Limited(k)}

\* _sampled_kinds, without the allocations once a KALLOC record was seen.
Sampled == {k \in setup.armed : Limited(k)} \ (IF kallocs > 0 THEN {"phys.alloc"} ELSE {})

DiskReads ==
  CASE Value("disk.io") = None -> None
    [] Value("disk.io") = 0    -> 0
    [] OTHER                   -> IF setup.tellsWrites THEN reads ELSE None

Requests == results.hit + results.miss + results.error
Semantic1 == /\ setup.accounting = "semantic" /\ Value("bcache.read") # None
             /\ Requests = Value("bcache.read")
OneToOne == /\ setup.accounting = "one_to_one"
            /\ Value("bcache.read") # None /\ DiskReads # None
            /\ DiskReads <= Value("bcache.read")
DerivedFrom == {"bcache.read", "disk.io"}

\* A mutant of Hits that derives a number from samples.
HitsOfSamples ==
  IF Semantic1 THEN results.hit
  ELSE IF OneToOne THEN Value("bcache.read") - DiskReads ELSE None

\* bcache_hits; nothing is derived from a sampled count.
Hits ==
  IF DerivedFrom \cap Sampled # {} THEN None
  ELSE IF Semantic1 THEN results.hit
  ELSE IF OneToOne THEN Value("bcache.read") - DiskReads ELSE None

\* bcache_hit_rate has a value (its quotient is left out).
HasRate == /\ Hits # None /\ Value("bcache.read") > 0
           /\ Semantic1 => results.error = 0

\* A mutant of FeatureAbsent for which what is not watched is not there.
FeatureAbsentUnlessArmed ==
  setup.declared \cup
    (IF setup.derive /\ setup.symbols THEN setup.mapped \ setup.armed ELSE {})
\* _absent_kinds: declared by the manifest, or mapped to no function of this ELF.
FeatureAbsent ==
  setup.declared \cup
    (IF setup.derive /\ setup.symbols THEN setup.mapped \ setup.present ELSE {})

---------------------------------------------------------------------------
(* bundle._coverage                                                         *)

NotApplicable ==
  FeatureAbsent
    \cup (IF DerivedFrom \cap FeatureAbsent # {} THEN {"hits", "rate"} ELSE {})
    \cup (IF Value("bcache.read") = 0 /\ Hits = 0 THEN {"rate"} ELSE {})
Applicable == (Op \cup {"hits", "rate"}) \ NotApplicable
MissingMetrics ==
  {m \in Applicable : CASE m = "hits" -> Hits = None
                        [] m = "rate" -> ~HasRate
                        [] OTHER      -> Value(m) = None}
SampledMetrics == Applicable \cap Sampled

\* An allocation known by its entry alone lacks the field allocated_pa.
UnknownEvents == IF kallocs > 0 THEN 0 ELSE events["phys.alloc"]
SemanticEvents == events["phys.alloc"] + events["bcache.read"] + events["disk.io"]

BeforeFirst(ready) == {i \in DOMAIN states : ready # {} /\ \A r \in ready : i < r}
PhysOk(i)  == states[i].phys
ProcsOk(i) == states[i].procs = "ok"
TableOk(i) == states[i].table = "ok"
PrePhysical  == BeforeFirst({i \in DOMAIN states : PhysOk(i)})
PreProcess   == {i \in BeforeFirst({j \in DOMAIN states : ProcsOk(j)}) : states[i].procs = "no"}
PreResource  == {i \in BeforeFirst({j \in DOMAIN states : TableOk(j)}) : states[i].table = "no"}
PreAllocator == {i \in DOMAIN states : i < allocatorStart}

Na(channel) == channel \in setup.naChannels
Unless(channel, n) == IF Na(channel) THEN 0 ELSE n
BadSnapshots ==
  Cardinality({i \in DOMAIN states : ~states[i].complete})
  + Cardinality({i \in DOMAIN states \ PrePhysical : ~PhysOk(i)})
  + Unless("physical_counters",
           Cardinality({i \in DOMAIN states \ PreAllocator : ~states[i].counters}))
  + Unless("processes", Cardinality({i \in DOMAIN states \ PreProcess : ~ProcsOk(i)}))
  + Unless("resources", Cardinality({i \in DOMAIN states \ PreResource : ~TableOk(i)}))

\* A mutant of SnapshotUnits that counts the frames before the allocator's first record.
SnapshotUnitsFromBoot ==
  Len(states) * (4 - Cardinality(setup.naChannels)) - Cardinality(PrePhysical)
  - Unless("processes", Cardinality(PreProcess))
  + Unless("resources", Len(states) - Cardinality(PreResource))
SnapshotUnits ==
  Len(states) * (4 - Cardinality(setup.naChannels)) - Cardinality(PrePhysical)
  - Unless("physical_counters", Cardinality(PreAllocator))
  - Unless("processes", Cardinality(PreProcess))
  + Unless("resources", Len(states) - Cardinality(PreResource))

\* A mutant of TraceOk that does not ask for the END record.
TraceOkUnchecked == TRUE
TraceOk == ending = "ended"
WatchDrops == IF ending = "ended" THEN drops ELSE 0

\* Six units for scope, trace, plugin, drops, stacks and unresolved points; the
\* model varies the second and the fourth.
TotalUnits == Cardinality(Applicable) + SemanticEvents + SnapshotUnits + 6
Failed == Cardinality(MissingMetrics) + Cardinality(SampledMetrics) + UnknownEvents
          + BadSnapshots + (IF TraceOk THEN 0 ELSE 1) + (IF WatchDrops > 0 THEN 1 ELSE 0)
Complete ==
  /\ MissingMetrics = {} /\ SampledMetrics = {} /\ UnknownEvents = 0
  /\ BadSnapshots = 0 /\ TraceOk /\ WatchDrops = 0

AuditNext ==
  \/ GuestAlloc \/ \E o \in {"hit", "miss", "error"} : GuestRead(o)
  \/ \E w \in BOOLEAN : GuestDisk(w)
  \/ Snapshot \/ FirstAllocatorRecord \/ End

AuditSpec == AuditInit /\ [][AuditNext]_auditVars

---------------------------------------------------------------------------
(* Properties.                                                              *)

\* A number of the report is the guest's own, or is marked as sampled: with a
\* rate limit, with the allocation channel that lifts it, at any point where
\* the recording may end.
NumbersAreTrueOrSampled ==
  ending # "cut" =>
    \A k \in Op : Value(k) \in {None, truth[k]} \/ k \in Sampled

\* The derived cache hits are never too few, and too many only by the requests
\* whose disk read had not begun when the recording ended.
HitsErrByOpenRequests ==
  ending # "cut" /\ Hits # None => Hits \in truth.hits..(truth.hits + missing)

\* A metric is not applicable only when the guest cannot do what it counts: a
\* function that is present and not watched is a gap, never "N/A".
NotApplicableIsImpossible == \A k \in FeatureAbsent : truth[k] = 0

\* A report that calls itself complete is: the recording was not cut, and every
\* applicable count is what the guest did.
CompleteIsExact ==
  Complete => /\ ending = "ended"
              /\ \A k \in Applicable \cap Op : Value(k) = truth[k]

\* The units the audit is about, one by one: a metric, an event, one channel of
\* one snapshot, the six scalar checks.
SnapshotUnitSet ==
  [what : {"complete"}, at : DOMAIN states]
    \cup [what : {"phys"}, at : DOMAIN states \ PrePhysical]
    \cup (IF Na("physical_counters") THEN {}
          ELSE [what : {"counters"}, at : DOMAIN states \ PreAllocator])
    \cup (IF Na("processes") THEN {} ELSE [what : {"procs"}, at : DOMAIN states \ PreProcess])
    \cup (IF Na("resources") THEN {} ELSE [what : {"table"}, at : DOMAIN states \ PreResource])
Holds(u) ==
  CASE u.what = "complete" -> states[u.at].complete
    [] u.what = "phys"     -> PhysOk(u.at)
    [] u.what = "counters" -> states[u.at].counters
    [] u.what = "procs"    -> ProcsOk(u.at)
    [] u.what = "table"    -> TableOk(u.at)

\* The audit's "atomic denominator" is the number of snapshot units, whichever
\* channels are not applicable or not yet initialized, and its failures are
\* units of it, none exactly when the report calls itself complete: no percentage
\* is lower or higher than the units say.
UnitsAreCounted ==
  /\ SnapshotUnits = Cardinality(SnapshotUnitSet)
  /\ BadSnapshots = Cardinality({u \in SnapshotUnitSet : ~Holds(u)})
  /\ Failed <= TotalUnits /\ (Failed = 0 <=> Complete)
=============================================================================
