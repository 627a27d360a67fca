--------------------------- MODULE SnapshotDelta ---------------------------
(***************************************************************************)
(* nf_snapshot of the QEMU plugin: guest memory is recorded as deltas      *)
(* against a shadow copy, chunk by chunk, under a byte budget, while other *)
(* vCPUs may go on storing to memory.  The SNAPMARK is written first as a  *)
(* placeholder and patched in place when the snapshot is over, so a killed *)
(* QEMU can leave a placeholder behind.  The reader of the file is         *)
(* TraceReader; what is checked here is that the two ends agree.           *)
(***************************************************************************)
EXTENDS TraceReader, FiniteSets

CONSTANTS
  PageCount,    \* number of pages: ram_size / page_size
  Zero,         \* the all-zero page
  BodyLen,      \* stored bytes of each content: min(compressed, page size)
  ChunkPages,   \* pages per qemu_plugin_read_memory_hwaddr call
  MaxRamBytes,  \* the plugin argument maxram
  Smp,          \* several vCPUs: the others run while one takes a snapshot
  ReadsMayFail, \* qemu_plugin_read_memory_hwaddr may return an error
  MayBeKilled,  \* QEMU may be killed (SIGKILL, host crash)
  MaxSnaps      \* model bound: snapshots per behaviour

ASSUME SnapshotAssumption ==
  /\ PageCount \in Nat \ {0}
  /\ Page = 0..(PageCount - 1)
  /\ Zero \in Content
  /\ Unseen \notin Content
  /\ BodyLen \in [Content -> Nat \ {0}]
  /\ ChunkPages \in Nat \ {0}
  /\ MaxRamBytes \in Nat
  /\ MaxSnaps \in Nat
  /\ {Smp, ReadsMayFail, MayBeKilled} \subseteq BOOLEAN

VARIABLES
  mem,        \* guest physical memory
  file,       \* the records written to nf.out, in file order
  synced,     \* how many of them are certainly on disk
  shadow,     \* nf.shadow_pages: Unseen stands for a NULL page pointer
  valid,      \* nf.shadow_valid
  live,       \* nf.shadow_pages itself is not NULL
  ramBytes,   \* nf.ram_bytes
  truncated,  \* nf.truncated
  nSnapshots, \* nf.n_snapshots
  phase,      \* where the thread inside nf_snapshot is
  next,       \* page index the loop has reached
  limit,      \* end of the current chunk
  buf,        \* nf_pagebuf: contents read for the current chunk
  changed,    \* pages written by this snapshot
  readFail,   \* pages of this snapshot that could not be read
  truth       \* history: for each snapshot, memory when it began, the pages
              \* stored to while it was taken, and whether it has ended

nfVars   == <<file, synced, shadow, valid, live, ramBytes, truncated, nSnapshots>>
loopVars == <<phase, next, limit, buf, changed, readFail>>
vars     == <<mem, nfVars, loopVars, truth>>

NoBuf == [p \in {} |-> Unseen]

Init ==
  /\ mem = [p \in Page |-> Zero]
  /\ file = << >> /\ synced = 0
  /\ shadow = [p \in Page |-> Unseen] /\ valid = [p \in Page |-> FALSE]
  /\ live = TRUE /\ ramBytes = 0 /\ truncated = FALSE /\ nSnapshots = 0
  /\ phase = "guest" /\ next = 0 /\ limit = 0 /\ buf = NoBuf
  /\ changed = 0 /\ readFail = {}
  /\ truth = << >>

InSnapshot == phase \in {"chunk", "pages", "fallback"}

\* The latest history entry, with the pages of S recorded as stored to.
Touch(S) ==
  IF InSnapshot THEN [truth EXCEPT ![Len(truth)].dirty = @ \cup S] ELSE truth

\* A guest store.  With one vCPU the guest stands still inside nf_snapshot.
Store(p, c) ==
  /\ phase # "dead"
  /\ InSnapshot => Smp
  /\ mem' = [mem EXCEPT ![p] = c]
  /\ truth' = Touch({p})
  /\ UNCHANGED <<nfVars, loopVars>>

\* Entry of nf_snapshot: the placeholder SNAPMARK carries no flags yet.
BeginSnapshot ==
  /\ phase = "guest" /\ live /\ nSnapshots < MaxSnaps
  /\ nSnapshots' = nSnapshots + 1
  /\ file' = Append(file, Mark(nSnapshots, 0, {}))
  /\ phase' = "chunk" /\ next' = 0 /\ limit' = 0
  /\ changed' = 0 /\ readFail' = {}
  /\ truth' = Append(truth, [mem |-> mem, dirty |-> {}, done |-> FALSE])
  /\ UNCHANGED <<mem, synced, shadow, valid, live, ramBytes, truncated, buf>>

\* A read of the pages S returns got.  A page another vCPU is storing to during
\* the copy may come back as any mixture, and have any content afterwards.
ReadMemory(S, got) ==
  \E racing \in IF Smp THEN SUBSET S ELSE {{}} :
    /\ \A p \in S \ racing : got[p] = mem[p]
    /\ \E after \in [racing -> Content] :
         mem' = [p \in Page |-> IF p \in racing THEN after[p] ELSE mem[p]]
    /\ truth' = Touch(racing)

\* One large read of up to ChunkPages pages; when it is refused, page by page.
ReadChunk ==
  /\ phase = "chunk" /\ next < PageCount /\ ~truncated
  /\ limit' = IF next + ChunkPages < PageCount THEN next + ChunkPages
                                               ELSE PageCount
  /\ \/ /\ phase' = "pages"
        /\ \E got \in [next..(limit' - 1) -> Content] :
             ReadMemory(next..(limit' - 1), got) /\ buf' = got
     \/ /\ ReadsMayFail
        /\ phase' = "fallback"
        /\ buf' = NoBuf
        /\ UNCHANGED <<mem, truth>>
  /\ UNCHANGED <<nfVars, next, changed, readFail>>

SameAsShadow(p, c) ==
  \/ c = Zero /\ shadow[p] = Unseen
  \/ c # Zero /\ shadow[p] = c

\* nf_snapshot_page: skip an unchanged page, stop at the budget, else record.
SkipUnwrittenPage(p, c) ==
  /\ SameAsShadow(p, c)
  /\ UNCHANGED <<file, shadow, valid, ramBytes, truncated, changed>>

SkipPage(p, c) ==
  /\ valid[p] /\ SameAsShadow(p, c)
  /\ UNCHANGED <<file, shadow, valid, ramBytes, truncated, changed>>

HitBudgetSilently(p, c) ==
  /\ ~(valid[p] /\ SameAsShadow(p, c))
  /\ ramBytes + BodyLen[c] > MaxRamBytes
  /\ truncated' = TRUE
  /\ UNCHANGED <<file, shadow, valid, ramBytes, changed>>

HitBudget(p, c) ==
  /\ ~(valid[p] /\ SameAsShadow(p, c))
  /\ ramBytes + BodyLen[c] > MaxRamBytes
  /\ truncated' = TRUE
  /\ file' = Append(file, Warn("TRUNCATED"))
  /\ UNCHANGED <<shadow, valid, ramBytes, changed>>

\* A mutant of RecordPage: a zero page leaves the old shadow.
RecordKeepsZeroShadow(p, c) ==
  /\ ~(valid[p] /\ SameAsShadow(p, c)) /\ ramBytes + BodyLen[c] <= MaxRamBytes
  /\ file' = Append(file, PageWrite(p, c))
  /\ shadow' = IF c = Zero THEN shadow ELSE [shadow EXCEPT ![p] = c]
  /\ valid' = [valid EXCEPT ![p] = TRUE]
  /\ ramBytes' = ramBytes + BodyLen[c] /\ changed' = changed + 1
  /\ UNCHANGED truncated

RecordPage(p, c) ==
  /\ ~(valid[p] /\ SameAsShadow(p, c))
  /\ ramBytes + BodyLen[c] <= MaxRamBytes
  /\ file' = Append(file, PageWrite(p, c))
  /\ shadow' = [shadow EXCEPT ![p] = IF c = Zero THEN Unseen ELSE c]
  /\ valid' = [valid EXCEPT ![p] = TRUE]
  /\ ramBytes' = ramBytes + BodyLen[c]
  /\ changed' = changed + 1
  /\ UNCHANGED truncated

SnapshotPage(p, c) == SkipPage(p, c) \/ HitBudget(p, c) \/ RecordPage(p, c)

\* A mutant of Advance that stays where it is.
AdvanceOnSpot(here) ==
  /\ next' = next
  /\ phase' = IF next + 1 = limit \/ truncated' THEN "chunk" ELSE here

\* The for loop moves on; the chunk is over at its limit or on truncation.
Advance(here) ==
  /\ next' = next + 1
  /\ phase' = IF next + 1 = limit \/ truncated' THEN "chunk" ELSE here

WritePage ==
  /\ phase = "pages"
  /\ SnapshotPage(next, buf[next])
  /\ Advance("pages")
  /\ UNCHANGED <<mem, synced, live, nSnapshots, limit, buf, readFail, truth>>

\* Wrong variant: a refused page is recorded from whatever the buffer holds.
FallbackTakesStaleBuffer ==
  /\ phase = "fallback"
  /\ \E c \in Content : SnapshotPage(next, c)
  /\ Advance("fallback")
  /\ UNCHANGED <<mem, truth, readFail, synced, live, nSnapshots, limit, buf>>

\* The large read was refused: read page by page and count what fails.
FallbackPage ==
  /\ phase = "fallback"
  /\ \/ /\ \E got \in [{next} -> Content] :
             ReadMemory({next}, got) /\ SnapshotPage(next, got[next])
        /\ UNCHANGED readFail
     \/ /\ readFail' = readFail \cup {next}
        /\ UNCHANGED <<mem, truth, file, shadow, valid, ramBytes, truncated,
                       changed>>
  /\ Advance("fallback")
  /\ UNCHANGED <<synced, live, nSnapshots, limit, buf>>

\* Position of the SNAPMARK being filled in: ftell before it was written.
MarkPos == CHOOSE i \in DOMAIN file : file[i].kind = "SNAPMARK"
                                      /\ file[i].seq = nSnapshots - 1

FlagsWithoutIncomplete == IF truncated THEN {"TRUNCATED"} ELSE {}

Flags == (IF truncated THEN {"TRUNCATED"} ELSE {})
         \cup (IF readFail # {} THEN {"INCOMPLETE"} ELSE {})

\* The tail of nf_snapshot: warn, seek back, patch the mark, seek to the end
\* (each fseek flushes stdio), release the shadow after truncation.
EndSnapshot ==
  /\ phase = "chunk" /\ (next >= PageCount \/ truncated)
  /\ LET warned == IF readFail = {} THEN file
                                    ELSE Append(file, Warn("INCOMPLETE"))
     IN file' = [warned EXCEPT ![MarkPos] = Mark(nSnapshots - 1, changed, Flags)]
  /\ synced' = Len(file')
  /\ phase' = "guest"
  /\ IF truncated
     THEN /\ live' = FALSE
          /\ shadow' = [p \in Page |-> Unseen]
          /\ valid' = [p \in Page |-> FALSE]
     ELSE UNCHANGED <<live, shadow, valid>>
  /\ truth' = [truth EXCEPT ![Len(truth)].done = TRUE]
  /\ UNCHANGED <<mem, ramBytes, truncated, nSnapshots, next, limit, buf,
                 changed, readFail>>

\* QEMU is killed: what stdio had not flushed yet may be lost from the end.
Killed ==
  /\ MayBeKilled /\ phase # "dead"
  /\ phase' = "dead"
  /\ \E n \in synced..Len(file) : file' = SubSeq(file, 1, n)
  /\ UNCHANGED <<mem, synced, shadow, valid, live, ramBytes, truncated,
                 nSnapshots, next, limit, buf, changed, readFail, truth>>

Next ==
  \/ \E p \in Page, c \in Content : Store(p, c)
  \/ BeginSnapshot \/ ReadChunk \/ WritePage \/ FallbackPage \/ EndSnapshot
  \/ Killed

Spec == Init /\ [][Next]_vars

\* The vCPU thread inside nf_snapshot keeps running and its loops are finite.
FairSpec == Spec /\ WF_vars(ReadChunk) /\ WF_vars(WritePage)
                 /\ WF_vars(FallbackPage) /\ WF_vars(EndSnapshot)

---------------------------------------------------------------------------
(* Properties.                                                              *)

Moment == [mem : [Page -> Content], dirty : SUBSET Page, done : BOOLEAN]

\* Every variable stays in its range: the loop never leaves the page array.
TypeOK ==
  /\ mem \in [Page -> Content]
  /\ file \in Seq(Rec) /\ synced \in 0..Len(file)
  /\ shadow \in [Page -> Content \cup {Unseen}]
  /\ valid \in [Page -> BOOLEAN]
  /\ live \in BOOLEAN /\ truncated \in BOOLEAN
  /\ ramBytes \in 0..MaxRamBytes
  /\ nSnapshots \in Nat
  /\ phase \in {"guest", "chunk", "pages", "fallback", "dead"}
  /\ next \in 0..PageCount /\ limit \in 0..PageCount
  /\ phase = "pages" => next < limit /\ buf \in [DOMAIN buf -> Content]
                        /\ next..(limit - 1) \subseteq DOMAIN buf
  /\ phase = "fallback" => next < limit
  /\ changed \in 0..next /\ readFail \subseteq Page
  /\ truth \in Seq(Moment)
  /\ Len(truth) = nSnapshots /\ (InSnapshot => nSnapshots > 0)

\* What the plugin believes the file says about a page: nothing until the page
\* has been written once, zeros for a NULL shadow page, else the shadow copy.
Believed(p) ==
  IF ~valid[p] THEN Unseen ELSE IF shadow[p] = Unseen THEN Zero ELSE shadow[p]

\* The delta encoding is only sound if the plugin's shadow copy is exactly the
\* memory image a reader of the file would have rebuilt at this very point,
\* whatever was skipped, unreadable or torn before (nf_snapshot_page).
ShadowIsReadersImage ==
  live /\ phase # "dead" => \A p \in Page : Believed(p) = LastWrite(file, p)

Differs(image, k) == {p \in Page \ truth[k].dirty : image[p] # truth[k].mem[p]}

\* A finished snapshot whose SNAPMARK carries no flag lets the reader rebuild
\* the guest memory of the instant it was taken, except for pages another vCPU
\* stored to meanwhile; it stays true if QEMU is killed afterwards.
UnflaggedSnapshotsAreExact ==
  LET snaps == Load(file).snapshots
      states == States(file)
  IN \A k \in DOMAIN truth :
       truth[k].done =>
         /\ k \in DOMAIN snaps /\ snaps[k].seq = k - 1
         /\ snaps[k].flags = {} => Differs(states[k].image, k) = {}

\* Even a truncated, incomplete or cut-off snapshot contains no wrong page: what
\* it lists as changed is the memory of its instant (a stale nf_pagebuf is not).
RecordedPagesAreGenuine ==
  LET snaps == Load(file).snapshots
  IN \A k \in DOMAIN snaps : \A p \in DOMAIN snaps[k].pages \ truth[k].dirty :
       snaps[k].pages[p] = truth[k].mem[p]

\* Data loss is always visible: a finished snapshot is flagged exactly when the
\* file carries the WARN record that explains it, and truncation ends the
\* series (event-stream.md, constraint 5).
LossIsReported ==
  LET tr == Load(file)
  IN \A k \in DOMAIN truth : truth[k].done =>
       /\ \A f \in tr.snapshots[k].flags : \E i \in DOMAIN tr.warnings :
            tr.warnings[i] = f
       /\ "TRUNCATED" \in tr.snapshots[k].flags => k = Len(truth)

\* A state that rebuild_states marks complete never shows, for a page it claims
\* to have seen, anything but the memory of its instant (event-stream.md 2.5
\* says so of every snapshot).
CompleteStatesAreExact ==
  ~InSnapshot =>
    LET states == States(file)
    IN \A k \in DOMAIN states : states[k].complete =>
         \A p \in Differs(states[k].image, k) : states[k].image[p] = Unseen

\* A snapshot that has begun ends: the vCPU gets back to guest code.
SnapshotEnds == InSnapshot ~> ~InSnapshot

\* The images of the finished, unflagged snapshots, in file order.
ObservedHistory ==
  LET marks == {i \in DOMAIN file : file[i].kind = "SNAPMARK"}
      end(i) == CHOOSE e \in i..Len(file) :
                  /\ ((i + 1)..e) \cap marks = {}
                  /\ e = Len(file) \/ e + 1 \in marks
      good == {i \in marks : file[i].flags = {} /\ truth[file[i].seq + 1].done}
      nth(n) == CHOOSE i \in good : Cardinality({j \in good : j <= i}) = n
  IN [n \in 1..Cardinality(good) |-> ImageUpTo(file, end(nth(n)))]

\* On one vCPU the recording implements the abstract history of observations:
\* every image the reader accepts was guest memory when it was appended.
History == INSTANCE RamHistory WITH history <- ObservedHistory
ImplementsHistory == History!Spec
=============================================================================
