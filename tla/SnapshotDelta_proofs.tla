----------------------- MODULE SnapshotDelta_proofs -----------------------
(***************************************************************************)
(* Theorems about SnapshotDelta, for every value of its constants.         *)
(***************************************************************************)
EXTENDS SnapshotDelta, Counting, TLAPS, SequenceTheorems

\* Replacing an element of a sequence, or missing its domain, keeps its type.
LEMMA ReplaceInSeq ==
  ASSUME NEW S, NEW s \in Seq(S), NEW e \in S, NEW i
  PROVE  /\ [s EXCEPT ![i] = e] \in Seq(S)
         /\ Len([s EXCEPT ![i] = e]) = Len(s)
<1>1. CASE i \in 1..Len(s)
  BY <1>1, ExceptSeq
<1>2. CASE i \notin 1..Len(s)
  <2>1. DOMAIN s = 1..Len(s)
    BY LenProperties
  <2>2. [s EXCEPT ![i] = e] = s
    BY <1>2, <2>1, LenProperties
  <2>. QED BY <2>2
<1>. QED BY <1>1, <1>2

\* The records the plugin writes are records the reader knows.
LEMMA WrittenRecords ==
  /\ \A seq, changes \in Nat, flags \in SUBSET SnapFlag : Mark(seq, changes, flags) \in Rec
  /\ \A p \in Page, c \in Content : PageWrite(p, c) \in Rec
  /\ \A flag \in SnapFlag : Warn(flag) \in Rec
  BY DEF Rec, MarkRec, PageRec, WarnRec, Mark, PageWrite, Warn

\* Recording a store in the history keeps its shape.
LEMMA TouchType ==
  ASSUME truth \in Seq(Moment), NEW S \in SUBSET Page
  PROVE  Touch(S) \in Seq(Moment) /\ Len(Touch(S)) = Len(truth)
<1>1. CASE InSnapshot /\ Len(truth) # 0
  <2>1. Len(truth) \in 1..Len(truth) /\ truth[Len(truth)] \in Moment
    BY <1>1, LenProperties, ElementOfSeq
  <2>2. [truth[Len(truth)] EXCEPT !.dirty = @ \cup S] \in Moment
    BY <2>1 DEF Moment
  <2>3. Touch(S) = [truth EXCEPT ![Len(truth)] =
                      [truth[Len(truth)] EXCEPT !.dirty = @ \cup S]]
    BY <1>1 DEF Touch
  <2>. QED BY <2>2, <2>3, ReplaceInSeq
<1>2. CASE ~InSnapshot
  BY <1>2 DEF Touch
<1>3. CASE InSnapshot /\ Len(truth) = 0
  <2>1. Touch(S) = [truth EXCEPT ![0] = [truth[0] EXCEPT !.dirty = @ \cup S]]
    BY <1>3 DEF Touch
  <2>2. 0 \notin DOMAIN truth
    BY LenProperties
  <2>3. Touch(S) = truth
    BY <2>1, <2>2, LenProperties
  <2>. QED BY <2>3
<1>. QED BY <1>1, <1>2, <1>3, LenProperties

\* A read leaves memory and history well formed.
LEMMA ReadMemoryType ==
  ASSUME TypeOK, NEW S \in SUBSET Page, NEW got \in [S -> Content],
         ReadMemory(S, got)
  PROVE  /\ mem' \in [Page -> Content]
         /\ truth' \in Seq(Moment) /\ Len(truth') = Len(truth)
<1>1. PICK racing \in SUBSET Page :
         /\ \E after \in [racing -> Content] :
              mem' = [p \in Page |-> IF p \in racing THEN after[p] ELSE mem[p]]
         /\ truth' = Touch(racing)
  BY DEF ReadMemory
<1>2. truth \in Seq(Moment) /\ mem \in [Page -> Content]
  BY DEF TypeOK
<1>. QED BY <1>1, <1>2, TouchType

\* nf_snapshot_page keeps the types of what it changes.
LEMMA SnapshotPageType ==
  ASSUME TypeOK, SnapshotAssumption, NEW p \in Page, NEW c \in Content, SnapshotPage(p, c)
  PROVE  /\ file' \in Seq(Rec) /\ Len(file') >= Len(file)
         /\ shadow' \in [Page -> Content \cup {Unseen}]
         /\ valid' \in [Page -> BOOLEAN]
         /\ ramBytes' \in 0..MaxRamBytes
         /\ truncated' \in BOOLEAN
         /\ changed' \in 0..(changed + 1)
<1>. USE DEF TypeOK
<1>0. changed \in Nat /\ PageCount \in Nat
  BY DEF SnapshotAssumption
<1>1. CASE SkipPage(p, c)
  BY <1>0, <1>1 DEF SkipPage
<1>2. CASE HitBudget(p, c)
  <2>1. Warn("TRUNCATED") \in Rec
    BY WrittenRecords DEF SnapFlag
  <2>. QED BY SMTT(40), <1>0, <1>2, <2>1 DEF HitBudget
<1>3. CASE RecordPage(p, c)
  <2>1. PageWrite(p, c) \in Rec
    BY WrittenRecords
  <2>2. BodyLen[c] \in Nat /\ MaxRamBytes \in Nat
    BY DEF SnapshotAssumption
  <2>5. /\ ramBytes + BodyLen[c] <= MaxRamBytes /\ changed' = changed + 1
        /\ ramBytes' = ramBytes + BodyLen[c] /\ ramBytes \in 0..MaxRamBytes
    BY <1>3 DEF RecordPage
  <2>3. ramBytes' \in 0..MaxRamBytes /\ changed' \in 0..(changed + 1)
    BY SMTT(40), <1>0, <2>2, <2>5
  <2>4. file' \in Seq(Rec) /\ Len(file') >= Len(file)
    BY <1>3, <2>1 DEF RecordPage
  <2>6. /\ shadow' \in [Page -> Content \cup {Unseen}]
        /\ valid' \in [Page -> BOOLEAN] /\ truncated' \in BOOLEAN
    BY <1>3 DEF RecordPage
  <2>. QED BY <2>3, <2>4, <2>6
<1>. QED BY <1>1, <1>2, <1>3 DEF SnapshotPage

\* The patched SNAPMARK is a record: a snapshot that ends has begun.
LEMMA EndMark ==
  ASSUME TypeOK, EndSnapshot
  PROVE  Mark(nSnapshots - 1, changed, Flags) \in Rec
<1>1. nSnapshots - 1 \in Nat /\ changed \in Nat
  <2>1. nSnapshots > 0 /\ nSnapshots \in Nat
    BY DEF EndSnapshot, TypeOK, InSnapshot
  <2>2. PageCount \in Nat /\ next \in 0..PageCount /\ changed \in 0..next
    BY SnapshotAssumption DEF TypeOK, SnapshotAssumption
  <2>. QED BY <2>1, <2>2
<1>2. Flags \in SUBSET SnapFlag
  BY DEF Flags, SnapFlag
<1>. QED BY <1>1, <1>2, WrittenRecords

\* Patching the mark, after a possible warning, leaves a well-formed file.
LEMMA PatchedFile ==
  ASSUME TypeOK, EndSnapshot, Mark(nSnapshots - 1, changed, Flags) \in Rec
  PROVE  file' \in Seq(Rec) /\ Len(file') \in Nat
<1>1. Warn("INCOMPLETE") \in Rec
  BY WrittenRecords DEF SnapFlag
<1>. DEFINE warned == IF readFail = {} THEN file ELSE Append(file, Warn("INCOMPLETE"))
<1>2. warned \in Seq(Rec)
  BY <1>1 DEF TypeOK
<1>3. file' = [warned EXCEPT ![MarkPos] = Mark(nSnapshots - 1, changed, Flags)]
  BY DEF EndSnapshot
<1>. HIDE DEF warned
<1>. QED BY <1>2, <1>3, ReplaceInSeq, LenProperties

\* Closing the history entry leaves a well-formed history.
LEMMA EndTruth ==
  ASSUME truth \in Seq(Moment), EndSnapshot
  PROVE  truth' \in Seq(Moment) /\ Len(truth') = Len(truth)
<1>1. CASE Len(truth) # 0
  <2>1. truth[Len(truth)] \in Moment
    BY <1>1, LenProperties, ElementOfSeq
  <2>2. [truth[Len(truth)] EXCEPT !.done = TRUE] \in Moment
    BY <2>1 DEF Moment
  <2>3. truth' = [truth EXCEPT ![Len(truth)] =
                    [truth[Len(truth)] EXCEPT !.done = TRUE]]
    BY DEF EndSnapshot
  <2>. QED BY <2>2, <2>3, ReplaceInSeq
<1>2. CASE Len(truth) = 0
  <2>1. truth' = [truth EXCEPT ![0] = [truth[0] EXCEPT !.done = TRUE]]
    BY <1>2 DEF EndSnapshot
  <2>2. 0 \notin DOMAIN truth
    BY <1>2, LenProperties
  <2>3. truth' = truth
    BY <2>1, <2>2, LenProperties
  <2>. QED BY <2>3
<1>. QED BY <1>1, <1>2, LenProperties

---------------------------------------------------------------------------
(* Type correctness.                                                        *)

\* The state after initialisation is well typed.
LEMMA InitType == Init => TypeOK
<1>1. MaxRamBytes \in Nat /\ PageCount \in Nat \ {0} /\ Zero \in Content
  BY SnapshotAssumption DEF SnapshotAssumption
<1>2. << >> \in Seq(Rec) /\ << >> \in Seq(Moment) /\ Len(<< >>) = 0
  BY EmptySeq
<1>3. ASSUME Init PROVE TypeOK
  <2>1. /\ mem \in [Page -> Content] /\ shadow \in [Page -> Content \cup {Unseen}]
        /\ valid \in [Page -> BOOLEAN]
    BY <1>1, <1>3 DEF Init
  <2>2. /\ file \in Seq(Rec) /\ truth \in Seq(Moment)
        /\ Len(truth) = nSnapshots /\ synced \in 0..Len(file)
    BY <1>2, <1>3 DEF Init
  <2>3. /\ phase = "guest" /\ nSnapshots \in Nat /\ ramBytes \in 0..MaxRamBytes
        /\ next \in 0..PageCount /\ limit \in 0..PageCount
        /\ changed \in 0..next /\ readFail \subseteq Page
    BY <1>1, <1>3 DEF Init
  <2>4. live \in BOOLEAN /\ truncated \in BOOLEAN
    BY <1>3 DEF Init
  <2>5. phase \in {"guest", "chunk", "pages", "fallback", "dead"} /\ ~InSnapshot
        /\ phase # "pages" /\ phase # "fallback"
    BY <2>3 DEF InSnapshot
  <2>. QED BY <2>1, <2>2, <2>3, <2>4, <2>5 DEF TypeOK
<1>. QED BY <1>3

\* Every step of the plugin, the guest or the host keeps the types.
LEMMA NextType == TypeOK /\ [Next]_vars => TypeOK'
<1>. SUFFICES ASSUME TypeOK, [Next]_vars PROVE TypeOK'
  OBVIOUS
<1>a. SnapshotAssumption
  BY SnapshotAssumption
<1>b. /\ PageCount \in Nat \ {0} /\ ChunkPages \in Nat \ {0}
      /\ Page = 0..(PageCount - 1)
  BY <1>a DEF SnapshotAssumption
<1>c. truth \in Seq(Moment) /\ file \in Seq(Rec) /\ Len(file) \in Nat
  BY DEF TypeOK
<1>1. ASSUME NEW p \in Page, NEW c \in Content, Store(p, c) PROVE TypeOK'
  <2>1. truth' \in Seq(Moment) /\ Len(truth') = Len(truth)
    BY <1>1, <1>c, TouchType DEF Store
  <2>2. mem' \in [Page -> Content]
    BY <1>1 DEF Store, TypeOK
  <2>. QED BY <1>1, <2>1, <2>2 DEF Store, TypeOK, InSnapshot, nfVars, loopVars
<1>2. CASE BeginSnapshot
  <2>1. Mark(nSnapshots, 0, {}) \in Rec
    BY WrittenRecords DEF TypeOK
  <2>2. file' \in Seq(Rec) /\ Len(file') = Len(file) + 1
    BY <1>2, <2>1, <1>c DEF BeginSnapshot
  <2>3. [mem |-> mem, dirty |-> {}, done |-> FALSE] \in Moment
    BY DEF Moment, TypeOK
  <2>4. truth' \in Seq(Moment) /\ Len(truth') = Len(truth) + 1
    BY <1>2, <2>3, <1>c DEF BeginSnapshot
  <2>. QED BY <1>2, <2>2, <2>4, <1>b, <1>c DEF BeginSnapshot, TypeOK, InSnapshot
<1>3. CASE ReadChunk
  <2>1. /\ limit' \in 1..PageCount /\ next < limit' /\ next' = next
        /\ next..(limit' - 1) \subseteq Page
    BY <1>3, <1>b DEF ReadChunk, TypeOK
  <2>2. CASE phase' = "pages"
    <3>1. PICK got \in [next..(limit' - 1) -> Content] :
             ReadMemory(next..(limit' - 1), got) /\ buf' = got
      BY <1>3, <2>2 DEF ReadChunk
    <3>2. /\ mem' \in [Page -> Content]
          /\ truth' \in Seq(Moment) /\ Len(truth') = Len(truth)
      BY <2>1, <3>1, ReadMemoryType
    <3>3. buf' \in [DOMAIN buf' -> Content] /\ next..(limit' - 1) \subseteq DOMAIN buf'
      BY <3>1
    <3>. QED BY <1>3, <2>1, <2>2, <3>2, <3>3 DEF ReadChunk, TypeOK, InSnapshot, nfVars
  <2>3. CASE phase' = "fallback" /\ UNCHANGED <<mem, truth>>
    BY <1>3, <2>1, <2>3 DEF ReadChunk, TypeOK, InSnapshot, nfVars
  <2>. QED BY <1>3, <2>2, <2>3 DEF ReadChunk
<1>4. CASE WritePage
  <2>1. /\ next \in Page /\ buf[next] \in Content /\ next < limit
        /\ next' = next + 1 /\ next' \in 0..PageCount
    BY <1>4, <1>b DEF WritePage, Advance, TypeOK
  <2>2. /\ file' \in Seq(Rec) /\ Len(file') >= Len(file)
        /\ shadow' \in [Page -> Content \cup {Unseen}]
        /\ valid' \in [Page -> BOOLEAN] /\ ramBytes' \in 0..MaxRamBytes
        /\ truncated' \in BOOLEAN /\ changed' \in 0..(changed + 1)
    BY <1>4, <1>a, <2>1, SnapshotPageType DEF WritePage
  <2>3. phase' = "chunk" \/ (phase' = "pages" /\ next' < limit)
    BY <1>4, <1>b, <2>1 DEF WritePage, Advance, TypeOK
  <2>4. changed' \in 0..next' /\ synced' \in 0..Len(file')
    BY <1>4, <1>b, <2>1, <2>2 DEF WritePage, TypeOK
  <2>. QED BY <1>4, <2>1, <2>2, <2>3, <2>4 DEF WritePage, TypeOK, InSnapshot
<1>5. CASE FallbackPage
  <2>1. next \in Page /\ next < limit /\ next' = next + 1 /\ next' \in 0..PageCount
    BY <1>5, <1>b DEF FallbackPage, Advance, TypeOK
  <2>2. phase' = "chunk" \/ (phase' = "fallback" /\ next' < limit)
    BY <1>5, <1>b, <2>1 DEF FallbackPage, Advance, TypeOK
  <2>3. CASE \E got \in [{next} -> Content] :
               ReadMemory({next}, got) /\ SnapshotPage(next, got[next])
    <3>1. PICK got \in [{next} -> Content] :
             ReadMemory({next}, got) /\ SnapshotPage(next, got[next])
      BY <2>3
    <3>2. /\ mem' \in [Page -> Content]
          /\ truth' \in Seq(Moment) /\ Len(truth') = Len(truth)
      BY <2>1, <3>1, ReadMemoryType
    <3>3. got[next] \in Content
      OBVIOUS
    <3>4. /\ file' \in Seq(Rec) /\ Len(file') >= Len(file)
          /\ shadow' \in [Page -> Content \cup {Unseen}]
          /\ valid' \in [Page -> BOOLEAN] /\ ramBytes' \in 0..MaxRamBytes
          /\ truncated' \in BOOLEAN /\ changed' \in 0..(changed + 1)
      BY <1>a, <2>1, <3>1, <3>3, SnapshotPageType
    <3>5. changed' \in 0..next' /\ synced' \in 0..Len(file') /\ readFail' \subseteq Page
      BY SMTT(40), <1>5, <1>b, <2>1, <3>4 DEF FallbackPage, TypeOK
    <3>. QED BY <1>5, <2>1, <2>2, <3>2, <3>4, <3>5 DEF FallbackPage, TypeOK, InSnapshot
  <2>4. CASE /\ readFail' = readFail \cup {next}
             /\ UNCHANGED <<mem, truth, file, shadow, valid, ramBytes, truncated, changed>>
    <3>1. readFail' \subseteq Page /\ changed' \in 0..next'
      BY <1>b, <2>1, <2>4 DEF TypeOK
    <3>. QED BY <1>5, <2>1, <2>2, <2>4, <3>1 DEF FallbackPage, TypeOK, InSnapshot
  <2>. QED BY <1>5, <2>3, <2>4 DEF FallbackPage
<1>6. CASE EndSnapshot
  <2>1. Mark(nSnapshots - 1, changed, Flags) \in Rec
    BY <1>6, EndMark
  <2>2. file' \in Seq(Rec) /\ Len(file') \in Nat
    BY <1>6, <2>1, <1>c, PatchedFile
  <2>3. truth' \in Seq(Moment) /\ Len(truth') = Len(truth)
    BY <1>6, <1>c, EndTruth
  <2>4. /\ live' \in BOOLEAN /\ valid' \in [Page -> BOOLEAN]
        /\ shadow' \in [Page -> Content \cup {Unseen}]
    BY <1>6 DEF EndSnapshot, TypeOK
  <2>5. /\ UNCHANGED <<mem, ramBytes, truncated, nSnapshots, next, limit, buf,
                       changed, readFail>>
        /\ phase' = "guest" /\ synced' = Len(file')
    BY <1>6 DEF EndSnapshot
  <2>. QED BY <2>2, <2>3, <2>4, <2>5 DEF TypeOK, InSnapshot
<1>7. CASE Killed
  <2>1. PICK n \in synced..Len(file) : file' = SubSeq(file, 1, n)
    BY <1>7 DEF Killed
  <2>2. /\ n \in Int /\ \A i \in 1..n : file[i] \in Rec
    BY <1>c, ElementOfSeq DEF TypeOK
  <2>3. file' \in Seq(Rec) /\ Len(file') = n
    BY <2>1, <2>2, <1>c, SubSeqProperties DEF TypeOK
  <2>. QED BY <1>7, <2>1, <2>3 DEF Killed, TypeOK, InSnapshot
<1>8. CASE UNCHANGED vars
  BY <1>8 DEF vars, nfVars, loopVars, TypeOK, InSnapshot
<1>. QED
  BY <1>1, <1>2, <1>3, <1>4, <1>5, <1>6, <1>7, <1>8 DEF Next

\* The plugin's bookkeeping keeps its types in every behaviour.
THEOREM TypeCorrect == Spec => []TypeOK
  BY InitType, NextType, PTL DEF Spec

---------------------------------------------------------------------------
(* The shadow copy is the reader's image.                                   *)

\* Either nothing was written for the page, or one record is the last one.
HasLast(f, p) == WritesOf(f, p) = {} \/ \E i \in DOMAIN f : IsLastWrite(f, p, i)

\* The last record written for a page decides what the reader sees.
LEMMA LastWriteDecides ==
  ASSUME NEW f \in Seq(Rec), NEW p \in Page, NEW i \in DOMAIN f, IsLastWrite(f, p, i)
  PROVE  LastWrite(f, p) = f[i].content
<1>1. WritesOf(f, p) \subseteq 1..Len(f) /\ WritesOf(f, p) # {} /\ i \in WritesOf(f, p)
  BY LenProperties DEF WritesOf, IsLastWrite
<1>2. \A j \in WritesOf(f, p) : IsLastWrite(f, p, j) => j = i
  BY <1>1, LenProperties DEF IsLastWrite
<1>3. (CHOOSE j \in WritesOf(f, p) : IsLastWrite(f, p, j)) = i
  BY <1>1, <1>2
<1>. QED BY <1>1, <1>3 DEF LastWrite

\* Two files with the same writes of a page, carrying the same contents, show
\* the same page.
LEMMA SameWritesSamePage ==
  ASSUME NEW f \in Seq(Rec), NEW g \in Seq(Rec), NEW p \in Page, HasLast(f, p),
         WritesOf(g, p) = WritesOf(f, p),
         \A i \in WritesOf(f, p) : g[i] = f[i]
  PROVE  HasLast(g, p) /\ LastWrite(g, p) = LastWrite(f, p)
<1>1. CASE WritesOf(f, p) = {}
  BY <1>1 DEF HasLast, LastWrite
<1>2. CASE WritesOf(f, p) # {}
  <2>1. PICK i \in DOMAIN f : IsLastWrite(f, p, i)
    BY <1>2 DEF HasLast
  <2>2. i \in WritesOf(f, p) /\ i \in DOMAIN g /\ IsLastWrite(g, p, i)
    BY <2>1 DEF IsLastWrite, WritesOf
  <2>3. LastWrite(f, p) = f[i].content /\ LastWrite(g, p) = g[i].content
    BY <2>1, <2>2, LastWriteDecides
  <2>. QED BY <2>2, <2>3 DEF HasLast
<1>. QED BY <1>1, <1>2

\* Appending anything but a write of the page does not change what is seen of it.
LEMMA AppendOther ==
  ASSUME NEW f \in Seq(Rec), NEW p \in Page, HasLast(f, p), NEW r \in Rec,
         ~(r.kind = "RAMPAGE" /\ r.page = p)
  PROVE  HasLast(Append(f, r), p) /\ LastWrite(Append(f, r), p) = LastWrite(f, p)
<1>. DEFINE g == Append(f, r)
<1>1. g \in Seq(Rec) /\ Len(g) = Len(f) + 1 /\ Len(f) \in Nat
      /\ DOMAIN g = 1..Len(g) /\ DOMAIN f = 1..Len(f)
  BY LenProperties
<1>2. g[Len(f) + 1] = r /\ \A i \in 1..Len(f) : g[i] = f[i]
  OBVIOUS
<1>. HIDE DEF g
<1>3. WritesOf(g, p) = WritesOf(f, p)
  BY <1>1, <1>2 DEF WritesOf
<1>4. \A i \in WritesOf(f, p) : g[i] = f[i]
  BY <1>1, <1>2 DEF WritesOf
<1>5. HasLast(g, p) /\ LastWrite(g, p) = LastWrite(f, p)
  BY <1>1, <1>3, <1>4, SameWritesSamePage
<1>. QED BY <1>5 DEF g

\* After a write of the page, the reader sees what was written.
LEMMA AppendWrite ==
  ASSUME NEW f \in Seq(Rec), NEW p \in Page, NEW c \in Content
  PROVE  /\ HasLast(Append(f, PageWrite(p, c)), p)
         /\ LastWrite(Append(f, PageWrite(p, c)), p) = c
<1>. DEFINE g == Append(f, PageWrite(p, c))
            n == Len(f) + 1
<1>1. PageWrite(p, c) \in Rec
  BY WrittenRecords
<1>2. g \in Seq(Rec) /\ Len(g) = n /\ Len(f) \in Nat /\ DOMAIN g = 1..Len(g)
  BY <1>1, LenProperties
<1>3. g[n] = PageWrite(p, c)
  BY <1>1
<1>. HIDE DEF g
<1>4. IsLastWrite(g, p, n) /\ n \in DOMAIN g
  BY <1>2, <1>3 DEF IsLastWrite, WritesOf, PageWrite
<1>5. LastWrite(g, p) = c
  BY <1>2, <1>3, <1>4, LastWriteDecides DEF PageWrite
<1>. QED BY <1>4, <1>5 DEF HasLast, g

\* Patching a SNAPMARK does not change what is seen of any page.
LEMMA PatchMark ==
  ASSUME NEW f \in Seq(Rec), NEW p \in Page, HasLast(f, p),
         NEW m \in DOMAIN f, f[m].kind = "SNAPMARK",
         NEW r \in Rec, r.kind = "SNAPMARK"
  PROVE  HasLast([f EXCEPT ![m] = r], p)
         /\ LastWrite([f EXCEPT ![m] = r], p) = LastWrite(f, p)
<1>. DEFINE g == [f EXCEPT ![m] = r]
<1>1. g \in Seq(Rec) /\ DOMAIN g = DOMAIN f /\ m \in 1..Len(f)
  BY ReplaceInSeq, LenProperties
<1>2. g[m] = r /\ \A i \in DOMAIN f : i # m => g[i] = f[i]
  BY LenProperties
<1>. HIDE DEF g
<1>3. WritesOf(g, p) = WritesOf(f, p) /\ \A i \in WritesOf(f, p) : g[i] = f[i]
  BY <1>1, <1>2 DEF WritesOf
<1>4. HasLast(g, p) /\ LastWrite(g, p) = LastWrite(f, p)
  BY <1>1, <1>3, SameWritesSamePage
<1>. QED BY <1>4 DEF g

\* Everything already in the file stays where it is.
Extends(f, g) == \A i \in DOMAIN f : i \in DOMAIN g /\ g[i] = f[i]

\* While the plugin is inside nf_snapshot its SNAPMARK is in the file.
MarkWritten ==
  InSnapshot => \E i \in DOMAIN file : file[i].kind = "SNAPMARK"
                                       /\ file[i].seq = nSnapshots - 1

Agreement == \A p \in Page : Believed(p) = LastWrite(file, p)

\* The inductive strengthening of ShadowIsReadersImage.
ShadowInv ==
  /\ TypeOK
  /\ MarkWritten
  /\ phase # "dead" => \A p \in Page : HasLast(file, p)
  /\ ShadowIsReadersImage

\* nf_snapshot_page only appends, and keeps the shadow equal to the image.
LEMMA PageKeepsAgreement ==
  ASSUME TypeOK, SnapshotAssumption, NEW p \in Page, NEW c \in Content,
         SnapshotPage(p, c), \A q \in Page : HasLast(file, q)
  PROVE  /\ Extends(file, file')
         /\ \A q \in Page : HasLast(file', q)
         /\ Agreement => Agreement'
<1>0. /\ file \in Seq(Rec) /\ DOMAIN file = 1..Len(file) /\ Len(file) \in Nat
      /\ Unseen \notin Content
  BY LenProperties DEF TypeOK, SnapshotAssumption
<1>1. CASE SkipPage(p, c)
  BY <1>0, <1>1 DEF SkipPage, Extends, Agreement, Believed
<1>2. CASE HitBudget(p, c)
  <2>1. Warn("TRUNCATED") \in Rec /\ Warn("TRUNCATED").kind = "WARN"
    BY WrittenRecords DEF SnapFlag, Warn
  <2>2. \A q \in Page : HasLast(file', q) /\ LastWrite(file', q) = LastWrite(file, q)
    BY <1>0, <1>2, <2>1, AppendOther DEF HitBudget
  <2>3. Extends(file, file')
    BY <1>0, <1>2 DEF HitBudget, Extends
  <2>. QED BY <1>2, <2>2, <2>3 DEF HitBudget, Agreement, Believed
<1>3. CASE RecordPage(p, c)
  <2>1. /\ PageWrite(p, c) \in Rec
        /\ PageWrite(p, c).kind = "RAMPAGE" /\ PageWrite(p, c).page = p
    BY WrittenRecords DEF PageWrite
  <2>2. file' = Append(file, PageWrite(p, c))
    BY <1>3 DEF RecordPage
  <2>3. HasLast(file', p) /\ LastWrite(file', p) = c
    BY <1>0, <2>2, AppendWrite
  <2>4. ASSUME NEW q \in Page, q # p
        PROVE  HasLast(file', q) /\ LastWrite(file', q) = LastWrite(file, q)
    BY <1>0, <2>1, <2>2, <2>4, AppendOther
  <2>5. Extends(file, file')
    BY <1>0, <2>2 DEF Extends
  <2>6. Believed(p)' = c
    BY <1>0, <1>3 DEF RecordPage, Believed, TypeOK
  <2>7. ASSUME NEW q \in Page, q # p PROVE Believed(q)' = Believed(q)
    BY <1>3, <2>7 DEF RecordPage, Believed, TypeOK
  <2>. QED BY <2>3, <2>4, <2>5, <2>6, <2>7 DEF Agreement
<1>. QED BY <1>1, <1>2, <1>3 DEF SnapshotPage

\* A mark already written survives an extension of the file.
LEMMA MarkSurvives ==
  ASSUME MarkWritten, InSnapshot, Extends(file, file'), UNCHANGED nSnapshots
  PROVE  MarkWritten'
  BY DEF MarkWritten, Extends

\* Patching the SNAPMARK at the end of a snapshot keeps every page's image.
LEMMA PatchKeepsPages ==
  ASSUME TypeOK, SnapshotAssumption, MarkWritten, EndSnapshot,
         \A q \in Page : HasLast(file, q)
  PROVE  \A q \in Page : HasLast(file', q) /\ LastWrite(file', q) = LastWrite(file, q)
<1>. DEFINE warned == IF readFail = {} THEN file ELSE Append(file, Warn("INCOMPLETE"))
            r == Mark(nSnapshots - 1, changed, Flags)
<1>1. /\ file \in Seq(Rec) /\ DOMAIN file = 1..Len(file) /\ Len(file) \in Nat
  BY LenProperties DEF TypeOK
<1>2. Warn("INCOMPLETE") \in Rec /\ Warn("INCOMPLETE").kind = "WARN"
  BY WrittenRecords DEF SnapFlag, Warn
<1>3. /\ warned \in Seq(Rec)
      /\ \A q \in Page : HasLast(warned, q) /\ LastWrite(warned, q) = LastWrite(file, q)
  BY <1>1, <1>2, AppendOther
<1>4. r \in Rec /\ r.kind = "SNAPMARK"
  BY EndMark DEF Mark
<1>5. MarkPos \in DOMAIN file /\ file[MarkPos].kind = "SNAPMARK"
  BY DEF MarkWritten, MarkPos, EndSnapshot, InSnapshot
<1>6. MarkPos \in DOMAIN warned /\ warned[MarkPos].kind = "SNAPMARK"
  BY <1>1, <1>2, <1>5
<1>7. file' = [warned EXCEPT ![MarkPos] = r]
  BY DEF EndSnapshot
<1>. HIDE DEF warned, r
<1>8. ASSUME NEW q \in Page
      PROVE  HasLast(file', q) /\ LastWrite(file', q) = LastWrite(file, q)
  <2>1. HasLast(warned, q) /\ LastWrite(warned, q) = LastWrite(file, q)
    BY <1>3
  <2>2. /\ HasLast([warned EXCEPT ![MarkPos] = r], q)
        /\ LastWrite([warned EXCEPT ![MarkPos] = r], q) = LastWrite(warned, q)
    BY <1>3, <1>4, <1>6, <2>1, PatchMark
  <2>. QED BY <1>7, <2>1, <2>2
<1>. QED BY <1>8

\* The shadow invariant holds initially.
LEMMA InitShadow == Init => ShadowInv
<1>. SUFFICES ASSUME Init PROVE ShadowInv
  OBVIOUS
<1>1. TypeOK /\ ~InSnapshot
  BY InitType DEF Init, InSnapshot
<1>2. \A p \in Page : WritesOf(file, p) = {}
  BY DEF Init, WritesOf
<1>3. \A p \in Page : Believed(p) = Unseen
  BY DEF Init, Believed
<1>. QED BY <1>1, <1>2, <1>3 DEF ShadowInv, MarkWritten, HasLast, ShadowIsReadersImage, LastWrite

\* Every step preserves the shadow invariant.
LEMMA NextShadow == ShadowInv /\ [Next]_vars => ShadowInv'
<1>. SUFFICES ASSUME ShadowInv, [Next]_vars PROVE ShadowInv'
  OBVIOUS
<1>a. SnapshotAssumption /\ TypeOK /\ TypeOK' /\ MarkWritten
  BY SnapshotAssumption, NextType DEF ShadowInv
<1>b. phase # "dead" => \A p \in Page : HasLast(file, p)
  BY DEF ShadowInv
<1>c. live /\ phase # "dead" => Agreement
  BY DEF ShadowInv, ShadowIsReadersImage, Agreement
<1>d. ASSUME UNCHANGED <<file, shadow, valid, live, nSnapshots>>,
             phase' # "dead" => phase # "dead", InSnapshot' => InSnapshot
      PROVE  ShadowInv'
  BY <1>a, <1>b, <1>c, <1>d
     DEF ShadowInv, MarkWritten, ShadowIsReadersImage, Agreement, Believed
<1>1. ASSUME NEW p \in Page, NEW c \in Content, Store(p, c) PROVE ShadowInv'
  BY <1>1, <1>d DEF Store, nfVars, loopVars, InSnapshot
<1>2. CASE BeginSnapshot
  <2>1. Mark(nSnapshots, 0, {}) \in Rec /\ Mark(nSnapshots, 0, {}).kind = "SNAPMARK"
        /\ Mark(nSnapshots, 0, {}).seq = nSnapshots
    BY <1>a, WrittenRecords DEF TypeOK, Mark
  <2>2. file \in Seq(Rec) /\ Len(file) \in Nat /\ nSnapshots \in Nat
    BY <1>a, LenProperties DEF TypeOK
  <2>3. \A p \in Page : HasLast(file', p) /\ LastWrite(file', p) = LastWrite(file, p)
    BY <1>2, <1>b, <2>1, <2>2, AppendOther DEF BeginSnapshot
  <2>4. MarkWritten'
    <3>1. Len(file) + 1 \in DOMAIN file' /\ file'[Len(file) + 1] = Mark(nSnapshots, 0, {})
      BY <1>2, <2>1, <2>2 DEF BeginSnapshot
    <3>2. nSnapshots' - 1 = nSnapshots
      BY <1>2, <2>2 DEF BeginSnapshot
    <3>. QED BY <2>1, <3>1, <3>2 DEF MarkWritten
  <2>. QED
    BY <1>2, <1>a, <1>c, <2>3, <2>4
       DEF BeginSnapshot, ShadowInv, ShadowIsReadersImage, Agreement, Believed
<1>3. CASE ReadChunk
  BY <1>3, <1>d DEF ReadChunk, nfVars, InSnapshot
<1>4. ASSUME NEW p \in Page, NEW c \in Content, SnapshotPage(p, c),
             InSnapshot, UNCHANGED <<live, nSnapshots>>
      PROVE  ShadowInv'
  <2>1. phase # "dead"
    BY <1>4 DEF InSnapshot
  <2>2. /\ Extends(file, file') /\ \A q \in Page : HasLast(file', q)
        /\ Agreement => Agreement'
    BY <1>4, <1>a, <1>b, <2>1, PageKeepsAgreement
  <2>3. MarkWritten'
    BY <1>4, <1>a, <2>2, MarkSurvives
  <2>. QED BY <1>4, <1>a, <1>c, <2>1, <2>2, <2>3
           DEF ShadowInv, ShadowIsReadersImage, Agreement
<1>5. CASE WritePage
  <2>1. next \in Page /\ buf[next] \in Content
    BY SMTT(40), <1>5, <1>a DEF WritePage, TypeOK, SnapshotAssumption
  <2>. QED BY <1>5, <1>4, <2>1 DEF WritePage, InSnapshot
<1>6. CASE FallbackPage
  <2>1. next \in Page /\ InSnapshot
    BY SMTT(40), <1>6, <1>a DEF FallbackPage, TypeOK, SnapshotAssumption, InSnapshot
  <2>2. CASE \E got \in [{next} -> Content] : SnapshotPage(next, got[next])
    BY <1>6, <1>4, <2>1, <2>2 DEF FallbackPage
  <2>3. CASE UNCHANGED <<file, shadow, valid>>
    BY <1>6, <1>d, <2>1, <2>3 DEF FallbackPage, Advance, InSnapshot
  <2>. QED BY <1>6, <2>2, <2>3 DEF FallbackPage
<1>7. CASE EndSnapshot
  <2>1. phase # "dead" /\ ~InSnapshot'
    BY <1>7 DEF EndSnapshot, InSnapshot
  <2>2. \A q \in Page : HasLast(file', q) /\ LastWrite(file', q) = LastWrite(file, q)
    BY <1>7, <1>a, <1>b, <2>1, PatchKeepsPages
  <2>3. live' => live /\ UNCHANGED <<shadow, valid>>
    <3>1. CASE truncated
      BY <1>7, <3>1 DEF EndSnapshot
    <3>2. CASE ~truncated
      BY <1>7, <3>2 DEF EndSnapshot
    <3>. QED BY <3>1, <3>2
  <2>4. ASSUME live' PROVE Agreement'
    <3>1. Agreement /\ \A q \in Page : Believed(q)' = Believed(q)
      BY <1>c, <2>1, <2>3, <2>4 DEF Believed
    <3>. QED BY <2>2, <3>1 DEF Agreement
  <2>5. MarkWritten'
    BY <2>1 DEF MarkWritten
  <2>. QED BY <1>a, <2>2, <2>4, <2>5 DEF ShadowInv, ShadowIsReadersImage, Agreement
<1>8. CASE Killed
  BY <1>8, <1>a DEF Killed, ShadowInv, MarkWritten, ShadowIsReadersImage, InSnapshot
<1>9. CASE UNCHANGED vars
  BY <1>9, <1>d DEF vars, nfVars, loopVars, InSnapshot
<1>. QED BY <1>1, <1>2, <1>3, <1>5, <1>6, <1>7, <1>8, <1>9 DEF Next

\* Whatever is skipped, unreadable, torn or truncated, the plugin's shadow copy
\* equals the image a reader rebuilds from the file, so a page left out of a
\* delta is a page the reader already shows correctly.
THEOREM ShadowAgrees == Spec => []ShadowIsReadersImage
<1>1. ShadowInv => ShadowIsReadersImage
  BY DEF ShadowInv
<1>. QED BY <1>1, InitShadow, NextShadow, PTL DEF Spec

---------------------------------------------------------------------------
(* Reading one more record is one more step of load and of rebuild_states. *)

\* How load runs through a sequence: the function of the sets of positions it
\* builds, from the greatest position down.
LoadStep(it, f, s) == IF s = {} THEN EmptyTrace ELSE LoadRecord(it[s \ {Max(s)}], f[Max(s)])
LoadIter(f) == CHOOSE it : it = [s \in SUBSET DOMAIN f |-> LoadStep(it, f, s)]

\* The community fold, unfolded.
LEMMA LoadIsIter == ASSUME NEW f PROVE Load(f) = LoadIter(f)[DOMAIN f]
  BY DEF Load, FoldLeft, MapThenFoldSet, LoadIter, LoadStep

\* The function exists: it is built up to any number of positions.
LEMMA LoadIterDef ==
  ASSUME NEW f, NEW S, S = DOMAIN f, Positions(S)
  PROVE  \A s \in SUBSET S : LoadIter(f)[s] = LoadStep(LoadIter(f), f, s)
<1> DEFINE Good == {n \in Nat : \E g : g = [s \in UpTo(S, n) |-> LoadStep(g, f, s)]}
<1>0. IsFiniteSet(S) /\ Cardinality(S) \in Nat
  BY FS_CardinalityType DEF Positions
<1>1. 0 \in Good
  <2> DEFINE g == [s \in UpTo(S, 0) |-> EmptyTrace]
  <2>1. \A s \in UpTo(S, 0) : s = {}
    <3>1. SUFFICES ASSUME NEW s \in UpTo(S, 0) PROVE s = {}
      OBVIOUS
    <3>2. IsFiniteSet(s) /\ Cardinality(s) <= 0
      BY <1>0, FS_Subset DEF UpTo
    <3> QED BY <3>2, FS_EmptySet, FS_CardinalityType
  <2>2. g = [s \in UpTo(S, 0) |-> LoadStep(g, f, s)]
    BY <2>1 DEF LoadStep
  <2> QED BY <2>2
<1>2. \A n \in Nat : n \in Good => n + 1 \in Good
  <2>1. SUFFICES ASSUME NEW n \in Nat, NEW g, g = [s \in UpTo(S, n) |-> LoadStep(g, f, s)]
                 PROVE  \E h : h = [s \in UpTo(S, n + 1) |-> LoadStep(h, f, s)]
    OBVIOUS
  <2> DEFINE h == [s \in UpTo(S, n + 1) |-> LoadStep(g, f, s)]
  <2>2. \A s \in UpTo(S, n) : s \in UpTo(S, n + 1)
    BY <1>0, FS_Subset, FS_CardinalityType DEF UpTo
  <2>3. \A s \in UpTo(S, n) : h[s] = g[s]
    BY <2>1, <2>2
  <2>4. ASSUME NEW s \in UpTo(S, n + 1), s # {} PROVE s \ {Max(s)} \in UpTo(S, n)
    <3>1. s \in SUBSET S /\ Cardinality(s) <= n + 1
      BY DEF UpTo
    <3>2. QED
      BY <2>4, <3>1, OneLess DEF UpTo
  <2>5. \A s \in UpTo(S, n + 1) : LoadStep(g, f, s) = LoadStep(h, f, s)
    BY <2>3, <2>4 DEF LoadStep
  <2>6. h = [s \in UpTo(S, n + 1) |-> LoadStep(h, f, s)]
    BY <2>5
  <2> QED BY <2>6
<1>3. Cardinality(S) \in Good
  BY <1>0, <1>1, <1>2, NatSetInduction
<1>4. UpTo(S, Cardinality(S)) = SUBSET S
  BY <1>0, FS_Subset DEF UpTo
<1>5. \E g : g = [s \in SUBSET S |-> LoadStep(g, f, s)]
  BY <1>3, <1>4
<1>6. LoadIter(f) = [s \in SUBSET S |-> LoadStep(LoadIter(f), f, s)]
  BY <1>5 DEF LoadIter
<1> HIDE DEF Good
<1> QED BY <1>6

\* What the fold gives for a set of positions depends on these positions only.
LEMMA LoadIterLocal ==
  ASSUME NEW f, NEW g, NEW S, NEW T, S = DOMAIN f, T = DOMAIN g, S \subseteq T,
         Positions(S), Positions(T), \A i \in S : f[i] = g[i]
  PROVE  LoadIter(f)[S] = LoadIter(g)[S]
<1> DEFINE Good == {n \in Nat : \A s \in SUBSET S :
                       Cardinality(s) = n => LoadIter(f)[s] = LoadIter(g)[s]}
<1>0. IsFiniteSet(S)
  BY DEF Positions
<1>1. 0 \in Good
  <2>1. SUFFICES ASSUME NEW s \in SUBSET S, Cardinality(s) = 0
                 PROVE  LoadIter(f)[s] = LoadIter(g)[s]
    OBVIOUS
  <2>2. s = {}
    BY <1>0, <2>1, FS_Subset, FS_EmptySet
  <2> QED BY <2>2, LoadIterDef DEF LoadStep
<1>2. \A n \in Nat : n \in Good => n + 1 \in Good
  <2>1. SUFFICES ASSUME NEW n \in Nat, n \in Good, NEW s \in SUBSET S, Cardinality(s) = n + 1
                 PROVE  LoadIter(f)[s] = LoadIter(g)[s]
    OBVIOUS
  <2>2. s # {}
    BY <2>1, FS_EmptySet
  <2>3. /\ Cardinality(s \ {Max(s)}) = n /\ s \ {Max(s)} \in SUBSET S
        /\ Max(s) \in S
    BY <2>1, <2>2, OneLess
  <2>4. LoadIter(f)[s \ {Max(s)}] = LoadIter(g)[s \ {Max(s)}]
    BY <2>1, <2>3
  <2>5. LoadIter(f)[s] = LoadStep(LoadIter(f), f, s) /\ LoadIter(g)[s] = LoadStep(LoadIter(g), g, s)
    <3>1. s \in SUBSET T
      OBVIOUS
    <3> HIDE DEF Good
    <3> QED BY <3>1, LoadIterDef
  <2> QED BY <2>2, <2>3, <2>4, <2>5 DEF LoadStep
<1>3. Cardinality(S) \in Good
  BY <1>0, <1>1, <1>2, NatSetInduction, FS_CardinalityType
<1> QED BY <1>3

\* One more element is one more step of the fold,
LEMMA LoadAppend ==
  ASSUME NEW S, NEW f \in Seq(S), NEW r \in S
  PROVE  Load(Append(f, r)) = LoadRecord(Load(f), r)
<1> DEFINE g == Append(f, r)
           n == Len(f)
<1>1. n \in Nat /\ DOMAIN f = 1 .. n /\ DOMAIN g = 1 .. (n + 1) /\ g[n + 1] = r
      /\ \A i \in 1 .. n : g[i] = f[i]
  OBVIOUS
<1>a. g = Append(f, r)
  OBVIOUS
<1> HIDE DEF g, n
<1>2. Load(f) = LoadIter(f)[1 .. n] /\ Load(Append(f, r)) = LoadIter(g)[1 .. (n + 1)]
  BY <1>1, <1>a, LoadIsIter
<1>3. Positions(1 .. n) /\ Positions(1 .. (n + 1)) /\ 1 .. n \subseteq 1 .. (n + 1)
      /\ Max(1 .. (n + 1)) = n + 1 /\ (1 .. (n + 1)) \ {n + 1} = 1 .. n
  <2>1. n + 1 \in Nat
    BY <1>1
  <2> QED BY <1>1, <2>1, RangePositions
<1>4. LoadIter(g)[1 .. (n + 1)] = LoadRecord(LoadIter(g)[1 .. n], r)
  <2>1. LoadIter(g)[1 .. (n + 1)] = LoadStep(LoadIter(g), g, 1 .. (n + 1))
    BY <1>1, <1>3, LoadIterDef
  <2>2. 1 .. (n + 1) # {}
    BY <1>1
  <2> QED BY <1>1, <1>3, <2>1, <2>2 DEF LoadStep
<1>5. LoadIter(f)[1 .. n] = LoadIter(g)[1 .. n]
  BY <1>1, <1>3, LoadIterLocal
<1> QED BY <1>2, <1>4, <1>5, <1>a

\* and the empty sequence is none.
LEMMA LoadEmpty == Load(<< >>) = EmptyTrace
<1> DEFINE f == << >>
<1>1. DOMAIN f = {} /\ f = << >>
  OBVIOUS
<1>2. Positions({})
  BY FS_EmptySet DEF Positions
<1> HIDE DEF f
<1>3. Load(f) = LoadIter(f)[{}]
  BY <1>1, LoadIsIter
<1>4. LoadIter(f)[{}] = LoadStep(LoadIter(f), f, {})
  BY <1>1, <1>2, LoadIterDef
<1> QED BY <1>3, <1>4 DEF LoadStep, f

\* How rebuild_states runs through a sequence: the function of the sets of positions it
\* builds, from the greatest position down.
StateStep(it, f, s) == IF s = {} THEN << >> ELSE AddState(it[s \ {Max(s)}], f[Max(s)])
StateIter(f) == CHOOSE it : it = [s \in SUBSET DOMAIN f |-> StateStep(it, f, s)]

\* The community fold, unfolded.
LEMMA StateIsIter == ASSUME NEW tr PROVE RebuildStates(tr) = StateIter(tr.snapshots)[DOMAIN tr.snapshots]
  BY DEF RebuildStates, FoldLeft, MapThenFoldSet, StateIter, StateStep

\* The function exists: it is built up to any number of positions.
LEMMA StateIterDef ==
  ASSUME NEW f, NEW S, S = DOMAIN f, Positions(S)
  PROVE  \A s \in SUBSET S : StateIter(f)[s] = StateStep(StateIter(f), f, s)
<1> DEFINE Good == {n \in Nat : \E g : g = [s \in UpTo(S, n) |-> StateStep(g, f, s)]}
<1>0. IsFiniteSet(S) /\ Cardinality(S) \in Nat
  BY FS_CardinalityType DEF Positions
<1>1. 0 \in Good
  <2> DEFINE g == [s \in UpTo(S, 0) |-> << >>]
  <2>1. \A s \in UpTo(S, 0) : s = {}
    <3>1. SUFFICES ASSUME NEW s \in UpTo(S, 0) PROVE s = {}
      OBVIOUS
    <3>2. IsFiniteSet(s) /\ Cardinality(s) <= 0
      BY <1>0, FS_Subset DEF UpTo
    <3> QED BY <3>2, FS_EmptySet, FS_CardinalityType
  <2>2. g = [s \in UpTo(S, 0) |-> StateStep(g, f, s)]
    BY <2>1 DEF StateStep
  <2> QED BY <2>2
<1>2. \A n \in Nat : n \in Good => n + 1 \in Good
  <2>1. SUFFICES ASSUME NEW n \in Nat, NEW g, g = [s \in UpTo(S, n) |-> StateStep(g, f, s)]
                 PROVE  \E h : h = [s \in UpTo(S, n + 1) |-> StateStep(h, f, s)]
    OBVIOUS
  <2> DEFINE h == [s \in UpTo(S, n + 1) |-> StateStep(g, f, s)]
  <2>2. \A s \in UpTo(S, n) : s \in UpTo(S, n + 1)
    BY <1>0, FS_Subset, FS_CardinalityType DEF UpTo
  <2>3. \A s \in UpTo(S, n) : h[s] = g[s]
    BY <2>1, <2>2
  <2>4. ASSUME NEW s \in UpTo(S, n + 1), s # {} PROVE s \ {Max(s)} \in UpTo(S, n)
    <3>1. s \in SUBSET S /\ Cardinality(s) <= n + 1
      BY DEF UpTo
    <3>2. QED
      BY <2>4, <3>1, OneLess DEF UpTo
  <2>5. \A s \in UpTo(S, n + 1) : StateStep(g, f, s) = StateStep(h, f, s)
    BY <2>3, <2>4 DEF StateStep
  <2>6. h = [s \in UpTo(S, n + 1) |-> StateStep(h, f, s)]
    BY <2>5
  <2> QED BY <2>6
<1>3. Cardinality(S) \in Good
  BY <1>0, <1>1, <1>2, NatSetInduction
<1>4. UpTo(S, Cardinality(S)) = SUBSET S
  BY <1>0, FS_Subset DEF UpTo
<1>5. \E g : g = [s \in SUBSET S |-> StateStep(g, f, s)]
  BY <1>3, <1>4
<1>6. StateIter(f) = [s \in SUBSET S |-> StateStep(StateIter(f), f, s)]
  BY <1>5 DEF StateIter
<1> HIDE DEF Good
<1> QED BY <1>6

\* What the fold gives for a set of positions depends on these positions only.
LEMMA StateIterLocal ==
  ASSUME NEW f, NEW g, NEW S, NEW T, S = DOMAIN f, T = DOMAIN g, S \subseteq T,
         Positions(S), Positions(T), \A i \in S : f[i] = g[i]
  PROVE  StateIter(f)[S] = StateIter(g)[S]
<1> DEFINE Good == {n \in Nat : \A s \in SUBSET S :
                       Cardinality(s) = n => StateIter(f)[s] = StateIter(g)[s]}
<1>0. IsFiniteSet(S)
  BY DEF Positions
<1>1. 0 \in Good
  <2>1. SUFFICES ASSUME NEW s \in SUBSET S, Cardinality(s) = 0
                 PROVE  StateIter(f)[s] = StateIter(g)[s]
    OBVIOUS
  <2>2. s = {}
    BY <1>0, <2>1, FS_Subset, FS_EmptySet
  <2> QED BY <2>2, StateIterDef DEF StateStep
<1>2. \A n \in Nat : n \in Good => n + 1 \in Good
  <2>1. SUFFICES ASSUME NEW n \in Nat, n \in Good, NEW s \in SUBSET S, Cardinality(s) = n + 1
                 PROVE  StateIter(f)[s] = StateIter(g)[s]
    OBVIOUS
  <2>2. s # {}
    BY <2>1, FS_EmptySet
  <2>3. /\ Cardinality(s \ {Max(s)}) = n /\ s \ {Max(s)} \in SUBSET S
        /\ Max(s) \in S
    BY <2>1, <2>2, OneLess
  <2>4. StateIter(f)[s \ {Max(s)}] = StateIter(g)[s \ {Max(s)}]
    BY <2>1, <2>3
  <2>5. StateIter(f)[s] = StateStep(StateIter(f), f, s) /\ StateIter(g)[s] = StateStep(StateIter(g), g, s)
    <3>1. s \in SUBSET T
      OBVIOUS
    <3> HIDE DEF Good
    <3> QED BY <3>1, StateIterDef
  <2> QED BY <2>2, <2>3, <2>4, <2>5 DEF StateStep
<1>3. Cardinality(S) \in Good
  BY <1>0, <1>1, <1>2, NatSetInduction, FS_CardinalityType
<1> QED BY <1>3

\* One more element is one more step of the fold,
LEMMA StateAppend ==
  ASSUME NEW S, NEW tr, NEW tr2, NEW r \in S, tr.snapshots \in Seq(S),
         tr2.snapshots = Append(tr.snapshots, r)
  PROVE  RebuildStates(tr2) = AddState(RebuildStates(tr), r)
<1> DEFINE f == tr.snapshots
           g == tr2.snapshots
           n == Len(f)
<1>1. n \in Nat /\ DOMAIN f = 1 .. n /\ DOMAIN g = 1 .. (n + 1) /\ g[n + 1] = r
      /\ \A i \in 1 .. n : g[i] = f[i]
  OBVIOUS
<1>a. f = tr.snapshots /\ g = tr2.snapshots
  OBVIOUS
<1> HIDE DEF f, g, n
<1>2. RebuildStates(tr) = StateIter(f)[1 .. n] /\ RebuildStates(tr2) = StateIter(g)[1 .. (n + 1)]
  BY <1>1, <1>a, StateIsIter
<1>3. Positions(1 .. n) /\ Positions(1 .. (n + 1)) /\ 1 .. n \subseteq 1 .. (n + 1)
      /\ Max(1 .. (n + 1)) = n + 1 /\ (1 .. (n + 1)) \ {n + 1} = 1 .. n
  <2>1. n + 1 \in Nat
    BY <1>1
  <2> QED BY <1>1, <2>1, RangePositions
<1>4. StateIter(g)[1 .. (n + 1)] = AddState(StateIter(g)[1 .. n], r)
  <2>1. StateIter(g)[1 .. (n + 1)] = StateStep(StateIter(g), g, 1 .. (n + 1))
    BY <1>1, <1>3, StateIterDef
  <2>2. 1 .. (n + 1) # {}
    BY <1>1
  <2> QED BY <1>1, <1>3, <2>1, <2>2 DEF StateStep
<1>5. StateIter(f)[1 .. n] = StateIter(g)[1 .. n]
  BY <1>1, <1>3, StateIterLocal
<1> QED BY <1>2, <1>4, <1>5, <1>a

\* and the empty sequence is none.
LEMMA StateEmpty == ASSUME NEW tr, tr.snapshots = << >> PROVE RebuildStates(tr) = << >>
<1> DEFINE f == tr.snapshots
<1>1. DOMAIN f = {} /\ f = tr.snapshots
  OBVIOUS
<1>2. Positions({})
  BY FS_EmptySet DEF Positions
<1> HIDE DEF f
<1>3. RebuildStates(tr) = StateIter(f)[{}]
  BY <1>1, StateIsIter
<1>4. StateIter(f)[{}] = StateStep(StateIter(f), f, {})
  BY <1>1, <1>2, StateIterDef
<1> QED BY <1>3, <1>4 DEF StateStep, f

---------------------------------------------------------------------------
(* What load does with each record.                                        *)

\* The shapes of what load and rebuild_states make.
PageMap  == UNION {[S -> Content] : S \in SUBSET Page}
SnapRec  == [seq : Nat, changed : Nat, flags : SUBSET SnapFlag, pages : PageMap]
Trace    == [snapshots : Seq(SnapRec), warnings : Seq(SnapFlag)]
Shown    == [Page -> Content \cup {Unseen}]
StateRec == [seq : Nat, flags : SUBSET SnapFlag, image : Shown, complete : BOOLEAN]

\* The empty record of changes: no page is in it.
LEMMA EmptyMap == << >> \in PageMap /\ DOMAIN << >> = {}
<1>1. << >> \in [{} -> Content] /\ DOMAIN << >> = {}
  OBVIOUS
<1> QED BY <1>1 DEF PageMap

\* Assigning one page: the map stays a map, has the page, and keeps the others.
LEMMA AssignTyped ==
  ASSUME NEW f \in PageMap, NEW p \in Page, NEW c \in Content
  PROVE  /\ Assign(f, p, c) \in PageMap /\ DOMAIN Assign(f, p, c) = DOMAIN f \cup {p}
         /\ Assign(f, p, c)[p] = c
         /\ \A q \in DOMAIN f : q # p => Assign(f, p, c)[q] = f[q]
<1>1. PICK S \in SUBSET Page : f \in [S -> Content]
  BY DEF PageMap
<1>2. Assign(f, p, c) \in [S \cup {p} -> Content]
  BY <1>1 DEF Assign
<1>3. S \cup {p} \in SUBSET Page
  OBVIOUS
<1>4. Assign(f, p, c) \in PageMap
  BY <1>2, <1>3 DEF PageMap
<1> QED BY <1>1, <1>4 DEF Assign

\* A SNAPMARK starts a snapshot without pages and changes nothing before it.
LEMMA LoadMark ==
  ASSUME NEW tr \in Trace, NEW r \in MarkRec
  PROVE  /\ LoadRecord(tr, r) \in Trace
         /\ LoadRecord(tr, r).warnings = tr.warnings
         /\ Len(LoadRecord(tr, r).snapshots) = Len(tr.snapshots) + 1
         /\ \A k \in 1 .. Len(tr.snapshots) : LoadRecord(tr, r).snapshots[k] = tr.snapshots[k]
         /\ LoadRecord(tr, r).snapshots[Len(tr.snapshots) + 1] =
              [seq |-> r.seq, changed |-> r.changed, flags |-> r.flags, pages |-> << >>]
<1> DEFINE s == [seq |-> r.seq, changed |-> r.changed, flags |-> r.flags, pages |-> << >>]
           u == Append(tr.snapshots, s)
<1>1. r.kind = "SNAPMARK" /\ s \in SnapRec
  BY EmptyMap DEF MarkRec, SnapRec
<1>2. LoadRecord(tr, r) = [tr EXCEPT !.snapshots = u]
  BY <1>1 DEF LoadRecord
<1> HIDE DEF s
<1>3. /\ u \in Seq(SnapRec) /\ Len(u) = Len(tr.snapshots) + 1
      /\ \A k \in 1 .. Len(tr.snapshots) : u[k] = tr.snapshots[k]
      /\ u[Len(tr.snapshots) + 1] = s
  BY <1>1 DEF Trace
<1> HIDE DEF u
<1>4. [tr EXCEPT !.snapshots = u] \in Trace /\ [tr EXCEPT !.snapshots = u].snapshots = u
      /\ [tr EXCEPT !.snapshots = u].warnings = tr.warnings
  BY <1>3 DEF Trace
<1> QED BY <1>2, <1>3, <1>4 DEF s

\* A WARN record is remembered and changes no snapshot.
LEMMA LoadWarn ==
  ASSUME NEW tr \in Trace, NEW r \in WarnRec
  PROVE  /\ LoadRecord(tr, r) \in Trace
         /\ LoadRecord(tr, r).snapshots = tr.snapshots
         /\ Len(LoadRecord(tr, r).warnings) = Len(tr.warnings) + 1
         /\ \A k \in 1 .. Len(tr.warnings) : LoadRecord(tr, r).warnings[k] = tr.warnings[k]
         /\ LoadRecord(tr, r).warnings[Len(tr.warnings) + 1] = r.about
<1> DEFINE u == Append(tr.warnings, r.about)
<1>1. r.kind = "WARN" /\ r.about \in SnapFlag
  BY DEF WarnRec
<1>2. LoadRecord(tr, r) = [tr EXCEPT !.warnings = u]
  BY <1>1 DEF LoadRecord
<1>3. /\ u \in Seq(SnapFlag) /\ Len(u) = Len(tr.warnings) + 1
      /\ \A k \in 1 .. Len(tr.warnings) : u[k] = tr.warnings[k]
      /\ u[Len(tr.warnings) + 1] = r.about
  BY <1>1 DEF Trace
<1> HIDE DEF u
<1>4. [tr EXCEPT !.warnings = u] \in Trace /\ [tr EXCEPT !.warnings = u].warnings = u
      /\ [tr EXCEPT !.warnings = u].snapshots = tr.snapshots
  BY <1>3 DEF Trace
<1> QED BY <1>2, <1>3, <1>4

\* The snapshots of u are those of t, but the last one has the page c at p.
LastGets(t, u, p, c) ==
  LET n == Len(t.snapshots)
  IN /\ u.warnings = t.warnings /\ Len(u.snapshots) = n
     /\ \A k \in 1 .. (n - 1) : u.snapshots[k] = t.snapshots[k]
     /\ u.snapshots[n].seq = t.snapshots[n].seq /\ u.snapshots[n].flags = t.snapshots[n].flags
     /\ u.snapshots[n].pages = Assign(t.snapshots[n].pages, p, c)

\* A RAMPAGE is dropped before the first SNAPMARK, else belongs to the last one.
LEMMA LoadPage ==
  ASSUME NEW tr \in Trace, NEW r \in PageRec
  PROVE  /\ LoadRecord(tr, r) \in Trace
         /\ Len(tr.snapshots) = 0 => LoadRecord(tr, r) = tr
         /\ Len(tr.snapshots) # 0 => LastGets(tr, LoadRecord(tr, r), r.page, r.content)
<1> DEFINE n == Len(tr.snapshots)
<1>1. r.kind = "RAMPAGE" /\ r.page \in Page /\ r.content \in Content
  BY DEF PageRec
<1>2. tr.snapshots \in Seq(SnapRec) /\ n \in Nat /\ DOMAIN tr.snapshots = 1 .. n
  BY DEF Trace
<1>3. CASE n = 0
  BY <1>1, <1>3 DEF LoadRecord
<1>4. CASE n # 0
  <2> DEFINE s == [tr.snapshots[n] EXCEPT !.pages = Assign(tr.snapshots[n].pages, r.page, r.content)]
             u == [tr.snapshots EXCEPT ![n] = s]
  <2>1. n \in 1 .. n /\ tr.snapshots[n] \in SnapRec
    BY <1>2, <1>4
  <2>2. Assign(tr.snapshots[n].pages, r.page, r.content) \in PageMap
    BY <1>1, <2>1, AssignTyped DEF SnapRec
  <2>3. /\ s \in SnapRec /\ s.seq = tr.snapshots[n].seq /\ s.flags = tr.snapshots[n].flags
        /\ s.pages = Assign(tr.snapshots[n].pages, r.page, r.content)
    BY <2>1, <2>2 DEF SnapRec
  <2>4. LoadRecord(tr, r) = [tr EXCEPT !.snapshots = u]
    BY <1>1, <1>4 DEF LoadRecord
  <2> HIDE DEF s
  <2>5. u \in Seq(SnapRec) /\ Len(u) = n
    BY <1>2, <2>3, ReplaceInSeq
  <2>6. u[n] = s /\ \A k \in 1 .. (n - 1) : u[k] = tr.snapshots[k]
    BY <1>2, <2>1
  <2> HIDE DEF u
  <2>7. [tr EXCEPT !.snapshots = u] \in Trace /\ [tr EXCEPT !.snapshots = u].snapshots = u
        /\ [tr EXCEPT !.snapshots = u].warnings = tr.warnings
    BY <2>5 DEF Trace
  <2> QED BY <1>4, <2>3, <2>4, <2>5, <2>6, <2>7 DEF LastGets
<1> QED BY <1>3, <1>4

\* The kind of a record tells which record it is.
LEMMA RecordKinds ==
  ASSUME NEW r \in Rec
  PROVE  /\ r.kind = "SNAPMARK" => r \in MarkRec
         /\ r.kind = "RAMPAGE" => r \in PageRec
         /\ r.kind = "WARN" => r \in WarnRec
         /\ r.kind \in {"SNAPMARK", "RAMPAGE", "WARN"}
BY DEF Rec, MarkRec, PageRec, WarnRec

\* Nothing read is a trace.
LEMMA EmptyTraceTyped == EmptyTrace \in Trace
<1>1. << >> \in Seq(SnapRec)
  OBVIOUS
<1>2. << >> \in Seq(SnapFlag)
  OBVIOUS
<1> QED BY <1>1, <1>2 DEF EmptyTrace, Trace

\* The next longer prefix of a file has one more record.
LEMMA PrefixGrows ==
  ASSUME NEW S, NEW f \in Seq(S), NEW n \in 0 .. (Len(f) - 1)
  PROVE  /\ SubSeq(f, 1, n) \in Seq(S) /\ f[n + 1] \in S
         /\ SubSeq(f, 1, n + 1) = Append(SubSeq(f, 1, n), f[n + 1])
         /\ SubSeq(f, 1, 0) = << >> /\ SubSeq(f, 1, Len(f)) = f
OBVIOUS

\* load makes a trace of every prefix of a file.
LEMMA LoadTyped ==
  ASSUME NEW f \in Seq(Rec)
  PROVE  \A n \in 0 .. Len(f) : Load(SubSeq(f, 1, n)) \in Trace
<1> DEFINE Good == {n \in Nat : n <= Len(f) => Load(SubSeq(f, 1, n)) \in Trace}
<1>1. 0 \in Good
  <2>1. SubSeq(f, 1, 0) = << >>
    OBVIOUS
  <2> QED BY <2>1, LoadEmpty, EmptyTraceTyped
<1>2. ASSUME NEW n \in Nat, n \in Good PROVE n + 1 \in Good
  <2>1. SUFFICES ASSUME n + 1 <= Len(f) PROVE Load(SubSeq(f, 1, n + 1)) \in Trace
    OBVIOUS
  <2>2. n \in 0 .. (Len(f) - 1) /\ n <= Len(f)
    BY <2>1
  <2>3. /\ SubSeq(f, 1, n) \in Seq(Rec) /\ f[n + 1] \in Rec
        /\ SubSeq(f, 1, n + 1) = Append(SubSeq(f, 1, n), f[n + 1])
    BY <2>2, PrefixGrows
  <2>4. Load(SubSeq(f, 1, n)) \in Trace
    BY <1>2, <2>2
  <2>5. Load(SubSeq(f, 1, n + 1)) = LoadRecord(Load(SubSeq(f, 1, n)), f[n + 1])
    BY <2>3, LoadAppend
  <2> QED BY <2>3, <2>4, <2>5, RecordKinds, LoadMark, LoadPage, LoadWarn
<1> HIDE DEF Good
<1>3. Nat \subseteq Good
  BY <1>1, <1>2, NatSetInduction
<1>4. \A n \in 0 .. Len(f) : n \in Good
  BY <1>3
<1> QED BY <1>4 DEF Good

---------------------------------------------------------------------------
(* The images a trace shows.                                               *)

\* The image of snapshot k, the one it was laid over, and the latest.
Image(tr, k)  == RebuildStates(tr)[k].image
Before(tr, k) == IF k = 1 THEN BlankImage ELSE Image(tr, k - 1)
LastImage(tr) == IF tr.snapshots = << >> THEN BlankImage ELSE Image(tr, Len(tr.snapshots))

\* Laying a delta over an image gives an image.
LEMMA AppliedTyped ==
  ASSUME NEW image \in Shown, NEW pages \in PageMap
  PROVE  ApplyPages(image, pages) \in Shown
<1>1. PICK S \in SUBSET Page : pages \in [S -> Content]
  BY DEF PageMap
<1> QED BY <1>1 DEF ApplyPages, Shown

\* rebuild_states makes one state per SNAPMARK: the previous image with the
\* pages of this snapshot laid over it.
LEMMA StatesOf ==
  ASSUME NEW tr \in Trace
  PROVE  /\ RebuildStates(tr) \in Seq(StateRec)
         /\ Len(RebuildStates(tr)) = Len(tr.snapshots)
         /\ \A k \in 1 .. Len(tr.snapshots) :
              Image(tr, k) = ApplyPages(Before(tr, k), tr.snapshots[k].pages)
<1> DEFINE P(t) == /\ RebuildStates(t) \in Seq(StateRec)
                   /\ Len(RebuildStates(t)) = Len(t.snapshots)
                   /\ \A k \in 1 .. Len(t.snapshots) :
                        Image(t, k) = ApplyPages(Before(t, k), t.snapshots[k].pages)
           Good == {n \in Nat : \A t \in Trace : Len(t.snapshots) = n => P(t)}
<1>1. 0 \in Good
  <2> SUFFICES ASSUME NEW t \in Trace, Len(t.snapshots) = 0 PROVE P(t)
    OBVIOUS
  <2>1. t.snapshots = << >>
    BY DEF Trace
  <2>2. RebuildStates(t) = << >>
    BY <2>1, StateEmpty
  <2>3. << >> \in Seq(StateRec) /\ Len(<< >>) = 0
    OBVIOUS
  <2> QED BY <2>2, <2>3
<1>2. ASSUME NEW n \in Nat, n \in Good PROVE n + 1 \in Good
  <2> SUFFICES ASSUME NEW t \in Trace, Len(t.snapshots) = n + 1 PROVE P(t)
    OBVIOUS
  <2> DEFINE front == ButLast(t.snapshots)
             last == t.snapshots[n + 1]
             t0 == [t EXCEPT !.snapshots = front]
             r0 == RebuildStates(t0)
             before == IF r0 = << >> THEN BlankImage ELSE r0[Len(r0)].image
             st == [seq |-> last.seq, flags |-> last.flags,
                    image |-> ApplyPages(before, last.pages),
                    complete |-> "INCOMPLETE" \notin last.flags]
  <2>1. t.snapshots \in Seq(SnapRec) /\ Len(t.snapshots) > 0
    BY DEF Trace
  <2>2. /\ front \in Seq(SnapRec) /\ Len(front) = n /\ last \in SnapRec
        /\ t.snapshots = Append(front, last)
    BY <2>1, SplitLast
  <2>a. \A k \in 1 .. n : front[k] = t.snapshots[k]
    BY <2>1 DEF ButLast
  <2> HIDE DEF front, last
  <2>3. t0 \in Trace /\ t0.snapshots = front
    BY <2>2 DEF Trace
  <2> HIDE DEF t0
  <2>4. P(t0)
    BY <1>2, <2>2, <2>3
  <2>5. r0 \in Seq(StateRec) /\ Len(r0) = n
    BY <2>2, <2>3, <2>4
  <2>6. RebuildStates(t) = AddState(r0, last)
    BY <2>2, <2>3, StateAppend
  <2>7. RebuildStates(t) = Append(r0, st)
    BY <2>6 DEF AddState
  <2>8. before \in Shown /\ before = IF n = 0 THEN BlankImage ELSE Image(t0, n)
    <3>1. CASE n = 0
      <4>1. r0 = << >>
        BY <2>5, <3>1
      <4>2. BlankImage \in Shown
        BY DEF BlankImage, Shown
      <4> QED BY <3>1, <4>1, <4>2
    <3>2. CASE n # 0
      <4>1. r0 # << >> /\ r0[n] \in StateRec
        BY <2>5, <3>2
      <4>2. before = r0[n].image
        BY <2>5, <4>1
      <4> QED BY <3>2, <4>1, <4>2 DEF StateRec, Image
    <3> QED BY <3>1, <3>2
  <2> HIDE DEF before
  <2>9. st \in StateRec /\ st.image = ApplyPages(before, last.pages)
    <3>1. ApplyPages(before, last.pages) \in Shown
      BY <2>2, <2>8, AppliedTyped DEF SnapRec
    <3> QED BY <2>2, <3>1 DEF StateRec, SnapRec
  <2> HIDE DEF st, r0
  <2>10. /\ RebuildStates(t) \in Seq(StateRec) /\ Len(RebuildStates(t)) = n + 1
         /\ RebuildStates(t)[n + 1] = st
         /\ \A k \in 1 .. n : RebuildStates(t)[k] = r0[k]
    BY <2>5, <2>7, <2>9
  <2>11. \A k \in 1 .. n : Image(t, k) = Image(t0, k)
    BY <2>10 DEF Image, r0
  <2>12. ASSUME NEW k \in 1 .. (n + 1)
         PROVE  Image(t, k) = ApplyPages(Before(t, k), t.snapshots[k].pages)
    <3>1. CASE k = n + 1
      <4>1. Image(t, k) = ApplyPages(before, last.pages)
        BY <2>9, <2>10, <3>1 DEF Image
      <4>2. Before(t, k) = before
        BY <2>8, <2>11, <3>1 DEF Before
      <4> QED BY <3>1, <4>1, <4>2 DEF last
    <3>2. CASE k # n + 1
      <4>1. k \in 1 .. n /\ (k # 1 => k - 1 \in 1 .. n)
        BY <3>2
      <4>2. Image(t0, k) = ApplyPages(Before(t0, k), t0.snapshots[k].pages)
        BY <2>2, <2>3, <2>4, <4>1
      <4>3. Before(t, k) = Before(t0, k)
        BY <2>11, <4>1 DEF Before
      <4> QED BY <2>a, <2>3, <2>11, <4>1, <4>2, <4>3
    <3> QED BY <3>1, <3>2
  <2> QED BY <2>10, <2>12
<1> HIDE DEF Good
<1>3. Nat \subseteq Good
  BY <1>1, <1>2, NatSetInduction
<1>4. Len(tr.snapshots) \in Nat
  BY DEF Trace
<1>5. Len(tr.snapshots) \in Good
  BY <1>3, <1>4
<1> QED BY <1>5 DEF Good

\* Traces whose first snapshots have the same pages show the same images there.
LEMMA SameImages ==
  ASSUME NEW t \in Trace, NEW u \in Trace, NEW n \in Nat,
         n <= Len(t.snapshots), n <= Len(u.snapshots),
         \A k \in 1 .. n : u.snapshots[k].pages = t.snapshots[k].pages
  PROVE  \A k \in 1 .. n : Image(u, k) = Image(t, k)
<1> DEFINE Good == {j \in Nat : j \in 1 .. n => Image(u, j) = Image(t, j)}
<1>0. Len(t.snapshots) \in Nat /\ Len(u.snapshots) \in Nat
  BY DEF Trace
<1>1. 0 \in Good
  OBVIOUS
<1>2. ASSUME NEW j \in Nat, j \in Good PROVE j + 1 \in Good
  <2> SUFFICES ASSUME j + 1 \in 1 .. n PROVE Image(u, j + 1) = Image(t, j + 1)
    OBVIOUS
  <2>1. /\ j + 1 \in 1 .. Len(t.snapshots) /\ j + 1 \in 1 .. Len(u.snapshots)
        /\ (j + 1) - 1 = j /\ (j + 1 # 1 => j \in 1 .. n)
    BY <1>0
  <2>2. Before(u, j + 1) = Before(t, j + 1)
    BY <1>2, <2>1 DEF Before
  <2>3. /\ Image(u, j + 1) = ApplyPages(Before(u, j + 1), u.snapshots[j + 1].pages)
        /\ Image(t, j + 1) = ApplyPages(Before(t, j + 1), t.snapshots[j + 1].pages)
    BY <2>1, StatesOf
  <2> QED BY <2>2, <2>3
<1> HIDE DEF Good
<1>3. Nat \subseteq Good
  BY <1>1, <1>2, NatSetInduction
<1> QED BY <1>3 DEF Good

\* A new SNAPMARK shows what the snapshot before it showed.
LEMMA MarkImage ==
  ASSUME NEW t \in Trace, NEW r \in MarkRec
  PROVE  LET u == LoadRecord(t, r)
         IN /\ \A k \in 1 .. Len(t.snapshots) : Image(u, k) = Image(t, k)
            /\ \A p \in Page : LastImage(u)[p] = LastImage(t)[p]
<1> DEFINE u == LoadRecord(t, r)
           n == Len(t.snapshots)
<1>1. /\ u \in Trace /\ n \in Nat /\ Len(u.snapshots) = n + 1
      /\ \A k \in 1 .. n : u.snapshots[k] = t.snapshots[k]
      /\ u.snapshots[n + 1].pages = << >>
      /\ t.snapshots = << >> <=> n = 0
  <2>1. /\ u \in Trace /\ Len(u.snapshots) = n + 1
        /\ \A k \in 1 .. n : u.snapshots[k] = t.snapshots[k]
    BY LoadMark
  <2>2. u.snapshots[n + 1] = [seq |-> r.seq, changed |-> r.changed, flags |-> r.flags,
                              pages |-> << >>]
    BY LoadMark
  <2>3. u.snapshots[n + 1].pages = << >>
    BY <2>2
  <2>4. n \in Nat /\ (t.snapshots = << >> <=> n = 0)
    BY DEF Trace
  <2> QED BY <2>1, <2>3, <2>4
<1> HIDE DEF u, n
<1>2. \A k \in 1 .. n : Image(u, k) = Image(t, k)
  <2>1. n <= Len(t.snapshots) /\ n <= Len(u.snapshots)
    BY <1>1 DEF n
  <2> QED BY <1>1, <2>1, SameImages
<1>3. u.snapshots # << >> /\ n + 1 \in 1 .. Len(u.snapshots)
  BY <1>1
<1>4. Image(u, n + 1) = ApplyPages(Before(u, n + 1), << >>)
  BY <1>1, <1>3, StatesOf
<1>5. Before(u, n + 1) = LastImage(t)
  <2>1. CASE n = 0
    BY <1>1, <2>1 DEF Before, LastImage
  <2>2. CASE n # 0
    <3>1. n \in 1 .. n /\ n + 1 # 1 /\ (n + 1) - 1 = n
      BY <1>1, <2>2
    <3> QED BY <1>1, <1>2, <2>2, <3>1 DEF Before, LastImage, n
  <2> QED BY <2>1, <2>2
<1>6. \A p \in Page : ApplyPages(LastImage(t), << >>)[p] = LastImage(t)[p]
  BY EmptyMap DEF ApplyPages
<1>7. LastImage(u) = Image(u, n + 1)
  BY <1>1, <1>3 DEF LastImage
<1> QED BY <1>2, <1>4, <1>5, <1>6, <1>7 DEF u, n

\* A page shows in the last image and nowhere else.
LEMMA PageImage ==
  ASSUME NEW t \in Trace, NEW u \in Trace, NEW p \in Page, NEW c \in Content,
         Len(t.snapshots) # 0, LastGets(t, u, p, c)
  PROVE  /\ \A k \in 1 .. (Len(t.snapshots) - 1) : Image(u, k) = Image(t, k)
         /\ LastImage(u)[p] = c
         /\ \A q \in Page : q # p => LastImage(u)[q] = LastImage(t)[q]
<1> DEFINE n == Len(t.snapshots)
<1>1. /\ n \in Nat /\ n # 0 /\ n - 1 \in Nat /\ n \in 1 .. n
      /\ t.snapshots # << >> /\ u.snapshots # << >> /\ Len(u.snapshots) = n
      /\ \A k \in 1 .. (n - 1) : u.snapshots[k] = t.snapshots[k]
      /\ u.snapshots[n].pages = Assign(t.snapshots[n].pages, p, c)
      /\ t.snapshots[n].pages \in PageMap
  <2>1. n \in Nat /\ n # 0 /\ t.snapshots[n] \in SnapRec /\ t.snapshots # << >>
    BY DEF Trace
  <2>2. u.snapshots # << >>
    BY <2>1 DEF LastGets, Trace
  <2> QED BY <2>1, <2>2 DEF LastGets, SnapRec
<1>0. Len(t.snapshots) = n
  OBVIOUS
<1> HIDE DEF n
<1>2. \A k \in 1 .. (n - 1) : Image(u, k) = Image(t, k)
  <2>1. n - 1 <= Len(t.snapshots) /\ n - 1 <= Len(u.snapshots)
    BY <1>0, <1>1
  <2> QED BY <1>1, <2>1, SameImages
<1>3. Before(u, n) = Before(t, n)
  <2>1. n # 1 => n - 1 \in 1 .. (n - 1)
    BY <1>1
  <2> QED BY <1>2, <2>1 DEF Before
<1>4. /\ Image(u, n) = ApplyPages(Before(t, n), Assign(t.snapshots[n].pages, p, c))
      /\ Image(t, n) = ApplyPages(Before(t, n), t.snapshots[n].pages)
  BY <1>0, <1>1, <1>3, StatesOf
<1>5. LastImage(u) = Image(u, n) /\ LastImage(t) = Image(t, n)
  BY <1>0, <1>1 DEF LastImage
<1>6. /\ DOMAIN Assign(t.snapshots[n].pages, p, c) = DOMAIN t.snapshots[n].pages \cup {p}
      /\ Assign(t.snapshots[n].pages, p, c)[p] = c
      /\ \A q \in DOMAIN t.snapshots[n].pages :
           q # p => Assign(t.snapshots[n].pages, p, c)[q] = t.snapshots[n].pages[q]
  <2> DEFINE f == t.snapshots[n].pages
  <2>1. f \in PageMap
    BY <1>1
  <2> HIDE DEF f
  <2>2. /\ DOMAIN Assign(f, p, c) = DOMAIN f \cup {p} /\ Assign(f, p, c)[p] = c
        /\ \A q \in DOMAIN f : q # p => Assign(f, p, c)[q] = f[q]
    BY <2>1, AssignTyped
  <2> QED BY <2>2 DEF f
<1>7. LastImage(u)[p] = c
  BY <1>4, <1>5, <1>6 DEF ApplyPages
<1>8. \A q \in Page : q # p => LastImage(u)[q] = LastImage(t)[q]
  BY <1>4, <1>5, <1>6 DEF ApplyPages
<1> QED BY <1>0, <1>2, <1>7, <1>8

---------------------------------------------------------------------------
(* What a trace promises of the memory of each instant.                    *)

Warned(tr, f) == \E i \in DOMAIN tr.warnings : tr.warnings[i] = f

\* What the history h says of a trace: recorded pages are those of the instant,
Genuine(tr, h) ==
  \A k \in DOMAIN tr.snapshots :
    /\ k \in DOMAIN h /\ tr.snapshots[k].seq = k - 1
    /\ \A p \in DOMAIN tr.snapshots[k].pages \ h[k].dirty :
         tr.snapshots[k].pages[p] = h[k].mem[p]

\* finished snapshots without a flag show its memory,
Exact(tr, h) ==
  \A k \in DOMAIN h : h[k].done =>
    /\ k \in DOMAIN tr.snapshots
    /\ tr.snapshots[k].flags = {} =>
         \A p \in Page \ h[k].dirty : Image(tr, k)[p] = h[k].mem[p]

\* and flags have their WARN; after a truncation nothing is recorded any more.
Told(tr, h, alive) ==
  \A k \in DOMAIN h : h[k].done =>
    \A f \in tr.snapshots[k].flags :
      Warned(tr, f) /\ (f = "TRUNCATED" => k = Len(h) /\ ~alive)

GoodTrace(tr, h, alive) == tr \in Trace /\ Genuine(tr, h) /\ Exact(tr, h) /\ Told(tr, h, alive)

\* h2 has the moments of h, with more pages stored to.
More(h, h2) ==
  /\ Len(h2) = Len(h)
  /\ \A k \in 1 .. Len(h) : /\ h2[k].mem = h[k].mem /\ h2[k].done = h[k].done
                            /\ h[k].dirty \subseteq h2[k].dirty

\* Recording more stores in the history takes nothing away from a good trace.
LEMMA MoreStaysGood ==
  ASSUME NEW h \in Seq(Moment), NEW h2 \in Seq(Moment), More(h, h2), NEW alive,
         NEW tr, GoodTrace(tr, h, alive)
  PROVE  GoodTrace(tr, h2, alive)
<1>1. DOMAIN h = 1 .. Len(h) /\ DOMAIN h2 = DOMAIN h /\ Len(h2) = Len(h)
  BY DEF More
<1>2. tr \in Trace /\ DOMAIN tr.snapshots \subseteq Int
  BY DEF GoodTrace, Trace
<1>3. Genuine(tr, h2)
  BY SMTT(40), <1>1 DEF GoodTrace, Genuine, More
<1>4. Exact(tr, h2)
  BY <1>1 DEF GoodTrace, Exact, More
<1>5. Told(tr, h2, alive)
  BY <1>1 DEF GoodTrace, Told, More
<1> QED BY <1>2, <1>3, <1>4, <1>5 DEF GoodTrace

\* A snapshot that has just begun promises nothing yet.
LEMMA BegunStaysGood ==
  ASSUME NEW h \in Seq(Moment), NEW e \in Moment, ~e.done, NEW tr, GoodTrace(tr, h, TRUE)
  PROVE  GoodTrace(tr, Append(h, e), TRUE)
<1> DEFINE h2 == Append(h, e)
<1>1. /\ DOMAIN h = 1 .. Len(h) /\ DOMAIN h2 = 1 .. (Len(h) + 1) /\ Len(h) \in Nat
      /\ \A k \in DOMAIN h : h2[k] = h[k]
      /\ h2[Len(h) + 1] = e
  OBVIOUS
<1> HIDE DEF h2
<1>2. tr \in Trace
  BY DEF GoodTrace
<1>3. Genuine(tr, h2)
  BY <1>1 DEF GoodTrace, Genuine
<1>a. \A k \in DOMAIN h2 : h2[k].done => k \in DOMAIN h /\ h2[k] = h[k]
  BY <1>1
<1>4. Exact(tr, h2)
  BY <1>1, <1>a DEF GoodTrace, Exact
<1>5. Told(tr, h2, TRUE)
  BY <1>1, <1>a DEF GoodTrace, Told
<1> QED BY <1>2, <1>3, <1>4, <1>5 DEF GoodTrace, h2

\* Appending the SNAPMARK of the snapshot that has begun keeps the trace good.
LEMMA MarkStaysGood ==
  ASSUME NEW h \in Seq(Moment), NEW alive, NEW t, GoodTrace(t, h, alive), NEW r \in MarkRec,
         Len(h) = Len(t.snapshots) + 1, ~h[Len(h)].done, r.seq = Len(t.snapshots)
  PROVE  GoodTrace(LoadRecord(t, r), h, alive)
<1> DEFINE n == Len(t.snapshots)
           u == LoadRecord(t, r)
<1>0. t \in Trace
  BY DEF GoodTrace
<1>1. /\ u \in Trace /\ n \in Nat /\ Len(u.snapshots) = n + 1
      /\ \A k \in 1 .. n : u.snapshots[k] = t.snapshots[k]
      /\ u.snapshots[n + 1] = [seq |-> r.seq, changed |-> r.changed, flags |-> r.flags,
                               pages |-> << >>]
      /\ u.warnings = t.warnings
  BY <1>0, LoadMark DEF Trace
<1>2. \A k \in 1 .. n : Image(u, k) = Image(t, k)
  BY <1>0, MarkImage
<1>3. /\ DOMAIN t.snapshots = 1 .. n /\ DOMAIN u.snapshots = 1 .. (n + 1)
      /\ DOMAIN h = 1 .. (n + 1) /\ r.seq = n /\ Len(h) = n + 1
  BY <1>0, <1>1 DEF Trace
<1>4. u.snapshots[n + 1].seq = n /\ DOMAIN u.snapshots[n + 1].pages = {}
  BY <1>1, <1>3, EmptyMap
<1>5. ~h[n + 1].done
  BY <1>3
<1> HIDE DEF u, n
<1>6. Genuine(u, h)
  <2> SUFFICES ASSUME NEW k \in DOMAIN u.snapshots
               PROVE  /\ k \in DOMAIN h /\ u.snapshots[k].seq = k - 1
                      /\ \A p \in DOMAIN u.snapshots[k].pages \ h[k].dirty :
                           u.snapshots[k].pages[p] = h[k].mem[p]
    BY DEF Genuine
  <2>1. CASE k = n + 1
    BY <1>1, <1>3, <1>4, <2>1
  <2>2. CASE k # n + 1
    <3>1. k \in 1 .. n
      BY <1>1, <1>3, <2>2
    <3> QED BY <1>1, <1>3, <3>1 DEF GoodTrace, Genuine
  <2> QED BY <2>1, <2>2
<1>7. \A k \in DOMAIN h : h[k].done =>
        /\ k \in 1 .. n /\ k \in DOMAIN t.snapshots /\ k \in DOMAIN u.snapshots
        /\ u.snapshots[k] = t.snapshots[k] /\ Image(u, k) = Image(t, k)
  BY <1>1, <1>2, <1>3, <1>5
<1>8. Exact(u, h)
  BY <1>7 DEF GoodTrace, Exact
<1>9. Told(u, h, alive)
  BY <1>1, <1>7 DEF GoodTrace, Told, Warned
<1> QED BY <1>1, <1>6, <1>8, <1>9 DEF GoodTrace, u

\* The last snapshot of u has p with c, and the other pages t has.
LastShows(t, u, p, c) ==
  LET n == Len(t.snapshots)
  IN /\ DOMAIN u.snapshots[n].pages = DOMAIN t.snapshots[n].pages \cup {p}
     /\ u.snapshots[n].pages[p] = c
     /\ \A q \in DOMAIN t.snapshots[n].pages :
          q # p => u.snapshots[n].pages[q] = t.snapshots[n].pages[q]

\* What LastGets says of the pages, page by page.
LEMMA PagesOfLast ==
  ASSUME NEW t \in Trace, NEW u, NEW p \in Page, NEW c \in Content,
         Len(t.snapshots) # 0, LastGets(t, u, p, c)
  PROVE  LastShows(t, u, p, c)
<1> DEFINE n == Len(t.snapshots)
           f == t.snapshots[n].pages
<1>1. f \in PageMap
  <2>1. t.snapshots \in Seq(SnapRec) /\ n \in 1 .. n
    BY DEF Trace
  <2>2. t.snapshots[n] \in SnapRec
    BY <2>1
  <2> QED BY <2>2 DEF SnapRec
<1>2. u.snapshots[n].pages = Assign(f, p, c)
  BY DEF LastGets
<1> HIDE DEF f, n
<1>3. /\ DOMAIN Assign(f, p, c) = DOMAIN f \cup {p} /\ Assign(f, p, c)[p] = c
      /\ \A q \in DOMAIN f : q # p => Assign(f, p, c)[q] = f[q]
  BY <1>1, AssignTyped
<1> QED BY <1>2, <1>3 DEF f, n, LastShows

\* What a page record may say of the moment it belongs to.
Suits(r, e) == r.page \in e.dirty \/ r.content = e.mem[r.page]

\* Appending a page of the running snapshot keeps the trace good, if the page is
\* the memory of the instant the snapshot began or was stored to since.
LEMMA PageStaysGood ==
  ASSUME NEW h \in Seq(Moment), NEW alive, NEW t, GoodTrace(t, h, alive), NEW r \in PageRec,
         Len(h) = Len(t.snapshots), Len(h) # 0, ~h[Len(h)].done,
         Suits(r, h[Len(h)])
  PROVE  GoodTrace(LoadRecord(t, r), h, alive)
<1> DEFINE n == Len(t.snapshots)
           u == LoadRecord(t, r)
           pg == r.page
           ct == r.content
<1>0. t \in Trace /\ pg \in Page /\ ct \in Content
  BY DEF GoodTrace, PageRec
<1>1. u \in Trace /\ LastGets(t, u, pg, ct)
  BY <1>0, LoadPage
<1>2. \A k \in 1 .. (n - 1) : Image(u, k) = Image(t, k)
  BY <1>0, <1>1, PageImage
<1>3. /\ n \in Nat /\ n # 0 /\ Len(h) = n /\ Len(u.snapshots) = n
      /\ DOMAIN t.snapshots = 1 .. n /\ DOMAIN u.snapshots = 1 .. n /\ DOMAIN h = 1 .. n
      /\ t.snapshots[n] \in SnapRec
  BY <1>0, <1>1 DEF Trace, LastGets
<1>4. /\ u.warnings = t.warnings
      /\ \A k \in 1 .. (n - 1) : u.snapshots[k] = t.snapshots[k]
      /\ u.snapshots[n].seq = t.snapshots[n].seq
      /\ u.snapshots[n].pages = Assign(t.snapshots[n].pages, pg, ct)
  BY <1>1 DEF LastGets
<1>5. ~h[n].done /\ (pg \in h[n].dirty \/ ct = h[n].mem[pg])
  BY <1>3 DEF Suits
<1>6. /\ DOMAIN u.snapshots[n].pages = DOMAIN t.snapshots[n].pages \cup {pg}
      /\ u.snapshots[n].pages[pg] = ct
      /\ \A q \in DOMAIN t.snapshots[n].pages :
           q # pg => u.snapshots[n].pages[q] = t.snapshots[n].pages[q]
  <2>1. Len(t.snapshots) # 0
    BY <1>3
  <2>2. LastShows(t, u, pg, ct)
    BY <1>0, <1>1, <2>1, PagesOfLast
  <2> QED BY <2>2 DEF LastShows
<1> HIDE DEF u, n, pg, ct
<1>7. Genuine(u, h)
  <2> SUFFICES ASSUME NEW k \in DOMAIN u.snapshots
               PROVE  /\ k \in DOMAIN h /\ u.snapshots[k].seq = k - 1
                      /\ \A q \in DOMAIN u.snapshots[k].pages \ h[k].dirty :
                           u.snapshots[k].pages[q] = h[k].mem[q]
    BY DEF Genuine
  <2>1. /\ k \in DOMAIN h /\ t.snapshots[k].seq = k - 1
        /\ \A q \in DOMAIN t.snapshots[k].pages \ h[k].dirty :
             t.snapshots[k].pages[q] = h[k].mem[q]
    BY <1>3 DEF GoodTrace, Genuine
  <2>2. CASE k = n
    BY <1>4, <1>5, <1>6, <2>1, <2>2
  <2>3. CASE k # n
    <3>1. k \in 1 .. (n - 1)
      BY <1>3, <2>3
    <3> QED BY <1>4, <2>1, <3>1
  <2> QED BY <2>2, <2>3
<1>8. \A k \in DOMAIN h : h[k].done =>
        /\ k \in DOMAIN t.snapshots /\ k \in DOMAIN u.snapshots
        /\ u.snapshots[k] = t.snapshots[k] /\ Image(u, k) = Image(t, k)
  <2> SUFFICES ASSUME NEW k \in DOMAIN h, h[k].done
               PROVE  /\ k \in DOMAIN t.snapshots /\ k \in DOMAIN u.snapshots
                      /\ u.snapshots[k] = t.snapshots[k] /\ Image(u, k) = Image(t, k)
    OBVIOUS
  <2>1. k \in 1 .. (n - 1)
    BY <1>3, <1>5
  <2> QED BY <1>2, <1>3, <1>4, <2>1
<1>9. Exact(u, h)
  BY <1>8 DEF GoodTrace, Exact
<1>10. Told(u, h, alive)
  BY <1>4, <1>8 DEF GoodTrace, Told, Warned
<1> QED BY <1>1, <1>7, <1>9, <1>10 DEF GoodTrace, u

\* A WARN shows no page and adds what it is about.
LEMMA WarnImage ==
  ASSUME NEW t \in Trace, NEW r \in WarnRec
  PROVE  /\ \A k \in 1 .. Len(t.snapshots) : Image(LoadRecord(t, r), k) = Image(t, k)
         /\ LastImage(LoadRecord(t, r)) = LastImage(t)
         /\ Warned(LoadRecord(t, r), r.about)
         /\ \A f : Warned(t, f) => Warned(LoadRecord(t, r), f)
<1> DEFINE n == Len(t.snapshots)
           u == LoadRecord(t, r)
<1>1. u \in Trace /\ u.snapshots = t.snapshots /\ n \in Nat
  BY LoadWarn DEF Trace
<1>2. \A k \in 1 .. n : Image(u, k) = Image(t, k)
  BY <1>1, SameImages
<1>3. t.snapshots # << >> => n \in 1 .. n
  BY <1>1 DEF Trace
<1>4. LastImage(u) = LastImage(t)
  BY <1>1, <1>2, <1>3 DEF LastImage
<1>5. /\ DOMAIN t.warnings = 1 .. Len(t.warnings) /\ Len(t.warnings) \in Nat
      /\ DOMAIN u.warnings = 1 .. (Len(t.warnings) + 1)
      /\ u.warnings[Len(t.warnings) + 1] = r.about
      /\ \A k \in 1 .. Len(t.warnings) : u.warnings[k] = t.warnings[k]
  <2>1. /\ Len(u.warnings) = Len(t.warnings) + 1
        /\ \A k \in 1 .. Len(t.warnings) : u.warnings[k] = t.warnings[k]
        /\ u.warnings[Len(t.warnings) + 1] = r.about
    BY LoadWarn
  <2> QED BY <1>1, <2>1 DEF Trace
<1> HIDE DEF u
<1>6. Warned(u, r.about)
  BY <1>5 DEF Warned
<1>7. ASSUME NEW f, Warned(t, f) PROVE Warned(u, f)
  BY <1>5, <1>7 DEF Warned
<1> QED BY <1>2, <1>4, <1>6, <1>7 DEF u

\* Appending a WARN keeps the trace good.
LEMMA WarnStaysGood ==
  ASSUME NEW h \in Seq(Moment), NEW alive, NEW t, GoodTrace(t, h, alive), NEW r \in WarnRec
  PROVE  GoodTrace(LoadRecord(t, r), h, alive)
<1> DEFINE u == LoadRecord(t, r)
<1>0. t \in Trace
  BY DEF GoodTrace
<1>1. /\ u \in Trace /\ u.snapshots = t.snapshots
      /\ \A k \in 1 .. Len(t.snapshots) : Image(u, k) = Image(t, k)
      /\ \A f : Warned(t, f) => Warned(u, f)
      /\ DOMAIN t.snapshots = 1 .. Len(t.snapshots)
  BY <1>0, LoadWarn, WarnImage DEF Trace
<1> HIDE DEF u
<1>2. Genuine(u, h)
  BY <1>1 DEF GoodTrace, Genuine
<1>3. Exact(u, h)
  BY <1>1 DEF GoodTrace, Exact
<1>4. Told(u, h, alive)
  BY <1>1 DEF GoodTrace, Told
<1> QED BY <1>1, <1>2, <1>3, <1>4 DEF GoodTrace, u

---------------------------------------------------------------------------
(* Patching the SNAPMARK.                                                  *)

\* t and u differ at most in the attributes of their last snapshot; those of u
\* come from the SNAPMARK r.
SameBut(t, u, r) ==
  LET n == Len(t.snapshots)
  IN /\ n # 0 /\ Len(u.snapshots) = n /\ u.warnings = t.warnings
     /\ \A k \in 1 .. (n - 1) : u.snapshots[k] = t.snapshots[k]
     /\ u.snapshots[n].pages = t.snapshots[n].pages
     /\ u.snapshots[n].seq = r.seq /\ u.snapshots[n].flags = r.flags

\* Reading one more RAMPAGE keeps two such traces alike,
LEMMA BothGetPage ==
  ASSUME NEW t \in Trace, NEW u \in Trace, NEW r \in MarkRec, SameBut(t, u, r), NEW x \in PageRec
  PROVE  SameBut(LoadRecord(t, x), LoadRecord(u, x), r)
<1> DEFINE n == Len(t.snapshots)
           t2 == LoadRecord(t, x)
           u2 == LoadRecord(u, x)
<1>1. n # 0 /\ n \in Nat /\ Len(u.snapshots) = n
  BY DEF SameBut, Trace
<1>2. LastGets(t, t2, x.page, x.content) /\ LastGets(u, u2, x.page, x.content)
  BY <1>1, LoadPage
<1> HIDE DEF t2, u2
<1>3. /\ t2.warnings = t.warnings /\ Len(t2.snapshots) = n
      /\ \A k \in 1 .. (n - 1) : t2.snapshots[k] = t.snapshots[k]
      /\ t2.snapshots[n].pages = Assign(t.snapshots[n].pages, x.page, x.content)
  BY <1>2 DEF LastGets
<1>4. /\ u2.warnings = u.warnings /\ Len(u2.snapshots) = n
      /\ \A k \in 1 .. (n - 1) : u2.snapshots[k] = u.snapshots[k]
      /\ u2.snapshots[n].pages = Assign(u.snapshots[n].pages, x.page, x.content)
      /\ u2.snapshots[n].seq = u.snapshots[n].seq /\ u2.snapshots[n].flags = u.snapshots[n].flags
  BY <1>1, <1>2 DEF LastGets
<1> QED BY <1>1, <1>3, <1>4 DEF SameBut, t2, u2

\* and so does a WARN;
LEMMA BothGetWarn ==
  ASSUME NEW t \in Trace, NEW u \in Trace, NEW r \in MarkRec, SameBut(t, u, r), NEW x \in WarnRec
  PROVE  SameBut(LoadRecord(t, x), LoadRecord(u, x), r)
<1>1. x.kind = "WARN"
  BY DEF WarnRec
<1>2. LoadRecord(t, x).snapshots = t.snapshots /\ LoadRecord(u, x).snapshots = u.snapshots
  BY LoadWarn
<1>3. /\ LoadRecord(t, x).warnings = Append(t.warnings, x.about)
      /\ LoadRecord(u, x).warnings = Append(u.warnings, x.about)
  BY <1>1 DEF LoadRecord, Trace
<1> QED BY <1>2, <1>3 DEF SameBut

\* two different SNAPMARKs read after the same trace make them so.
LEMMA BothGetMark ==
  ASSUME NEW t \in Trace, NEW f \in MarkRec, NEW r \in MarkRec
  PROVE  SameBut(LoadRecord(t, f), LoadRecord(t, r), r)
<1> DEFINE n == Len(t.snapshots)
           t2 == LoadRecord(t, f)
           u2 == LoadRecord(t, r)
<1>0. n \in Nat
  BY DEF Trace
<1>1. /\ Len(t2.snapshots) = n + 1 /\ t2.warnings = t.warnings
      /\ \A k \in 1 .. n : t2.snapshots[k] = t.snapshots[k]
  BY LoadMark
<1>2. /\ Len(u2.snapshots) = n + 1 /\ u2.warnings = t.warnings
      /\ \A k \in 1 .. n : u2.snapshots[k] = t.snapshots[k]
  BY LoadMark
<1>3. t2.snapshots[n + 1] = [seq |-> f.seq, changed |-> f.changed, flags |-> f.flags,
                             pages |-> << >>]
  BY LoadMark
<1>4. u2.snapshots[n + 1] = [seq |-> r.seq, changed |-> r.changed, flags |-> r.flags,
                             pages |-> << >>]
  BY LoadMark
<1>5. /\ t2.snapshots[n + 1].pages = << >> /\ u2.snapshots[n + 1].pages = << >>
      /\ u2.snapshots[n + 1].seq = r.seq /\ u2.snapshots[n + 1].flags = r.flags
  BY <1>3, <1>4
<1> HIDE DEF t2, u2
<1> QED BY <1>0, <1>1, <1>2, <1>5 DEF SameBut, t2, u2

\* Patching the last SNAPMARK changes the attributes of the last snapshot, nothing
\* else, whatever was read after it.
LEMMA LoadPatch ==
  ASSUME NEW f \in Seq(Rec), NEW m \in DOMAIN f, f[m] \in MarkRec, NEW r \in MarkRec,
         \A i \in DOMAIN f : i > m => f[i].kind # "SNAPMARK"
  PROVE  /\ Load([f EXCEPT ![m] = r]) \in Trace
         /\ SameBut(Load(f), Load([f EXCEPT ![m] = r]), r)
<1> DEFINE g == [f EXCEPT ![m] = r]
           P(n) == SameBut(Load(SubSeq(f, 1, n)), Load(SubSeq(g, 1, n)), r)
           Good == {j \in Nat : m + j <= Len(f) => P(m + j)}
<1>1. r \in Rec /\ m \in 1 .. Len(f) /\ Len(f) \in Nat /\ m \in Nat
  BY DEF Rec
<1>2. g \in Seq(Rec) /\ Len(g) = Len(f)
  BY <1>1, ReplaceInSeq
<1>3. g[m] = r /\ \A i \in 1 .. Len(f) : i # m => g[i] = f[i]
  BY <1>1
<1> HIDE DEF g
<1>4. 0 \in Good
  <2>1. SubSeq(g, 1, m - 1) = SubSeq(f, 1, m - 1)
    BY <1>1, <1>2, <1>3
  <2> DEFINE s == SubSeq(f, 1, m - 1)
  <2>2. m - 1 \in 0 .. (Len(f) - 1) /\ (m - 1) + 1 = m
    BY <1>1
  <2>3. s \in Seq(Rec) /\ SubSeq(f, 1, m) = Append(s, f[m])
    BY <2>2, PrefixGrows
  <2>4. SubSeq(g, 1, m) = Append(s, r)
    BY <1>2, <1>3, <2>1, <2>2, PrefixGrows
  <2>5. Load(s) \in Trace
    BY <1>1, <2>2, LoadTyped
  <2>6. f[m] \in Rec
    BY DEF Rec
  <2> HIDE DEF s
  <2>7. /\ Load(SubSeq(f, 1, m)) = LoadRecord(Load(s), f[m])
        /\ Load(SubSeq(g, 1, m)) = LoadRecord(Load(s), r)
    BY <1>1, <2>3, <2>4, <2>6, LoadAppend
  <2>8. P(m)
    BY <2>5, <2>7, BothGetMark
  <2> QED BY <1>1, <2>8
<1>5. ASSUME NEW j \in Nat, j \in Good PROVE j + 1 \in Good
  <2> DEFINE n == m + j
  <2> SUFFICES ASSUME m + (j + 1) <= Len(f) PROVE P(m + (j + 1))
    OBVIOUS
  <2>1. /\ n \in 0 .. (Len(f) - 1) /\ n \in 0 .. Len(f) /\ n <= Len(f) /\ n \in Nat
        /\ n + 1 \in 1 .. Len(f)
        /\ n + 1 > m /\ n + 1 # m /\ m + (j + 1) = n + 1
    BY <1>1
  <2>2. P(n)
    BY <1>5, <2>1
  <2> HIDE DEF n
  <2>3. /\ SubSeq(f, 1, n) \in Seq(Rec) /\ f[n + 1] \in Rec
        /\ SubSeq(f, 1, n + 1) = Append(SubSeq(f, 1, n), f[n + 1])
    BY <2>1, PrefixGrows
  <2>4. /\ SubSeq(g, 1, n) \in Seq(Rec)
        /\ SubSeq(g, 1, n + 1) = Append(SubSeq(g, 1, n), f[n + 1])
    BY <1>2, <1>3, <2>1, PrefixGrows
  <2>5. /\ Load(SubSeq(f, 1, n + 1)) = LoadRecord(Load(SubSeq(f, 1, n)), f[n + 1])
        /\ Load(SubSeq(g, 1, n + 1)) = LoadRecord(Load(SubSeq(g, 1, n)), f[n + 1])
    BY <2>3, <2>4, LoadAppend
  <2>6. Load(SubSeq(f, 1, n)) \in Trace /\ Load(SubSeq(g, 1, n)) \in Trace
    BY <1>2, <2>1, LoadTyped
  <2>7. f[n + 1] \in PageRec \/ f[n + 1] \in WarnRec
    BY <2>1, <2>3, RecordKinds
  <2>8. P(n + 1)
    BY <2>2, <2>5, <2>6, <2>7, BothGetPage, BothGetWarn
  <2> QED BY <2>1, <2>8
<1> HIDE DEF Good
<1>6. Nat \subseteq Good
  BY <1>4, <1>5, NatSetInduction
<1>7. PICK d \in Nat : m + d = Len(f)
  <2> DEFINE l == Len(f)
  <2>1. l \in Nat /\ m \in Nat /\ m <= l
    BY <1>1
  <2> HIDE DEF l
  <2>2. l - m \in Nat /\ m + (l - m) = l
    BY <2>1
  <2> QED BY <2>2 DEF l
<1>8. P(Len(f))
  <2>1. d \in Good /\ Len(f) <= Len(f)
    BY <1>1, <1>6, <1>7
  <2> QED BY <1>7, <2>1 DEF Good
<1>9. SubSeq(f, 1, Len(f)) = f /\ SubSeq(g, 1, Len(f)) = g
  BY <1>2
<1>10. Load(g) \in Trace
  <2>1. Len(g) \in 0 .. Len(g)
    BY <1>1, <1>2
  <2> QED BY <1>2, <1>9, <2>1, LoadTyped
<1> QED BY <1>8, <1>9, <1>10 DEF g

\* A patch changes no image.
LEMMA PatchImages ==
  ASSUME NEW t \in Trace, NEW u \in Trace, NEW r, SameBut(t, u, r)
  PROVE  /\ \A k \in 1 .. Len(t.snapshots) : Image(u, k) = Image(t, k)
         /\ LastImage(u) = LastImage(t)
<1> DEFINE n == Len(t.snapshots)
<1>1. n \in Nat /\ n # 0 /\ Len(u.snapshots) = n
  BY DEF SameBut, Trace
<1>2. \A k \in 1 .. n : u.snapshots[k].pages = t.snapshots[k].pages
  <2> SUFFICES ASSUME NEW k \in 1 .. n PROVE u.snapshots[k].pages = t.snapshots[k].pages
    OBVIOUS
  <2>1. k = n \/ k \in 1 .. (n - 1)
    BY <1>1
  <2> QED BY <2>1 DEF SameBut
<1>3. \A k \in 1 .. n : Image(u, k) = Image(t, k)
  BY <1>1, <1>2, SameImages
<1>4. t.snapshots # << >> /\ u.snapshots # << >> /\ n \in 1 .. n
  BY <1>1 DEF Trace
<1>5. LastImage(u) = Image(u, n) /\ LastImage(t) = Image(t, n)
  BY <1>1, <1>4 DEF LastImage
<1> QED BY <1>3, <1>4, <1>5

---------------------------------------------------------------------------
(* The inductive invariant of the recording and its reader.                *)

\* The SNAPMARKs of a file are numbered in order, all below n.
Ordered(f, n) ==
  /\ \A i \in DOMAIN f : f[i].kind = "SNAPMARK" => f[i].seq < n
  /\ \A i, j \in DOMAIN f : /\ i < j
                            /\ f[i].kind = "SNAPMARK" /\ f[j].kind = "SNAPMARK"
                            => f[i].seq < f[j].seq

\* Every prefix a kill could leave is good, and so is the file itself.
AllGood(f, a, h, alive) == \A n \in a .. Len(f) : GoodTrace(Load(SubSeq(f, 1, n)), h, alive)

\* If all prefixes from a on are good, so is the whole file.
LEMMA WholeFile ==
  ASSUME NEW f \in Seq(Rec), NEW a \in 0 .. Len(f), NEW h, NEW alive, AllGood(f, a, h, alive)
  PROVE  GoodTrace(Load(f), h, alive)
<1>1. Len(f) \in a .. Len(f) /\ SubSeq(f, 1, Len(f)) = f
  OBVIOUS
<1> QED BY <1>1 DEF AllGood

\* A record that keeps the trace of the whole file good keeps all prefixes good.
LEMMA AppendRecord ==
  ASSUME NEW f \in Seq(Rec), NEW a \in 0 .. Len(f), NEW h, NEW alive, NEW r \in Rec,
         AllGood(f, a, h, alive), GoodTrace(LoadRecord(Load(f), r), h, alive)
  PROVE  AllGood(Append(f, r), a, h, alive)
<1> DEFINE g == Append(f, r)
<1>1. /\ g \in Seq(Rec) /\ Len(g) = Len(f) + 1 /\ Len(f) \in Nat /\ a \in Nat
      /\ SubSeq(g, 1, Len(g)) = g
      /\ \A n \in 0 .. Len(f) : SubSeq(g, 1, n) = SubSeq(f, 1, n)
  OBVIOUS
<1>2. Load(g) = LoadRecord(Load(f), r)
  BY LoadAppend
<1> HIDE DEF g
<1> SUFFICES ASSUME NEW n \in a .. Len(g) PROVE GoodTrace(Load(SubSeq(g, 1, n)), h, alive)
  BY DEF AllGood, g
<1>3. CASE n = Len(g)
  BY <1>1, <1>2, <1>3
<1>4. CASE n # Len(g)
  <2>1. n \in a .. Len(f) /\ n \in 0 .. Len(f)
    BY <1>1, <1>4
  <2> QED BY <1>1, <2>1 DEF AllGood
<1> QED BY <1>3, <1>4

\* Appending a SNAPMARK with the next number, or another record, keeps the order.
LEMMA OrderedAppend ==
  ASSUME NEW f \in Seq(Rec), NEW n \in Nat, NEW r \in Rec, Ordered(f, n)
  PROVE  /\ r.kind # "SNAPMARK" => Ordered(Append(f, r), n)
         /\ r.kind = "SNAPMARK" /\ r.seq = n => Ordered(Append(f, r), n + 1)
<1> DEFINE g == Append(f, r)
<1>1. /\ Len(f) \in Nat /\ DOMAIN f = 1 .. Len(f) /\ DOMAIN g = 1 .. (Len(f) + 1)
      /\ g[Len(f) + 1] = r /\ \A i \in 1 .. Len(f) : g[i] = f[i]
  OBVIOUS
<1>2. \A i \in DOMAIN f : f[i].kind = "SNAPMARK" => f[i].seq \in Nat
  <2> SUFFICES ASSUME NEW i \in DOMAIN f, f[i].kind = "SNAPMARK" PROVE f[i].seq \in Nat
    OBVIOUS
  <2>1. f[i] \in Rec
    OBVIOUS
  <2>2. f[i] \in MarkRec
    BY <2>1, RecordKinds
  <2> QED BY <2>2 DEF MarkRec
<1> HIDE DEF g
<1>3. CASE r.kind # "SNAPMARK"
  <2>1. \A i \in DOMAIN g : g[i].kind = "SNAPMARK" => i \in DOMAIN f /\ g[i] = f[i]
    BY <1>1, <1>3
  <2> QED BY <1>3, <2>1 DEF Ordered, g
<1>4. CASE r.kind = "SNAPMARK" /\ r.seq = n
  <2>1. \A i \in DOMAIN g : g[i].kind = "SNAPMARK" => g[i].seq < n + 1
    <3> SUFFICES ASSUME NEW i \in DOMAIN g, g[i].kind = "SNAPMARK" PROVE g[i].seq < n + 1
      OBVIOUS
    <3>1. CASE i = Len(f) + 1
      BY <1>1, <1>4, <3>1
    <3>2. CASE i # Len(f) + 1
      <4>1. i \in DOMAIN f /\ g[i] = f[i]
        BY <1>1, <3>2
      <4> QED BY <1>2, <4>1 DEF Ordered
    <3> QED BY <3>1, <3>2
  <2>2. ASSUME NEW i \in DOMAIN g, NEW j \in DOMAIN g, i < j,
               g[i].kind = "SNAPMARK", g[j].kind = "SNAPMARK"
        PROVE  g[i].seq < g[j].seq
    <3>1. i \in DOMAIN f /\ g[i] = f[i]
      BY <1>1, <2>2
    <3>2. CASE j = Len(f) + 1
      BY <1>1, <1>4, <2>2, <3>1, <3>2 DEF Ordered
    <3>3. CASE j # Len(f) + 1
      <4>1. j \in DOMAIN f /\ g[j] = f[j]
        BY <1>1, <3>3
      <4> QED BY <2>2, <3>1, <4>1 DEF Ordered
    <3> QED BY <3>2, <3>3
  <2> QED BY <1>4, <2>1, <2>2 DEF Ordered, g
<1> QED BY <1>3, <1>4 DEF g

Now == truth[Len(truth)]

\* Inside nf_snapshot: pages not stored to since are still what they were, those
\* passed are believed to be that, those read ahead are in the buffer.
Session ==
  /\ live /\ ~Now.done
  /\ \A p \in Page \ Now.dirty : mem[p] = Now.mem[p]
  /\ ~truncated => \A p \in Page \ (Now.dirty \cup readFail) :
                     p < next => Believed(p) = Now.mem[p]
  /\ phase = "pages" => \A p \in (next .. (limit - 1)) \ Now.dirty : buf[p] = Now.mem[p]

\* The plugin and the reader of the whole file agree on where they are.
Current ==
  /\ Len(Load(file).snapshots) = nSnapshots
  /\ live => \A p \in Page : Believed(p) = LastImage(Load(file))[p]
  /\ truncated => Warned(Load(file), "TRUNCATED")

ReaderInv ==
  /\ TypeOK
  /\ AllGood(file, synced, truth, live)
  /\ phase # "dead" => Ordered(file, nSnapshots) /\ MarkWritten /\ Current
  /\ InSnapshot => Session

\* The empty file satisfies the invariant.
LEMMA InitReader == Init => ReaderInv
<1> SUFFICES ASSUME Init PROVE ReaderInv
  OBVIOUS
<1>1. TypeOK /\ ~InSnapshot
  BY InitType DEF Init, InSnapshot
<1>2. /\ file = << >> /\ synced = 0 /\ truth = << >> /\ nSnapshots = 0
      /\ \A p \in Page : Believed(p) = Unseen
      /\ truncated = FALSE
  BY DEF Init, Believed
<1>3. Load(<< >>) = EmptyTrace
  BY LoadEmpty
<1>4. GoodTrace(EmptyTrace, << >>, live)
  <2>1. EmptyTrace.snapshots = << >>
    BY DEF EmptyTrace
  <2> QED BY <2>1, EmptyTraceTyped DEF GoodTrace, Genuine, Exact, Told
<1>5. AllGood(file, synced, truth, live)
  <2> SUFFICES ASSUME NEW n \in 0 .. 0 PROVE GoodTrace(Load(SubSeq(<< >>, 1, n)), << >>, live)
    BY <1>2 DEF AllGood
  <2>1. SubSeq(<< >>, 1, n) = << >>
    OBVIOUS
  <2> QED BY <1>3, <1>4, <2>1
<1>6. Ordered(file, nSnapshots)
  BY <1>2 DEF Ordered
<1>7. Current
  <2>1. EmptyTrace.snapshots = << >>
    BY DEF EmptyTrace
  <2>2. Len(Load(file).snapshots) = nSnapshots
    BY <1>2, <1>3, <2>1
  <2>3. \A p \in Page : LastImage(EmptyTrace)[p] = Unseen
    BY <2>1 DEF LastImage, BlankImage
  <2> QED BY <1>2, <1>3, <2>2, <2>3 DEF Current
<1> QED BY <1>1, <1>5, <1>6, <1>7 DEF ReaderInv, MarkWritten

\* nf_snapshot_page, whatever it does with the page: what it appends is a page of
\* the instant of the snapshot, and the shadow follows the last image.
LEMMA PageStep ==
  ASSUME ReaderInv, SnapshotAssumption, InSnapshot, NEW p \in Page, NEW c \in Content,
         SnapshotPage(p, c),
         truth' \in Seq(Moment), More(truth, truth'), Suits(PageWrite(p, c), truth'[Len(truth)]),
         UNCHANGED <<synced, live, nSnapshots>>
  PROVE  /\ AllGood(file', synced', truth', live') /\ Ordered(file', nSnapshots')
         /\ MarkWritten' /\ Current'
         /\ \A q \in Page : q # p => Believed(q)' = Believed(q)
         /\ ~truncated' => Believed(p)' = c
<1> DEFINE t == Load(file)
           h == truth'
<1>1. /\ TypeOK /\ Ordered(file, nSnapshots) /\ MarkWritten /\ Current /\ Session
      /\ AllGood(file, synced, truth, live) /\ live
  BY DEF ReaderInv, InSnapshot, Session
<1>2. /\ file \in Seq(Rec) /\ synced \in 0 .. Len(file) /\ truth \in Seq(Moment)
      /\ nSnapshots \in Nat /\ Len(truth) = nSnapshots /\ nSnapshots # 0 /\ Unseen \notin Content
      /\ Len(file) \in Nat
  BY SMTT(40), <1>1 DEF TypeOK, SnapshotAssumption
<1>3. AllGood(file, synced, h, live)
  BY <1>1, <1>2, MoreStaysGood DEF AllGood
<1>4. GoodTrace(t, h, live) /\ t \in Trace
  BY <1>2, <1>3, WholeFile DEF GoodTrace
<1>5. Len(h) = nSnapshots /\ Len(t.snapshots) = nSnapshots /\ ~h[nSnapshots].done
  <2>1. Len(truth) \in 1 .. Len(truth)
    BY <1>2
  <2> QED BY <1>1, <1>2, <2>1 DEF More, Current, Session, Now
<1>6. CASE SkipPage(p, c)
  <2>1. /\ file' = file /\ \A q \in Page : Believed(q)' = Believed(q)
        /\ truncated' = truncated
    BY <1>6 DEF SkipPage, Believed
  <2>2. Believed(p) = c
    BY <1>2, <1>6 DEF SkipPage, SameAsShadow, Believed
  <2>3. MarkWritten'
    BY <1>1, <2>1 DEF MarkWritten, InSnapshot
  <2>4. Current'
    BY <1>1, <2>1 DEF Current
  <2>5. AllGood(file', synced', truth', live')
    BY <1>3, <2>1
  <2> QED BY <1>1, <2>1, <2>2, <2>3, <2>4, <2>5
<1>7. CASE HitBudget(p, c)
  <2> DEFINE r == Warn("TRUNCATED")
  <2>1. r \in Rec /\ r \in WarnRec /\ r.kind = "WARN" /\ r.about = "TRUNCATED"
    BY WrittenRecords DEF SnapFlag, Warn, WarnRec
  <2>2. /\ file' = Append(file, r) /\ truncated' = TRUE
        /\ \A q \in Page : Believed(q)' = Believed(q)
    BY <1>7 DEF HitBudget, Believed
  <2> HIDE DEF r
  <2>3. Load(file') = LoadRecord(t, r)
    BY <1>2, <2>1, <2>2, LoadAppend
  <2>4. GoodTrace(LoadRecord(t, r), h, live)
    BY <1>4, <2>1, WarnStaysGood
  <2>5. AllGood(file', synced', truth', live')
    BY <1>2, <1>3, <2>1, <2>2, <2>4, AppendRecord
  <2>6. Ordered(file', nSnapshots')
    BY <1>1, <1>2, <2>1, <2>2, OrderedAppend
  <2>7. Extends(file, file')
    BY <1>2, <2>2 DEF Extends
  <2>8. MarkWritten'
    BY <1>1, <2>7, MarkSurvives
  <2>9. Current'
    <3>1. LoadRecord(t, r).snapshots = t.snapshots
      BY <1>4, <2>1, LoadWarn
    <3>2. LastImage(LoadRecord(t, r)) = LastImage(t) /\ Warned(LoadRecord(t, r), "TRUNCATED")
      BY <1>4, <2>1, WarnImage
    <3> QED BY <1>1, <2>2, <2>3, <3>1, <3>2 DEF Current
  <2> QED BY <2>2, <2>5, <2>6, <2>8, <2>9
<1>8. CASE RecordPage(p, c)
  <2> DEFINE r == PageWrite(p, c)
  <2>1. r \in Rec /\ r \in PageRec /\ r.kind = "RAMPAGE" /\ r.page = p /\ r.content = c
    BY WrittenRecords DEF PageWrite, PageRec
  <2>2. file' = Append(file, r) /\ truncated' = truncated
    BY <1>8 DEF RecordPage
  <2>3. /\ Believed(p)' = c
        /\ \A q \in Page : q # p => Believed(q)' = Believed(q)
    BY <1>1, <1>2, <1>8 DEF RecordPage, Believed, TypeOK
  <2>a. Suits(r, h[Len(h)])
    BY <1>2, <1>5
  <2> HIDE DEF r
  <2>4. Load(file') = LoadRecord(t, r)
    BY <1>2, <2>1, <2>2, LoadAppend
  <2>5. GoodTrace(LoadRecord(t, r), h, live)
    BY <1>2, <1>4, <1>5, <2>1, <2>a, PageStaysGood
  <2>6. AllGood(file', synced', truth', live')
    BY <1>2, <1>3, <2>1, <2>2, <2>5, AppendRecord
  <2>7. Ordered(file', nSnapshots')
    BY <1>1, <1>2, <2>1, <2>2, OrderedAppend
  <2>8. Extends(file, file')
    BY <1>2, <2>2 DEF Extends
  <2>9. MarkWritten'
    BY <1>1, <2>8, MarkSurvives
  <2>10. Current'
    <3> DEFINE u == LoadRecord(t, r)
    <3>1. u \in Trace /\ LastGets(t, u, p, c)
      BY <1>2, <1>4, <1>5, <2>1, LoadPage
    <3>2. u.warnings = t.warnings /\ Len(u.snapshots) = nSnapshots
      BY <1>5, <3>1 DEF LastGets
    <3> HIDE DEF u
    <3>3. /\ LastImage(u)[p] = c
          /\ \A q \in Page : q # p => LastImage(u)[q] = LastImage(t)[q]
      BY <1>2, <1>4, <1>5, <3>1, PageImage
    <3>4. \A q \in Page : Believed(q)' = LastImage(u)[q]
      BY <1>1, <2>3, <3>3 DEF Current
    <3>5. truncated' => Warned(u, "TRUNCATED")
      BY <1>1, <2>2, <3>2 DEF Current, Warned
    <3>6. Load(file') = u
      BY <2>4 DEF u
    <3> QED BY <3>2, <3>4, <3>5, <3>6 DEF Current
  <2> QED BY <2>3, <2>6, <2>7, <2>9, <2>10
<1> QED BY <1>6, <1>7, <1>8 DEF SnapshotPage

---------------------------------------------------------------------------
(* Steps that store and steps that read.                                   *)

\* Recording a store only adds to what the current moment lists as stored to.
LEMMA TouchGrows ==
  ASSUME truth \in Seq(Moment), NEW S \in SUBSET Page
  PROVE  /\ Touch(S) \in Seq(Moment) /\ More(truth, Touch(S))
         /\ InSnapshot /\ Len(truth) # 0 => S \subseteq Touch(S)[Len(truth)].dirty
<1> DEFINE n == Len(truth)
           e == [truth[n] EXCEPT !.dirty = @ \cup S]
           h == [truth EXCEPT ![n] = e]
<1>1. Touch(S) \in Seq(Moment) /\ Len(Touch(S)) = n /\ n \in Nat
  BY TouchType
<1>2. CASE InSnapshot /\ n # 0
  <2>1. n \in 1 .. n /\ truth[n] \in Moment
    BY <1>1, <1>2
  <2>2. Touch(S) = h
    BY <1>2 DEF Touch
  <2>3. /\ e.mem = truth[n].mem /\ e.done = truth[n].done
        /\ truth[n].dirty \subseteq e.dirty /\ S \subseteq e.dirty
    BY <2>1 DEF Moment
  <2> HIDE DEF e
  <2>4. h[n] = e /\ \A k \in 1 .. n : k # n => h[k] = truth[k]
    BY <2>1
  <2> HIDE DEF h, n
  <2>5. ASSUME NEW k \in 1 .. n
        PROVE  /\ h[k].mem = truth[k].mem /\ h[k].done = truth[k].done
               /\ truth[k].dirty \subseteq h[k].dirty
    BY <2>3, <2>4
  <2> QED BY <1>1, <2>2, <2>3, <2>4, <2>5 DEF More, n
<1>3. CASE ~InSnapshot
  BY <1>1, <1>3 DEF Touch, More
<1>4. CASE n = 0
  BY <1>1, <1>4 DEF More
<1> QED BY <1>2, <1>3, <1>4


\* Inside nf_snapshot there is a current moment.
LEMMA NowOf ==
  ASSUME TypeOK, InSnapshot
  PROVE  /\ Len(truth) = nSnapshots /\ nSnapshots \in Nat /\ nSnapshots # 0
         /\ truth \in Seq(Moment) /\ nSnapshots \in 1 .. nSnapshots
         /\ Now = truth[nSnapshots] /\ Now \in Moment
<1>1. /\ Len(truth) = nSnapshots /\ nSnapshots \in Nat /\ nSnapshots # 0
      /\ truth \in Seq(Moment) /\ nSnapshots \in 1 .. nSnapshots
  BY DEF TypeOK
<1> QED BY <1>1 DEF Now

\* Stores to memory, by the guest or during a read, leave every promise about
\* the file as it was and are recorded in the current moment.
LEMMA StoreStep ==
  ASSUME ReaderInv, phase # "dead", NEW S \in SUBSET Page, truth' = Touch(S),
         UNCHANGED nfVars, InSnapshot' => InSnapshot
  PROVE  /\ AllGood(file', synced', truth', live')
         /\ Ordered(file', nSnapshots') /\ MarkWritten' /\ Current'
         /\ InSnapshot => /\ Now'.mem = Now.mem /\ Now'.done = Now.done
                          /\ Now.dirty \subseteq Now'.dirty /\ S \subseteq Now'.dirty
<1>1. /\ TypeOK /\ Ordered(file, nSnapshots) /\ MarkWritten /\ Current
      /\ AllGood(file, synced, truth, live) /\ truth \in Seq(Moment)
  BY DEF ReaderInv, TypeOK
<1>2. /\ truth' \in Seq(Moment) /\ More(truth, truth')
      /\ InSnapshot /\ Len(truth) # 0 => S \subseteq truth'[Len(truth)].dirty
  BY <1>1, TouchGrows
<1>3. AllGood(file', synced', truth', live')
  BY <1>1, <1>2, MoreStaysGood DEF AllGood, nfVars
<1>4. Ordered(file', nSnapshots') /\ MarkWritten' /\ Current'
  BY <1>1 DEF nfVars, MarkWritten, Current, Believed
<1>5. ASSUME InSnapshot
      PROVE  /\ Now'.mem = Now.mem /\ Now'.done = Now.done
             /\ Now.dirty \subseteq Now'.dirty /\ S \subseteq Now'.dirty
  <2>1. /\ Len(truth) = nSnapshots /\ nSnapshots # 0 /\ nSnapshots \in 1 .. nSnapshots
        /\ Now = truth[nSnapshots]
    BY <1>1, <1>5, NowOf
  <2>2. Now' = truth'[nSnapshots]
    BY <1>2, <2>1 DEF Now, More
  <2> QED BY <1>2, <1>5, <2>1, <2>2 DEF More
<1> QED BY <1>3, <1>4, <1>5

\* A guest store preserves the invariant.
LEMMA StoreReader ==
  ASSUME ReaderInv, TypeOK', NEW p \in Page, NEW c \in Content, Store(p, c)
  PROVE  ReaderInv'
<1>1. /\ TypeOK /\ phase # "dead" /\ phase' = phase /\ (InSnapshot' <=> InSnapshot)
      /\ truth' = Touch({p}) /\ mem' = [mem EXCEPT ![p] = c]
      /\ UNCHANGED <<nfVars, loopVars>> /\ mem \in [Page -> Content]
  BY DEF Store, ReaderInv, TypeOK, InSnapshot, loopVars
<1>2. /\ AllGood(file', synced', truth', live')
      /\ Ordered(file', nSnapshots') /\ MarkWritten' /\ Current'
      /\ InSnapshot => /\ Now'.mem = Now.mem /\ Now'.done = Now.done
                       /\ Now.dirty \subseteq Now'.dirty /\ {p} \subseteq Now'.dirty
  BY <1>1, StoreStep
<1>3. ASSUME InSnapshot PROVE Session'
  <2>1. Session /\ live
    BY <1>3 DEF ReaderInv, Session
  <2>2. \A q \in Page \ Now'.dirty : mem'[q] = Now'.mem[q]
    BY <1>1, <1>2, <1>3, <2>1 DEF Session
  <2>3. /\ live' = live /\ truncated' = truncated /\ readFail' = readFail /\ next' = next
        /\ limit' = limit /\ buf' = buf /\ \A q \in Page : Believed(q)' = Believed(q)
    BY <1>1 DEF nfVars, loopVars, Believed
  <2> QED BY <1>1, <1>2, <1>3, <2>1, <2>2, <2>3 DEF Session
<1> QED BY <1>1, <1>2, <1>3 DEF ReaderInv

\* The placeholder SNAPMARK preserves the invariant.
LEMMA BeginReader ==
  ASSUME ReaderInv, TypeOK', BeginSnapshot
  PROVE  ReaderInv'
<1> DEFINE r == Mark(nSnapshots, 0, {})
           e == [mem |-> mem, dirty |-> {}, done |-> FALSE]
           t == Load(file)
<1>1. /\ TypeOK /\ Ordered(file, nSnapshots) /\ Current /\ AllGood(file, synced, truth, TRUE)
      /\ live /\ live' = live /\ synced' = synced
  BY DEF ReaderInv, BeginSnapshot, TypeOK
<1>2. /\ file \in Seq(Rec) /\ synced \in 0 .. Len(file) /\ truth \in Seq(Moment)
      /\ nSnapshots \in Nat /\ Len(truth) = nSnapshots /\ Len(file) \in Nat
      /\ mem \in [Page -> Content]
  BY <1>1 DEF TypeOK
<1>3. /\ r \in Rec /\ r \in MarkRec /\ r.kind = "SNAPMARK" /\ r.seq = nSnapshots
  BY <1>2, WrittenRecords DEF Mark, MarkRec
<1>4. /\ e \in Moment /\ e.done = FALSE /\ e.mem = mem /\ e.dirty = {}
  BY <1>2 DEF Moment
<1>5. /\ file' = Append(file, r) /\ truth' = Append(truth, e) /\ nSnapshots' = nSnapshots + 1
      /\ UNCHANGED <<mem, shadow, valid, truncated>> /\ phase' = "chunk" /\ next' = 0
  BY DEF BeginSnapshot
<1> HIDE DEF r, e
<1>6. AllGood(file, synced, truth', TRUE)
  BY <1>1, <1>2, <1>4, <1>5, BegunStaysGood DEF AllGood
<1>7. GoodTrace(t, truth', TRUE) /\ t \in Trace
  BY <1>2, <1>6, WholeFile DEF GoodTrace
<1>8. /\ Len(t.snapshots) = nSnapshots /\ Len(truth') = nSnapshots + 1
      /\ truth'[nSnapshots + 1] = e /\ truth' \in Seq(Moment)
  BY <1>1, <1>2, <1>4, <1>5 DEF Current
<1>9. GoodTrace(LoadRecord(t, r), truth', TRUE)
  BY <1>3, <1>4, <1>7, <1>8, MarkStaysGood
<1>10. AllGood(file', synced', truth', live')
  <2>1. AllGood(file', synced, truth', TRUE)
    BY <1>2, <1>3, <1>5, <1>6, <1>9, AppendRecord
  <2>2. live' = TRUE
    BY <1>1 DEF TypeOK
  <2> QED BY <1>1, <2>1, <2>2
<1>11. Ordered(file', nSnapshots')
  BY <1>1, <1>2, <1>3, <1>5, OrderedAppend
<1>12. MarkWritten'
  <2>1. Len(file) + 1 \in DOMAIN file' /\ file'[Len(file) + 1] = r
    BY <1>2, <1>3, <1>5
  <2>2. nSnapshots' - 1 = nSnapshots
    BY <1>2, <1>5
  <2> QED BY <1>3, <2>1, <2>2 DEF MarkWritten
<1>13. Current'
  <2> DEFINE u == LoadRecord(t, r)
  <2>1. Load(file') = u
    BY <1>2, <1>3, <1>5, LoadAppend
  <2>2. Len(u.snapshots) = nSnapshots + 1 /\ u.warnings = t.warnings
    BY <1>3, <1>7, <1>8, LoadMark
  <2>3. \A p \in Page : LastImage(u)[p] = LastImage(t)[p]
    BY <1>3, <1>7, MarkImage
  <2> HIDE DEF u
  <2>4. \A p \in Page : Believed(p)' = LastImage(u)[p]
    BY <1>1, <1>5, <2>3 DEF Believed, Current
  <2>5. truncated' => Warned(u, "TRUNCATED")
    BY <1>1, <1>5, <2>2 DEF Warned, Current
  <2> QED BY <1>5, <2>1, <2>2, <2>4, <2>5 DEF Current
<1>14. Session'
  <2>1. Now' = e
    BY <1>8 DEF Now
  <2>2. \A p \in Page : ~(p < next')
    BY <1>5, SnapshotAssumption DEF SnapshotAssumption
  <2> QED BY <1>1, <1>4, <1>5, <2>1, <2>2 DEF Session
<1> QED BY <1>10, <1>11, <1>12, <1>13, <1>14 DEF ReaderInv

\* A read of the pages S: what came back is the memory of the snapshot's instant,
\* except where it was or is now being stored to.
CameBack(S, got) ==
  \E racing \in SUBSET Page :
    /\ truth' = Touch(racing)
    /\ \A p \in S \ (Now.dirty \cup racing) : got[p] = Now.mem[p]
    /\ \A p \in Page \ (Now.dirty \cup racing) : mem'[p] = Now.mem[p]

\* A read in nf_snapshot, racing stores included, comes back that way.
LEMMA ReadMemoryStep ==
  ASSUME ReaderInv, InSnapshot, NEW S \in SUBSET Page, NEW got \in [S -> Content],
         ReadMemory(S, got)
  PROVE  CameBack(S, got)
<1>1. PICK racing \in SUBSET S :
        /\ \A p \in S \ racing : got[p] = mem[p]
        /\ \E after \in [racing -> Content] :
             mem' = [p \in Page |-> IF p \in racing THEN after[p] ELSE mem[p]]
        /\ truth' = Touch(racing)
  BY DEF ReadMemory
<1>2. racing \in SUBSET Page /\ Session
  BY DEF ReaderInv
<1>3. \A p \in Page \ racing : mem'[p] = mem[p]
  BY <1>1
<1>4. \A p \in S \ (Now.dirty \cup racing) : got[p] = Now.mem[p]
  BY <1>1, <1>2 DEF Session
<1>5. \A p \in Page \ (Now.dirty \cup racing) : mem'[p] = Now.mem[p]
  BY <1>2, <1>3 DEF Session
<1> QED BY <1>1, <1>2, <1>4, <1>5 DEF CameBack

\* Reading a chunk preserves the invariant.
LEMMA ChunkReader ==
  ASSUME ReaderInv, TypeOK', ReadChunk
  PROVE  ReaderInv'
<1>1. /\ TypeOK /\ InSnapshot /\ phase # "dead" /\ Session /\ Now \in Moment
      /\ UNCHANGED <<nfVars, next, changed, readFail>>
      /\ next .. (limit' - 1) \subseteq Page
  <2>1. TypeOK /\ InSnapshot /\ phase # "dead"
    BY DEF ReaderInv, ReadChunk, InSnapshot
  <2>2. next .. (limit' - 1) \subseteq Page
    <3>1. /\ PageCount \in Nat \ {0} /\ ChunkPages \in Nat \ {0} /\ Page = 0 .. (PageCount - 1)
      BY SnapshotAssumption DEF SnapshotAssumption
    <3>2. /\ next \in 0 .. PageCount /\ next < PageCount
          /\ limit' = IF next + ChunkPages < PageCount THEN next + ChunkPages ELSE PageCount
      BY <2>1 DEF ReadChunk, TypeOK
    <3>3. limit' \in Int /\ limit' <= PageCount /\ next \in Nat /\ PageCount \in Nat
      BY <3>1, <3>2
    <3>4. PICK a \in Nat, b \in Int, c \in Nat : a = next /\ b = limit' /\ c = PageCount
      BY <3>3
    <3>5. b <= c
      BY <3>3, <3>4
    <3>6. a .. (b - 1) \subseteq 0 .. (c - 1)
      BY <3>5
    <3> QED BY <3>1, <3>4, <3>6
  <2> QED BY <2>1, <2>2, NowOf DEF ReadChunk, ReaderInv
<1>2. /\ live' = live /\ truncated' = truncated /\ readFail' = readFail /\ next' = next
      /\ \A q \in Page : Believed(q)' = Believed(q)
  BY <1>1 DEF nfVars, Believed
<1>3. CASE phase' = "pages"
  <2> DEFINE S == next .. (limit' - 1)
  <2>1. PICK got \in [S -> Content] : ReadMemory(S, got) /\ buf' = got
    BY <1>3 DEF ReadChunk
  <2>2. S \in SUBSET Page
    BY <1>1
  <2> HIDE DEF S
  <2>3. PICK racing \in SUBSET Page :
          /\ truth' = Touch(racing)
          /\ \A p \in S \ (Now.dirty \cup racing) : got[p] = Now.mem[p]
          /\ \A p \in Page \ (Now.dirty \cup racing) : mem'[p] = Now.mem[p]
    <3>1. CameBack(S, got)
      BY <1>1, <2>1, <2>2, ReadMemoryStep
    <3> QED BY <3>1 DEF CameBack
  <2>4. InSnapshot' /\ phase' # "dead"
    BY <1>3 DEF InSnapshot
  <2>5. /\ AllGood(file', synced', truth', live')
        /\ Ordered(file', nSnapshots') /\ MarkWritten' /\ Current'
        /\ Now'.mem = Now.mem /\ Now'.done = Now.done
        /\ Now.dirty \subseteq Now'.dirty /\ racing \subseteq Now'.dirty
    BY <1>1, <2>3, <2>4, StoreStep
  <2>6. \A p \in S \ Now'.dirty : buf'[p] = Now'.mem[p]
    BY <2>1, <2>3, <2>5
  <2>7. \A p \in Page \ Now'.dirty : mem'[p] = Now'.mem[p]
    BY <2>3, <2>5
  <2>8. Session'
    BY <1>1, <1>2, <2>5, <2>6, <2>7 DEF Session, S
  <2> QED BY <2>4, <2>5, <2>8 DEF ReaderInv
<1>4. CASE phase' = "fallback" /\ UNCHANGED <<mem, truth>>
  <2>1. InSnapshot' /\ phase' # "dead" /\ Now' = Now /\ phase' # "pages"
    BY <1>4 DEF InSnapshot, Now
  <2>2. Session'
    BY <1>1, <1>2, <1>4, <2>1 DEF Session
  <2>3. /\ AllGood(file', synced', truth', live')
        /\ Ordered(file', nSnapshots') /\ MarkWritten' /\ Current'
    BY <1>1, <1>2, <1>4 DEF ReaderInv, nfVars, MarkWritten, Current
  <2> QED BY <2>1, <2>2, <2>3 DEF ReaderInv
<1> QED BY <1>3, <1>4 DEF ReadChunk

---------------------------------------------------------------------------
(* Steps of the loop over the pages, and a kill.                           *)

\* Passing one page of the chunk to nf_snapshot_page preserves the invariant.
LEMMA WriteReader ==
  ASSUME ReaderInv, TypeOK', WritePage
  PROVE  ReaderInv'
<1> DEFINE c == buf[next]
<1>1. /\ TypeOK /\ InSnapshot /\ phase = "pages" /\ Session /\ SnapshotAssumption
      /\ next \in Page /\ c \in Content /\ next < limit /\ next \in Nat /\ limit \in Nat
      /\ next' = next + 1 /\ limit' = limit /\ SnapshotPage(next, c)
      /\ UNCHANGED <<mem, synced, live, nSnapshots, buf, readFail, truth>>
  <2>1. TypeOK /\ InSnapshot /\ phase = "pages" /\ SnapshotAssumption
    BY SnapshotAssumption DEF ReaderInv, WritePage, InSnapshot
  <2>2. PageCount \in Nat \ {0} /\ Page = 0 .. (PageCount - 1)
    BY SnapshotAssumption DEF SnapshotAssumption
  <2>3. next \in Page /\ c \in Content /\ next < limit /\ next \in Nat /\ limit \in Nat
    <3>1. /\ next \in 0 .. PageCount /\ limit \in 0 .. PageCount /\ next < limit
          /\ buf \in [DOMAIN buf -> Content] /\ next .. (limit - 1) \subseteq DOMAIN buf
      BY <2>1 DEF TypeOK
    <3>2. next \in Page /\ next \in Nat /\ limit \in Nat /\ next \in next .. (limit - 1)
      BY <2>2, <3>1
    <3> QED BY <3>1, <3>2
  <2> QED BY <2>1, <2>3 DEF ReaderInv, WritePage, Advance
<1>a. PICK p \in Page, d \in Content : p = next /\ d = c
  BY <1>1
<1>2. /\ truth \in Seq(Moment) /\ Now = truth[Len(truth)] /\ Now \in Moment /\ Now' = Now
  BY <1>1, NowOf DEF Now
<1>3. next \in Now.dirty \/ c = Now.mem[next]
  <2>1. next \in next .. (limit - 1)
    BY <1>1
  <2> QED BY <1>1, <2>1 DEF Session
<1> HIDE DEF c
<1>b. SnapshotPage(p, d) /\ (p \in Now.dirty \/ d = Now.mem[p]) /\ p \in Nat
  BY <1>1, <1>3, <1>a
<1>4. Suits(PageWrite(p, d), truth'[Len(truth)])
  BY <1>1, <1>2, <1>b DEF Suits, PageWrite
<1>5. truth' \in Seq(Moment) /\ More(truth, truth')
  BY <1>1, <1>2 DEF More
<1>6. /\ AllGood(file', synced', truth', live') /\ Ordered(file', nSnapshots')
      /\ MarkWritten' /\ Current'
      /\ \A q \in Page : q # p => Believed(q)' = Believed(q)
      /\ ~truncated' => Believed(p)' = d
  BY <1>1, <1>b, <1>4, <1>5, PageStep
<1>7. truncated => truncated'
  BY <1>1 DEF SnapshotPage, SkipPage, HitBudget, RecordPage
<1>8. ASSUME ~truncated', NEW q \in Page \ (Now.dirty \cup readFail), q < p + 1
      PROVE  Believed(q)' = Now.mem[q]
  <2>1. CASE q = p
    BY <1>b, <1>6, <1>8, <2>1
  <2>2. CASE q # p
    <3>1. q < next
      BY <1>a, <1>b, <1>8, <2>2, SnapshotAssumption DEF SnapshotAssumption
    <3> QED BY <1>1, <1>6, <1>7, <1>8, <2>2, <3>1 DEF Session
  <2> QED BY <2>1, <2>2
<1>9. \A q \in (next' .. (limit' - 1)) \ Now.dirty : buf'[q] = Now.mem[q]
  <2>1. \A q \in next' .. (limit' - 1) : q \in next .. (limit - 1)
    BY <1>1
  <2> QED BY <1>1, <2>1 DEF Session
<1>10. Session'
  BY <1>1, <1>a, <1>2, <1>8, <1>9 DEF Session
<1> QED BY <1>6, <1>10 DEF ReaderInv

\* The page-by-page fallback preserves the invariant, read or refused.
LEMMA FallbackReader ==
  ASSUME ReaderInv, TypeOK', FallbackPage
  PROVE  ReaderInv'
<1>1. /\ TypeOK /\ InSnapshot /\ phase = "fallback" /\ Session /\ SnapshotAssumption
      /\ next \in Page /\ next < limit /\ next \in Nat /\ limit \in Nat
      /\ next' = next + 1 /\ limit' = limit /\ phase' # "pages" /\ phase # "dead"
      /\ UNCHANGED <<synced, live, nSnapshots, buf>>
  <2>1. TypeOK /\ InSnapshot /\ phase = "fallback" /\ SnapshotAssumption
    BY SnapshotAssumption DEF ReaderInv, FallbackPage, InSnapshot
  <2>2. PageCount \in Nat \ {0} /\ Page = 0 .. (PageCount - 1)
    BY SnapshotAssumption DEF SnapshotAssumption
  <2>3. next \in Page /\ next < limit /\ next \in Nat /\ limit \in Nat
    <3>1. /\ next \in 0 .. PageCount /\ limit \in 0 .. PageCount /\ next < limit
      BY <2>1 DEF TypeOK
    <3> QED BY <2>2, <3>1
  <2> QED BY <2>1, <2>3 DEF ReaderInv, FallbackPage, Advance
<1>2. /\ truth \in Seq(Moment) /\ Now = truth[Len(truth)] /\ Now \in Moment /\ Len(truth) # 0
  BY <1>1, NowOf DEF Now
<1>3. CASE /\ \E got \in [{next} -> Content] :
                ReadMemory({next}, got) /\ SnapshotPage(next, got[next])
           /\ UNCHANGED readFail
  <2>1. PICK got \in [{next} -> Content] :
             ReadMemory({next}, got) /\ SnapshotPage(next, got[next])
    BY <1>3
  <2> DEFINE c == got[next]
             S == {next}
  <2>2. c \in Content /\ SnapshotPage(next, c) /\ S \in SUBSET Page /\ next \in S
    BY <1>1, <2>1
  <2>3. PICK racing \in SUBSET Page :
          /\ truth' = Touch(racing)
          /\ \A p \in S \ (Now.dirty \cup racing) : got[p] = Now.mem[p]
          /\ \A p \in Page \ (Now.dirty \cup racing) : mem'[p] = Now.mem[p]
    <3>1. CameBack(S, got)
      BY <1>1, <2>1, <2>2, ReadMemoryStep
    <3> QED BY <3>1 DEF CameBack
  <2>4. /\ truth' \in Seq(Moment) /\ More(truth, truth') /\ racing \subseteq truth'[Len(truth)].dirty
    BY <1>1, <1>2, <2>3, TouchGrows
  <2>5. /\ Now' = truth'[Len(truth)] /\ Now'.mem = Now.mem /\ Now'.done = Now.done
        /\ Now.dirty \subseteq Now'.dirty /\ racing \subseteq Now'.dirty
    <3>1. Len(truth) \in 1 .. Len(truth)
      BY <1>2
    <3> QED BY <1>2, <2>4, <3>1 DEF Now, More
  <2>6. next \in Now'.dirty \/ c = Now'.mem[next]
    BY <2>2, <2>3, <2>5
  <2> HIDE DEF c
  <2>a. PICK p \in Page, d \in Content : p = next /\ d = c
    BY <1>1, <2>2
  <2>b. SnapshotPage(p, d) /\ (p \in Now'.dirty \/ d = Now'.mem[p]) /\ p \in Nat
    BY <1>1, <2>2, <2>6, <2>a
  <2>7. Suits(PageWrite(p, d), truth'[Len(truth)])
    BY <2>5, <2>b DEF Suits, PageWrite
  <2>8. /\ AllGood(file', synced', truth', live') /\ Ordered(file', nSnapshots')
        /\ MarkWritten' /\ Current'
        /\ \A q \in Page : q # p => Believed(q)' = Believed(q)
        /\ ~truncated' => Believed(p)' = d
    BY <1>1, <2>b, <2>4, <2>7, PageStep
  <2>9. truncated => truncated'
    BY <2>2 DEF SnapshotPage, SkipPage, HitBudget, RecordPage
  <2>10. ASSUME ~truncated', NEW q \in Page \ (Now'.dirty \cup readFail), q < p + 1
         PROVE  Believed(q)' = Now'.mem[q]
    <3>1. CASE q = p
      BY <2>b, <2>8, <2>10, <3>1
    <3>2. CASE q # p
      <4>1. q < next /\ q \in Page \ (Now.dirty \cup readFail)
        BY <1>1, <2>a, <2>b, <2>5, <2>10, <3>2, SnapshotAssumption DEF SnapshotAssumption
      <4> QED BY <1>1, <2>5, <2>8, <2>9, <2>10, <3>2, <4>1 DEF Session
    <3> QED BY <3>1, <3>2
  <2>11. \A q \in Page \ Now'.dirty : mem'[q] = Now'.mem[q]
    BY <2>3, <2>5
  <2>12. Session'
    BY <1>1, <1>3, <2>a, <2>5, <2>10, <2>11 DEF Session
  <2> QED BY <2>8, <2>12 DEF ReaderInv
<1>4. CASE /\ readFail' = readFail \cup {next}
           /\ UNCHANGED <<mem, truth, file, shadow, valid, ramBytes, truncated, changed>>
  <2>1. Now' = Now /\ \A q \in Page : Believed(q)' = Believed(q)
    BY <1>4 DEF Now, Believed
  <2>2. ASSUME ~truncated, NEW q \in Page \ (Now.dirty \cup readFail'), q < next + 1
        PROVE  Believed(q)' = Now.mem[q]
    <3>1. q < next /\ q \in Page \ (Now.dirty \cup readFail)
      BY <1>1, <1>4, <2>2, SnapshotAssumption DEF SnapshotAssumption
    <3> QED BY <1>1, <2>1, <2>2, <3>1 DEF Session
  <2>3. Session'
    BY <1>1, <1>4, <2>1, <2>2 DEF Session
  <2>4. /\ AllGood(file', synced', truth', live')
        /\ Ordered(file', nSnapshots') /\ MarkWritten' /\ Current'
    BY <1>1, <1>4, <2>1 DEF ReaderInv, MarkWritten, Current
  <2> QED BY <2>3, <2>4 DEF ReaderInv
<1> QED BY <1>3, <1>4 DEF FallbackPage

\* Losing an unflushed tail of the file preserves the invariant.
LEMMA KilledReader ==
  ASSUME ReaderInv, TypeOK', Killed
  PROVE  ReaderInv'
<1>1. PICK n \in synced .. Len(file) : file' = SubSeq(file, 1, n)
  BY DEF Killed
<1>2. /\ file \in Seq(Rec) /\ synced \in 0 .. Len(file) /\ Len(file) \in Nat
      /\ phase' = "dead" /\ UNCHANGED <<synced, live, truth>>
  BY DEF ReaderInv, TypeOK, Killed
<1>3. ASSUME NEW k \in synced .. n
      PROVE  SubSeq(file', 1, k) = SubSeq(file, 1, k) /\ k \in synced .. Len(file)
  BY <1>1, <1>2, <1>3
<1>4. Len(file') = n
  BY <1>1, <1>2
<1>5. AllGood(file', synced', truth', live')
  BY <1>2, <1>3, <1>4 DEF AllGood, ReaderInv
<1> QED BY <1>2, <1>5 DEF ReaderInv, InSnapshot

\* A stuttering step preserves the invariant.
LEMMA QuietReader ==
  ASSUME ReaderInv, TypeOK', UNCHANGED vars
  PROVE  ReaderInv'
<1>1. Now' = Now /\ \A q \in Page : Believed(q)' = Believed(q)
  BY DEF Now, Believed, vars, nfVars
<1>2. Session => Session'
  BY <1>1 DEF Session, vars, nfVars, loopVars
<1>3. Current => Current'
  BY <1>1 DEF Current, vars, nfVars
<1> QED BY <1>2, <1>3 DEF ReaderInv, MarkWritten, InSnapshot, vars, nfVars, loopVars

---------------------------------------------------------------------------
(* The end of a snapshot, and the theorems.                                *)

\* Patching a SNAPMARK without changing its number keeps the order.
LEMMA OrderedPatch ==
  ASSUME NEW f \in Seq(Rec), NEW n \in Nat, Ordered(f, n), NEW m \in DOMAIN f,
         f[m].kind = "SNAPMARK", NEW r, r.kind = "SNAPMARK", r.seq = f[m].seq
  PROVE  Ordered([f EXCEPT ![m] = r], n)
<1> DEFINE g == [f EXCEPT ![m] = r]
<1>1. /\ DOMAIN g = DOMAIN f
      /\ \A i \in DOMAIN f : (g[i].kind = "SNAPMARK" <=> f[i].kind = "SNAPMARK")
                             /\ (g[i].kind = "SNAPMARK" => g[i].seq = f[i].seq)
  OBVIOUS
<1> HIDE DEF g
<1>2. Ordered(g, n)
  BY <1>1 DEF Ordered
<1> QED BY <1>2 DEF g

\* After the SNAPMARK of the current snapshot no other one follows.
LEMMA LastMark ==
  ASSUME NEW f \in Seq(Rec), NEW n \in Nat, Ordered(f, n), NEW m \in DOMAIN f,
         f[m] \in MarkRec, f[m].seq = n - 1
  PROVE  \A i \in DOMAIN f : i > m => f[i].kind # "SNAPMARK"
<1> SUFFICES ASSUME NEW i \in DOMAIN f, i > m, f[i].kind = "SNAPMARK" PROVE FALSE
  OBVIOUS
<1>1. f[m].kind = "SNAPMARK" /\ f[m].seq \in Nat
  BY DEF MarkRec
<1>2. f[i] \in MarkRec
  BY RecordKinds
<1>3. f[i].seq \in Nat
  BY <1>2 DEF MarkRec
<1>4. f[m].seq < f[i].seq /\ f[i].seq < n
  BY <1>1 DEF Ordered
<1> QED BY <1>1, <1>3, <1>4

\* What the reader of the file w makes of it at the end, before the patch.
EndOf(w) ==
  /\ w \in Trace /\ GoodTrace(w, truth, live) /\ Len(w.snapshots) = nSnapshots
  /\ \A p \in Page : LastImage(w)[p] = Believed(p)
  /\ truncated => Warned(w, "TRUNCATED")
  /\ readFail # {} => Warned(w, "INCOMPLETE")

WarnedFile == IF readFail = {} THEN file ELSE Append(file, Warn("INCOMPLETE"))

\* At the end of a snapshot, before the patch, the file holds all of it.
LEMMA BeforePatch ==
  ASSUME ReaderInv, EndSnapshot
  PROVE  /\ WarnedFile \in Seq(Rec) /\ Ordered(WarnedFile, nSnapshots)
         /\ EndOf(Load(WarnedFile))
         /\ MarkPos \in DOMAIN WarnedFile /\ WarnedFile[MarkPos] \in MarkRec
         /\ WarnedFile[MarkPos].seq = nSnapshots - 1
<1> DEFINE t == Load(file)
           r == Warn("INCOMPLETE")
<1>1. /\ TypeOK /\ Ordered(file, nSnapshots) /\ MarkWritten /\ Current /\ InSnapshot
      /\ AllGood(file, synced, truth, live) /\ Session /\ live /\ phase # "dead"
  BY DEF ReaderInv, EndSnapshot, InSnapshot, Session
<1>2. /\ file \in Seq(Rec) /\ synced \in 0 .. Len(file) /\ nSnapshots \in Nat /\ Len(file) \in Nat
  BY <1>1 DEF TypeOK
<1>3. GoodTrace(t, truth, live) /\ t \in Trace
  BY <1>1, <1>2, WholeFile DEF GoodTrace
<1>4. r \in Rec /\ r \in WarnRec /\ r.kind = "WARN" /\ r.about = "INCOMPLETE"
  BY WrittenRecords DEF SnapFlag, Warn, WarnRec
<1>5. /\ MarkPos \in DOMAIN file /\ file[MarkPos].kind = "SNAPMARK"
      /\ file[MarkPos].seq = nSnapshots - 1
  BY <1>1 DEF MarkWritten, MarkPos
<1>6. file[MarkPos] \in MarkRec
  BY <1>2, <1>5, RecordKinds
<1> HIDE DEF r
<1>7. CASE readFail = {}
  <2>1. WarnedFile = file
    BY <1>7 DEF WarnedFile
  <2>2. EndOf(t)
    BY <1>1, <1>3, <1>7 DEF EndOf, Current
  <2> QED BY <1>1, <1>2, <1>5, <1>6, <2>1, <2>2
<1>8. CASE readFail # {}
  <2>1. WarnedFile = Append(file, r)
    BY <1>8 DEF WarnedFile, r
  <2>2. WarnedFile \in Seq(Rec) /\ Ordered(WarnedFile, nSnapshots)
    BY <1>1, <1>2, <1>4, <2>1, OrderedAppend
  <2>3. Load(WarnedFile) = LoadRecord(t, r)
    BY <1>2, <1>4, <2>1, LoadAppend
  <2>4. /\ LoadRecord(t, r) \in Trace /\ LoadRecord(t, r).snapshots = t.snapshots
        /\ LastImage(LoadRecord(t, r)) = LastImage(t)
        /\ Warned(LoadRecord(t, r), "INCOMPLETE")
        /\ \A f : Warned(t, f) => Warned(LoadRecord(t, r), f)
    BY <1>3, <1>4, LoadWarn, WarnImage
  <2>5. GoodTrace(LoadRecord(t, r), truth, live)
    BY <1>1, <1>3, <1>4, WarnStaysGood DEF TypeOK
  <2>6. EndOf(LoadRecord(t, r))
    BY <1>1, <2>4, <2>5 DEF EndOf, Current
  <2>7. MarkPos \in DOMAIN WarnedFile /\ WarnedFile[MarkPos] = file[MarkPos]
    <3> DEFINE m == MarkPos
    <3>1. m \in 1 .. Len(file)
      BY <1>2, <1>5
    <3> HIDE DEF m
    <3>2. m \in DOMAIN Append(file, r) /\ Append(file, r)[m] = file[m]
      BY <1>2, <3>1
    <3> QED BY <2>1, <3>2 DEF m
  <2> QED BY <1>5, <1>6, <2>2, <2>3, <2>6, <2>7
<1> QED BY <1>7, <1>8

\* h2 is h with its last moment closed.
Closed(h, h2) ==
  LET n == Len(h)
  IN /\ n # 0 /\ Len(h2) = n
     /\ \A k \in 1 .. (n - 1) : h2[k] = h[k]
     /\ h2[n].mem = h[n].mem /\ h2[n].dirty = h[n].dirty /\ h2[n].done

\* EndSnapshot closes the current moment and no other.
LEMMA TruthCloses ==
  ASSUME TypeOK, EndSnapshot
  PROVE  truth' \in Seq(Moment) /\ Closed(truth, truth')
<1> DEFINE n == Len(truth)
           e == [truth[n] EXCEPT !.done = TRUE]
<1>1. InSnapshot /\ truth \in Seq(Moment)
  BY DEF EndSnapshot, InSnapshot, TypeOK
<1>2. n # 0 /\ n \in 1 .. n /\ truth[n] \in Moment /\ n \in Nat
  BY <1>1, NowOf
<1>3. truth' = [truth EXCEPT ![n] = e]
  BY DEF EndSnapshot
<1>4. e.mem = truth[n].mem /\ e.dirty = truth[n].dirty /\ e.done
  BY <1>2 DEF Moment
<1>5. truth' \in Seq(Moment) /\ Len(truth') = n
  BY <1>1, EndTruth
<1> HIDE DEF e
<1>6. truth'[n] = e /\ \A k \in 1 .. (n - 1) : truth'[k] = truth[k]
  BY <1>1, <1>2, <1>3
<1> QED BY <1>2, <1>4, <1>5, <1>6 DEF Closed

\* Patching the last SNAPMARK and closing its moment keeps the trace good, when
\* the flags it gets admit what was lost and their absence promises the truth.
LEMMA ClosedStaysGood ==
  ASSUME NEW h \in Seq(Moment), NEW h2 \in Seq(Moment), Closed(h, h2),
         NEW w \in Trace, GoodTrace(w, h, TRUE), NEW u \in Trace, NEW r, SameBut(w, u, r),
         Len(w.snapshots) = Len(h), r.seq = Len(h) - 1, NEW alive,
         r.flags = {} => \A p \in Page \ h[Len(h)].dirty : LastImage(w)[p] = h[Len(h)].mem[p],
         \A f \in r.flags : Warned(w, f) /\ (f = "TRUNCATED" => ~alive)
  PROVE  GoodTrace(u, h2, alive)
<1> DEFINE n == Len(h)
<1>1. /\ n \in Nat /\ n # 0 /\ Len(h2) = n /\ n \in 1 .. n
      /\ Len(w.snapshots) = n /\ Len(u.snapshots) = n
      /\ DOMAIN h = 1 .. n /\ DOMAIN h2 = 1 .. n
      /\ DOMAIN w.snapshots = 1 .. n /\ DOMAIN u.snapshots = 1 .. n
  BY DEF Closed, SameBut, Trace
<1>2. /\ u.warnings = w.warnings
      /\ \A k \in 1 .. (n - 1) : u.snapshots[k] = w.snapshots[k]
      /\ u.snapshots[n].pages = w.snapshots[n].pages
      /\ u.snapshots[n].seq = n - 1 /\ u.snapshots[n].flags = r.flags
  BY <1>1 DEF SameBut
<1>3. /\ \A k \in 1 .. n : Image(u, k) = Image(w, k)
      /\ LastImage(w) = Image(w, n)
  <2>1. w.snapshots # << >>
    BY <1>1
  <2> QED BY <1>1, <2>1, PatchImages DEF LastImage
<1>4. /\ \A k \in 1 .. (n - 1) : h2[k] = h[k]
      /\ h2[n].mem = h[n].mem /\ h2[n].dirty = h[n].dirty
  BY DEF Closed
<1>5. /\ r.flags = {} => \A p \in Page \ h[n].dirty : Image(w, n)[p] = h[n].mem[p]
      /\ \A f \in r.flags : Warned(w, f) /\ (f = "TRUNCATED" => ~alive)
  BY <1>3
<1> HIDE DEF n
<1>6. \A k \in 1 .. n : k = n \/ k \in 1 .. (n - 1)
  BY <1>1
<1>7. Genuine(u, h2)
  <2> SUFFICES ASSUME NEW k \in DOMAIN u.snapshots
               PROVE  /\ k \in DOMAIN h2 /\ u.snapshots[k].seq = k - 1
                      /\ \A q \in DOMAIN u.snapshots[k].pages \ h2[k].dirty :
                           u.snapshots[k].pages[q] = h2[k].mem[q]
    BY DEF Genuine
  <2>1. /\ w.snapshots[k].seq = k - 1
        /\ \A q \in DOMAIN w.snapshots[k].pages \ h[k].dirty :
             w.snapshots[k].pages[q] = h[k].mem[q]
    BY <1>1 DEF GoodTrace, Genuine
  <2>2. CASE k = n
    BY <1>1, <1>2, <1>4, <2>1, <2>2
  <2>3. CASE k \in 1 .. (n - 1)
    BY <1>1, <1>2, <1>4, <2>1, <2>3
  <2> QED BY <1>1, <1>6, <2>2, <2>3
<1>8. Exact(u, h2)
  <2> SUFFICES ASSUME NEW k \in DOMAIN h2, h2[k].done
               PROVE  /\ k \in DOMAIN u.snapshots
                      /\ u.snapshots[k].flags = {} =>
                           \A p \in Page \ h2[k].dirty : Image(u, k)[p] = h2[k].mem[p]
    BY DEF Exact
  <2>1. CASE k = n
    BY <1>1, <1>2, <1>3, <1>4, <1>5, <2>1
  <2>2. CASE k \in 1 .. (n - 1)
    <3>1. u.snapshots[k] = w.snapshots[k] /\ h2[k] = h[k] /\ Image(u, k) = Image(w, k)
      BY <1>1, <1>2, <1>3, <1>4, <2>2
    <3> QED BY <1>1, <3>1 DEF GoodTrace, Exact
  <2> QED BY <1>1, <1>6, <2>1, <2>2
<1>9. Told(u, h2, alive)
  <2> SUFFICES ASSUME NEW k \in DOMAIN h2, h2[k].done, NEW f \in u.snapshots[k].flags
               PROVE  Warned(u, f) /\ (f = "TRUNCATED" => k = Len(h2) /\ ~alive)
    BY DEF Told
  <2>1. CASE k = n
    BY <1>1, <1>2, <1>5, <2>1 DEF Warned
  <2>2. CASE k \in 1 .. (n - 1)
    <3>1. f \in w.snapshots[k].flags /\ h[k].done /\ k \in DOMAIN h
      BY <1>1, <1>2, <1>4, <2>2
    <3>2. Warned(w, f) /\ f # "TRUNCATED"
      BY <3>1 DEF GoodTrace, Told
    <3> QED BY <1>2, <3>2 DEF Warned
  <2> QED BY <1>1, <1>6, <2>1, <2>2
<1> QED BY <1>7, <1>8, <1>9 DEF GoodTrace

\* The end of nf_snapshot preserves the invariant.
LEMMA EndReader ==
  ASSUME ReaderInv, TypeOK', EndSnapshot
  PROVE  ReaderInv'
<1> DEFINE f == WarnedFile
           w == Load(f)
           r == Mark(nSnapshots - 1, changed, Flags)
           m == MarkPos
           u == Load(file')
<1>1. /\ TypeOK /\ InSnapshot /\ Session /\ live /\ Now \in Moment
      /\ truth \in Seq(Moment) /\ Len(truth) = nSnapshots /\ nSnapshots \in Nat
      /\ Now = truth[nSnapshots]
  <2>1. TypeOK /\ InSnapshot /\ Session /\ live
    BY DEF ReaderInv, EndSnapshot, InSnapshot, Session
  <2> QED BY <2>1, NowOf
<1>2. /\ f \in Seq(Rec) /\ Ordered(f, nSnapshots) /\ EndOf(w)
      /\ m \in DOMAIN f /\ f[m] \in MarkRec /\ f[m].seq = nSnapshots - 1
  BY BeforePatch
<1>3. file' = [f EXCEPT ![m] = r]
  BY DEF EndSnapshot, WarnedFile
<1>4. r \in Rec /\ r.kind = "SNAPMARK" /\ r.seq = nSnapshots - 1 /\ r.flags = Flags
  BY <1>1, EndMark DEF Mark
<1>5. r \in MarkRec
  BY <1>4, RecordKinds
<1> HIDE DEF f, r, m
<1>6. \A i \in DOMAIN f : i > m => f[i].kind # "SNAPMARK"
  BY <1>1, <1>2, LastMark
<1>7. u \in Trace /\ SameBut(w, u, r)
  BY <1>2, <1>3, <1>5, <1>6, LoadPatch
<1>8. w \in Trace /\ GoodTrace(w, truth, TRUE) /\ Len(w.snapshots) = nSnapshots
  BY <1>1, <1>2 DEF EndOf, TypeOK
<1>9. truth' \in Seq(Moment) /\ Closed(truth, truth')
  BY <1>1, TruthCloses
<1>10. /\ live' => ~truncated /\ UNCHANGED <<shadow, valid>>
       /\ phase = "chunk" /\ (next >= PageCount \/ truncated)
       /\ truncated' = truncated /\ nSnapshots' = nSnapshots /\ phase' = "guest"
       /\ synced' = Len(file') /\ readFail' = readFail
  <2>1. live' => ~truncated /\ UNCHANGED <<shadow, valid>>
    <3>1. CASE truncated
      BY <3>1 DEF EndSnapshot
    <3>2. CASE ~truncated
      BY <3>2 DEF EndSnapshot
    <3> QED BY <3>1, <3>2
  <2> QED BY <2>1 DEF EndSnapshot
<1>11. ASSUME r.flags = {}, NEW p \in Page \ Now.dirty
       PROVE  LastImage(w)[p] = Now.mem[p]
  <2>1. ~truncated /\ readFail = {}
    BY <1>4, <1>11 DEF Flags
  <2>2. p < next
    <3>1. next >= PageCount /\ next \in 0 .. PageCount
      BY <1>1, <1>10, <2>1 DEF TypeOK
    <3> QED BY <3>1, SnapshotAssumption DEF SnapshotAssumption
  <2>3. Believed(p) = Now.mem[p]
    BY <1>1, <1>11, <2>1, <2>2 DEF Session
  <2> QED BY <1>2, <2>3 DEF EndOf
<1>12. ASSUME NEW fl \in r.flags
       PROVE  Warned(w, fl) /\ (fl = "TRUNCATED" => ~live')
  <2>1. \/ fl = "TRUNCATED" /\ truncated
        \/ fl = "INCOMPLETE" /\ readFail # {}
    BY <1>4 DEF Flags
  <2> QED BY <1>2, <1>10, <2>1 DEF EndOf
<1>13. GoodTrace(u, truth', live')
  <2>1. \A p \in Page \ truth[Len(truth)].dirty : r.flags = {} =>
           LastImage(w)[p] = truth[Len(truth)].mem[p]
    BY <1>1, <1>11
  <2>2. Len(w.snapshots) = Len(truth) /\ r.seq = Len(truth) - 1
    BY <1>1, <1>4, <1>8
  <2> HIDE DEF w, u
  <2> QED BY <1>1, <1>7, <1>8, <1>9, <1>12, <2>1, <2>2, ClosedStaysGood
<1>14. AllGood(file', synced', truth', live')
  <2>1. file' \in Seq(Rec) /\ Len(file') \in Nat /\ SubSeq(file', 1, Len(file')) = file'
    <3>1. file' \in Seq(Rec)
      BY DEF TypeOK
    <3> QED BY <3>1
  <2>2. \A l \in Nat : \A k \in l .. l : k = l
    OBVIOUS
  <2> QED BY <1>10, <1>13, <2>1, <2>2 DEF AllGood
<1>15. Ordered(file', nSnapshots')
  <2>1. f[m].kind = "SNAPMARK"
    BY <1>2 DEF MarkRec
  <2> QED BY <1>1, <1>2, <1>3, <1>4, <1>10, <2>1, OrderedPatch
<1>16. Current'
  <2>1. Len(u.snapshots) = nSnapshots /\ u.warnings = w.warnings /\ LastImage(u) = LastImage(w)
    BY <1>7, <1>8, PatchImages DEF SameBut
  <2>2. live' => \A p \in Page : Believed(p)' = Believed(p)
    BY <1>10 DEF Believed
  <2>3. live' => \A p \in Page : Believed(p)' = LastImage(u)[p]
    BY <1>2, <2>1, <2>2 DEF EndOf
  <2>4. truncated' => Warned(u, "TRUNCATED")
    BY <1>2, <1>10, <2>1 DEF EndOf, Warned
  <2> QED BY <1>10, <2>1, <2>3, <2>4 DEF Current
<1>17. ~InSnapshot' /\ MarkWritten'
  BY <1>10 DEF InSnapshot, MarkWritten
<1> QED BY <1>14, <1>15, <1>16, <1>17 DEF ReaderInv

\* Every step preserves the invariant.
LEMMA NextReader == ReaderInv /\ [Next]_vars => ReaderInv'
<1> SUFFICES ASSUME ReaderInv, [Next]_vars PROVE ReaderInv'
  OBVIOUS
<1>1. TypeOK'
  BY NextType DEF ReaderInv
<1>2. CASE \E p \in Page, c \in Content : Store(p, c)
  BY <1>1, <1>2, StoreReader
<1> QED
  BY <1>1, <1>2, BeginReader, ChunkReader, WriteReader, FallbackReader, EndReader,
     KilledReader, QuietReader DEF Next

\* The invariant holds in every behaviour.
LEMMA ReaderCorrect == Spec => []ReaderInv
  BY InitReader, NextReader, PTL DEF Spec

\* The three promises of the file follow from it.
LEMMA ReaderImplies ==
  ReaderInv => RecordedPagesAreGenuine /\ UnflaggedSnapshotsAreExact /\ LossIsReported
<1> SUFFICES ASSUME ReaderInv
             PROVE  RecordedPagesAreGenuine /\ UnflaggedSnapshotsAreExact /\ LossIsReported
  OBVIOUS
<1>1. /\ file \in Seq(Rec) /\ synced \in 0 .. Len(file) /\ AllGood(file, synced, truth, live)
  BY DEF ReaderInv, TypeOK
<1>2. GoodTrace(Load(file), truth, live)
  BY <1>1, WholeFile
<1>3. RecordedPagesAreGenuine
  BY <1>2 DEF GoodTrace, Genuine, RecordedPagesAreGenuine
<1>4. UnflaggedSnapshotsAreExact
  BY <1>2 DEF GoodTrace, Genuine, Exact, UnflaggedSnapshotsAreExact, Differs, States, Image
<1>5. LossIsReported
  BY <1>2 DEF GoodTrace, Told, Warned, LossIsReported
<1> QED BY <1>3, <1>4, <1>5

\* What a snapshot lists as changed is the memory of its instant, even if the
\* snapshot was truncated, incomplete or cut off by a kill; a page may only differ
\* if another vCPU stored to it meanwhile.
THEOREM PagesAreGenuine == Spec => []RecordedPagesAreGenuine
  BY ReaderCorrect, ReaderImplies, PTL

\* A finished snapshot without a flag lets the reader rebuild the guest memory of
\* its instant, pages stored to meanwhile apart, also after a kill.
THEOREM SnapshotsAreExact == Spec => []UnflaggedSnapshotsAreExact
  BY ReaderCorrect, ReaderImplies, PTL

\* A flagged snapshot has its WARN record, and truncation ends the series.
THEOREM LossIsTold == Spec => []LossIsReported
  BY ReaderCorrect, ReaderImplies, PTL

---------------------------------------------------------------------------
(* The recording implements RamHistory: which images the reader accepts.   *)

\* The SNAPMARKs of f, and those the reader may take for an observation when the
\* history of the snapshots is h: no flag, and not a placeholder.
Marks(f)   == {i \in DOMAIN f : f[i].kind = "SNAPMARK"}
Good(f, h) == {i \in Marks(f) : f[i].flags = {} /\ h[f[i].seq + 1].done}
\* e is the last record before another SNAPMARK or the end of the file.
Border(f, e)   == e = Len(f) \/ e + 1 \in Marks(f)
IsEnd(f, i, e) == ((i + 1) .. e) \cap Marks(f) = {} /\ Border(f, e)
SnapEnd(f, i)  == CHOOSE e \in i .. Len(f) : IsEnd(f, i, e)
\* The place of i among the positions of G, and the n-th of them.
Rank(G, i) == Cardinality({j \in G : j <= i})
Nth(G, n)  == CHOOSE i \in G : Rank(G, i) = n
\* The images of the good snapshots.
Observed(f, h) == [n \in 1 .. Cardinality(Good(f, h)) |->
                     ImageUpTo(f, SnapEnd(f, Nth(Good(f, h), n)))]

\* This is what the refinement calls the observed history,
LEMMA HistoryIsObserved == ObservedHistory = Observed(file, truth)
  BY DEF ObservedHistory, Observed, Good, Marks, Nth, Rank, SnapEnd, IsEnd, Border

\* also after a step.
LEMMA NextHistoryIsObserved == ObservedHistory' = Observed(file', truth')
  BY DEF ObservedHistory, Observed, Good, Marks, Nth, Rank, SnapEnd, IsEnd, Border

\* A set of positions has an element of every rank.
LEMMA RankExists ==
  ASSUME NEW m \in Nat, NEW G \in SUBSET (1 .. m)
  PROVE  /\ IsFiniteSet(G) /\ Cardinality(G) \in Nat
         /\ \A n \in 1 .. Cardinality(G) : \E i \in G : Rank(G, i) = n
<1> DEFINE Ranked(H) == \A n \in 1 .. Cardinality(H) : \E i \in H : Rank(H, i) = n
           S == {k \in Nat : \A H \in SUBSET (1 .. k) : Ranked(H)}
<1>1. \A k \in Nat : \A H \in SUBSET (1 .. k) : IsFiniteSet(H) /\ Cardinality(H) \in Nat
  <2> SUFFICES ASSUME NEW k \in Nat, NEW H \in SUBSET (1 .. k)
               PROVE  IsFiniteSet(H) /\ Cardinality(H) \in Nat
    OBVIOUS
  <2>1. IsFiniteSet(1 .. k)
    BY FS_Interval
  <2>2. IsFiniteSet(H)
    BY <2>1, FS_Subset
  <2> QED BY <2>2, FS_CardinalityType
<1>2. 0 \in S
  <2>1. ASSUME NEW H \in SUBSET (1 .. 0) PROVE Ranked(H)
    <3>1. H = {}
      OBVIOUS
    <3>2. Cardinality(H) = 0
      BY <3>1, FS_EmptySet
    <3> QED BY <3>2
  <2> QED BY <2>1
<1>3. ASSUME NEW k \in Nat, k \in S PROVE k + 1 \in S
  <2>1. ASSUME NEW H \in SUBSET (1 .. (k + 1)), NEW n \in 1 .. Cardinality(H)
        PROVE  \E i \in H : Rank(H, i) = n
    <3> DEFINE B == H \ {k + 1}
    <3>1. B \in SUBSET (1 .. k) /\ Ranked(B)
      BY <1>3
    <3>2. IsFiniteSet(H) /\ Cardinality(H) \in Nat /\ IsFiniteSet(B) /\ Cardinality(B) \in Nat
      <4> HIDE DEF B
      <4>1. k + 1 \in Nat
        OBVIOUS
      <4> QED BY <1>1, <2>1, <3>1, <4>1
    <3>3. CASE k + 1 \notin H
      BY <3>1, <3>3
    <3>4. CASE k + 1 \in H
      <4>1. Cardinality(B) = Cardinality(H) - 1
        BY <3>2, <3>4, FS_RemoveElement
      <4>2. CASE n = Cardinality(H)
        <5>1. \A j \in H : j <= k + 1
          BY <2>1
        <5>2. {j \in H : j <= k + 1} = H
          BY <5>1, Zenon
        <5> QED BY <3>4, <4>2, <5>2 DEF Rank
      <4>3. CASE n # Cardinality(H)
        <5>1. n \in 1 .. Cardinality(B)
          BY <3>2, <4>1, <4>3
        <5>2. PICK i \in B : Rank(B, i) = n
          BY <3>1, <5>1
        <5>3. i \in H /\ {j \in H : j <= i} = {j \in B : j <= i}
          BY <3>1
        <5> QED BY <5>2, <5>3 DEF Rank
      <4> QED BY <4>2, <4>3
    <3> QED BY <3>3, <3>4
  <2> QED BY <1>3, <2>1
<1> HIDE DEF S
<1>4. Nat \subseteq S
  BY <1>2, <1>3, NatSetInduction
<1>5. Ranked(G)
  BY <1>4 DEF S
<1> QED BY <1>1, <1>5

\* Elements of one rank are one element.
LEMMA RankUnique ==
  ASSUME NEW m \in Nat, NEW G \in SUBSET (1 .. m), NEW i \in G, NEW k \in G,
         Rank(G, i) = Rank(G, k)
  PROVE  i = k
<1>1. ASSUME NEW a \in G, NEW b \in G, a < b, Rank(G, a) = Rank(G, b) PROVE FALSE
  <2> DEFINE A == {j \in G : j <= a}
             B == {j \in G : j <= b}
  <2>1. IsFiniteSet(B)
    BY RankExists, FS_Subset
  <2>2. A \in SUBSET B /\ b \in B /\ b \notin A
    <3>1. a \in Int /\ b \in Int /\ G \subseteq Int /\ a < b
      BY <1>1
    <3>2. b \in B
      BY <3>1
    <3>3. b \notin A
      BY <3>1
    <3>4. \A j \in G : j <= a => j <= b
      BY <3>1
    <3> QED BY <3>2, <3>3, <3>4
  <2>3. A = B
    BY <1>1, <2>1, <2>2, FS_Subset DEF Rank
  <2> QED BY <2>2, <2>3
<1>2. i \in Int /\ k \in Int
  OBVIOUS
<1>3. i < k \/ k < i \/ i = k
  BY <1>2
<1> QED BY <1>1, <1>3

\* So the n-th position is the one of rank n.
LEMMA NthIs ==
  ASSUME NEW m \in Nat, NEW G \in SUBSET (1 .. m), NEW n \in 1 .. Cardinality(G)
  PROVE  Nth(G, n) \in G /\ Rank(G, Nth(G, n)) = n
  BY RankExists DEF Nth

\* A new greatest position is the last one, and the others keep their places.
LEMMA NthOfMore ==
  ASSUME NEW m \in Nat, NEW G \in SUBSET (1 .. m), NEW x \in Nat, x > m
  PROVE  /\ Cardinality(G \cup {x}) = Cardinality(G) + 1
         /\ \A n \in 1 .. Cardinality(G) : Nth(G \cup {x}, n) = Nth(G, n)
         /\ Nth(G \cup {x}, Cardinality(G) + 1) = x
<1> DEFINE H == G \cup {x}
<1>1. H \in SUBSET (1 .. x) /\ IsFiniteSet(G) /\ Cardinality(G) \in Nat /\ x \notin G /\ x \in H
  <2>1. \A j \in G : j \in 1 .. x /\ j # x
    OBVIOUS
  <2>2. x \in 1 .. x
    OBVIOUS
  <2> QED BY <2>1, <2>2, RankExists
<1>2. Cardinality(H) = Cardinality(G) + 1
  BY <1>1, FS_AddElement
<1>3. ASSUME NEW i \in G PROVE Rank(H, i) = Rank(G, i) /\ i \in H
  <2>1. {j \in H : j <= i} = {j \in G : j <= i}
    OBVIOUS
  <2> QED BY <2>1 DEF Rank
<1>4. Rank(H, x) = Cardinality(G) + 1
  <2>1. \A j \in H : j <= x
    BY <1>1
  <2>2. {j \in H : j <= x} = H
    BY <2>1, Zenon
  <2> QED BY <1>2, <2>2 DEF Rank
<1> HIDE DEF H
<1>5. ASSUME NEW n \in 1 .. Cardinality(G) PROVE Nth(H, n) = Nth(G, n)
  <2>1. Nth(G, n) \in G /\ Rank(G, Nth(G, n)) = n
    BY NthIs
  <2>2. n \in 1 .. Cardinality(H)
    BY <1>1, <1>2
  <2>3. Nth(H, n) \in H /\ Rank(H, Nth(H, n)) = n
    BY <1>1, <2>2, NthIs
  <2>4. Nth(G, n) \in H /\ Rank(H, Nth(G, n)) = n
    BY <1>3, <2>1
  <2> QED BY <1>1, <2>3, <2>4, RankUnique
<1>6. Nth(H, Cardinality(G) + 1) = x
  <2>1. Cardinality(G) + 1 \in 1 .. Cardinality(H)
    BY <1>1, <1>2
  <2>2. Nth(H, Cardinality(G) + 1) \in H /\ Rank(H, Nth(H, Cardinality(G) + 1)) = Cardinality(G) + 1
    BY <1>1, <2>1, NthIs
  <2> QED BY <1>1, <1>4, <2>2, RankUnique
<1> QED BY <1>2, <1>5, <1>6 DEF H

\* The records of the snapshot at i end before the next SNAPMARK, so before any border.
LEMMA EndIs ==
  ASSUME NEW f \in Seq(Rec), NEW i \in Marks(f), NEW s \in i .. Len(f), Border(f, s)
  PROVE  /\ SnapEnd(f, i) \in i .. s /\ IsEnd(f, i, SnapEnd(f, i))
         /\ \A e \in i .. Len(f) : IsEnd(f, i, e) => e = SnapEnd(f, i)
<1> DEFINE T == {e \in i .. s : Border(f, e)}
<1>1. i \in Nat /\ Len(f) \in Nat /\ s \in Nat /\ DOMAIN f = 1 .. Len(f) /\ i \in 1 .. Len(f)
  BY DEF Marks
<1>2. T \subseteq Nat /\ s \in T
  BY <1>1
<1>3. PICK e \in T : \A y \in T : <<y, e>> \notin Less
  BY <1>2, LessIsWellFounded, WFMin
<1>4. e \in i .. s /\ e \in i .. Len(f) /\ Border(f, e) /\ e \in Nat
  BY <1>1, <1>3
<1>5. ASSUME NEW j \in ((i + 1) .. e) \cap Marks(f) PROVE FALSE
  <2>1. j - 1 \in i .. s /\ (j - 1) + 1 = j /\ j - 1 \in Nat /\ j - 1 < e
    BY <1>1, <1>4
  <2>2. j - 1 \in T
    BY <2>1 DEF Border
  <2> QED BY <1>3, <1>4, <2>1, <2>2 DEF Less
<1>6. IsEnd(f, i, e)
  BY <1>4, <1>5 DEF IsEnd
<1>7. ASSUME NEW a \in i .. Len(f), NEW b \in i .. Len(f), IsEnd(f, i, a), IsEnd(f, i, b), a < b
      PROVE  FALSE
  <2>1. a + 1 \in Marks(f)
    <3>1. Border(f, a)
      BY <1>7 DEF IsEnd
    <3>2. a # Len(f)
      <4>1. b \in i .. Len(f) /\ i \in Nat /\ Len(f) \in Nat
        BY <1>1
      <4>2. b <= Len(f) /\ ~(Len(f) < b)
        BY <4>1
      <4> QED BY <1>7, <4>2
    <3> QED BY <3>1, <3>2 DEF Border
  <2>2. a + 1 \in (i + 1) .. b
    BY <1>1, <1>7
  <2> QED BY <1>7, <2>1, <2>2 DEF IsEnd
<1>8. SnapEnd(f, i) \in i .. Len(f) /\ IsEnd(f, i, SnapEnd(f, i))
  BY <1>4, <1>6 DEF SnapEnd
<1>9. ASSUME NEW a \in i .. Len(f), IsEnd(f, i, a) PROVE a = e
  <2>1. a < e \/ e < a \/ a = e
    BY <1>1, <1>4
  <2> QED BY <1>4, <1>6, <1>7, <1>9, <2>1
<1>10. SnapEnd(f, i) = e
  BY <1>8, <1>9
<1> QED BY <1>4, <1>8, <1>9, <1>10

\* f and g have the same first s records, and what follows in each is nothing or
\* a SNAPMARK.
SameUpTo(f, g, s) ==
  /\ s \in 0 .. Len(f) /\ s \in 0 .. Len(g)
  /\ \A i \in 1 .. s : g[i] = f[i]
  /\ Border(f, s) /\ Border(g, s)

\* Then they have the same SNAPMARKs and the same images up to s.
LEMMA SamePart ==
  ASSUME NEW f \in Seq(Rec), NEW g \in Seq(Rec), NEW s, SameUpTo(f, g, s)
  PROVE  /\ \A i \in 1 .. s : i \in Marks(f) <=> i \in Marks(g)
         /\ \A i \in Marks(f) : i <= s =>
              /\ SnapEnd(g, i) = SnapEnd(f, i)
              /\ ImageUpTo(g, SnapEnd(g, i)) = ImageUpTo(f, SnapEnd(f, i))
<1>1. /\ s \in Nat /\ Len(f) \in Nat /\ Len(g) \in Nat /\ s <= Len(f) /\ s <= Len(g)
      /\ DOMAIN f = 1 .. Len(f) /\ DOMAIN g = 1 .. Len(g)
  BY DEF SameUpTo
<1>2. \A i \in 1 .. s : i \in Marks(f) <=> i \in Marks(g)
  BY <1>1 DEF SameUpTo, Marks
<1>3. ASSUME NEW i \in Marks(f), i <= s
      PROVE  /\ SnapEnd(g, i) = SnapEnd(f, i)
             /\ ImageUpTo(g, SnapEnd(g, i)) = ImageUpTo(f, SnapEnd(f, i))
  <2> DEFINE e == SnapEnd(f, i)
  <2>1. i \in 1 .. s /\ i \in Marks(g) /\ s \in i .. Len(f) /\ s \in i .. Len(g) /\ i \in Nat
    <3>1. i \in 1 .. s
      BY <1>1, <1>3 DEF Marks
    <3> QED BY <1>1, <1>2, <1>3, <3>1
  <2>2. e \in i .. s /\ IsEnd(f, i, e)
    BY <2>1, <1>3, EndIs DEF SameUpTo
  <2> HIDE DEF e
  <2>3. e \in Nat /\ e <= s /\ i <= e /\ e \in i .. Len(g) /\ e \in i .. Len(f)
    BY <1>1, <2>1, <2>2
  <2>4. ((i + 1) .. e) \cap Marks(g) = {}
    <3>1. ASSUME NEW j \in (i + 1) .. e PROVE j \notin Marks(g)
      <4>1. j \in 1 .. s
        BY <1>1, <2>1, <2>3, <3>1
      <4>2. j \notin Marks(f)
        BY <2>2, <3>1 DEF IsEnd
      <4> QED BY <1>2, <4>1, <4>2
    <3> QED BY <3>1
  <2>5. Border(g, e)
    <3>1. CASE e = s
      BY <3>1 DEF SameUpTo
    <3>2. CASE e # s
      <4>1. e < s /\ e + 1 \in 1 .. s
        BY <1>1, <2>3, <3>2
      <4>3. e # Len(f)
        BY <1>1, <4>1
      <4>2. e + 1 \in Marks(f)
        BY <2>2, <4>3 DEF IsEnd, Border
      <4> QED BY <1>2, <4>1, <4>2 DEF Border
    <3> QED BY <3>1, <3>2
  <2>6. SnapEnd(g, i) = e
    BY <2>1, <2>3, <2>4, <2>5, EndIs DEF IsEnd, SameUpTo
  <2>7. SubSeq(g, 1, e) = SubSeq(f, 1, e)
    <3>1. \A k \in 1 .. e : g[k] = f[k]
      BY <1>1, <2>3 DEF SameUpTo
    <3> QED BY <3>1, <1>1, <2>3
  <2> QED BY <2>6, <2>7 DEF e, ImageUpTo
<1> QED BY <1>2, <1>3

\* Good snapshots are positions of the file.
LEMMA GoodPositions ==
  ASSUME NEW f \in Seq(Rec), NEW h
  PROVE  Good(f, h) \in SUBSET (1 .. Len(f)) /\ Len(f) \in Nat /\ Good(f, h) \subseteq Marks(f)
<1>1. DOMAIN f = 1 .. Len(f) /\ Len(f) \in Nat
  OBVIOUS
<1> QED BY <1>1 DEF Good, Marks

\* If the good snapshots are the same, among the first s records, then so is what
\* was observed.
LEMMA ObservedSame ==
  ASSUME NEW f \in Seq(Rec), NEW g \in Seq(Rec), NEW s, SameUpTo(f, g, s), NEW h, NEW h2,
         Good(f, h) \subseteq 1 .. s, Good(g, h2) = Good(f, h)
  PROVE  Observed(g, h2) = Observed(f, h)
<1> DEFINE G == Good(f, h)
<1>1. /\ G \in SUBSET (1 .. Len(f)) /\ Len(f) \in Nat /\ s \in Nat
      /\ \A i \in G : i \in Marks(f) /\ i <= s
  BY GoodPositions DEF SameUpTo
<1> HIDE DEF G
<1>2. ASSUME NEW n \in 1 .. Cardinality(G)
      PROVE  ImageUpTo(g, SnapEnd(g, Nth(G, n))) = ImageUpTo(f, SnapEnd(f, Nth(G, n)))
  <2>1. Nth(G, n) \in G
    BY <1>1, NthIs
  <2> QED BY <1>1, <2>1, SamePart
<1>3. /\ Observed(f, h) = [n \in 1 .. Cardinality(G) |-> ImageUpTo(f, SnapEnd(f, Nth(G, n)))]
      /\ Observed(g, h2) = [n \in 1 .. Cardinality(G) |-> ImageUpTo(g, SnapEnd(g, Nth(G, n)))]
  BY DEF Observed, G
<1> QED BY <1>2, <1>3, Zenon

\* If one more snapshot is good, whose records end the file, then the image of the
\* whole file has been observed too.
LEMMA ObservedGrows ==
  ASSUME NEW f \in Seq(Rec), NEW g \in Seq(Rec), NEW s, SameUpTo(f, g, s), NEW h, NEW h2,
         Good(f, h) \subseteq 1 .. s, Good(g, h2) = Good(f, h) \cup {s + 1},
         s + 1 \in Marks(g), \A i \in Marks(g) : i <= s + 1
  PROVE  Observed(g, h2) = Append(Observed(f, h), ImageUpTo(g, Len(g)))
<1> DEFINE x == s + 1
           G == Good(f, h)
           H == G \cup {x}
           c == Cardinality(G)
           o == Observed(f, h)
<1>1. G \in SUBSET (1 .. s) /\ s \in Nat /\ x \in Nat /\ x > s /\ c \in Nat
      /\ \A i \in G : i \in Marks(f) /\ i <= s
  <2>1. s \in Nat
    BY DEF SameUpTo
  <2>2. G \in SUBSET (1 .. s) /\ G \subseteq Marks(f)
    BY GoodPositions
  <2>3. c \in Nat
    BY <2>1, <2>2, RankExists
  <2> QED BY <2>1, <2>2, <2>3
<1> HIDE DEF G
<1>2. /\ Cardinality(H) = c + 1 /\ Nth(H, c + 1) = x
      /\ \A n \in 1 .. c : Nth(H, n) = Nth(G, n)
  <2>1. G \in SUBSET (1 .. s) /\ s \in Nat /\ x \in Nat /\ x > s
    BY <1>1
  <2> QED BY ONLY <2>1, NthOfMore
<1>3. SnapEnd(g, x) = Len(g)
  <2>1. /\ Len(g) \in Nat /\ x \in 1 .. Len(g) /\ Len(g) \in x .. Len(g)
    <3>1. DOMAIN g = 1 .. Len(g) /\ Len(g) \in Nat
      OBVIOUS
    <3> QED BY <3>1 DEF Marks
  <2>2. ((x + 1) .. Len(g)) \cap Marks(g) = {}
    BY <1>1, <2>1
  <2>3. IsEnd(g, x, Len(g)) /\ Border(g, Len(g))
    BY <2>2 DEF IsEnd, Border
  <2> QED BY <2>1, <2>3, EndIs
<1> DEFINE im(n) == ImageUpTo(g, SnapEnd(g, Nth(H, n)))
<1>4. o = [n \in 1 .. c |-> ImageUpTo(f, SnapEnd(f, Nth(G, n)))]
  BY DEF Observed, G
<1>5. Observed(g, h2) = [n \in 1 .. (c + 1) |-> im(n)]
  BY <1>2 DEF Observed, G
<1>6. ASSUME NEW n \in 1 .. c PROVE im(n) = o[n]
  <2>1. Nth(G, n) \in G
    BY <1>1, NthIs
  <2>2. ImageUpTo(g, SnapEnd(g, Nth(G, n))) = ImageUpTo(f, SnapEnd(f, Nth(G, n)))
    BY <1>1, <2>1, SamePart
  <2>3. im(n) = ImageUpTo(g, SnapEnd(g, Nth(G, n)))
    BY <1>2
  <2> QED BY <1>4, <2>2, <2>3
<1>7. im(c + 1) = ImageUpTo(g, Len(g))
  BY <1>2, <1>3
<1> DEFINE S == {o[n] : n \in 1 .. c}
<1>8. o \in Seq(S) /\ Len(o) = c
  <2>1. o = [n \in 1 .. c |-> o[n]]
    BY <1>4
  <2> HIDE DEF o
  <2>2. c \in Nat
    BY <1>1
  <2> HIDE DEF c
  <2>3. \A n \in 1 .. c : o[n] \in S
    OBVIOUS
  <2> HIDE DEF S
  <2>4. o \in [1 .. c -> S]
    BY <2>1, <2>3
  <2> QED BY <2>2, <2>4
<1> HIDE DEF o, im, H, c, S
<1>9. Append(o, im(c + 1)) = [n \in 1 .. (c + 1) |-> im(n)]
  BY <1>1, <1>6, <1>8
<1> QED BY <1>5, <1>7, <1>9 DEF o

---------------------------------------------------------------------------
(* The steps of one vCPU, as steps of RamHistory.                          *)

\* Where the file stands: up to synced it holds finished snapshots, then comes the
\* one that is being taken.  With one vCPU nobody stores meanwhile.
HistInv ==
  /\ InSnapshot => synced + 1 \in Marks(file) /\ file[synced + 1].seq = nSnapshots - 1
  /\ phase = "guest" => synced = Len(file)
  /\ \A k \in DOMAIN truth : truth[k].dirty = {}

\* What it says of the SNAPMARKs.
Placed ==
  /\ Border(file, synced) /\ Good(file, truth) \subseteq 1 .. synced
  /\ \A i \in Marks(file) : i \in 1 .. Len(file) /\ file[i].seq + 1 \in 1 .. nSnapshots
  /\ InSnapshot => \A i \in Marks(file) : /\ i <= synced + 1
                                          /\ i <= synced => file[i].seq + 1 < nSnapshots

\* The finished snapshots are in the part that is on disk.
LEMMA HistPlaced ==
  ASSUME ReaderInv, HistInv, phase # "dead"
  PROVE  Placed
<1>1. /\ file \in Seq(Rec) /\ Len(file) \in Nat /\ DOMAIN file = 1 .. Len(file)
      /\ synced \in 0 .. Len(file) /\ Ordered(file, nSnapshots) /\ nSnapshots \in Nat
      /\ TypeOK
  BY DEF ReaderInv, TypeOK
<1>2. ASSUME NEW i \in Marks(file)
      PROVE  /\ i \in 1 .. Len(file) /\ file[i].kind = "SNAPMARK" /\ file[i].seq \in Nat
             /\ file[i].seq < nSnapshots
  <2>1. i \in DOMAIN file /\ file[i].kind = "SNAPMARK"
    BY DEF Marks
  <2>2. file[i] \in MarkRec
    BY <1>1, <2>1, RecordKinds
  <2>3. file[i].seq < nSnapshots
    BY <1>1, <2>1 DEF Ordered
  <2> QED BY <1>1, <2>1, <2>2, <2>3 DEF MarkRec
<1>3. \A i \in Marks(file) : file[i].seq + 1 \in 1 .. nSnapshots
  BY <1>1, <1>2
<1>4. CASE InSnapshot
  <2>1. synced + 1 \in Marks(file) /\ file[synced + 1].seq = nSnapshots - 1
    BY <1>4 DEF HistInv
  <2>2. ASSUME NEW i \in Marks(file)
        PROVE  i <= synced + 1 /\ (i <= synced => file[i].seq + 1 < nSnapshots)
    <3>1. \A a, b \in Marks(file) : a < b => file[a].seq < file[b].seq
      BY <1>1, <1>2 DEF Ordered, Marks
    <3>2. /\ i < synced + 1 => file[i].seq < file[synced + 1].seq
          /\ synced + 1 < i => file[synced + 1].seq < file[i].seq
      BY <2>1, <3>1
    <3> QED BY <1>1, <1>2, <2>1, <3>2
  <2>3. synced + 1 \notin Good(file, truth)
    <3>1. ~Now.done /\ Now = truth[nSnapshots]
      BY <1>1, <1>4, NowOf DEF ReaderInv, Session
    <3>2. file[synced + 1].seq + 1 = nSnapshots
      BY <1>1, <2>1
    <3> QED BY <3>1, <3>2 DEF Good
  <2>4. Good(file, truth) \subseteq 1 .. synced
    <3>1. ASSUME NEW i \in Good(file, truth) PROVE i \in 1 .. synced
      <4>1. i \in Marks(file) /\ i # synced + 1
        BY <2>3, <3>1 DEF Good
      <4> QED BY <1>1, <1>2, <2>2, <4>1
    <3> QED BY <3>1
  <2>5. Border(file, synced)
    BY <2>1 DEF Border
  <2> QED BY <1>2, <1>3, <2>2, <2>4, <2>5 DEF Placed
<1>5. CASE ~InSnapshot
  <2>1. phase = "guest" /\ synced = Len(file)
    BY <1>1, <1>5 DEF HistInv, InSnapshot, TypeOK
  <2>2. Border(file, synced) /\ Good(file, truth) \subseteq 1 .. synced
    BY <1>1, <2>1, GoodPositions DEF Border
  <2> QED BY <1>2, <1>3, <1>5, <2>2 DEF Placed
<1> QED BY <1>4, <1>5

\* f and g have the same first s records, all good snapshots of f are among them,
\* and what they were good for is still so.
Kept(f, g, s, h, h2) ==
  /\ SameUpTo(f, g, s) /\ Good(f, h) \subseteq 1 .. s
  /\ \A i \in Marks(f) : i <= s => h2[f[i].seq + 1].done = h[f[i].seq + 1].done

\* Then those of g are the same and what is good after s.
LEMMA GoodSame ==
  ASSUME NEW f \in Seq(Rec), NEW g \in Seq(Rec), NEW s, NEW h, NEW h2, Kept(f, g, s, h, h2),
         NEW X, \A i \in Marks(g) : i > s => (i \in Good(g, h2) <=> i \in X),
         X \cap 1 .. s = {}, X \subseteq Marks(g)
  PROVE  Good(g, h2) = Good(f, h) \cup X
<1>1. /\ s \in Nat /\ \A i \in 1 .. s : g[i] = f[i] /\ (i \in Marks(f) <=> i \in Marks(g))
  BY SamePart DEF Kept, SameUpTo
<1>2. \A i \in 1 .. s : i \in Good(g, h2) <=> i \in Good(f, h)
  BY <1>1 DEF Good, Kept
<1>3. ASSUME NEW i PROVE i \in Good(g, h2) <=> i \in Good(f, h) \cup X
  <2>1. CASE i \in 1 .. s
    BY <1>2, <2>1
  <2>2. CASE i \notin 1 .. s
    <3>1. i \notin Good(f, h)
      BY <2>2 DEF Kept
    <3>2. i \in Marks(g) => i > s
      <4>1. \A j \in DOMAIN g : j \in Nat /\ j >= 1
        OBVIOUS
      <4>2. i \in Marks(g) => i \in Nat /\ i >= 1
        BY <4>1 DEF Marks
      <4> QED BY <1>1, <2>2, <4>2
    <3>3. i \in Good(g, h2) => i \in Marks(g)
      BY DEF Good
    <3> QED BY <3>1, <3>2, <3>3
  <2> QED BY <2>1, <2>2
<1> QED BY <1>3

\* The same without a new one.
LEMMA GoodKept ==
  ASSUME NEW f \in Seq(Rec), NEW g \in Seq(Rec), NEW s, NEW h, NEW h2, Kept(f, g, s, h, h2),
         \A i \in Marks(g) : i > s => i \notin Good(g, h2)
  PROVE  Good(g, h2) = Good(f, h)
<1> DEFINE X == {}
<1>1. /\ \A i \in Marks(g) : i > s => (i \in Good(g, h2) <=> i \in X)
      /\ X \cap 1 .. s = {} /\ X \subseteq Marks(g)
  OBVIOUS
<1> HIDE DEF X
<1>2. Good(g, h2) = Good(f, h) \cup X
  BY <1>1, GoodSame
<1> QED BY <1>2 DEF X

\* f grows to g by records that are not SNAPMARKs.
Lengthened(f, g) ==
  /\ Len(g) >= Len(f) /\ \A i \in 1 .. Len(f) : g[i] = f[i]
  /\ \A i \in Marks(g) : i <= Len(f)

\* Appending a record that is no SNAPMARK does so, and nothing at all.
LEMMA AppendLengthens ==
  ASSUME NEW f \in Seq(Rec), NEW r \in Rec
  PROVE  /\ Lengthened(f, f)
         /\ r.kind # "SNAPMARK" => Lengthened(f, Append(f, r))
<1>1. Lengthened(f, f)
  BY DEF Lengthened, Marks
<1>2. ASSUME r.kind # "SNAPMARK" PROVE Lengthened(f, Append(f, r))
  <2> DEFINE g == Append(f, r)
  <2>1. /\ Len(f) \in Nat /\ Len(g) = Len(f) + 1 /\ g[Len(f) + 1] = r
        /\ DOMAIN g = 1 .. (Len(f) + 1) /\ \A i \in 1 .. Len(f) : g[i] = f[i]
    OBVIOUS
  <2> HIDE DEF g
  <2>2. ASSUME NEW i \in Marks(g) PROVE i <= Len(f)
    <3>1. i \in 1 .. (Len(f) + 1) /\ g[i].kind = "SNAPMARK"
      BY <2>1 DEF Marks
    <3>2. i # Len(f) + 1
      BY <1>2, <2>1, <3>1
    <3> QED BY <2>1, <3>1, <3>2
  <2>3. Lengthened(f, g)
    BY <2>1, <2>2 DEF Lengthened
  <2> QED BY <2>3 DEF g
<1> QED BY <1>1, <1>2

\* nf_snapshot_page lengthens the file.
LEMMA PageLengthens ==
  ASSUME TypeOK, NEW p \in Page, NEW c \in Content, SnapshotPage(p, c)
  PROVE  Lengthened(file, file')
<1>1. file \in Seq(Rec)
  BY DEF TypeOK
<1>2. PageWrite(p, c) \in Rec /\ PageWrite(p, c).kind # "SNAPMARK"
  BY WrittenRecords DEF PageWrite
<1>3. Warn("TRUNCATED") \in Rec /\ Warn("TRUNCATED").kind # "SNAPMARK"
  BY WrittenRecords DEF Warn, SnapFlag
<1>4. CASE SkipPage(p, c)
  BY <1>1, <1>2, <1>4, AppendLengthens DEF SkipPage
<1>5. CASE HitBudget(p, c)
  BY <1>1, <1>3, <1>5, AppendLengthens DEF HitBudget
<1>6. CASE RecordPage(p, c)
  BY <1>1, <1>2, <1>6, AppendLengthens DEF RecordPage
<1> QED BY <1>4, <1>5, <1>6 DEF SnapshotPage

\* The moments keep what matters to the observed history.
SameMoments(h, h2) ==
  /\ Len(h2) = Len(h)
  /\ \A k \in 1 .. Len(h) : h2[k].done = h[k].done /\ h2[k].dirty = h[k].dirty

\* Inside nf_snapshot nothing new is observed while the file only grows.
LEMMA QuietStep ==
  ASSUME ReaderInv, TypeOK', HistInv, InSnapshot, InSnapshot', UNCHANGED <<synced, nSnapshots>>,
         Lengthened(file, file'), SameMoments(truth, truth')
  PROVE  HistInv' /\ Observed(file', truth') = Observed(file, truth)
<1>1. /\ file \in Seq(Rec) /\ file' \in Seq(Rec) /\ Len(file) \in Nat /\ Len(file') \in Nat
      /\ DOMAIN file = 1 .. Len(file) /\ DOMAIN file' = 1 .. Len(file')
      /\ synced \in 0 .. Len(file) /\ phase # "dead" /\ phase' # "guest"
      /\ truth \in Seq(Moment) /\ truth' \in Seq(Moment)
      /\ DOMAIN truth = 1 .. Len(truth) /\ DOMAIN truth' = 1 .. Len(truth')
      /\ Len(truth) = nSnapshots
  BY DEF ReaderInv, TypeOK, InSnapshot
<1>2. Placed /\ synced + 1 \in Marks(file) /\ file[synced + 1].seq = nSnapshots - 1
  BY <1>1, HistPlaced DEF HistInv
<1>3. \A i \in 1 .. Len(file) : file'[i] = file[i] /\ (i \in Marks(file') <=> i \in Marks(file))
  BY <1>1 DEF Lengthened, Marks
<1>4. \A i \in Marks(file') : i \in 1 .. Len(file) /\ i \in Marks(file) /\ file'[i] = file[i]
  <2>1. \A i \in Marks(file') : i \in 1 .. Len(file)
    BY <1>1 DEF Lengthened, Marks
  <2> QED BY <1>3, <2>1
<1>5. synced + 1 \in Marks(file') /\ file'[synced + 1] = file[synced + 1]
  BY <1>2, <1>3 DEF Placed
<1>6. SameUpTo(file, file', synced)
  <2>1. Len(file') >= Len(file)
    BY DEF Lengthened
  <2>2. synced \in 0 .. Len(file') /\ \A i \in 1 .. synced : file'[i] = file[i]
    BY <1>1, <1>3, <2>1
  <2>3. Border(file, synced) /\ Border(file', synced)
    BY <1>2, <1>5 DEF Border
  <2> QED BY <1>1, <2>2, <2>3 DEF SameUpTo
<1>7. \A i \in Marks(file) : truth'[file[i].seq + 1].done = truth[file[i].seq + 1].done
  BY <1>1, <1>2 DEF Placed, SameMoments
<1>8. \A i \in Marks(file') : i > synced => i \notin Good(file', truth')
  <2>1. ASSUME NEW i \in Marks(file'), i > synced, i \in Good(file', truth') PROVE FALSE
    <3>1. i \in Good(file, truth)
      BY <1>4, <1>7, <2>1 DEF Good
    <3>2. i \in 1 .. synced
      BY <1>2, <3>1 DEF Placed
    <3> QED BY <1>1, <2>1, <3>2
  <2> QED BY <2>1
<1>9. Good(file', truth') = Good(file, truth)
  <2>1. Good(file, truth) \subseteq 1 .. synced
    BY <1>2 DEF Placed
  <2>2. \A i \in Marks(file) : i <= synced =>
           truth'[file[i].seq + 1].done = truth[file[i].seq + 1].done
    BY <1>7
  <2>3. file \in Seq(Rec) /\ file' \in Seq(Rec)
    BY <1>1
  <2>4. Kept(file, file', synced, truth, truth')
    BY <1>6, <2>1, <2>2 DEF Kept
  <2> QED BY ONLY <2>3, <1>8, <2>4, GoodKept
<1>10. Observed(file', truth') = Observed(file, truth)
  BY <1>1, <1>2, <1>6, <1>9, ObservedSame DEF Placed
<1>11. HistInv'
  BY <1>1, <1>2, <1>5 DEF HistInv, SameMoments
<1> QED BY <1>10, <1>11

\* With one vCPU a read meets no store: memory and the history stay as they are.
LEMMA QuietRead ==
  ASSUME ~Smp, TypeOK, HistInv, NEW S \in SUBSET Page, NEW got, ReadMemory(S, got)
  PROVE  mem' = mem /\ SameMoments(truth, truth')
<1>1. truth \in Seq(Moment) /\ mem \in [Page -> Content] /\ Len(truth) = nSnapshots
      /\ DOMAIN truth = 1 .. Len(truth)
  BY DEF TypeOK
<1>2. PICK racing \in {{}} : /\ \E after \in [racing -> Content] :
                                   mem' = [p \in Page |-> IF p \in racing THEN after[p] ELSE mem[p]]
                             /\ truth' = Touch(racing)
  BY DEF ReadMemory
<1>3. mem' = mem
  BY <1>1, <1>2
<1>4. truth' = Touch({})
  BY <1>2
<1>5. SameMoments(truth, Touch({}))
  <2>1. CASE InSnapshot
    <3> DEFINE n == Len(truth)
               e == [truth[n] EXCEPT !.dirty = @ \cup {}]
               h == [truth EXCEPT ![n] = e]
    <3>1. n \in 1 .. n /\ truth[n] \in Moment /\ n \in Nat
      BY <1>1, <2>1, NowOf
    <3>2. Touch({}) = h
      BY <2>1 DEF Touch
    <3>3. e.done = truth[n].done /\ e.dirty = truth[n].dirty
      BY <3>1 DEF Moment
    <3> HIDE DEF e
    <3>4. Len(h) = n /\ h[n] = e /\ \A k \in 1 .. n : k # n => h[k] = truth[k]
      BY <1>1, <3>1
    <3> HIDE DEF h, n
    <3>5. \A k \in 1 .. n : h[k].done = truth[k].done /\ h[k].dirty = truth[k].dirty
      BY <3>3, <3>4
    <3> QED BY <3>2, <3>4, <3>5 DEF SameMoments, n
  <2>2. CASE ~InSnapshot
    BY <2>2 DEF Touch, SameMoments
  <2> QED BY <2>1, <2>2
<1> QED BY <1>3, <1>4, <1>5

\* What every step does to memory and to what was observed.
Unobserved  == mem' = mem /\ Observed(file', truth') = Observed(file, truth)
NewlyStored == /\ \E p \in Page, c \in Content : mem' = [mem EXCEPT ![p] = c]
               /\ Observed(file', truth') = Observed(file, truth)
NewlySeen   == mem' = mem /\ Observed(file', truth') = Append(Observed(file, truth), mem)

\* A store happens outside nf_snapshot.
LEMMA StoreHist ==
  ASSUME ~Smp, HistInv, NEW p \in Page, NEW c \in Content, Store(p, c)
  PROVE  HistInv' /\ NewlyStored
<1>1. ~InSnapshot /\ truth' = truth /\ UNCHANGED <<file, synced, phase, nSnapshots>>
      /\ mem' = [mem EXCEPT ![p] = c]
  BY DEF Store, Touch, nfVars, loopVars
<1> QED BY <1>1 DEF HistInv, NewlyStored, InSnapshot

\* The placeholder of a snapshot that begins is not an observation.
LEMMA BeginHist ==
  ASSUME ReaderInv, TypeOK', HistInv, BeginSnapshot
  PROVE  HistInv' /\ Unobserved
<1> DEFINE r == Mark(nSnapshots, 0, {})
           e == [mem |-> mem, dirty |-> {}, done |-> FALSE]
<1>1. /\ file \in Seq(Rec) /\ Len(file) \in Nat /\ DOMAIN file = 1 .. Len(file)
      /\ truth \in Seq(Moment) /\ Len(truth) = nSnapshots /\ nSnapshots \in Nat
      /\ phase = "guest" /\ phase' = "chunk" /\ nSnapshots' = nSnapshots + 1
      /\ synced' = synced /\ mem' = mem /\ file' \in Seq(Rec) /\ synced = Len(file)
      /\ truth' \in Seq(Moment) /\ DOMAIN truth = 1 .. nSnapshots
  BY DEF ReaderInv, TypeOK, BeginSnapshot, HistInv
<1>2. Placed
  BY <1>1, HistPlaced
<1>3. r \in Rec /\ r.kind = "SNAPMARK" /\ r.seq = nSnapshots
  BY <1>1, WrittenRecords DEF Mark
<1>4. file' = Append(file, r) /\ truth' = Append(truth, e)
  BY DEF BeginSnapshot
<1>5. e.dirty = {} /\ ~e.done
  OBVIOUS
<1> HIDE DEF r, e
<1>6. /\ Len(file') = Len(file) + 1 /\ file'[Len(file) + 1] = r
      /\ DOMAIN file' = 1 .. (Len(file) + 1) /\ \A i \in 1 .. Len(file) : file'[i] = file[i]
  BY <1>1, <1>3, <1>4
<1>7. /\ truth'[nSnapshots + 1] = e /\ DOMAIN truth' = 1 .. (nSnapshots + 1)
      /\ \A k \in 1 .. nSnapshots : truth'[k] = truth[k]
  BY <1>1, <1>4
<1>8. synced + 1 \in Marks(file')
  BY <1>1, <1>3, <1>6 DEF Marks
<1>9. SameUpTo(file, file', synced)
  <2>1. synced \in 0 .. Len(file') /\ \A i \in 1 .. synced : file'[i] = file[i]
    BY <1>1, <1>6
  <2>2. Border(file, synced) /\ Border(file', synced)
    BY <1>1, <1>8 DEF Border
  <2> QED BY <1>1, <2>1, <2>2 DEF SameUpTo
<1>10. ASSUME NEW i \in Marks(file'), i > synced PROVE i \notin Good(file', truth')
  <2>1. i = synced + 1
    BY <1>1, <1>6, <1>10 DEF Marks
  <2>2. file'[i].seq + 1 = nSnapshots + 1
    BY <1>1, <1>3, <1>6, <2>1
  <2> QED BY <1>5, <1>7, <2>2 DEF Good
<1>11. \A i \in Marks(file) : i <= synced =>
         truth'[file[i].seq + 1].done = truth[file[i].seq + 1].done
  BY <1>2, <1>7 DEF Placed
<1>12. Good(file, truth) \subseteq 1 .. synced
  BY <1>2 DEF Placed
<1>13. file \in Seq(Rec) /\ file' \in Seq(Rec)
  BY <1>1
<1>14. Good(file', truth') = Good(file, truth)
  <2>1. Kept(file, file', synced, truth, truth')
    BY <1>9, <1>11, <1>12 DEF Kept
  <2> QED BY ONLY <1>10, <1>13, <2>1, GoodKept
<1>15. Observed(file', truth') = Observed(file, truth)
  BY ONLY <1>9, <1>12, <1>13, <1>14, ObservedSame
<1>16. HistInv'
  <2>1. \A k \in DOMAIN truth' : truth'[k].dirty = {}
    <3>1. \A k \in 1 .. nSnapshots : truth'[k].dirty = {}
      BY <1>1, <1>7 DEF HistInv
    <3> QED BY <1>1, <1>5, <1>7, <3>1
  <2>2. file'[synced + 1].seq = nSnapshots
    BY <1>1, <1>3, <1>6
  <2> QED BY <1>1, <1>8, <2>1, <2>2 DEF HistInv
<1> QED BY <1>1, <1>15, <1>16 DEF Unobserved

\* Reading a chunk observes nothing.
LEMMA ChunkHist ==
  ASSUME ~Smp, ReaderInv, TypeOK', HistInv, ReadChunk
  PROVE  HistInv' /\ Unobserved
<1>1. /\ TypeOK /\ phase = "chunk" /\ file' = file /\ InSnapshot /\ InSnapshot'
      /\ UNCHANGED <<synced, nSnapshots>> /\ file \in Seq(Rec)
      /\ next \in Nat /\ limit' \in 0 .. PageCount /\ Page = 0 .. (PageCount - 1)
      /\ PageCount \in Nat
  <2>1. TypeOK /\ phase = "chunk" /\ file' = file /\ UNCHANGED <<synced, nSnapshots>>
    BY DEF ReaderInv, ReadChunk, nfVars
  <2>2. phase' \in {"pages", "fallback"}
    BY DEF ReadChunk
  <2>3. InSnapshot /\ InSnapshot'
    BY <2>1, <2>2 DEF InSnapshot
  <2>4. PageCount \in Nat /\ Page = 0 .. (PageCount - 1)
    BY SnapshotAssumption DEF SnapshotAssumption
  <2>5. next \in 0 .. PageCount /\ limit' \in 0 .. PageCount /\ file \in Seq(Rec)
    BY <2>1 DEF TypeOK
  <2> QED BY <2>1, <2>3, <2>4, <2>5
<1>2. mem' = mem /\ SameMoments(truth, truth')
  <2>1. CASE \E got \in [next .. (limit' - 1) -> Content] :
               ReadMemory(next .. (limit' - 1), got) /\ buf' = got
    <3>1. PICK got \in [next .. (limit' - 1) -> Content] : ReadMemory(next .. (limit' - 1), got)
      BY <2>1
    <3>2. next .. (limit' - 1) \in SUBSET Page
      <4>1. next \in Nat /\ limit' \in 0 .. PageCount /\ PageCount \in Nat
        BY <1>1
      <4>2. \A a, b, m \in Nat : b <= m => \A p \in a .. (b - 1) : p \in 0 .. (m - 1)
        OBVIOUS
      <4>3. limit' \in Nat /\ limit' <= PageCount
        BY <4>1
      <4>4. \A p \in next .. (limit' - 1) : p \in 0 .. (PageCount - 1)
        BY ONLY <4>1, <4>2, <4>3
      <4> QED BY <1>1, <4>4
    <3> QED BY <1>1, <3>1, <3>2, QuietRead
  <2>2. CASE UNCHANGED <<mem, truth>>
    BY <2>2 DEF SameMoments
  <2> QED BY <2>1, <2>2 DEF ReadChunk
<1>3. Lengthened(file, file')
  BY <1>1, AppendLengthens, WrittenRecords
<1> QED BY <1>1, <1>2, <1>3, QuietStep DEF Unobserved

\* Nor does writing a page,
LEMMA WriteHist ==
  ASSUME ReaderInv, TypeOK', HistInv, WritePage
  PROVE  HistInv' /\ Unobserved
<1>1. /\ TypeOK /\ phase = "pages" /\ InSnapshot /\ InSnapshot'
      /\ UNCHANGED <<synced, nSnapshots, mem, truth>>
  BY DEF ReaderInv, WritePage, InSnapshot, Advance
<1>2. /\ next < limit /\ next .. (limit - 1) \subseteq DOMAIN buf /\ buf \in [DOMAIN buf -> Content]
      /\ next \in 0 .. PageCount /\ limit \in 0 .. PageCount /\ Page = 0 .. (PageCount - 1)
      /\ PageCount \in Nat
  BY <1>1, SnapshotAssumption DEF TypeOK, SnapshotAssumption
<1>3. next \in Page /\ next \in next .. (limit - 1)
  BY <1>2
<1>4. buf[next] \in Content
  BY <1>2, <1>3
<1>5. Lengthened(file, file')
  BY <1>1, <1>3, <1>4, PageLengthens DEF WritePage
<1>6. SameMoments(truth, truth')
  BY <1>1 DEF SameMoments
<1> QED BY <1>1, <1>5, <1>6, QuietStep DEF Unobserved

\* nor the fallback.
LEMMA FallbackHist ==
  ASSUME ~Smp, ReaderInv, TypeOK', HistInv, FallbackPage
  PROVE  HistInv' /\ Unobserved
<1>1. /\ TypeOK /\ phase = "fallback" /\ InSnapshot /\ InSnapshot'
      /\ UNCHANGED <<synced, nSnapshots>> /\ file \in Seq(Rec)
  BY DEF ReaderInv, TypeOK, FallbackPage, InSnapshot, Advance
<1>2. /\ next < limit /\ next \in 0 .. PageCount /\ limit \in 0 .. PageCount
      /\ Page = 0 .. (PageCount - 1) /\ PageCount \in Nat
  BY <1>1, SnapshotAssumption DEF TypeOK, SnapshotAssumption
<1>3. next \in Page /\ {next} \in SUBSET Page
  BY <1>2
<1>4. mem' = mem /\ SameMoments(truth, truth') /\ Lengthened(file, file')
  <2>1. CASE \E got \in [{next} -> Content] :
               ReadMemory({next}, got) /\ SnapshotPage(next, got[next])
    <3>1. PICK got \in [{next} -> Content] :
            ReadMemory({next}, got) /\ SnapshotPage(next, got[next])
      BY <2>1
    <3>2. got[next] \in Content
      OBVIOUS
    <3>3. Lengthened(file, file')
      BY <1>1, <1>3, <3>1, <3>2, PageLengthens
    <3> QED BY <1>1, <1>3, <3>1, <3>3, QuietRead
  <2>2. CASE UNCHANGED <<mem, truth, file>>
    <3>1. Lengthened(file, file')
      BY <1>1, <2>2, AppendLengthens, WrittenRecords
    <3> QED BY <2>2, <3>1 DEF SameMoments
  <2> QED BY <2>1, <2>2 DEF FallbackPage
<1> QED BY <1>1, <1>4, QuietStep DEF Unobserved

\* A kill loses only records of the snapshot that is being taken.
LEMMA KilledHist ==
  ASSUME ReaderInv, TypeOK', HistInv, Killed
  PROVE  HistInv' /\ Unobserved
<1>1. PICK n \in synced .. Len(file) : file' = SubSeq(file, 1, n)
  BY DEF Killed
<1>2. /\ file \in Seq(Rec) /\ synced \in 0 .. Len(file) /\ Len(file) \in Nat
      /\ DOMAIN file = 1 .. Len(file) /\ file' \in Seq(Rec)
      /\ phase # "dead" /\ phase' = "dead" /\ UNCHANGED <<synced, truth, mem>>
  BY DEF ReaderInv, TypeOK, Killed
<1>3. Placed
  BY <1>2, HistPlaced
<1>4. /\ n \in Nat /\ synced <= n /\ n <= Len(file) /\ Len(file') = n /\ DOMAIN file' = 1 .. n
      /\ \A i \in 1 .. n : file'[i] = file[i]
  BY <1>1, <1>2
<1>5. \A i \in 1 .. n : i \in Marks(file') <=> i \in Marks(file)
  BY <1>2, <1>4 DEF Marks
<1>6. Border(file', synced)
  <2>1. CASE synced = n
    BY <1>4, <2>1 DEF Border
  <2>2. CASE synced # n
    <3>1. synced < n /\ synced \in Nat
      BY <1>2, <1>4, <2>2
    <3>2. synced + 1 \in 1 .. n
      BY <1>4, <3>1
    <3>3. synced # Len(file)
      BY <1>4, <3>1
    <3> QED BY <1>3, <1>5, <3>2, <3>3 DEF Placed, Border
  <2> QED BY <2>1, <2>2
<1>7. SameUpTo(file, file', synced)
  BY <1>2, <1>3, <1>4, <1>6 DEF SameUpTo, Placed
<1>8. Good(file, truth) \subseteq 1 .. synced /\ file \in Seq(Rec) /\ file' \in Seq(Rec)
  BY <1>2, <1>3 DEF Placed
<1>9. \A i : i \in Good(file', truth) <=> i \in Good(file, truth)
  <2>1. ASSUME NEW i \in Good(file', truth) PROVE i \in Good(file, truth)
    <3>1. i \in 1 .. n
      BY <1>4 DEF Good, Marks
    <3> QED BY <1>4, <1>5, <2>1, <3>1 DEF Good
  <2>2. ASSUME NEW i \in Good(file, truth) PROVE i \in Good(file', truth)
    <3>1. i \in 1 .. n
      BY <1>2, <1>4, <1>8
    <3> QED BY <1>4, <1>5, <2>2, <3>1 DEF Good
  <2> QED BY <2>1, <2>2
<1>10. Good(file', truth) = Good(file, truth)
  BY <1>9
<1>11. Observed(file', truth) = Observed(file, truth)
  BY ONLY <1>7, <1>8, <1>10, ObservedSame
<1> QED BY <1>2, <1>11 DEF HistInv, InSnapshot, Unobserved

\* After the last page of a snapshot without a flag, what the file shows is memory.
LEMMA AllPagesShown ==
  ASSUME ShadowInv, ReaderInv, HistInv, EndSnapshot, Flags = {}, TypeOK'
  PROVE  ImageUpTo(file', Len(file')) = mem
<1>1. /\ TypeOK /\ InSnapshot /\ Session /\ phase # "dead" /\ MarkWritten /\ live
      /\ \A q \in Page : HasLast(file, q)
      /\ ShadowIsReadersImage /\ phase = "chunk" /\ (next >= PageCount \/ truncated)
  BY DEF ShadowInv, ReaderInv, EndSnapshot, InSnapshot, Session
<1>2. ~truncated /\ readFail = {}
  BY DEF Flags
<1>3. /\ Len(truth) = nSnapshots /\ truth \in Seq(Moment) /\ nSnapshots \in 1 .. nSnapshots
      /\ Now = truth[nSnapshots] /\ mem \in [Page -> Content] /\ nSnapshots \in Nat
  BY <1>1, NowOf DEF TypeOK
<1>4. Now.dirty = {}
  <2>1. nSnapshots \in DOMAIN truth
    BY <1>3
  <2> QED BY <1>3, <2>1 DEF HistInv
<1>5. ASSUME NEW p \in Page PROVE LastWrite(file', p) = mem[p]
  <2>1. p < next
    <3>1. next >= PageCount /\ next \in 0 .. PageCount
      BY <1>1, <1>2 DEF TypeOK
    <3> QED BY <3>1, SnapshotAssumption DEF SnapshotAssumption
  <2>2. Believed(p) = Now.mem[p] /\ mem[p] = Now.mem[p]
    BY <1>1, <1>2, <1>4, <2>1 DEF Session
  <2>3. Believed(p) = LastWrite(file, p)
    BY <1>1 DEF ShadowIsReadersImage
  <2>4. LastWrite(file', p) = LastWrite(file, p)
    BY <1>1, SnapshotAssumption, PatchKeepsPages
  <2> QED BY <2>2, <2>3, <2>4
<1>6. file' \in Seq(Rec)
  BY DEF TypeOK
<1>7. SubSeq(file', 1, Len(file')) = file'
  BY <1>6
<1> QED BY <1>3, <1>5, <1>7 DEF ImageUpTo

\* The file after the end of a snapshot: the SNAPMARK behind synced has its flags,
\* at most a WARN is new, and the moment is over.
Ended ==
  /\ SameUpTo(file, file', synced)
  /\ synced + 1 \in Marks(file') /\ \A i \in Marks(file') : i <= synced + 1
  /\ file'[synced + 1].flags = Flags /\ file'[synced + 1].seq + 1 = nSnapshots
  /\ \A i \in Marks(file) : i <= synced =>
       truth'[file[i].seq + 1].done = truth[file[i].seq + 1].done
  /\ truth'[nSnapshots].done

\* EndSnapshot leaves such a file.
LEMMA EndIsEnded ==
  ASSUME ReaderInv, TypeOK', HistInv, EndSnapshot
  PROVE  HistInv' /\ Ended /\ Placed
<1> DEFINE w == WarnedFile
           m == synced + 1
           r == Mark(nSnapshots - 1, changed, Flags)
<1>1. /\ file \in Seq(Rec) /\ file' \in Seq(Rec) /\ Len(file) \in Nat
      /\ DOMAIN file = 1 .. Len(file) /\ synced \in 0 .. Len(file) /\ TypeOK
      /\ InSnapshot /\ phase # "dead" /\ phase' = "guest" /\ synced' = Len(file')
      /\ truth \in Seq(Moment) /\ Len(truth) = nSnapshots /\ nSnapshots \in Nat
      /\ Ordered(file, nSnapshots) /\ DOMAIN truth = 1 .. nSnapshots /\ nSnapshots' = nSnapshots
  BY DEF ReaderInv, TypeOK, EndSnapshot, InSnapshot
<1>2. Placed /\ m \in Marks(file) /\ file[m].seq = nSnapshots - 1
  BY <1>1, HistPlaced DEF HistInv
<1>3. m \in 1 .. Len(file) /\ file[m].kind = "SNAPMARK"
  BY <1>1, <1>2 DEF Marks
<1>4. MarkPos = m
  <2>1. \A i \in DOMAIN file : file[i].kind = "SNAPMARK" /\ file[i].seq = nSnapshots - 1 => i = m
    <3>1. ASSUME NEW i \in DOMAIN file, file[i].kind = "SNAPMARK", file[i].seq = nSnapshots - 1
          PROVE  i = m
      <4>1. i \in Marks(file) /\ i \in Nat
        BY <1>1, <3>1 DEF Marks
      <4>2. i <= m /\ ~(i <= synced)
        BY <1>1, <1>2, <3>1, <4>1 DEF Placed
      <4> QED BY <1>1, <4>1, <4>2
    <3> QED BY <3>1
  <2>2. m \in DOMAIN file
    BY <1>1, <1>3
  <2> QED BY <1>2, <1>3, <2>1, <2>2 DEF MarkPos
<1>5. Lengthened(file, w) /\ w \in Seq(Rec)
  <2>1. Warn("INCOMPLETE") \in Rec /\ Warn("INCOMPLETE").kind # "SNAPMARK"
    BY WrittenRecords DEF SnapFlag, Warn
  <2>2. CASE readFail = {}
    BY <1>1, <2>1, <2>2, AppendLengthens DEF WarnedFile
  <2>3. CASE readFail # {}
    BY <1>1, <2>1, <2>3, AppendLengthens DEF WarnedFile
  <2> QED BY <2>2, <2>3
<1>6. file' = [w EXCEPT ![m] = r]
  BY <1>4 DEF EndSnapshot, WarnedFile
<1>7. r.kind = "SNAPMARK" /\ r.seq = nSnapshots - 1 /\ r.flags = Flags
  BY DEF Mark
<1> HIDE DEF w, r
<1>8. /\ Len(w) \in Nat /\ Len(w) >= Len(file) /\ DOMAIN w = 1 .. Len(w)
      /\ DOMAIN file' = 1 .. Len(w) /\ Len(file') = Len(w)
  BY <1>5, <1>6 DEF Lengthened
<1>9. /\ file'[m] = r /\ \A i \in 1 .. Len(w) : i # m => file'[i] = w[i]
  BY <1>3, <1>6, <1>8
<1>10. \A i \in 1 .. synced : file'[i] = file[i]
  <2>1. ASSUME NEW i \in 1 .. synced PROVE file'[i] = file[i]
    <3>1. i \in 1 .. Len(file) /\ i \in 1 .. Len(w) /\ i # m
      BY <1>1, <1>8
    <3> QED BY <1>5, <1>9, <3>1 DEF Lengthened
  <2> QED BY <2>1
<1>11. m \in Marks(file')
  BY <1>3, <1>7, <1>8, <1>9 DEF Marks
<1>12. ASSUME NEW i \in Marks(file') PROVE i <= m
  <2>1. i \in 1 .. Len(w) /\ file'[i].kind = "SNAPMARK"
    BY <1>8 DEF Marks
  <2>2. CASE i = m
    BY <1>1, <2>2
  <2>3. CASE i # m
    <3>1. i \in Marks(w)
      BY <1>8, <1>9, <2>1, <2>3 DEF Marks
    <3>2. i \in 1 .. Len(file)
      BY <1>5, <2>1, <3>1 DEF Lengthened
    <3>3. file[i] = w[i]
      BY <1>5, <3>2 DEF Lengthened
    <3>4. i \in Marks(file)
      BY <1>1, <3>1, <3>2, <3>3 DEF Marks
    <3> QED BY <1>1, <1>2, <3>4 DEF Placed
  <2> QED BY <2>2, <2>3
<1>13. SameUpTo(file, file', synced)
  <2>1. synced \in 0 .. Len(file')
    BY <1>1, <1>8
  <2>2. Border(file, synced) /\ Border(file', synced)
    BY <1>2, <1>11 DEF Border
  <2> QED BY <1>1, <1>10, <2>1, <2>2 DEF SameUpTo
<1>14. truth' \in Seq(Moment) /\ Closed(truth, truth')
  BY <1>1, TruthCloses
<1>15. /\ truth'[nSnapshots].done /\ nSnapshots # 0
       /\ DOMAIN truth' = 1 .. nSnapshots
       /\ \A k \in 1 .. nSnapshots : truth'[k].dirty = truth[k].dirty
       /\ \A k \in 1 .. (nSnapshots - 1) : truth'[k].done = truth[k].done
  <2>1. Len(truth') = nSnapshots /\ nSnapshots # 0 /\ truth'[nSnapshots].done
        /\ truth'[nSnapshots].dirty = truth[nSnapshots].dirty
        /\ \A k \in 1 .. (nSnapshots - 1) : truth'[k] = truth[k]
    BY <1>1, <1>14 DEF Closed
  <2>2. \A k \in 1 .. nSnapshots : k = nSnapshots \/ k \in 1 .. (nSnapshots - 1)
    BY <1>1
  <2>3. DOMAIN truth' = 1 .. nSnapshots
    BY <1>14, <2>1
  <2> QED BY <2>1, <2>2, <2>3
<1>16. \A i \in Marks(file) : i <= synced =>
         truth'[file[i].seq + 1].done = truth[file[i].seq + 1].done
  <2>1. ASSUME NEW i \in Marks(file), i <= synced PROVE file[i].seq + 1 \in 1 .. (nSnapshots - 1)
    <3>1. file[i].seq + 1 \in 1 .. nSnapshots /\ file[i].seq + 1 < nSnapshots
      BY <1>1, <1>2, <2>1 DEF Placed
    <3> QED BY <1>1, <3>1
  <2> QED BY <1>15, <2>1
<1>17. HistInv'
  <2>1. \A k \in DOMAIN truth' : truth'[k].dirty = {}
    BY <1>1, <1>15 DEF HistInv
  <2> QED BY <1>1, <2>1 DEF HistInv, InSnapshot
<1>18. file'[m].flags = Flags /\ file'[m].seq + 1 = nSnapshots
  BY <1>1, <1>7, <1>9
<1> QED BY <1>2, <1>11, <1>12, <1>13, <1>15, <1>16, <1>17, <1>18 DEF Ended

\* The end of a snapshot with a flag observes nothing, without one it observes memory.
LEMMA EndHist ==
  ASSUME ShadowInv, ReaderInv, TypeOK', HistInv, EndSnapshot
  PROVE  HistInv' /\ (Unobserved \/ NewlySeen)
<1>1. HistInv' /\ Ended /\ Placed
  BY EndIsEnded
<1>2. /\ file \in Seq(Rec) /\ file' \in Seq(Rec) /\ mem' = mem /\ synced \in Nat
      /\ SameUpTo(file, file', synced) /\ Good(file, truth) \subseteq 1 .. synced
  BY <1>1 DEF ReaderInv, TypeOK, EndSnapshot, Ended, Placed
<1>3. \A i \in Marks(file') : i > synced => i = synced + 1
  <2>1. \A i \in Marks(file') : i \in Nat /\ i <= synced + 1
    <3>1. DOMAIN file' \subseteq Nat
      BY <1>2
    <3> QED BY <1>1, <3>1 DEF Marks, Ended
  <2> QED BY <1>2, <2>1
<1>4. \A i \in Marks(file) : i <= synced =>
        truth'[file[i].seq + 1].done = truth[file[i].seq + 1].done
  BY <1>1 DEF Ended
<1>5. Kept(file, file', synced, truth, truth')
  BY <1>2, <1>4 DEF Kept
<1>6. CASE Flags # {}
  <2>1. \A i \in Marks(file') : i > synced => i \notin Good(file', truth')
    BY <1>1, <1>3, <1>6 DEF Good, Ended
  <2>2. file \in Seq(Rec) /\ file' \in Seq(Rec) /\ Good(file, truth) \subseteq 1 .. synced
        /\ SameUpTo(file, file', synced)
    BY <1>2
  <2>3. Good(file', truth') = Good(file, truth)
    BY ONLY <1>5, <2>1, <2>2, GoodKept
  <2>4. Observed(file', truth') = Observed(file, truth)
    BY ONLY <2>2, <2>3, ObservedSame
  <2> QED BY <1>1, <1>2, <2>4 DEF Unobserved
<1>7. CASE Flags = {}
  <2> DEFINE x == synced + 1
             X == {x}
  <2>1. x \in Marks(file') /\ x \in Good(file', truth') /\ \A i \in Marks(file') : i <= x
    BY <1>1, <1>7 DEF Good, Ended
  <2>2. \A i \in Marks(file') : i > synced => (i \in Good(file', truth') <=> i \in X)
    BY <1>3, <2>1
  <2>3. X \cap 1 .. synced = {} /\ X \subseteq Marks(file')
    BY <1>2, <2>1
  <2>4. file \in Seq(Rec) /\ file' \in Seq(Rec) /\ Good(file, truth) \subseteq 1 .. synced
        /\ SameUpTo(file, file', synced)
    BY <1>2
  <2> HIDE DEF X
  <2>5. Good(file', truth') = Good(file, truth) \cup X
    BY ONLY <1>5, <2>2, <2>3, <2>4, GoodSame
  <2>6. Good(file', truth') = Good(file, truth) \cup {synced + 1}
    BY <2>5 DEF X
  <2>7. Observed(file', truth') = Append(Observed(file, truth), ImageUpTo(file', Len(file')))
    BY ONLY <2>1, <2>4, <2>6, ObservedGrows
  <2>8. ImageUpTo(file', Len(file')) = mem
    BY <1>7, AllPagesShown
  <2> QED BY <1>1, <1>2, <2>7, <2>8 DEF NewlySeen
<1> QED BY <1>1, <1>6, <1>7

\* The file is empty at first: nothing was observed.
LEMMA InitHist == Init => HistInv /\ History!Init
<1> SUFFICES ASSUME Init PROVE HistInv /\ History!Init
  OBVIOUS
<1>1. Good(file, truth) = {}
  BY DEF Init, Good, Marks
<1>2. Observed(file, truth) = << >>
  <2>1. Cardinality(Good(file, truth)) = 0
    BY <1>1, FS_EmptySet
  <2>2. 1 .. 0 = {}
    OBVIOUS
  <2> QED BY <2>1, <2>2 DEF Observed
<1>3. HistInv
  BY DEF Init, HistInv, InSnapshot
<1> QED BY <1>2, <1>3, HistoryIsObserved DEF Init, History!Init

\* Every step is a step of RamHistory or leaves its variables alone.
LEMMA NextHist ==
  ASSUME ~Smp
  PROVE  ShadowInv /\ ReaderInv /\ HistInv /\ [Next]_vars =>
           HistInv' /\ [History!Next]_<<mem, ObservedHistory>>
<1> SUFFICES ASSUME ShadowInv, ReaderInv, HistInv, [Next]_vars
             PROVE  HistInv' /\ [History!Next]_<<mem, ObservedHistory>>
  OBVIOUS
<1>1. TypeOK'
  BY NextType DEF ReaderInv
<1>2. HistInv' /\ (Unobserved \/ NewlyStored \/ NewlySeen)
  <2>1. CASE \E p \in Page, c \in Content : Store(p, c)
    BY <2>1, StoreHist
  <2>2. CASE BeginSnapshot
    BY <1>1, <2>2, BeginHist
  <2>3. CASE ReadChunk
    BY <1>1, <2>3, ChunkHist
  <2>4. CASE WritePage
    BY <1>1, <2>4, WriteHist
  <2>5. CASE FallbackPage
    BY <1>1, <2>5, FallbackHist
  <2>6. CASE EndSnapshot
    BY <1>1, <2>6, EndHist
  <2>7. CASE Killed
    BY <1>1, <2>7, KilledHist
  <2>8. CASE UNCHANGED vars
    BY <2>8 DEF vars, nfVars, loopVars, HistInv, InSnapshot, Unobserved
  <2> QED BY <2>1, <2>2, <2>3, <2>4, <2>5, <2>6, <2>7, <2>8 DEF Next
<1>3. ObservedHistory = Observed(file, truth) /\ ObservedHistory' = Observed(file', truth')
  BY HistoryIsObserved, NextHistoryIsObserved
<1>4. [History!Next]_<<mem, ObservedHistory>>
  BY <1>2, <1>3 DEF Unobserved, NewlyStored, NewlySeen, History!Next, History!Store, History!Observe
<1> QED BY <1>2, <1>4

\* On one vCPU the recording implements RamHistory: seen through the snapshots
\* without a flag, the file is a sequence of images each of which was guest memory
\* when the snapshot that shows it was over, whatever is refused, cut or killed.
THEOREM HistoryImplemented ==
  ASSUME ~Smp
  PROVE  Spec => ImplementsHistory
<1>1. Init => ShadowInv /\ ReaderInv /\ HistInv /\ History!Init
  BY InitShadow, InitReader, InitHist
<1>2. ShadowInv /\ ReaderInv /\ HistInv /\ [Next]_vars =>
        ShadowInv' /\ ReaderInv' /\ HistInv' /\ [History!Next]_<<mem, ObservedHistory>>
  BY NextShadow, NextReader, NextHist
<1> QED BY <1>1, <1>2, PTL DEF Spec, ImplementsHistory, History!Spec
=============================================================================
