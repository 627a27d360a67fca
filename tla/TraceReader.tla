---------------------------- MODULE TraceReader ----------------------------
(***************************************************************************)
(* The host-side reader of trace.nfb, as pure operators: nftrace.load      *)
(* turns the record stream into a trace, RamImage.apply lays the pages of  *)
(* one snapshot over the cumulative image, and Analysis.rebuild_states     *)
(* produces one state per SNAPMARK.  A file is a sequence of records; page *)
(* contents are abstract values (compression is lossless, and load raises  *)
(* when the decompressed length differs from the declared one).            *)
(***************************************************************************)
EXTENDS Integers, Sequences, SequencesExt

CONSTANTS
  Page,      \* guest-physical pages covered by ramsize
  Content,   \* contents a page can have
  Unseen     \* what RamImage answers for a page no record has ever written

\* The records that matter to memory reconstruction.
SnapFlag == {"TRUNCATED", "INCOMPLETE"}
MarkRec  == [kind : {"SNAPMARK"}, seq : Nat, changed : Nat, flags : SUBSET SnapFlag]
PageRec  == [kind : {"RAMPAGE"}, page : Page, content : Content]
WarnRec  == [kind : {"WARN"}, about : SnapFlag]
Rec      == MarkRec \cup PageRec \cup WarnRec

Mark(seq, changed, flags) ==
  [kind |-> "SNAPMARK", seq |-> seq, changed |-> changed, flags |-> flags]
PageWrite(p, c) == [kind |-> "RAMPAGE", page |-> p, content |-> c]
Warn(flag)      == [kind |-> "WARN", about |-> flag]

\* f with the entry x |-> y added or replaced (dict assignment).
Assign(f, x, y) == [z \in DOMAIN f \cup {x} |-> IF z = x THEN y ELSE f[z]]

---------------------------------------------------------------------------
(* load: a RAMPAGE belongs to the latest SNAPMARK; one that precedes every  *)
(* SNAPMARK is dropped because cur_snap is still None.                      *)

EmptyTrace == [snapshots |-> << >>, warnings |-> << >>]

LoadRecord(tr, rec) ==
  LET n == Len(tr.snapshots)
  IN CASE rec.kind = "SNAPMARK" ->
            [tr EXCEPT !.snapshots = Append(@,
               [seq |-> rec.seq, changed |-> rec.changed, flags |-> rec.flags,
                pages |-> << >>])]
       [] rec.kind = "RAMPAGE" ->
            IF n = 0 THEN tr
            ELSE [tr EXCEPT !.snapshots[n].pages = Assign(@, rec.page, rec.content)]
       [] rec.kind = "WARN" -> [tr EXCEPT !.warnings = Append(@, rec.about)]

Load(file) == FoldLeft(LoadRecord, EmptyTrace, file)

---------------------------------------------------------------------------
(* RamImage and rebuild_states.                                             *)

BlankImage == [p \in Page |-> Unseen]

ApplyPages(image, pages) ==
  [p \in Page |-> IF p \in DOMAIN pages THEN pages[p] ELSE image[p]]

\* One state per snapshot; only F_INCOMPLETE clears complete.
AddState(states, snap) ==
  LET before == IF states = << >> THEN BlankImage ELSE states[Len(states)].image
  IN Append(states, [seq      |-> snap.seq,
                     flags    |-> snap.flags,
                     image    |-> ApplyPages(before, snap.pages),
                     complete |-> "INCOMPLETE" \notin snap.flags])

RebuildStates(tr) == FoldLeft(AddState, << >>, tr.snapshots)

States(file) == RebuildStates(Load(file))

---------------------------------------------------------------------------
(* The same image without a fold: the content of a page is the one of the   *)
(* last RAMPAGE record written for it.                                      *)

WritesOf(file, p) ==
  {i \in DOMAIN file : file[i].kind = "RAMPAGE" /\ file[i].page = p}

IsLastWrite(file, p, i) ==
  i \in WritesOf(file, p) /\ \A j \in WritesOf(file, p) : j <= i

LastWrite(file, p) ==
  IF WritesOf(file, p) = {} THEN Unseen
  ELSE file[CHOOSE i \in WritesOf(file, p) : IsLastWrite(file, p, i)].content

\* The image after the first n records of the file.
ImageUpTo(file, n) == [p \in Page |-> LastWrite(SubSeq(file, 1, n), p)]
=============================================================================
