----------------------------- MODULE GuestPages -----------------------------
(***************************************************************************)
(* Physical memory of an xv6-like guest and what guest.py reads in it.     *)
(* The kernel allocates, maps, shares and frees pages in small steps, and  *)
(* a snapshot may be taken between any two of them, so the decoder has to  *)
(* make sense of half-built and half-freed page tables, and of pages that  *)
(* no snapshot has covered.  Tables have two levels here (Sv39: three).    *)
(***************************************************************************)
EXTENDS Integers, Sequences, FiniteSets

CONSTANTS
  LastPage,     \* pages 0 (kernel image) .. LastPage
  Procs,        \* slots of the process table, as 1..n
  Entry,        \* entries of a table; entry 0 is also the free-list link
  VAddr,        \* bound: virtual addresses in use, as pairs of entries
  MaxBirths,    \* bound: processes created
  MaxUnseen     \* bound: pages no snapshot has covered

ASSUME PagesAssumption ==
  /\ LastPage \in Nat \ {0} /\ {MaxBirths, MaxUnseen} \subseteq Nat
  /\ IsFiniteSet(Procs) /\ Procs = 1..Cardinality(Procs)
  /\ 0 \in Entry /\ Entry \subseteq Nat /\ Entry # {0}
  /\ VAddr \subseteq Entry \X Entry

Page == 0..LastPage
KernelPage == 0
NoPage == -1       \* a NULL pointer
FarPage == -2      \* an address outside the recorded memory
Unread == -3       \* u64 returned None

VARIABLES
  mem,      \* the words of every page
  head,     \* kmem.freelist
  procs,    \* the process table
  job,      \* the memory operation each process is in
  freeing,  \* the slot in freeproc, whose lock keeps the others off the CPU
  space,    \* ghost: user pages of each process by virtual address
  free,     \* ghost: the pages on the free list
  births,   \* ghost: processes created so far
  unseen    \* pages that no snapshot has covered

pageVars == <<mem, head, procs, job, freeing, space, free, births, unseen>>

Word(t, p) == [t |-> t, to |-> p]
Zero == Word("zero", NoPage)
Link(p) == Word("link", p)
Filled(t) == [e \in Entry |-> Word(t, NoPage)]    \* memset: zero, one or five

NoSpace == [va \in {} |-> NoPage]
Idle == [do |-> "nothing", page |-> NoPage, stage |-> "done", use |-> "root", va |-> <<0, 0>>]

Without(f, x) == [y \in DOMAIN f \ {x} |-> f[y]]
With(f, x, v) == [y \in DOMAIN f \cup {x} |-> IF y = x THEN v ELSE f[y]]

\* After freerange: all pages behind the kernel are on the list.
PagesInit ==
  /\ mem = [p \in Page |->
              IF p = KernelPage THEN Filled("five")
              ELSE [Filled("one") EXCEPT ![0] = Link(IF p = 1 THEN NoPage ELSE p - 1)]]
  /\ head = LastPage /\ free = Page \ {KernelPage}
  /\ procs = [s \in Procs |-> [state |-> "unused", pid |-> 0, root |-> NoPage]]
  /\ job = [s \in Procs |-> Idle] /\ freeing = 0
  /\ space = [s \in Procs |-> NoSpace]
  /\ births = 0
  /\ unseen \in {u \in SUBSET (Page \ {KernelPage}) : Cardinality(u) <= MaxUnseen}

---------------------------------------------------------------------------
(* The guest kernel.                                                        *)

Runs(s) == freeing \in {0, s}
Ready(s) == Runs(s) /\ freeing = 0 /\ job[s].do = "nothing" /\ procs[s].state = "used"

\* Table of the second level for va, NoPage without one.
TableOf(s, va) ==
  IF procs[s].root = NoPage THEN NoPage
  ELSE LET w == mem[procs[s].root][va[1]] IN IF w.t = "node" THEN w.to ELSE NoPage
Pte(s, va) == mem[TableOf(s, va)][va[2]]
Mapped(s, va) == TableOf(s, va) # NoPage /\ Pte(s, va).t \in {"user", "kern"}

AllocProc(s) ==
  /\ freeing = 0 /\ procs[s].state = "unused" /\ births < MaxBirths
  /\ births' = births + 1
  /\ procs' = [procs EXCEPT ![s] = [state |-> "used", pid |-> births', root |-> NoPage]]
  /\ UNCHANGED <<mem, head, job, freeing, space, free, unseen>>

\* kalloc takes the first page off the list; the rest of it and of its caller
\* follow: fill with 5, fill with 0, install.
Kalloc(s, use, va) ==
  /\ Ready(s) /\ head # NoPage
  /\ CASE use = "root" -> procs[s].root = NoPage
       [] use = "node" -> procs[s].root # NoPage /\ TableOf(s, va) = NoPage
       [] OTHER        -> TableOf(s, va) # NoPage /\ ~Mapped(s, va)
  /\ job' = [job EXCEPT ![s] =
               [do |-> "alloc", page |-> head, stage |-> "taken", use |-> use, va |-> va]]
  /\ head' = mem[head][0].to /\ free' = free \ {head}
  /\ UNCHANGED <<mem, procs, freeing, space, births, unseen>>

FillPage(s) ==
  /\ Runs(s) /\ job[s].do = "alloc" /\ job[s].stage \in {"taken", "five"}
  /\ LET next == IF job[s].stage = "taken" THEN "five" ELSE "zero"
     IN /\ mem' = [mem EXCEPT ![job[s].page] = Filled(next)]
        /\ job' = [job EXCEPT ![s].stage = next]
  /\ UNCHANGED <<head, procs, freeing, space, free, births, unseen>>

Install(s) ==
  /\ Runs(s) /\ job[s].do = "alloc" /\ job[s].stage = "zero"
  /\ LET p == job[s].page  va == job[s].va  use == job[s].use
     IN /\ procs' = IF use = "root" THEN [procs EXCEPT ![s].root = p] ELSE procs
        /\ mem' = CASE use = "root" -> mem
                    [] use = "node" -> [mem EXCEPT ![procs[s].root][va[1]] = Word("node", p)]
                    [] OTHER -> [mem EXCEPT ![TableOf(s, va)][va[2]] = Word(use, p)]
        /\ space' = IF use = "user" THEN [space EXCEPT ![s] = With(@, va, p)] ELSE space
  /\ job' = [job EXCEPT ![s] = Idle]
  /\ UNCHANGED <<head, freeing, free, births, unseen>>

\* fork of a kernel with copy on write maps a page of s in t too.
Share(s, t, va) ==
  /\ s # t /\ Ready(s) /\ Ready(t)
  /\ va \in DOMAIN space[s] /\ TableOf(t, va) # NoPage /\ ~Mapped(t, va)
  /\ mem' = [mem EXCEPT ![TableOf(t, va)][va[2]] = Word("user", space[s][va])]
  /\ space' = [space EXCEPT ![t] = With(@, va, space[s][va])]
  /\ UNCHANGED <<head, procs, job, freeing, free, births, unseen>>

Exit(s) ==
  /\ Ready(s)
  /\ procs' = [procs EXCEPT ![s].state = "zombie"]
  /\ UNCHANGED <<mem, head, job, freeing, space, free, births, unseen>>

\* freeproc: user pages and the trapframe, then the tables from below, each by
\* kfree (fill with 1, link, move the head) before the entry is cleared.
HasLeaves(s) == \E va \in VAddr : Mapped(s, va)
UserOf(p) == {s \in Procs : \E va \in DOMAIN space[s] : space[s][va] = p}

FreeNext(s) ==
  /\ procs[s].state = "zombie" /\ Runs(s) /\ job[s].do = "nothing" /\ procs[s].root # NoPage
  /\ freeing' = s
  /\ \E use \in {"leaf", "node", "root"} : \E va \in VAddr \cup {<<0, 0>>} :
       /\ CASE use = "leaf" -> va \in VAddr /\ Mapped(s, va)
            [] use = "node" -> va \in VAddr /\ ~HasLeaves(s) /\ TableOf(s, va) # NoPage
            [] use = "root" -> /\ va = <<0, 0>>
                               /\ \A a \in VAddr : TableOf(s, a) = NoPage
       /\ LET p == CASE use = "leaf" -> Pte(s, va).to
                     [] use = "node" -> TableOf(s, va)
                     [] OTHER -> procs[s].root
              shared == use = "leaf" /\ UserOf(p) \ {s} # {}   \* only the count falls
          IN /\ job' = [job EXCEPT ![s] =
                          [do |-> "free", page |-> p, use |-> use, va |-> va,
                           stage |-> IF shared THEN "head" ELSE "one"]]
             /\ mem' = IF shared THEN mem ELSE [mem EXCEPT ![p] = Filled("one")]
  /\ UNCHANGED <<head, procs, space, free, births, unseen>>

LinkPage(s) ==
  /\ job[s].do = "free" /\ job[s].stage = "one"
  /\ mem' = [mem EXCEPT ![job[s].page][0] = Link(head)]
  /\ job' = [job EXCEPT ![s].stage = "link"]
  /\ UNCHANGED <<head, procs, freeing, space, free, births, unseen>>

MoveHead(s) ==
  /\ job[s].do = "free" /\ job[s].stage = "link"
  /\ head' = job[s].page /\ free' = free \cup {job[s].page}
  /\ job' = [job EXCEPT ![s].stage = "head"]
  /\ UNCHANGED <<mem, procs, freeing, space, births, unseen>>

ClearEntry(s) ==
  /\ job[s].do = "free" /\ job[s].stage = "head"
  /\ LET va == job[s].va  use == job[s].use
     IN /\ mem' = CASE use = "leaf" -> [mem EXCEPT ![TableOf(s, va)][va[2]] = Zero]
                    [] use = "node" -> [mem EXCEPT ![procs[s].root][va[1]] = Zero]
                    [] OTHER -> mem
        /\ procs' = IF use = "root" THEN [procs EXCEPT ![s].root = NoPage] ELSE procs
        /\ space' = IF use = "leaf" /\ va \in DOMAIN space[s]
                    THEN [space EXCEPT ![s] = Without(@, va)] ELSE space
  /\ job' = [job EXCEPT ![s] = Idle]
  /\ UNCHANGED <<head, freeing, free, births, unseen>>

FreeSlot(s) ==
  /\ procs[s].state = "zombie" /\ Runs(s) /\ job[s].do = "nothing" /\ procs[s].root = NoPage
  /\ procs' = [procs EXCEPT ![s] = [state |-> "unused", pid |-> 0, root |-> NoPage]]
  /\ freeing' = 0
  /\ UNCHANGED <<mem, head, job, space, free, births, unseen>>

PagesNext ==
  \E s \in Procs :
    \/ AllocProc(s) \/ FillPage(s) \/ Install(s) \/ Exit(s)
    \/ Kalloc(s, "root", <<0, 0>>)
    \/ \E va \in VAddr : Kalloc(s, "node", va) \/ Kalloc(s, "user", va) \/ Kalloc(s, "kern", va)
    \/ \E t \in Procs, va \in VAddr : Share(s, t, va)
    \/ FreeNext(s) \/ LinkPage(s) \/ MoveHead(s) \/ ClearEntry(s) \/ FreeSlot(s)

PagesSpec == PagesInit /\ [][PagesNext]_pageVars

---------------------------------------------------------------------------
(* guest.py: words of the cumulative image.                                 *)

\* RamImage._off: in range, and covered by a snapshot.
SeenPage(p) == p \in Page \ unseen
U64(p, e) == IF SeenPage(p) THEN mem[p][e] ELSE Word("none", Unread)

\* How a word looks as a pointer, and as a page-table entry: 0x01.. is a valid
\* entry without permissions, 0x05.. a writable leaf, a link is not valid.
AsPointer(w) ==
  CASE w.t \in {"zero", "link", "none"} -> w.to
    [] OTHER -> FarPage
IsValid(w) == w.t \in {"node", "user", "kern", "one", "five"}
IsLeaf(w)  == w.t \in {"user", "kern", "five"}
Target(w)  == IF w.t \in {"node", "user", "kern"} THEN w.to ELSE FarPage

---------------------------------------------------------------------------
(* _decode_physical: the free list.                                         *)

\* A mutant of FreeStep that takes an unread link for the end of the list.
FreeStepEndsAtGap(st) ==
  IF st.at = NoPage \/ ~st.ok THEN st
  ELSE IF st.at \notin Page \/ st.at \in st.pages THEN [st EXCEPT !.ok = FALSE]
  ELSE LET next == AsPointer(U64(st.at, 0))
       IN [at |-> IF next = Unread THEN NoPage ELSE next,
           pages |-> st.pages \cup {st.at}, ok |-> TRUE]

FreeStep(st) ==
  IF st.at = NoPage \/ ~st.ok THEN st
  ELSE IF st.at \notin Page \/ st.at \in st.pages THEN [st EXCEPT !.ok = FALSE]
  ELSE LET next == AsPointer(U64(st.at, 0))
       IN [at |-> next, pages |-> st.pages \cup {st.at}, ok |-> next # Unread]

\* The guard of npages + 16 steps.
MaxSteps == LastPage + 16
FreeSteps[n \in 0..MaxSteps] ==
  IF n = 0 THEN [at |-> head, pages |-> {}, ok |-> TRUE] ELSE FreeStep(FreeSteps[n - 1])
FreeWalk == FreeSteps[MaxSteps]

---------------------------------------------------------------------------
(* walk_pagetable, one level after the other.                               *)

Entries(nodes) == {[va |-> Append(n.va, e), w |-> U64(n.page, e)] :
                     n \in {m \in nodes : SeenPage(m.page)}, e \in Entry}
RootNode(root) == {[page |-> root, va |-> << >>]}

\* A mutant of ChildNodes that leaves children outside the memory out.
ChildNodesInMemory(root) ==
  {[page |-> Target(x.w), va |-> x.va] :
     x \in {y \in Entries(RootNode(root)) :
              IsValid(y.w) /\ ~IsLeaf(y.w) /\ Target(y.w) \in Page}}
ChildNodes(root) ==
  {[page |-> Target(x.w), va |-> x.va] :
     x \in {y \in Entries(RootNode(root)) : IsValid(y.w) /\ ~IsLeaf(y.w)}}
Nodes(root) == RootNode(root) \cup ChildNodes(root)

\* Leaves of either level; a pointer at the last level is not followed.
Leaves(root) == {x \in Entries(Nodes(root)) : IsValid(x.w) /\ IsLeaf(x.w)}
TablePages(root) == {n.page : n \in {m \in Nodes(root) : SeenPage(m.page)}}

\* A mutant of WalkError that reports only an unreadable root.
WalkErrorOfRoot(root) == ~SeenPage(root)
WalkError(root) == \E n \in Nodes(root) : ~SeenPage(n.page)

---------------------------------------------------------------------------
(* _decode_procs and the owners of pages in _decode_physical.               *)

Shown == {s \in Procs : ~(procs[s].state = "unused" /\ procs[s].pid = 0)}

\* A mutant of Rooted for which a zombie has no memory.
RootedAlive == {s \in Shown : procs[s].root # NoPage /\ procs[s].state = "used"}
Rooted == {s \in Shown : procs[s].root # NoPage}
UserLeaves(s) == {x \in Leaves(procs[s].root) : x.w.t = "user"}
KernLeaves(s) == {x \in Leaves(procs[s].root) : x.w.t \in {"kern", "five"} /\ Target(x.w) \in Page}

MappedBy(p, users) == {s \in Rooted : p \in users[s]}
SharedPages ==
  LET users == [s \in Rooted |-> {Target(x.w) : x \in UserLeaves(s)}]
  IN {p \in Page : Cardinality({procs[s].pid : s \in MappedBy(p, users)}) > 1}

\* What one process, in the order of the table, makes of the kind of a page.
Claim(s, kind) ==
  LET users == {Target(x.w) : x \in UserLeaves(s)}
      kerns == {Target(x.w) : x \in KernLeaves(s)}
      own(p) == [kind |-> "user", pid |-> procs[s].pid]
      leaf == [p \in Page |->
                 IF p \in users /\ kind[p].kind # "trapframe" THEN own(p)
                 ELSE IF p \in kerns /\ kind[p].kind = "unknown"
                        THEN [own(p) EXCEPT !.kind = "trapframe"]
                 ELSE kind[p]]
  IN [p \in Page |->
        IF p \in TablePages(procs[s].root) /\ leaf[p].kind = "unknown"
        THEN [own(p) EXCEPT !.kind = "pagetable"] ELSE leaf[p]]

KindFirst ==
  LET walk == FreeWalk
  IN [p \in Page |->
        [kind |-> IF p \in walk.pages THEN "free"
                  ELSE IF p = KernelPage THEN "image" ELSE "unknown", pid |-> 0]]
KindAfter[s \in {0} \cup Procs] ==
  IF s = 0 THEN KindFirst
  ELSE IF s \in Rooted THEN Claim(s, KindAfter[s - 1]) ELSE KindAfter[s - 1]

PageKind ==
  LET walk == FreeWalk
      shared == SharedPages
      final == KindAfter[Cardinality(Procs)]
  IN [p \in Page |->
        IF p \in shared THEN [final[p] EXCEPT !.kind = "shared"]
        ELSE IF walk.ok /\ final[p].kind = "unknown" THEN [final[p] EXCEPT !.kind = "other"]
        ELSE final[p]]

---------------------------------------------------------------------------
(* Properties.                                                              *)

\* The free count of a snapshot is the kernel's, whatever step of kalloc or
\* kfree it was taken at, or there is none: a page that was not covered never
\* makes the list look shorter.  Only free pages are shown as free.
FreeCountIsExact ==
  LET walk == FreeWalk  kind == PageKind
  IN /\ walk.ok => Cardinality(walk.pages) = Cardinality(free)
     /\ \A p \in Page : kind[p].kind = "free" => p \in free

\* An address space shown without an error is the whole of the process's user
\* memory and nothing else, while its tables are built, shared or torn down; a
\* root that is already on the free list always shows as an error of the walk.
SpacesAreReal ==
  \A s \in Rooted : ~WalkError(procs[s].root) =>
    /\ procs[s].root \notin free
    /\ {<<x.va, Target(x.w)>> : x \in UserLeaves(s)}
         = {<<va, space[s][va]>> : va \in DOMAIN space[s]}

\* Pages are shown as shared exactly when two processes map them, and a page
\* that is shown as the property of one process is mapped by it.
OwnersAreReal ==
  LET kind == PageKind
  IN /\ (\A s \in Rooted : ~WalkError(procs[s].root)) =>
          SharedPages = {p \in Page : Cardinality(UserOf(p)) > 1}
     /\ \A p \in Page : kind[p].kind = "user" =>
          \E s \in UserOf(p) : procs[s].pid = kind[p].pid
=============================================================================
