------------------------------ MODULE MCGuest ------------------------------
(***************************************************************************)
(* Small instances of the two models of guest memory for TLC: the pages of *)
(* an xv6-like kernel and the task tree of an rCore-like one.  A behaviour *)
(* runs one kernel and leaves the other at rest.                           *)
(***************************************************************************)
EXTENDS GuestPages, TaskTree

VARIABLE kernel      \* the kernel that runs

MCVAddr == {<<1, 0>>, <<1, 1>>}

GuestInit ==
  \/ kernel = "xv6" /\ PagesInit /\ TreeInit /\ lost = {} /\ \A c \in Caps : c <= cap
  \/ kernel = "rcore" /\ PagesInit /\ TreeInit /\ unseen = {}

X == kernel = "xv6" /\ UNCHANGED <<treeVars, kernel>>
R == kernel = "rcore" /\ UNCHANGED <<pageVars, kernel>>

GuestNext ==
  \/ \E s \in Procs :
       \/ X /\ AllocProc(s)
       \/ X /\ FillPage(s)
       \/ X /\ Install(s)
       \/ X /\ Exit(s)
       \/ X /\ Kalloc(s, "root", <<0, 0>>)
       \/ \E va \in VAddr, use \in {"node", "user", "kern"} : X /\ Kalloc(s, use, va)
       \/ \E t \in Procs, va \in VAddr : X /\ Share(s, t, va)
       \/ X /\ FreeNext(s)
       \/ X /\ LinkPage(s)
       \/ X /\ MoveHead(s)
       \/ X /\ ClearEntry(s)
       \/ X /\ FreeSlot(s)
  \/ R /\ Boot
  \/ R /\ ReallocFrees
  \/ R /\ ReallocMoves
  \/ R /\ PushWrites
  \/ R /\ PushCounts
  \/ R /\ HandOver
  \/ R /\ ClearChildren
  \/ R /\ Shift
  \/ R /\ RemoveCounts
  \/ R /\ DropTask
  \/ \E p \in Task :
       \/ R /\ ExitTask(p)
       \/ \E c \in Task : R /\ Fork(p, c)
       \/ \E i \in 1..Cardinality(Task) : R /\ Wait(p, i)

GuestSpec == GuestInit /\ [][GuestNext]_<<pageVars, treeVars, kernel>>
=============================================================================
