----------------------------- MODULE CallStacks -----------------------------
(***************************************************************************)
(* Function call chains from observed entries and returns (callstack.py).  *)
(* One vCPU runs several kernel tasks; every task has its kernel stack.    *)
(* The recorder sees the entries of the watched functions, every RISC-V    *)
(* return, traps and task switches, in clock order; observed_stacks keeps  *)
(* a list of frames it believes to be suspended and joins a new entry to   *)
(* the last of them when caller, stack pointer and address space agree.    *)
(* All tasks share one address space here, so that satp never helps.       *)
(***************************************************************************)
EXTENDS Integers, Sequences

CONSTANTS
  Fn,            \* kernel functions
  SwitchFn,      \* the one that switches tasks (swtch, __switch)
  Vector,        \* the trap vector: assembly that no watch resolves to
  Watched,       \* functions with an observation point
  Rated,         \* those whose point is rate limited: entries may be dropped
  NftSwitch,     \* switches come as nftrace records instead of entries
  ZeroRa,        \* the trap vector may call a handler with ra = 0
  Sibling,       \* functions that the compiler ends with a sibling call
  Syscalls,      \* the guest makes system calls
  Task,          \* numbers of the tasks
  MaxFrames,     \* callstack.py keeps at most 64 frames
  MaxDepth       \* model bound: depth of a kernel stack

ASSUME CallStackAssumption ==
  /\ Rated \subseteq Watched /\ Watched \subseteq Fn
  /\ SwitchFn \in Fn \ Rated /\ Vector \notin Fn
  /\ Sibling \subseteq Fn \ {SwitchFn}
  /\ {NftSwitch, ZeroRa, Syscalls} \subseteq BOOLEAN
  /\ Task \subseteq Nat /\ Task # {}
  /\ MaxFrames \in Nat \ {0} /\ MaxDepth \in Nat \ {0}

VARIABLES
  stack,    \* the kernel stack of every task: frames [fn, ra, sp]
  cur,      \* the task that runs
  mode,     \* "kernel" or "user"
  frames,   \* active[cpu]
  matched,  \* the return just processed matched the last frame
  report    \* the path recorded for the entry just processed

guest == <<stack, cur, mode>>
vars == <<stack, cur, mode, frames, matched, report>>

\* ra is the calling function, which is what resolve_pc makes of the address.
Frame(fn, ra, sp) == [fn |-> fn, ra |-> ra, sp |-> sp]
StackBase(t) == (t + 1) * (MaxDepth + 1)
SpAt(t, depth) == StackBase(t) - depth
Top(s) == s[Len(s)]
Pop(s) == SubSeq(s, 1, Len(s) - 1)

Init ==
  /\ stack = [t \in Task |-> << >>]
  /\ cur \in Task
  /\ mode = "user"
  /\ frames = << >> /\ matched = FALSE /\ report = << >>

---------------------------------------------------------------------------
(* The body of the loop of observed_stacks, one operator per kind of row.   *)

Quiet == matched' = FALSE /\ report' = << >>

\* A trap, an interrupt, a firmware event or an nftrace switch.
BreakChain == frames' = << >> /\ Quiet

Joins(f) ==
  /\ frames # << >>
  /\ f.ra = Top(frames).fn
  /\ f.sp <= Top(frames).sp

ProcessEntry(f) ==
  LET kept == IF Joins(f) /\ Len(frames) < MaxFrames THEN frames ELSE << >>
  IN /\ frames' = Append(kept, f)
     /\ report' = frames'
     /\ matched' = FALSE

\* An entry without return address (0) is not used and the chain is dropped.
EntryRow(f) == ProcessEntry(f) \/ (ZeroRa /\ f.ra = Vector /\ BreakChain)

PopsByAddress(ra, sp) == frames # << >> /\ Top(frames).ra = ra

PopsDeeper(ra, sp) == frames # << >> /\ Top(frames).ra = ra /\ Top(frames).sp < sp

Pops(ra, sp) == frames # << >> /\ Top(frames).ra = ra /\ Top(frames).sp = sp

ReturnRow(ra, sp) ==
  /\ frames' = IF Pops(ra, sp) THEN Pop(frames) ELSE frames
  /\ matched' = Pops(ra, sp)
  /\ report' = << >>

\* A row that is neither an entry, a return nor one of the breaking kinds.
NoRow == UNCHANGED frames /\ Quiet

\* What the recorder makes of the guest entering f.
Entered(f) ==
  \/ f.fn \in Watched /\ EntryRow(f)
  \/ f.fn \in Rated \cup (Fn \ Watched) /\ NoRow

---------------------------------------------------------------------------
(* The guest and the rows it causes.                                        *)

Depth == Len(stack[cur])
Running == IF stack[cur] = << >> THEN Vector ELSE Top(stack[cur]).fn
Push(f) == stack' = [stack EXCEPT ![cur] = Append(@, f)]

\* A function that calls has saved ra, so the callee starts below it.
Call(g) ==
  /\ mode = "kernel" /\ Depth \in 1..(MaxDepth - 1) /\ g # SwitchFn
  /\ Running # SwitchFn
  /\ LET f == Frame(g, Running, SpAt(cur, Depth))
     IN Push(f) /\ Entered(f)
  /\ UNCHANGED <<cur, mode>>

\* A sibling call replaces the frame and leaves ra and sp as they are.
TailCall(g) ==
  /\ mode = "kernel" /\ Depth > 0 /\ Running \in Sibling /\ g # SwitchFn
  /\ LET f == [Top(stack[cur]) EXCEPT !.fn = g]
     IN stack' = [stack EXCEPT ![cur] = Append(Pop(@), f)] /\ Entered(f)
  /\ UNCHANGED <<cur, mode>>

\* A ret instruction; the outermost function returns to the trap vector, which
\* resumes user mode or what a nested trap had interrupted.
Return ==
  /\ mode = "kernel" /\ Depth > 0
  /\ ReturnRow(Top(stack[cur]).ra, Top(stack[cur]).sp)
  /\ stack' = [stack EXCEPT ![cur] = Pop(@)]
  /\ mode' = IF Depth = 1 THEN "user" ELSE "kernel"
  /\ UNCHANGED cur

\* The kernel leaves by sret from within its functions (usertrapret): the
\* frames are abandoned and no row says so.
LeaveKernel ==
  /\ mode = "kernel" /\ Depth > 0 /\ Running # SwitchFn
  /\ stack' = [stack EXCEPT ![cur] = << >>] /\ mode' = "user"
  /\ NoRow
  /\ UNCHANGED cur

\* A system call is an event of kind syscall.enter, which does not break chains.
Syscall ==
  /\ Syscalls /\ mode = "user"
  /\ mode' = "vector"
  /\ NoRow
  /\ UNCHANGED <<stack, cur>>

\* Any other trap or interrupt, in user or kernel mode.
Trap ==
  /\ mode \in {"user", "kernel"} /\ Depth < MaxDepth
  /\ mode' = "vector"
  /\ BreakChain
  /\ UNCHANGED <<stack, cur>>

\* The trap vector calls a handler on the kernel stack of the task.
Handler(g) ==
  /\ mode = "vector" /\ g # SwitchFn
  /\ LET f == Frame(g, Vector, SpAt(cur, Depth))
     IN Push(f) /\ Entered(f)
  /\ mode' = "kernel"
  /\ UNCHANGED cur

\* The switch function is entered ...
EnterSwitch ==
  /\ mode = "kernel" /\ Depth \in 1..(MaxDepth - 1) /\ Running # SwitchFn
  /\ LET f == Frame(SwitchFn, Running, SpAt(cur, Depth))
     IN /\ Push(f)
        /\ IF NftSwitch THEN BreakChain ELSE Entered(f)
  /\ UNCHANGED <<cur, mode>>

\* ... and returns on the stack of another task: into the switch function that
\* task had entered, or, the first time, to user mode.
SwitchTo(t) ==
  /\ mode = "kernel" /\ Running = SwitchFn
  /\ t # cur /\ cur' = t
  /\ IF stack[t] = << >>
     THEN ReturnRow(Vector, StackBase(t)) /\ mode' = "user" /\ UNCHANGED stack
     ELSE /\ ReturnRow(Top(stack[t]).ra, Top(stack[t]).sp)
          /\ stack' = [stack EXCEPT ![t] = Pop(@)]
          /\ UNCHANGED mode

Next ==
  \/ \E g \in Fn : Call(g) \/ TailCall(g) \/ Handler(g)
  \/ Return \/ LeaveKernel \/ Syscall \/ Trap \/ EnterSwitch
  \/ \E t \in Task : SwitchTo(t)

Spec == Init /\ [][Next]_vars

---------------------------------------------------------------------------
(* Properties.                                                              *)

\* The suspended frame of task t that owns the stack pointer of f.
IsSuspended(f, t) ==
  LET d == StackBase(t) - f.sp + 1
  IN d \in DOMAIN stack[t] /\ stack[t][d] = f

\* The path shown for an entry is never a guess (callstack.py:12): all of its
\* frames are suspended on the stack of the running task when it is recorded,
\* whatever was not watched, interrupted, abandoned or switched away before.
PathsAreReal ==
  \A i \in DOMAIN report : IsSuspended(report[i], cur)

\* A matched return really ends the frame it removes: the frame was the
\* innermost one of the task that executed the return.
MatchesAreReal ==
  [][matched' => \E t \in Task :
       /\ t = cur' /\ stack[t] # << >>
       /\ Top(frames).sp = Top(stack[t]).sp /\ Top(frames).ra = Top(stack[t]).ra
       /\ stack'[t] = Pop(stack[t])]_vars
=============================================================================
