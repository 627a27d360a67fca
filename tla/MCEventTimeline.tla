-------------------------- MODULE MCEventTimeline --------------------------
(***************************************************************************)
(* Small instances of EventTimeline for TLC: one guest kernel per question *)
(***************************************************************************)
EXTENDS EventTimeline

Base == [cpus |-> {0, 1}, ops |-> {}, channels |-> {}, frames |-> FALSE,
         cloneDeclared |-> FALSE, unreadable |-> FALSE, depth |-> 1, hits |-> 5,
         pages |-> 2]

\* Two vCPUs, semantic switch records, entries and traps.
SwitchChannel == [Base EXCEPT !.ops = {"trap", "switch"}, !.channels = {"switch"}]
\* One vCPU, entry-based switches with a frame each, rows reused.
Frames == [Base EXCEPT !.cpus = {0}, !.ops = {"trap", "switch", "fork", "reap"},
                       !.frames = TRUE, !.hits = 6]
\* Two vCPUs, allocation and clone completion records that may be unreadable.
Completions == [Base EXCEPT !.ops = {"alloc", "free", "fork"},
                            !.channels = {"alloc", "free", "fork"},
                            !.unreadable = TRUE]
\* Nested operations on one vCPU, without the clone channel.
Nested == [Base EXCEPT !.cpus = {0}, !.ops = {"alloc", "fork"}, !.channels = {"alloc"},
                       !.depth = 2, !.hits = 6]
\* Exact allocator counters in snapshots, one vCPU.
Counters == [Base EXCEPT !.cpus = {0}, !.ops = {"alloc", "free", "snap"},
                         !.channels = {"alloc", "free"}, !.hits = 6]
\* A manifest that declares the clone channel; no clone need succeed.
Declared == [Base EXCEPT !.cpus = {0}, !.ops = {"fork"}, !.channels = {"fork"},
                         !.cloneDeclared = TRUE, !.unreadable = TRUE]

AllKernels == {SwitchChannel, Frames, Completions, Nested, Counters, Declared}
=============================================================================
