------------------------------ MODULE MCReport ------------------------------
(***************************************************************************)
(* Small instances of the two halves of a report for TLC: the selection of *)
(* its events and the audit of its numbers.  They share no state, so a     *)
(* behaviour runs one of them and leaves the other at rest.                *)
(***************************************************************************)
EXTENDS EventSelection, ReportAudit, TLC

VARIABLE half      \* the half that runs

Interchangeable == Permutations(Semantic) \cup Permutations(Diagnostic)

Rates(S) == [S -> {0, 2}]
Base == [mapped |-> Op, present |-> Op, armed |-> Op, rate |-> [k \in Op |-> 0],
         declared |-> {}, naChannels |-> {}, derive |-> FALSE, symbols |-> TRUE,
         kalloc |-> TRUE, snapshots |-> FALSE, tellsWrites |-> TRUE,
         accounting |-> "one_to_one"]
\* Every rate limit with every source of allocations and cache results.
Counting ==
  {[Base EXCEPT !.rate = r, !.kalloc = c, !.accounting = a, !.tellsWrites = t] :
     r \in Rates(Op), c \in BOOLEAN, a \in {"one_to_one", "semantic", "unverified"},
     t \in BOOLEAN}
\* Every way in which a function may be missing, unwatched or declared absent.
Gaps ==
  {s \in {[Base EXCEPT !.armed = a, !.rate = [k \in a |-> 0], !.present = p,
                       !.mapped = m, !.declared = d, !.derive = v, !.symbols = y] :
            a \in SUBSET Op, p \in SUBSET Op, m \in SUBSET Op, d \in SUBSET Op,
            v \in BOOLEAN, y \in BOOLEAN} :
     s.armed \subseteq s.mapped \cap s.present /\ s.declared \cap s.present = {}}
\* Snapshots, with channels the manifest declares not applicable.
Frames == {[Base EXCEPT !.snapshots = TRUE, !.naChannels = n] :
             n \in SUBSET {"physical_counters", "processes"}}
MCSetups == Counting \cup Gaps \cup Frames

ReportInit ==
  \/ half = "selection" /\ Init /\ setup = Base /\ AuditStart("ended")
  \/ half = "audit" /\ AuditInit /\ raw = [k \in Kind |-> 0] /\ Init

Select(k) == half = "selection" /\ Event(k) /\ UNCHANGED <<auditVars, half>>
Rest == half = "audit" /\ UNCHANGED <<vars, half>>

ReportNext ==
  \/ \E k \in Kind : Select(k)
  \/ GuestAlloc /\ Rest
  \/ \E o \in {"hit", "miss", "error"} : GuestRead(o) /\ Rest
  \/ \E w \in BOOLEAN : GuestDisk(w) /\ Rest
  \/ Snapshot /\ Rest
  \/ FirstAllocatorRecord /\ Rest
  \/ End /\ Rest

ReportSpec == ReportInit /\ [][ReportNext]_<<vars, auditVars, half>>
=============================================================================
