----------------------------- MODULE RamHistory -----------------------------
(***************************************************************************)
(* What the snapshot channel promises (event-stream.md 2.5): the guest     *)
(* stores to memory, and from time to time the whole of memory is observed *)
(* at one instant.  history holds the observed images, in order.           *)
(***************************************************************************)
EXTENDS Sequences

CONSTANTS Page, Content, Zero

VARIABLES mem, history

Init == mem = [p \in Page |-> Zero] /\ history = << >>

Store == /\ \E p \in Page, c \in Content : mem' = [mem EXCEPT ![p] = c]
         /\ UNCHANGED history

Observe == UNCHANGED mem /\ history' = Append(history, mem)

Next == Store \/ Observe

Spec == Init /\ [][Next]_<<mem, history>>
=============================================================================
