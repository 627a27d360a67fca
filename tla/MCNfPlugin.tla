----------------------------- MODULE MCNfPlugin -----------------------------
(***************************************************************************)
(* Small instances of NfPlugin for TLC: one vCPU with every kind of        *)
(* callback; two vCPUs, a rate-limited watch, maxinsn and a disk that may  *)
(* fill up; two vCPUs and an @esnap watch.                                 *)
(***************************************************************************)
EXTENDS NfPlugin, TLC

CONSTANT w1

Single ==
  [vcpu |-> {0}, watch |-> {w1}, snap |-> {w1}, throttle |-> {w1}, nft |-> {w1},
   rate |-> (w1 :> 0), returns |-> TRUE, sample |-> 2, every |-> 2,
   boot |-> 4, start |-> 3, maxinsn |-> 0, evsnapmin |-> 2, evsnapmax |-> 2,
   diskMayFill |-> FALSE, maxRetired |-> 5, maxCallbacks |-> 3, maxEvents |-> 1]

Smp ==
  [vcpu |-> {0, 1}, watch |-> {w1}, snap |-> {}, throttle |-> {}, nft |-> {},
   rate |-> (w1 :> 2), returns |-> TRUE, sample |-> 2, every |-> 2, boot |-> 4,
   start |-> 2, maxinsn |-> 3, evsnapmin |-> 2, evsnapmax |-> 2,
   diskMayFill |-> TRUE, maxRetired |-> 3, maxCallbacks |-> 4, maxEvents |-> 0]

EsnapSmp ==
  [Smp EXCEPT !.snap = {w1}, !.throttle = {w1}, !.rate = (w1 :> 0), !.sample = 0,
   !.every = 100, !.boot = 0, !.start = 0, !.maxinsn = 0, !.diskMayFill = FALSE,
   !.maxRetired = 5, !.maxEvents = 1]

SingleAndSmp == {Single, Smp}
OnlyEsnapSmp == {EsnapSmp}
=============================================================================
