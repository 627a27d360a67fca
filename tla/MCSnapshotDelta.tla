-------------------------- MODULE MCSnapshotDelta --------------------------
(***************************************************************************)
(* Small instances of SnapshotDelta for TLC.                               *)
(***************************************************************************)
EXTENDS SnapshotDelta

CONSTANT Data      \* the non-zero contents

\* The zero page compresses to almost nothing, every other page to two units.
MCContent == Data \cup {Zero}
MCBodyLen == [c \in MCContent |-> IF c = Zero THEN 1 ELSE 2]
MCPage    == 0..(PageCount - 1)
=============================================================================
