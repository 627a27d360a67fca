--------------------------- MODULE MCDriveSession ---------------------------
(***************************************************************************)
(* Small instances of DriveSession for TLC.                                *)
(***************************************************************************)
EXTENDS DriveSession

\* A kernel that runs its programs by itself.
Batch == [interactive |-> FALSE, preload |-> FALSE, markers |-> {"ready", "done", "panic"}]

\* A shell whose profile has an exit marker, and one that gets its command, and
\* then more input, before it asks.
Shells == {[interactive |-> TRUE, preload |-> FALSE,
            markers |-> {"prompt", "panic", "halt", "exit"}],
           [interactive |-> TRUE, preload |-> TRUE,
            markers |-> {"prompt", "halt", "ask", "done"}]}

MCProfiles == {Batch} \cup Shells
=============================================================================
