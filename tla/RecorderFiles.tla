--------------------------- MODULE RecorderFiles ---------------------------
(***************************************************************************)
(* What record.py does to the files of the kernel it records: build_kernel *)
(* deletes the old ELF and image and rebuilds them, the calibration run    *)
(* lets QEMU write to the disk images, and ArtifactGuard backs files up    *)
(* and puts them back.  Any file operation may fail with OSError, and the  *)
(* recorder may be killed between any two of them.                         *)
(***************************************************************************)
EXTENDS Integers, FiniteSets

CONSTANTS
  Product,    \* the kernel ELF and the kernel image
  Disk,       \* protected files: disk images and the like
  Required    \* the disks that the build must leave in place

ASSUME RecorderAssumption ==
  /\ Product # {} /\ IsFiniteSet(Product \cup Disk)
  /\ Product \cap Disk = {} /\ Required \subseteq Disk

File == Product \cup Disk
Absent == "absent"
Bytes == {"old", "built", "dirtied"}

VARIABLES
  mode,      \* how the recorder was called, see Init
  disk,      \* contents of every file
  phase,     \* where the recorder is
  guarded,   \* the paths of the guard in use
  saved,     \* guard._saved: backed-up files and their contents
  dir,       \* guard._dir exists
  restored,  \* guard._restored
  left,      \* files the current loop has not reached
  failing,   \* an exception is on its way out of the guarded block
  before,    \* history: contents when the guard was entered
  result     \* "none", "recorded" or "failed"

guard == <<guarded, saved, dir, restored>>
vars == <<mode, disk, phase, guard, left, failing, before, result>>

\* --no-build, and whether a calibration run is needed.
NoBuild == mode.noBuild
Calibrated == mode.calibrated

Init ==
  /\ mode \in [noBuild : BOOLEAN, calibrated : BOOLEAN]
  /\ disk \in [File -> {"old", Absent}]
  /\ phase = "build"
  /\ guarded = {} /\ saved = [f \in {} |-> Absent] /\ dir = FALSE /\ restored = FALSE
  /\ left = {} /\ failing = FALSE
  /\ before = disk
  /\ result = "none"

Go(p) == phase' = p
Fail == result' = "failed" /\ Go("ended")
Calibrating == guarded = Disk

---------------------------------------------------------------------------
(* ArtifactGuard.__enter__, restore and __exit__.                           *)

Enter(paths) ==
  /\ guarded' = paths
  /\ saved' = [f \in {} |-> Absent] /\ dir' = TRUE /\ restored' = FALSE
  /\ left' = {f \in paths : disk[f] # Absent}
  /\ before' = disk /\ failing' = FALSE
  /\ Go("backup")
  /\ UNCHANGED <<disk, result, mode>>

Backup ==
  /\ phase = "backup"
  /\ \/ \E f \in left :
          /\ saved' = [x \in DOMAIN saved \cup {f} |->
                         IF x = f THEN disk[f] ELSE saved[x]]
          /\ left' = left \ {f}
          /\ UNCHANGED <<phase, dir, result>>
     \/ \* A backup fails: the guard removes its directory and raises.
        /\ left # {} /\ dir' = FALSE /\ Fail
        /\ UNCHANGED <<saved, left>>
     \/ /\ left = {} /\ Go("body")
        /\ left' = IF Calibrating THEN {} ELSE Product
        /\ UNCHANGED <<saved, dir, result>>
  /\ UNCHANGED <<disk, guarded, restored, failing, before, mode>>

StartRestore == Go("restore") /\ left' = DOMAIN saved

\* One file: skipped when it is unchanged, else staged next to its place and
\* renamed over it; nothing is removed that was not there before.
RestoreFile ==
  /\ phase \in {"restore", "exit"}
  /\ \E f \in left :
       /\ disk' = [disk EXCEPT ![f] = saved[f]]
       /\ left' = left \ {f}
  /\ UNCHANGED <<phase, guard, failing, before, mode, result>>

\* A mutant of RestoreFails: the error is swallowed and the rest skipped.
RestoreFailsUnnoticed ==
  /\ phase = "restore" /\ left # {}
  /\ left' = {}
  /\ UNCHANGED <<disk, phase, failing, guard, before, mode, result>>

\* restore() inside the guarded block raises: __exit__ will try once more.
RestoreFails ==
  /\ phase = "restore" /\ left # {}
  /\ failing' = TRUE /\ Go("exit") /\ left' = DOMAIN saved
  /\ UNCHANGED <<disk, guard, before, mode, result>>

\* restore() inside __exit__ raises: the backups are kept and named.
ExitFails ==
  /\ phase = "exit" /\ ~restored /\ left # {}
  /\ Fail
  /\ UNCHANGED <<disk, guard, left, failing, before, mode>>

RestoreEnds ==
  /\ phase = "restore" /\ left = {}
  /\ restored' = TRUE /\ Go("exit")
  /\ failing' = (failing \/ ~Calibrating)
  /\ UNCHANGED <<disk, guarded, saved, dir, left, before, mode, result>>

\* The block raised before restoring or committing: __exit__ restores.
ExitRestores ==
  /\ phase = "exit" /\ ~restored /\ left = {}
  /\ restored' = TRUE
  /\ UNCHANGED <<disk, phase, guarded, saved, dir, left, failing, before, mode, result>>

\* A mutant of ExitRemovesBackups: it does not wait for the restore.
ExitDropsTooEarly ==
  /\ phase = "exit" /\ dir
  /\ dir' = FALSE
  /\ IF failing THEN Fail
     ELSE Go(IF ~Calibrating /\ Calibrated THEN "calibrate" ELSE "record")
          /\ UNCHANGED result
  /\ UNCHANGED <<disk, guarded, saved, restored, left, failing, before, mode>>

ExitRemovesBackups ==
  /\ phase = "exit" /\ restored /\ left = {}
  /\ dir' = FALSE
  /\ IF failing THEN Fail
     ELSE Go(IF ~Calibrating /\ Calibrated THEN "calibrate" ELSE "record")
          /\ UNCHANGED result
  /\ UNCHANGED <<disk, guarded, saved, restored, left, failing, before, mode>>

---------------------------------------------------------------------------
(* build_kernel.                                                            *)

\* --no-build: the products must be there.
SkipBuild ==
  /\ phase = "build" /\ NoBuild
  /\ IF \E f \in Product : disk[f] = Absent THEN Fail
     ELSE Go(IF Calibrated THEN "calibrate" ELSE "record") /\ UNCHANGED result
  /\ UNCHANGED <<disk, guard, left, failing, before, mode>>

\* Make variables that the build command has no place for are refused.
StartBuild ==
  /\ phase = "build" /\ ~NoBuild
  /\ \/ Enter(File)
     \/ Fail /\ UNCHANGED <<disk, guard, left, failing, before, mode>>

\* A mutant of DeleteStale that builds over the old products.
KeepStale ==
  /\ phase = "body" /\ ~Calibrating /\ left # {}
  /\ left' = {}
  /\ UNCHANGED <<disk, phase, failing, guard, before, mode, result>>

\* The stale products are deleted one by one; one that cannot be deleted stops
\* the recorder before it would build over it.
DeleteStale ==
  /\ phase = "body" /\ ~Calibrating /\ left # {}
  /\ \/ \E f \in left :
          disk' = [disk EXCEPT ![f] = Absent] /\ left' = left \ {f}
        /\ UNCHANGED <<phase, failing>>
     \/ /\ failing' = TRUE /\ Go("exit") /\ left' = DOMAIN saved
        /\ UNCHANGED disk
  /\ UNCHANGED <<guard, before, mode, result>>

\* The build command writes, leaves or deletes any of the files; starting it
\* may raise.
Build ==
  /\ phase = "body" /\ ~Calibrating /\ left = {}
  /\ \E made \in [File -> {"built", Absent, "kept"}] :
       disk' = [f \in File |-> IF made[f] = "kept" THEN disk[f] ELSE made[f]]
  /\ \/ Go("check") /\ UNCHANGED <<left, failing>>
     \/ Go("exit") /\ failing' = TRUE /\ left' = DOMAIN saved
  /\ UNCHANGED <<guard, before, mode, result>>

Problems ==
  \/ \E f \in Product : disk[f] = Absent
  \/ \E f \in Required : f \in DOMAIN saved /\ disk[f] = Absent

CheckBuild ==
  /\ phase = "check"
  /\ IF Problems THEN StartRestore /\ UNCHANGED restored
     ELSE restored' = TRUE /\ Go("exit") /\ left' = {}
  /\ UNCHANGED <<disk, guarded, saved, dir, failing, before, mode, result>>

---------------------------------------------------------------------------
(* _calibrate, and the run that is recorded.                                *)

StartCalibration == phase = "calibrate" /\ Enter(Disk)

\* QEMU boots the kernel from the real disk images and may write to them; the
\* run may raise.
Calibrate ==
  /\ phase = "body" /\ Calibrating
  /\ \E dirty \in SUBSET {f \in Disk : disk[f] # Absent} :
       disk' = [f \in File |-> IF f \in dirty THEN "dirtied" ELSE disk[f]]
  /\ left' = DOMAIN saved
  /\ \/ Go("restore") /\ UNCHANGED failing
     \/ Go("exit") /\ failing' = TRUE
  /\ UNCHANGED <<guard, before, mode, result>>

\* Everything outside the guards: it may raise too.
Record ==
  /\ phase = "record"
  /\ result' \in {"recorded", "failed"} /\ Go("ended")
  /\ UNCHANGED <<disk, guard, left, failing, before, mode>>

Killed ==
  /\ phase # "ended"
  /\ Go("ended")
  /\ UNCHANGED <<disk, guard, left, failing, before, mode, result>>

Next ==
  \/ SkipBuild \/ StartBuild \/ Backup \/ DeleteStale \/ Build \/ CheckBuild
  \/ StartCalibration \/ Calibrate \/ Record \/ Killed
  \/ RestoreFile \/ RestoreFails \/ ExitFails \/ RestoreEnds
  \/ ExitRestores \/ ExitRemovesBackups

Spec == Init /\ [][Next]_vars

---------------------------------------------------------------------------
(* Properties.                                                              *)

\* Every variable stays in its range.
TypeOK ==
  /\ mode \in [noBuild : BOOLEAN, calibrated : BOOLEAN]
  /\ disk \in [File -> Bytes \cup {Absent}] /\ before \in [File -> Bytes \cup {Absent}]
  /\ phase \in {"build", "backup", "body", "check", "restore", "exit",
                "calibrate", "record", "ended"}
  /\ guarded \in {{}, File, Disk} /\ DOMAIN saved \subseteq guarded
  /\ \A f \in DOMAIN saved : saved[f] = before[f] /\ saved[f] # Absent
  /\ left \subseteq File
  /\ {dir, restored, failing} \subseteq BOOLEAN
  /\ result \in {"none", "recorded", "failed"}

Committed == restored /\ ~Calibrating /\ ~failing

\* Until a build is accepted, no protected file can be lost: it is in its place
\* or in a backup that is still there, also when the recorder is killed or when
\* putting files back fails half-way.
NothingIsLost ==
  ~Committed =>
    \A f \in guarded : before[f] # Absent =>
      disk[f] = before[f] \/ (dir /\ f \in DOMAIN saved)

\* Once a guard has failed and cleaned up after itself, all files are back.
FailureIsUndone ==
  result = "failed" /\ failing /\ ~dir =>
    \A f \in guarded : before[f] # Absent => disk[f] = before[f]

\* What is recorded was built by this run, not left over from an earlier one.
RecordedKernelIsFresh ==
  phase = "record" /\ ~NoBuild => \A f \in Product : disk[f] = "built"

\* The recorded run boots from disks that the calibration run has not touched.
RecordedDisksAreClean ==
  phase = "record" => \A f \in Disk : disk[f] # "dirtied"
=============================================================================
