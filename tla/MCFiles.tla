------------------------------ MODULE MCFiles ------------------------------
(***************************************************************************)
(* Small instances for TLC of the two programs that rewrite files: the     *)
(* recorder around its kernel and the exporter of videos.  They share no   *)
(* file, so a behaviour runs one of them and leaves the other at rest.     *)
(***************************************************************************)
EXTENDS RecorderFiles, VideoExport

VARIABLE program      \* the program that runs

NothingExported ==
  [html |-> CHOOSE r \in Reports : TRUE, frames |-> << >>, mp4 |-> NoVideo,
   sidecar |-> [video |-> NoVideo, frames |-> 0, info |-> None]]

FilesInit ==
  \/ /\ program = "record" /\ Init
     /\ exports = MaxExports /\ client = [Attempt(1) EXCEPT !.at = "done"]
     /\ chrome = NoBrowser /\ files = NothingExported
  \/ /\ program = "video" /\ VideoInit
     /\ Init /\ mode.noBuild /\ ~mode.calibrated /\ \A f \in File : disk[f] = Absent

Rec == program = "record" /\ UNCHANGED <<videoVars, program>>
Vid == program = "video" /\ UNCHANGED <<vars, program>>

FilesNext ==
  \/ Rec /\ SkipBuild
  \/ Rec /\ StartBuild
  \/ Rec /\ Backup
  \/ Rec /\ DeleteStale
  \/ Rec /\ Build
  \/ Rec /\ CheckBuild
  \/ Rec /\ StartCalibration
  \/ Rec /\ Calibrate
  \/ Rec /\ Record
  \/ Rec /\ Killed
  \/ Rec /\ RestoreFile
  \/ Rec /\ RestoreFails
  \/ Rec /\ ExitFails
  \/ Rec /\ RestoreEnds
  \/ Rec /\ ExitRestores
  \/ Rec /\ ExitRemovesBackups
  \/ Vid /\ BeginAttempt
  \/ Vid /\ Launch
  \/ Vid /\ Send
  \/ Vid /\ GiveUpWaiting
  \/ Vid /\ Receive
  \/ Vid /\ ReadFails
  \/ Vid /\ ReadTimesOut
  \/ Vid /\ CommandExpires
  \/ Vid /\ WaitExpires
  \/ Vid /\ Execute
  \/ Vid /\ Settle
  \/ Vid /\ CommandErrs
  \/ Vid /\ BrowserEvent
  \/ Vid /\ BrowserDies
  \/ Vid /\ WaitBrowser
  \/ Vid /\ DeleteVideo
  \/ Vid /\ Encode
  \/ Vid /\ Sidecar
  \/ Vid /\ NewReport
  \/ Vid /\ ExportAgain

FilesSpec == FilesInit /\ [][FilesNext]_<<vars, videoVars, program>> /\ VideoFairness
=============================================================================
