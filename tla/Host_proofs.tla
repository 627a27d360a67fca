---------------------------- MODULE Host_proofs ----------------------------
(***************************************************************************)
(* Theorems about the programs on the host that deal with files and with   *)
(* QEMU: the recorder around its kernel, for every set of products and     *)
(* disks; its session with QEMU, for every set of profiles and any amount  *)
(* of output; and the export of a report as a video, for every number of   *)
(* frames and exports, every set of reports and any length of the socket's *)
(* queue.                                                                  *)
(***************************************************************************)
EXTENDS RecorderFiles, DriveSession, VideoExport, TLAPS, SequenceTheorems

---------------------------------------------------------------------------
(* The recorder: what the guard, the build and the calibration run know     *)
(* about the files, phase by phase.                                         *)

\* Every file that was there when the guard was entered has a backup.
BackedUp == dir /\ \A f \in guarded : before[f] # Absent => f \in DOMAIN saved

\* What each phase of the guard knows about the backups.
GuardInv ==
  /\ phase = "backup" =>
       /\ dir /\ disk = before
       /\ \A f \in left : f \in guarded /\ disk[f] # Absent
       /\ \A f \in guarded : before[f] # Absent => f \in left \cup DOMAIN saved
  /\ phase \in {"body", "check", "restore", "exit"} => BackedUp
  /\ phase = "restore" \/ (phase = "exit" /\ ~Committed) =>
       \A f \in DOMAIN saved \ left : disk[f] = saved[f]
  /\ phase \in {"restore", "exit"} => left \subseteq DOMAIN saved
  /\ phase = "exit" => IF restored THEN left = {} ELSE failing
  /\ phase \in {"backup", "body", "check", "restore"} => ~restored
  /\ phase \in {"build", "backup", "body", "check", "calibrate", "record"} => ~failing
  /\ phase \in {"backup", "body", "check", "restore", "exit"} => guarded \in {File, Disk}
  /\ phase = "check" => ~Calibrating
  /\ phase = "body" /\ Calibrating => disk = before
  /\ phase = "build" => guarded = {}
  /\ result = "none" \/ phase = "ended"

\* The products of this run are in place from the moment the build is accepted.
FreshInv ==
  /\ phase = "body" /\ ~Calibrating => \A f \in Product \ left : disk[f] = Absent
  /\ phase = "check" => \A f \in Product : disk[f] \in {"built", Absent}
  /\ ~NoBuild /\ (\/ phase \in {"calibrate", "record"}
                  \/ phase = "exit" /\ Committed
                  \/ phase \in {"backup", "body", "restore", "exit"} /\ Calibrating) =>
       \A f \in Product : disk[f] = "built"
  /\ NoBuild => guarded \in {{}, Disk}

\* A disk that the calibration run has written to is still to be restored.
CleanInv ==
  phase # "ended" =>
    \A f \in File :
      /\ before[f] # "dirtied"
      /\ disk[f] = "dirtied" =>
           phase \in {"restore", "exit"} /\ f \in left /\ f \in DOMAIN saved

\* The inductive invariant.
IInv == TypeOK /\ GuardInv /\ FreshInv /\ CleanInv /\ NothingIsLost /\ FailureIsUndone

\* The invariant holds before the recorder touches any file.
LEMMA InitInv == Init => IInv
  BY RecorderAssumption
     DEF Init, IInv, TypeOK, GuardInv, FreshInv, CleanInv, NothingIsLost, FailureIsUndone,
         File, Bytes, Absent, Committed, Calibrating, NoBuild, Calibrated

\* No operation, failure or kill breaks it.
LEMMA NextInv == IInv /\ [Next]_vars => IInv'
<1>. SUFFICES ASSUME IInv, [Next]_vars PROVE IInv'
  OBVIOUS
<1>. USE RecorderAssumption
     DEF IInv, TypeOK, GuardInv, FreshInv, CleanInv, NothingIsLost, FailureIsUndone, BackedUp,
         File, Bytes, Absent, Committed, Calibrating, NoBuild, Calibrated, guard, Go, Fail
<1>1. CASE SkipBuild
  BY <1>1 DEF SkipBuild
<1>2. CASE StartBuild
  <2>1. TypeOK'
    <3>1. CASE Enter(File) BY <3>1 DEF Enter
    <3>2. CASE ~Enter(File) BY <1>2, <3>2 DEF StartBuild
    <3>3. QED BY <3>1, <3>2
  <2>2. GuardInv'
    BY <1>2 DEF StartBuild, Enter
  <2>3. FreshInv'
    BY <1>2 DEF StartBuild, Enter
  <2>4. CleanInv'
    BY <1>2 DEF StartBuild, Enter
  <2>5. NothingIsLost'
    BY <1>2 DEF StartBuild, Enter
  <2>6. FailureIsUndone'
    BY <1>2 DEF StartBuild, Enter
  <2>. QED BY <2>1, <2>2, <2>3, <2>4, <2>5, <2>6 DEF IInv
<1>3. CASE Backup
  <2>0. /\ phase = "backup" /\ UNCHANGED <<disk, guarded, restored, failing, before, mode>>
    BY <1>3 DEF Backup
  <2>1. ASSUME NEW f \in left, left' = left \ {f}, UNCHANGED <<phase, dir, result>>,
               saved' = [x \in DOMAIN saved \cup {f} |-> IF x = f THEN disk[f] ELSE saved[x]]
        PROVE  IInv'
    <3>1. /\ DOMAIN saved' = DOMAIN saved \cup {f}
          /\ \A x \in DOMAIN saved' : saved'[x] = IF x = f THEN disk[f] ELSE saved[x]
      BY <2>1
    <3>2. DOMAIN saved' \subseteq guarded
      BY <2>0, <3>1
    <3>3. \A x \in DOMAIN saved' : saved'[x] = before[x] /\ saved'[x] # Absent
      BY <2>0, <3>1
    <3>4. left' \subseteq File /\ \A x \in guarded : before[x] # Absent => x \in left' \cup DOMAIN saved'
      BY <2>0, <2>1, <3>1
    <3>5. TypeOK' /\ GuardInv'
      BY <2>0, <2>1, <3>2, <3>3, <3>4
    <3>6. FreshInv' /\ CleanInv'
      BY <2>0, <2>1, <3>2
    <3>7. NothingIsLost' /\ FailureIsUndone'
      BY <2>0, <2>1
    <3>. QED BY <3>5, <3>6, <3>7 DEF IInv
  <2>2. CASE dir' = FALSE /\ Fail /\ UNCHANGED <<saved, left>>
    BY <2>0, <2>2
  <2>3. CASE left = {} /\ Go("body") /\ left' = (IF Calibrating THEN {} ELSE Product)
             /\ UNCHANGED <<saved, dir, result>>
    <3>1. BackedUp'
      <4>1. BackedUp
        BY <2>0, <2>3
      <4>. QED BY <2>0, <2>3, <4>1
    <3>2. TypeOK' /\ GuardInv'
      BY <2>0, <2>3, <3>1
    <3>3. FreshInv' /\ CleanInv'
      BY <2>0, <2>3
    <3>4. NothingIsLost' /\ FailureIsUndone'
      BY <2>0, <2>3
    <3>. QED BY <3>2, <3>3, <3>4 DEF IInv
  <2>. QED BY <1>3, <2>1, <2>2, <2>3 DEF Backup
<1>4. CASE DeleteStale
  <2>1. TypeOK'
    <3>1. disk' \in [File -> Bytes \cup {Absent}] /\ left' \subseteq File
      BY <1>4 DEF DeleteStale
    <3>. QED BY <1>4, <3>1 DEF DeleteStale
  <2>2. GuardInv'
    BY <1>4 DEF DeleteStale
  <2>3. FreshInv'
    BY <1>4 DEF DeleteStale
  <2>4. CleanInv'
    BY <1>4 DEF DeleteStale
  <2>5. NothingIsLost'
    BY <1>4 DEF DeleteStale
  <2>6. FailureIsUndone'
    BY <1>4 DEF DeleteStale
  <2>. QED BY <2>1, <2>2, <2>3, <2>4, <2>5, <2>6 DEF IInv
<1>5. CASE Build
  <2>1. TypeOK'
    <3>1. disk' \in [File -> Bytes \cup {Absent}]
      BY <1>5 DEF Build
    <3>2. left' \subseteq File
      BY <1>5 DEF Build
    <3>. QED BY <1>5, <3>1, <3>2 DEF Build
  <2>2. GuardInv'
    <3>1. BackedUp' /\ failing' = (phase' = "exit") /\ ~restored'
      BY <1>5 DEF Build
    <3>2. phase' = "check" \/ (phase' = "exit" /\ left' = DOMAIN saved /\ saved' = saved)
      BY <1>5 DEF Build
    <3>3. result' = "none" /\ guarded' = File /\ ~Calibrating'
      BY <1>5 DEF Build
    <3>. QED BY <3>1, <3>2, <3>3
  <2>3. FreshInv'
    BY <1>5 DEF Build
  <2>4. CleanInv'
    BY <1>5 DEF Build
  <2>5. NothingIsLost'
    BY <1>5 DEF Build
  <2>6. FailureIsUndone'
    BY <1>5 DEF Build
  <2>. QED BY <2>1, <2>2, <2>3, <2>4, <2>5, <2>6 DEF IInv
<1>6. CASE CheckBuild
  <2>1. TypeOK' /\ GuardInv'
    BY ZenonT(40), <1>6 DEF CheckBuild, StartRestore
  <2>2. FreshInv'
    BY <1>6 DEF CheckBuild, StartRestore, Problems
  <2>3. CleanInv' /\ NothingIsLost' /\ FailureIsUndone'
    BY <1>6 DEF CheckBuild, StartRestore
  <2>. QED BY <2>1, <2>2, <2>3 DEF IInv
<1>7. CASE StartCalibration
  BY <1>7 DEF StartCalibration, Enter
<1>8. CASE Calibrate
  <2>1. TypeOK'
    BY ZenonT(40), <1>8 DEF Calibrate
  <2>2. GuardInv'
    BY <1>8 DEF Calibrate
  <2>3. FreshInv'
    BY <1>8 DEF Calibrate
  <2>4. CleanInv'
    BY <1>8 DEF Calibrate
  <2>5. NothingIsLost'
    BY <1>8 DEF Calibrate
  <2>6. FailureIsUndone'
    BY <1>8 DEF Calibrate
  <2>. QED BY <2>1, <2>2, <2>3, <2>4, <2>5, <2>6 DEF IInv
<1>9. CASE Record
  BY <1>9 DEF Record
<1>10. CASE Killed
  BY <1>10 DEF Killed
<1>11. CASE RestoreFile
  <2>1. TypeOK'
    BY <1>11 DEF RestoreFile
  <2>2. GuardInv'
    BY <1>11 DEF RestoreFile
  <2>3. FreshInv'
    BY <1>11 DEF RestoreFile
  <2>4. CleanInv'
    BY <1>11 DEF RestoreFile
  <2>5. NothingIsLost'
    BY <1>11 DEF RestoreFile
  <2>6. FailureIsUndone'
    BY <1>11 DEF RestoreFile
  <2>. QED BY <2>1, <2>2, <2>3, <2>4, <2>5, <2>6 DEF IInv
<1>12. CASE RestoreFails
  BY <1>12 DEF RestoreFails
<1>13. CASE ExitFails
  BY <1>13 DEF ExitFails
<1>14. CASE RestoreEnds
  BY <1>14 DEF RestoreEnds
<1>15. CASE ExitRestores
  <2>1. TypeOK'
    BY <1>15 DEF ExitRestores
  <2>2. GuardInv'
    BY <1>15 DEF ExitRestores
  <2>3. FreshInv'
    BY <1>15 DEF ExitRestores
  <2>4. CleanInv'
    BY <1>15 DEF ExitRestores
  <2>5. NothingIsLost'
    BY <1>15 DEF ExitRestores
  <2>6. FailureIsUndone'
    BY <1>15 DEF ExitRestores
  <2>. QED BY <2>1, <2>2, <2>3, <2>4, <2>5, <2>6 DEF IInv
<1>16. CASE ExitRemovesBackups
  BY <1>16 DEF ExitRemovesBackups
<1>17. CASE UNCHANGED vars
  BY <1>17 DEF vars
<1>. QED BY <1>1, <1>2, <1>3, <1>4, <1>5, <1>6, <1>7, <1>8, <1>9, <1>10,
            <1>11, <1>12, <1>13, <1>14, <1>15, <1>16, <1>17 DEF Next

\* The invariant holds in every reachable state.
LEMMA Invariant == Spec => []IInv
  BY InitInv, NextInv, PTL DEF Spec

\* Every variable stays in its range, and every backup is a faithful copy.
THEOREM FilesTyped == Spec => []TypeOK
<1>1. IInv => TypeOK
  BY DEF IInv
<1>. QED BY <1>1, Invariant, PTL

\* ArtifactGuard: whatever fails, and wherever the recorder is killed, each file
\* that it touches is in its place or in a backup, until a build is accepted.
THEOREM NothingLost == Spec => []NothingIsLost
<1>1. IInv => NothingIsLost
  BY DEF IInv
<1>. QED BY <1>1, Invariant, PTL

\* A guard that has failed and removed its backups has put everything back.
THEOREM FailureUndone == Spec => []FailureIsUndone
<1>1. IInv => FailureIsUndone
  BY DEF IInv
<1>. QED BY <1>1, Invariant, PTL

\* build_kernel: a kernel that is recorded after a build comes from this build.
THEOREM KernelFresh == Spec => []RecordedKernelIsFresh
<1>1. IInv => RecordedKernelIsFresh
  BY DEF IInv, FreshInv, RecordedKernelIsFresh
<1>. QED BY <1>1, Invariant, PTL

\* _calibrate: the recorded run starts from disks the calibration run left clean.
THEOREM DisksClean == Spec => []RecordedDisksAreClean
<1>1. IInv => RecordedDisksAreClean
  BY DEF IInv, CleanInv, RecordedDisksAreClean, File
<1>. QED BY <1>1, Invariant, PTL

---------------------------------------------------------------------------
(* The export: a sidecar must describe the MP4 beside it although replies   *)
(* are late, stale or errors.  Neither property is inductive: what the      *)
(* sidecar says was decided by the picture each reply carried, when it was  *)
(* read.  VideoInv follows a picture from the page to the disk: what may    *)
(* still be asked of the browser (Queue), what an unread reply of the       *)
(* command in hand shows (Replies), how far the page has drawn (Drawing),   *)
(* and what pictures, MP4 and sidecar hold in every phase (Made).           *)

\* The types of the module's variables.
Names    == Reports \cup {None}
Pictures == [report : Names, k : 0 .. Frames + 1]
Video    == [whole : BOOLEAN, frames : Seq(Pictures)]
Before   == {"attach", "navigate", "probe", "info", "diag"}
Steps    == Before \cup {"frame", "shot"}
Request  == [mine : BOOLEAN, do : Steps \cup {"close"}, k : 0 .. Frames]
Message  == [mine : BOOLEAN, error : BOOLEAN, value : Pictures]
Client   ==
  [at : {"begin", "launch", "cmd", "close", "wait", "encode", "ffmpeg", "sidecar", "done", "failed"},
   attempt : Nat, step : Steps, k : 0 .. Frames, asking : BOOLEAN, late : BOOLEAN,
   overdue : BOOLEAN, broken : BOOLEAN, fault : {None, "cdp", "video", "other"},
   taken : 0 .. Frames, info : Names]
Chrome   ==
  [proc : {"none", "up", "gone"}, entered : BOOLEAN, asked : Seq(Request), inbox : Seq(Message),
   report : Names, drawing : 0 .. Frames, shows : 0 .. Frames]
Files    ==
  [html : Reports, frames : Seq(Pictures), mp4 : Video,
   sidecar : [video : Video, frames : 0 .. Frames, info : Names]]

TypeInv == client \in Client /\ chrome \in Chrome /\ files \in Files

\* While a frame is awaited: before it is asked for and until the page answers,
\* the page shows the frame before it.
Drawing ==
  /\ ~client.asking => chrome.shows = client.k - 1 /\ chrome.drawing = client.k - 1
  /\ chrome.asked # << >> => /\ chrome.shows = client.k - 1
                             /\ chrome.drawing \in {client.k - 1, client.k}

\* The requests the browser has not answered.  Only wait_for, which asks again
\* after a timeout, can leave stale ones behind, and those are probes.
Queue ==
  /\ \A i \in DOMAIN chrome.asked :
       /\ chrome.asked[i].k = client.k
       /\ \/ chrome.asked[i].do = client.step
          \/ chrome.asked[i].do = "probe" /\ client.step = "diag"
       /\ chrome.asked[i].mine => i = Len(chrome.asked)
  /\ client.step \notin {"probe", "diag"} =>
       Len(chrome.asked) <= 1 /\ (~client.asking => chrome.asked = << >>)

\* The reply m to the command of c agrees with the page of b.
Answers(c, b, m) ==
  CASE c.step = "info"  -> m.value.report = b.report
    [] c.step = "frame" -> b.shows = c.k /\ b.drawing = c.k
    [] c.step = "shot"  -> m.value = Picture(b.report, c.k)
    [] OTHER -> TRUE

\* An unread reply of the command in hand: nothing else is being asked, and a
\* reply that is no error agrees with the page as it is now.
Replies ==
  \A i \in DOMAIN chrome.inbox :
    chrome.inbox[i].mine =>
      chrome.asked = << >> /\ (~chrome.inbox[i].error => Answers(client, chrome, chrome.inbox[i]))

\* The session of render_frames, from the first command to the last picture.
Talk ==
  /\ client.fault = None
  /\ client.step \in Before =>
       client.k = 0 /\ client.taken = 0 /\ chrome.shows = 0 /\ chrome.drawing = 0
  /\ client.step \in {"frame", "shot"} =>
       client.k \in 1 .. Frames /\ client.taken = client.k - 1 /\ client.info = chrome.report
  /\ client.step = "shot" => chrome.shows = client.k /\ chrome.drawing = client.k
  /\ client.step = "frame" => Drawing
  /\ Queue
  /\ client.asking => Replies

\* An attempt that has not yet spoken to a browser.
Fresh ==
  /\ client.step = "attach" /\ client.k = 0 /\ client.taken = 0 /\ client.fault = None
  /\ ~client.asking

\* No browser has been spoken to.
Empty == /\ chrome.asked = << >> /\ chrome.inbox = << >> /\ ~chrome.entered
         /\ chrome.shows = 0 /\ chrome.drawing = 0

\* The first n frames of the storyboard, all of report r.
Told(frames, n, r) == Len(frames) = n /\ \A i \in 1 .. n : frames[i] = Picture(r, i)

\* What the pictures, the MP4 and the sidecar hold in every phase of an export.
Made ==
  /\ client.at \in {"launch", "cmd"} => Told(files.frames, client.taken, client.info)
  /\ client.at \in {"close", "wait", "encode", "ffmpeg"} /\ client.fault = None =>
       client.taken = Frames /\ Told(files.frames, Frames, client.info)
  /\ client.at \in {"encode", "ffmpeg", "sidecar"} => client.fault = None
  /\ client.at = "sidecar" => client.taken = Frames /\ Told(files.mp4.frames, Frames, client.info)
  /\ files.sidecar.video.whole =>
       /\ files.sidecar.frames = Frames
       /\ Told(files.sidecar.video.frames, Frames, files.sidecar.info)

\* Which of the facts above hold where make_video stands.
Phases ==
  /\ client.asking => client.at \in {"cmd", "close"}
  /\ client.at \in {"begin", "launch"} => Fresh
  /\ client.at = "launch" => Empty
  /\ client.at = "cmd" => Talk
  /\ client.at = "cmd" /\ client.step = "attach" => ~chrome.entered

\* The inductive invariant of the export.
VideoInv == TypeInv /\ Phases /\ Made /\ BrowsersAreClosed

---------------------------------------------------------------------------

\* A new attempt of make_video is a client.
LEMMA AttemptTyped ==
  ASSUME NEW a \in Nat
  PROVE  Attempt(a) \in Client
BY VideoAssumption DEF Attempt, Client, Steps, Before, Names

\* An attempt that failed is given up or followed by a new one.
LEMMA LeftGone ==
  ASSUME NEW c \in Client, c.fault # None
  PROVE  Left(c) \in Client /\ (Left(c) = [c EXCEPT !.at = "failed"] \/ \E a \in Nat : Left(c) = Attempt(a))
<1>1. CASE c.fault = "cdp" /\ c.attempt < Attempts
  <2>1. Left(c) = Attempt(c.attempt + 1) /\ c.attempt + 1 \in Nat
    BY <1>1 DEF Left, Client, None
  <2> QED BY <2>1, AttemptTyped
<1>2. CASE ~(c.fault = "cdp" /\ c.attempt < Attempts)
  BY <1>2 DEF Left, Client
<1> QED BY <1>1, <1>2

\* After an exception: close() when start() had returned, else the attempt is over.
Ends(c, d) ==
  \/ c.step # "attach" /\ d.at = "close" /\ d.fault # None /\ ~d.asking
  \/ c.step = "attach" /\ d.at = "failed" /\ ~d.asking /\ d.step = "attach"
  \/ c.step = "attach" /\ \E a \in Nat : d = Attempt(a)

\* An exception that is not handled ends the session.
LEMMA RaisedEnds ==
  ASSUME NEW c \in Client, NEW fault \in {"cdp", "video", "other"}
  PROVE  /\ Raised(c, fault) \in Client /\ Ends(c, Raised(c, fault))
         /\ Raised(c, fault).taken \in {0, c.taken}
<1> DEFINE d == [c EXCEPT !.fault = fault, !.asking = FALSE]
<1>1. d \in Client /\ d.fault # None /\ ~d.asking /\ d.step = c.step /\ d.taken = c.taken
  BY DEF Client, None
<1>2. CASE c.step = "attach"
  <2>1. Raised(c, fault) = Left(d)
    BY <1>2 DEF Raised
  <2> HIDE DEF d
  <2>2. \/ Left(d) = [d EXCEPT !.at = "failed"]
        \/ \E a \in Nat : Left(d) = Attempt(a)
    BY <1>1, LeftGone
  <2>3. Left(d) \in Client
    BY <1>1, LeftGone
  <2>4. CASE Left(d) = [d EXCEPT !.at = "failed"]
    <3>1. Left(d).at = "failed" /\ ~Left(d).asking /\ Left(d).step = "attach"
          /\ Left(d).taken = c.taken
      BY <1>1, <1>2, <2>4 DEF Client
    <3> QED BY <1>2, <2>1, <2>3, <3>1 DEF Ends
  <2>5. CASE \E a \in Nat : Left(d) = Attempt(a)
    <3>1. Left(d).taken = 0
      BY <2>5 DEF Attempt
    <3> QED BY <1>2, <2>1, <2>3, <2>5, <3>1 DEF Ends
  <2> QED BY <2>2, <2>4, <2>5
<1>3. CASE c.step # "attach"
  <2>1. Raised(c, fault) = [d EXCEPT !.at = "close"]
    BY <1>3 DEF Raised
  <2> HIDE DEF d
  <2>2. [d EXCEPT !.at = "close"] \in Client /\ [d EXCEPT !.at = "close"].taken = d.taken
        /\ [d EXCEPT !.at = "close"].at = "close" /\ [d EXCEPT !.at = "close"].fault = d.fault
        /\ [d EXCEPT !.at = "close"].asking = d.asking
    BY <1>1 DEF Client
  <2> QED BY <1>1, <1>3, <2>1, <2>2 DEF Ends
<1> QED BY <1>2, <1>3

\* How a command fails.
\* How a command fails: close() goes on, wait_for asks again, or the session ends.
Failing(c, d) ==
  \/ c.at = "close" /\ d = [c EXCEPT !.at = "wait", !.asking = FALSE]
  \/ c.at = "cmd" /\ c.step = "probe" /\ d = [c EXCEPT !.asking = FALSE]
  \/ c.at = "cmd" /\ Ends(c, d)

\* Every exception of cmd takes one of these three ways and saves no picture.
LEMMA FailsFailing ==
  ASSUME NEW c \in Client, c.at \in {"cmd", "close"}, NEW fault \in {"cdp", "other"}
  PROVE  /\ Fails(c, fault) \in Client /\ Failing(c, Fails(c, fault))
         /\ Fails(c, fault).taken \in {0, c.taken}
<1>1. CASE c.at = "close"
  <2>1. Fails(c, fault) = [c EXCEPT !.at = "wait", !.asking = FALSE]
    BY <1>1 DEF Fails
  <2> QED BY <1>1, <2>1 DEF Failing, Client
<1>2. CASE c.at = "cmd" /\ c.step = "probe" /\ fault = "cdp"
  <2>1. Fails(c, fault) = [c EXCEPT !.asking = FALSE]
    BY <1>2 DEF Fails
  <2> QED BY <1>2, <2>1 DEF Failing, Client
<1>3. CASE c.at = "cmd" /\ ~(c.step = "probe" /\ fault = "cdp")
  <2>1. Fails(c, fault) = Raised(c, fault) \/ Fails(c, fault) = Raised(c, "video")
    BY <1>3 DEF Fails
  <2> QED BY <1>3, <2>1, RaisedEnds DEF Failing
<1> QED BY <1>1, <1>2, <1>3

\* A queue made stale keeps its length and its messages, none of them mine.
LEMMA StaleFacts ==
  ASSUME NEW S \in {Request, Message}, NEW s \in Seq(S)
  PROVE  /\ Stale(s) \in Seq(S) /\ Len(Stale(s)) = Len(s) /\ DOMAIN Stale(s) = DOMAIN s
         /\ \A i \in DOMAIN s : Stale(s)[i] = [s[i] EXCEPT !.mine = FALSE] /\ ~Stale(s)[i].mine
<1>1. \A i \in 1 .. Len(s) : s[i] \in S
  OBVIOUS
<1>2. \A m \in S : [m EXCEPT !.mine = FALSE] \in S /\ ~[m EXCEPT !.mine = FALSE].mine
  <2>1. CASE S = Request
    BY <2>1 DEF Request
  <2>2. CASE S = Message
    BY <2>2 DEF Message
  <2> QED BY <2>1, <2>2
<1>3. Stale(s) = [i \in 1 .. Len(s) |-> [s[i] EXCEPT !.mine = FALSE]]
  BY DEF Stale
<1> HIDE DEF Stale
<1>4. \A i \in 1 .. Len(s) : Stale(s)[i] \in S
  BY <1>1, <1>2, <1>3
<1>5. Stale(s) \in Seq(S) /\ Len(Stale(s)) = Len(s)
  BY <1>3, <1>4
<1> QED BY <1>1, <1>2, <1>3, <1>5

\* An attempt that ends at once.
\* The end of a session keeps the invariant.
LEMMA EndsKeeps ==
  ASSUME VideoInv, client.at \in {"launch", "cmd"}, Ends(client, client'), client' \in Client,
         chrome' \in Chrome, chrome'.entered => chrome.entered \/ client'.step = "navigate",
         files' = files
  PROVE  VideoInv'
<1>1. TypeInv'
  BY DEF VideoInv, TypeInv
<1>5. client.step = "attach" => ~chrome.entered
  BY DEF VideoInv, Phases, Empty
<1>2. CASE client.step # "attach" /\ client'.at = "close" /\ client'.fault # None /\ ~client'.asking
  BY <1>1, <1>2 DEF VideoInv, Phases, Made, BrowsersAreClosed
<1>3. CASE client.step = "attach" /\ client'.at = "failed" /\ ~client'.asking
           /\ client'.step = "attach"
  BY <1>1, <1>3, <1>5 DEF VideoInv, Phases, Made, BrowsersAreClosed
<1>4. CASE client.step = "attach" /\ \E a \in Nat : client' = Attempt(a)
  BY <1>1, <1>4, <1>5 DEF VideoInv, Phases, Made, BrowsersAreClosed, Attempt, Fresh
<1> QED BY <1>2, <1>3, <1>4 DEF Ends

\* A failing command keeps the invariant, whatever it did to the flags of the client.
LEMMA FailingKeeps ==
  ASSUME VideoInv, client.at \in {"cmd", "close"},
         NEW c \in Client, c.at = client.at, c.step = client.step, c.k = client.k,
         c.taken = client.taken, c.info = client.info, c.fault = client.fault,
         client' \in Client, Failing(c, client'),
         chrome' \in Chrome, chrome'.asked = chrome.asked, chrome'.shows = chrome.shows,
         chrome'.drawing = chrome.drawing, chrome'.report = chrome.report,
         chrome'.entered => chrome.entered \/ client'.step = "navigate", files' = files
  PROVE  VideoInv'
<1>1. TypeInv'
  BY DEF VideoInv, TypeInv
<1>2. CASE c.at = "close" /\ client' = [c EXCEPT !.at = "wait", !.asking = FALSE]
  <2>1. client'.at = "wait" /\ ~client'.asking /\ client'.fault = client.fault
        /\ client'.taken = client.taken /\ client'.info = client.info /\ client.at = "close"
    BY <1>2 DEF Client
  <2> QED BY <1>1, <2>1 DEF VideoInv, Phases, Made, BrowsersAreClosed
<1>3. CASE c.at = "cmd" /\ c.step = "probe" /\ client' = [c EXCEPT !.asking = FALSE]
  <2>1. /\ client'.at = "cmd" /\ client.at = "cmd" /\ ~client'.asking
        /\ client'.fault = client.fault /\ client'.step = "probe" /\ client.step = "probe"
        /\ client'.taken = client.taken /\ client'.info = client.info /\ client'.k = client.k
    BY <1>3 DEF Client
  <2>2. Talk
    BY <2>1 DEF VideoInv, Phases
  <2>3. Talk'
    BY <2>1, <2>2 DEF Talk, Queue, Before
  <2> QED BY <1>1, <2>1, <2>3 DEF VideoInv, Phases, Made, BrowsersAreClosed
<1>4. CASE c.at = "cmd" /\ Ends(c, client')
  <2>1. Ends(client, client')
    BY <1>4 DEF Ends
  <2> QED BY <1>4, <2>1, EndsKeeps
<1> QED BY <1>2, <1>3, <1>4 DEF Failing

\* The invariant holds at first, also with pictures of an older export on the disk.
LEMMA InitVideo == VideoInit => VideoInv
<1> SUFFICES ASSUME VideoInit PROVE VideoInv
  OBVIOUS
<1>1. client = Attempt(1) /\ client \in Client
  BY AttemptTyped DEF VideoInit
<1>2. chrome = NoBrowser /\ chrome \in Chrome
  BY VideoAssumption DEF VideoInit, NoBrowser, Chrome, Names
<1>3. files \in Files /\ ~files.sidecar.video.whole
  <2>1. PICK r \in Reports, n \in {0, Frames + 1} :
         files = [html |-> r, frames |-> [i \in 1..n |-> Picture(r, i)], mp4 |-> NoVideo,
                  sidecar |-> [video |-> NoVideo, frames |-> 0, info |-> None]]
    BY DEF VideoInit
  <2>2. NoVideo \in Video /\ ~NoVideo.whole
    BY DEF NoVideo, Video
  <2>3. [i \in 1..n |-> Picture(r, i)] \in Seq(Pictures)
    BY VideoAssumption DEF Picture, Pictures, Names
  <2>4. 0 \in 0 .. Frames /\ None \in Names
    BY VideoAssumption DEF Names
  <2> QED BY <2>1, <2>2, <2>3, <2>4 DEF Files
<1>4. Phases /\ BrowsersAreClosed
  BY <1>1, <1>2 DEF Phases, Attempt, Fresh, NoBrowser, BrowsersAreClosed
<1>5. Made
  BY <1>1, <1>3 DEF Made, Attempt
<1> QED BY <1>1, <1>2, <1>3, <1>4, <1>5 DEF VideoInv, TypeInv

\* The frames directory is emptied before an attempt (video.py, render_frames).
LEMMA BeginKeeps == VideoInv /\ BeginAttempt => VideoInv'
<1> SUFFICES ASSUME VideoInv, BeginAttempt PROVE VideoInv'
  OBVIOUS
<1>1. client \in Client /\ chrome \in Chrome /\ files \in Files /\ client.at = "begin" /\ Fresh
  BY DEF VideoInv, TypeInv, BeginAttempt, Phases
<1>2. /\ client' \in Client /\ client'.at = "launch" /\ Fresh'
  BY <1>1 DEF BeginAttempt, Client, Fresh
<1>3. chrome' = NoBrowser /\ chrome' \in Chrome /\ Empty'
  BY VideoAssumption DEF BeginAttempt, NoBrowser, Chrome, Names, Empty
<1>4. files' \in Files /\ files'.frames = << >> /\ files'.sidecar = files.sidecar
  <2>1. << >> \in Seq(Pictures)
    OBVIOUS
  <2>2. files' = [files EXCEPT !.frames = << >>]
    BY DEF BeginAttempt
  <2> DEFINE none == << >>
  <2> HIDE DEF none
  <2>3. none \in Seq(Pictures) /\ files' = [files EXCEPT !.frames = none]
    BY <2>1, <2>2 DEF none
  <2>4. files' \in Files /\ files'.frames = none /\ files'.sidecar = files.sidecar
    BY <1>1, <2>3 DEF Files
  <2> QED BY <2>4 DEF none
<1>5. Made'
  BY <1>1, <1>2, <1>4 DEF Made, Told, Fresh, VideoInv
<1> QED BY <1>2, <1>3, <1>4, <1>5 DEF VideoInv, TypeInv, Phases, BrowsersAreClosed, Empty, Fresh

\* The browser starts or fails to start.
LEMMA LaunchKeeps == VideoInv /\ Launch => VideoInv'
<1> SUFFICES ASSUME VideoInv, Launch PROVE VideoInv'
  OBVIOUS
<1>1. /\ client \in Client /\ chrome \in Chrome /\ files \in Files /\ files' = files
      /\ client.at = "launch" /\ Fresh /\ Empty
  BY DEF VideoInv, TypeInv, Launch, Phases
<1>2. CASE client' = [client EXCEPT !.at = "cmd"] /\ chrome' = [chrome EXCEPT !.proc = "up"]
  <2>1. client' \in Client /\ client'.at = "cmd" /\ Fresh'
        /\ client'.taken = client.taken /\ client'.info = client.info
    BY <1>1, <1>2 DEF Client, Fresh
  <2>2. chrome' \in Chrome /\ Empty'
    BY <1>1, <1>2 DEF Chrome, Empty
  <2>3. Talk'
    BY <2>1, <2>2 DEF Talk, Queue, Fresh, Empty, Before
  <2>4. Made'
    BY <1>1, <2>1 DEF Made, VideoInv
  <2> QED BY <1>1, <2>1, <2>2, <2>3, <2>4
          DEF VideoInv, TypeInv, Phases, BrowsersAreClosed, Empty, Fresh
<1>3. ASSUME NEW fault \in {"cdp", "other"}, NEW p \in {"none", "up", "gone"},
             client' = Raised(client, fault), chrome' = [chrome EXCEPT !.proc = p]
      PROVE  VideoInv'
  <2>1. client' \in Client /\ Ends(client, client')
    BY <1>1, <1>3, RaisedEnds
  <2>2. chrome' \in Chrome /\ chrome'.entered = chrome.entered
    BY <1>1, <1>3 DEF Chrome
  <2> QED BY <1>1, <2>1, <2>2, EndsKeeps
<1> QED BY <1>2, <1>3 DEF Launch

\* A command is sent: older requests and replies become stale.
LEMMA SendKeeps == VideoInv /\ Send => VideoInv'
<1> SUFFICES ASSUME VideoInv, Send PROVE VideoInv'
  OBVIOUS
<1>1. /\ client \in Client /\ chrome \in Chrome /\ files \in Files /\ files' = files
      /\ client.at \in {"cmd", "close"} /\ ~client.asking
  BY DEF VideoInv, TypeInv, Send
<1> DEFINE request == [mine |-> TRUE, do |-> IF client.at = "close" THEN "close" ELSE client.step,
                       k |-> client.k]
<1>2. CASE /\ client' = [client EXCEPT !.asking = TRUE, !.late = FALSE]
           /\ chrome' = [chrome EXCEPT !.inbox = Stale(@),
                           !.asked = IF chrome.proc = "up" THEN Append(Stale(@), request) ELSE @]
  <2>1. /\ client' \in Client /\ client'.at = client.at /\ client'.step = client.step
        /\ client'.k = client.k /\ client'.taken = client.taken /\ client'.info = client.info
        /\ client'.fault = client.fault /\ client'.asking
    BY <1>1, <1>2 DEF Client
  <2>2. request \in Request /\ request.mine /\ request.k = client.k
        /\ (client.at = "cmd" => request.do = client.step)
    BY <1>1 DEF Request, Client
  <2>3. /\ chrome.asked \in Seq(Request) /\ chrome.inbox \in Seq(Message)
    BY <1>1 DEF Chrome
  <2> HIDE DEF request
  <2>4. /\ Stale(chrome.inbox) \in Seq(Message) /\ Stale(chrome.asked) \in Seq(Request)
        /\ Len(Stale(chrome.asked)) = Len(chrome.asked)
        /\ DOMAIN Stale(chrome.asked) = DOMAIN chrome.asked
        /\ \A i \in DOMAIN chrome.asked :
              Stale(chrome.asked)[i] = [chrome.asked[i] EXCEPT !.mine = FALSE]
        /\ \A i \in DOMAIN Stale(chrome.inbox) : ~Stale(chrome.inbox)[i].mine
    BY <2>3, StaleFacts
  <2>5. /\ chrome' \in Chrome /\ chrome'.entered = chrome.entered
        /\ chrome'.shows = chrome.shows /\ chrome'.drawing = chrome.drawing
        /\ chrome'.report = chrome.report /\ chrome'.inbox = Stale(chrome.inbox)
        /\ chrome'.asked = IF chrome.proc = "up" THEN Append(Stale(chrome.asked), request)
                                                 ELSE chrome.asked
    <3> DEFINE a == IF chrome.proc = "up" THEN Append(Stale(chrome.asked), request)
                                          ELSE chrome.asked
               b == Stale(chrome.inbox)
    <3>1. a \in Seq(Request) /\ b \in Seq(Message)
      BY <2>2, <2>3, <2>4
    <3>2. chrome' = [chrome EXCEPT !.inbox = b, !.asked = a]
      BY <1>2
    <3> HIDE DEF a, b
    <3>3. /\ chrome' \in Chrome /\ chrome'.entered = chrome.entered
          /\ chrome'.shows = chrome.shows /\ chrome'.drawing = chrome.drawing
          /\ chrome'.report = chrome.report /\ chrome'.inbox = b /\ chrome'.asked = a
      BY <1>1, <3>1, <3>2 DEF Chrome
    <3> QED BY <3>3 DEF a, b
  <2>6. ASSUME client.at = "cmd" PROVE Talk'
    <3>1. Talk
      BY <2>6 DEF VideoInv, Phases
    <3>2. Replies'
      BY <2>4, <2>5 DEF Replies
    <3>3. Queue'
      <4>1. CASE chrome.proc = "up"
        <5>1. \A i \in DOMAIN chrome.asked : chrome.asked[i] \in Request
          BY <2>3
        <5>2. \A i \in DOMAIN chrome.asked :
                /\ Stale(chrome.asked)[i].k = chrome.asked[i].k
                /\ Stale(chrome.asked)[i].do = chrome.asked[i].do
                /\ ~Stale(chrome.asked)[i].mine
          BY ZenonT(40), <2>4, <5>1 DEF Request
        <5>3. chrome'.asked = Append(Stale(chrome.asked), request)
          BY <2>5, <4>1
        <5>4. /\ DOMAIN chrome'.asked = 1 .. (Len(chrome.asked) + 1)
              /\ Len(chrome'.asked) = Len(chrome.asked) + 1
              /\ Len(chrome.asked) \in Nat /\ DOMAIN chrome.asked = 1 .. Len(chrome.asked)
              /\ \A i \in DOMAIN chrome.asked : chrome'.asked[i] = Stale(chrome.asked)[i]
              /\ chrome'.asked[Len(chrome.asked) + 1] = request
          BY <2>2, <2>3, <2>4, <5>3
        <5>5. client.step \notin {"probe", "diag"} => Len(chrome.asked) = 0
          BY <1>1, <2>3, <3>1 DEF Talk, Queue
        <5> QED BY SMTT(40), <2>1, <2>2, <2>6, <3>1, <5>2, <5>4, <5>5 DEF Talk, Queue
      <4>2. CASE chrome.proc # "up"
        <5>1. chrome'.asked = chrome.asked
          BY <2>5, <4>2
        <5> QED BY <2>1, <3>1, <5>1 DEF Talk, Queue
      <4> QED BY <4>1, <4>2
    <3>4. client.step = "frame" => Drawing'
      <4>1. client.step = "frame" => chrome.shows = client.k - 1 /\ chrome.drawing = client.k - 1
        BY <1>1, <3>1 DEF Talk, Drawing
      <4> QED BY <2>1, <2>5, <4>1 DEF Drawing
    <3> QED BY <2>1, <2>5, <3>1, <3>2, <3>3, <3>4 DEF Talk
  <2>7. Made'
    BY <1>1, <2>1 DEF VideoInv, Made
  <2> QED BY <1>1, <2>1, <2>5, <2>6, <2>7
          DEF VideoInv, TypeInv, Phases, BrowsersAreClosed
<1>3. CASE client' = Fails(client, "other") /\ UNCHANGED chrome
  <2>1. client' \in Client /\ Failing(client, client')
    BY <1>1, <1>3, FailsFailing
  <2>2. VideoInv
    OBVIOUS
  <2> QED BY <1>1, <1>3, <2>1, <2>2, FailingKeeps
<1> QED BY <1>2, <1>3 DEF Send

\* wait_for gives up and asks the page why.
LEMMA GiveUpKeeps == VideoInv /\ GiveUpWaiting => VideoInv'
<1> SUFFICES ASSUME VideoInv, GiveUpWaiting PROVE VideoInv'
  OBVIOUS
<1>1. /\ client \in Client /\ chrome \in Chrome /\ files \in Files
      /\ chrome' = chrome /\ files' = files /\ Talk
      /\ client.at = "cmd" /\ client.step = "probe" /\ ~client.asking
  BY DEF VideoInv, TypeInv, GiveUpWaiting, Phases
<1>2. /\ client' \in Client /\ client'.at = "cmd" /\ client'.step = "diag" /\ ~client'.asking
      /\ client'.k = client.k /\ client'.taken = client.taken /\ client'.fault = client.fault
      /\ client'.info = client.info
  BY <1>1 DEF GiveUpWaiting, Client, Steps, Before
<1>3. Talk'
  BY <1>1, <1>2 DEF Talk, Queue, Before
<1> QED BY <1>1, <1>2, <1>3 DEF VideoInv, TypeInv, Phases, Made, BrowsersAreClosed

\* A read that fails keeps the invariant.
LEMMA ReadFailsKeeps == VideoInv /\ ReadFails => VideoInv'
<1> SUFFICES ASSUME VideoInv, ReadFails PROVE VideoInv'
  OBVIOUS
<1>1. /\ client \in Client /\ chrome \in Chrome /\ chrome' = chrome /\ files' = files
      /\ client.at \in {"cmd", "close"}
  BY DEF VideoInv, TypeInv, ReadFails, Phases
<1>2. PICK fault \in {"cdp", "other"} : client' = Fails(client, fault)
  BY DEF ReadFails
<1>3. client' \in Client /\ Failing(client, client')
  BY <1>1, <1>2, FailsFailing
<1> QED BY <1>1, <1>3, FailingKeeps

\* A read that times out keeps the invariant.
LEMMA ReadTimesOutKeeps == VideoInv /\ ReadTimesOut => VideoInv'
<1> SUFFICES ASSUME VideoInv, ReadTimesOut PROVE VideoInv'
  OBVIOUS
<1>1. /\ client \in Client /\ chrome \in Chrome /\ chrome' = chrome /\ files' = files
      /\ client.at \in {"cmd", "close"}
  BY DEF VideoInv, TypeInv, ReadTimesOut, Phases
<1>2. PICK b \in BOOLEAN : client' = Fails([client EXCEPT !.broken = b, !.overdue = TRUE], "cdp")
  BY DEF ReadTimesOut
<1> DEFINE c == [client EXCEPT !.broken = b, !.overdue = TRUE]
<1>3. /\ c \in Client /\ c.at = client.at /\ c.step = client.step /\ c.k = client.k
      /\ c.taken = client.taken /\ c.info = client.info /\ c.fault = client.fault
  BY <1>1 DEF Client
<1>4. client' = Fails(c, "cdp")
  BY <1>2
<1> HIDE DEF c
<1>5. client' \in Client /\ Failing(c, client')
  BY <1>1, <1>3, <1>4, FailsFailing
<1> QED BY <1>1, <1>3, <1>5, FailingKeeps

\* The clocks of cmd and of wait_for do not matter to what is saved.
LEMMA ClocksKeep == VideoInv /\ (CommandExpires \/ WaitExpires) => VideoInv'
<1> SUFFICES ASSUME VideoInv, CommandExpires \/ WaitExpires PROVE VideoInv'
  OBVIOUS
<1>1. /\ client \in Client /\ chrome \in Chrome /\ files \in Files
      /\ chrome' = chrome /\ files' = files
  BY DEF VideoInv, TypeInv, CommandExpires, WaitExpires
<1>2. \/ client' = [client EXCEPT !.late = TRUE, !.overdue = TRUE]
      \/ client' = [client EXCEPT !.overdue = TRUE]
  BY DEF CommandExpires, WaitExpires
<1>3. /\ client' \in Client /\ client'.at = client.at /\ client'.step = client.step
      /\ client'.k = client.k /\ client'.taken = client.taken /\ client'.info = client.info
      /\ client'.fault = client.fault /\ client'.asking = client.asking
  BY <1>1, <1>2 DEF Client
<1>4. Talk => Talk'
  BY <1>1, <1>3 DEF Talk, Queue, Drawing, Replies, Answers
<1> QED BY <1>1, <1>3, <1>4 DEF VideoInv, TypeInv, Phases, Fresh, Empty, Made, BrowsersAreClosed

\* The rest of a queue after its first element is taken.
LEMMA TailFacts ==
  ASSUME NEW S, NEW s \in Seq(S), s # << >>
  PROVE  /\ Tail(s) \in Seq(S) /\ Len(Tail(s)) = Len(s) - 1 /\ Head(s) = s[1] /\ s[1] \in S
         /\ Len(s) \in Nat \ {0} /\ DOMAIN s = 1 .. Len(s) /\ DOMAIN Tail(s) = 1 .. (Len(s) - 1)
         /\ \A i \in 1 .. (Len(s) - 1) : Tail(s)[i] = s[i + 1]
OBVIOUS

\* What Receive does to the browser's side.
Taken == chrome' = [chrome EXCEPT !.inbox = Tail(@),
                                  !.entered = @ \/ client'.step = "navigate"]

\* Reading a message takes the first of the inbox and nothing else.
LEMMA TakenTyped ==
  ASSUME chrome \in Chrome, chrome.inbox # << >>, Taken
  PROVE  /\ chrome' \in Chrome /\ chrome'.asked = chrome.asked /\ chrome'.shows = chrome.shows
         /\ chrome'.drawing = chrome.drawing /\ chrome'.report = chrome.report
         /\ chrome'.inbox = Tail(chrome.inbox) /\ chrome'.proc = chrome.proc
         /\ chrome'.entered = (chrome.entered \/ client'.step = "navigate")
<1> DEFINE b == Tail(chrome.inbox)
           e == chrome.entered \/ client'.step = "navigate"
<1>1. b \in Seq(Message) /\ e \in BOOLEAN
  BY TailFacts DEF Chrome
<1>2. chrome' = [chrome EXCEPT !.inbox = b, !.entered = e]
  BY DEF Taken
<1> HIDE DEF b, e
<1>3. /\ chrome' \in Chrome /\ chrome'.asked = chrome.asked /\ chrome'.shows = chrome.shows
      /\ chrome'.drawing = chrome.drawing /\ chrome'.report = chrome.report
      /\ chrome'.inbox = b /\ chrome'.proc = chrome.proc /\ chrome'.entered = e
  BY <1>1, <1>2 DEF Chrome
<1> QED BY <1>3 DEF b, e

\* The answer is passed over.
LEMMA PassedKeeps ==
  ASSUME VideoInv, client.asking, chrome.inbox # << >>, client' = client, files' = files, Taken
  PROVE  VideoInv'
<1>1. /\ client \in Client /\ chrome \in Chrome /\ files \in Files
      /\ client.at \in {"cmd", "close"}
  BY DEF VideoInv, TypeInv, Phases
<1>2. /\ chrome' \in Chrome /\ chrome'.asked = chrome.asked /\ chrome'.shows = chrome.shows
      /\ chrome'.drawing = chrome.drawing /\ chrome'.report = chrome.report
      /\ chrome'.inbox = Tail(chrome.inbox) /\ chrome'.proc = chrome.proc
      /\ chrome'.entered = (chrome.entered \/ client'.step = "navigate")
  BY <1>1, TakenTyped
<1>3. ASSUME client.at = "cmd" PROVE Talk'
  <2>1. Talk
    BY <1>3 DEF VideoInv, Phases
  <2>2. Replies'
    <3>1. Replies
      BY <2>1 DEF Talk
    <3>2. /\ DOMAIN chrome'.inbox = 1 .. (Len(chrome.inbox) - 1) /\ Len(chrome.inbox) \in Nat
          /\ DOMAIN chrome.inbox = 1 .. Len(chrome.inbox)
          /\ \A i \in 1 .. (Len(chrome.inbox) - 1) : chrome'.inbox[i] = chrome.inbox[i + 1]
      BY <1>1, <1>2, TailFacts DEF Chrome
    <3>3. \A i \in DOMAIN chrome'.inbox : i + 1 \in DOMAIN chrome.inbox
      BY <3>2
    <3> QED BY <1>2, <3>1, <3>2, <3>3 DEF Replies, Answers
  <2> QED BY <1>2, <2>1, <2>2 DEF Talk, Queue, Drawing
<1> QED BY <1>1, <1>2, <1>3 DEF VideoInv, TypeInv, Phases, Made, BrowsersAreClosed

\* The picture is the next of the directory.
\* The file of the next picture is new: the directory grows by this picture.
LEMMA SavedNext ==
  ASSUME NEW s \in Seq(Pictures), NEW p \in Pictures, NEW n \in Nat, n = Len(s) + 1
  PROVE  /\ Saved(s, n, p) \in Seq(Pictures) /\ Len(Saved(s, n, p)) = n
         /\ \A i \in 1 .. Len(s) : Saved(s, n, p)[i] = s[i]
         /\ Saved(s, n, p)[n] = p
<1>1. Saved(s, n, p) = Append(s, p)
  BY DEF Saved
<1> QED BY <1>1

\* A reply of the command in hand makes it fail or brings the session one step on.
LEMMA AnsweredCases ==
  ASSUME NEW c \in Client, c.at \in {"cmd", "close"}, NEW m \in Message
  PROVE  \/ /\ Answered(c, m) \in Client /\ Failing(c, Answered(c, m))
            /\ Answered(c, m).taken \in {0, c.taken}
         \/ /\ c.at = "cmd" /\ c.step # "diag" /\ ~m.error
            /\ Answered(c, m) = CASE c.step = "info" -> [Advanced(c) EXCEPT !.info = m.value.report]
                                  [] c.step = "shot" -> [Advanced(c) EXCEPT !.taken = c.taken + 1]
                                  [] OTHER -> Advanced(c)
<1>1. CASE m.error
  BY <1>1, FailsFailing DEF Answered
<1>2. CASE ~m.error /\ c.at = "close"
  <2>1. Answered(c, m) = [c EXCEPT !.at = "wait", !.asking = FALSE]
    BY <1>2 DEF Answered
  <2> QED BY <1>2, <2>1 DEF Failing, Client
<1>3. CASE ~m.error /\ c.at = "cmd" /\ c.step = "diag"
  <2>1. Answered(c, m) = Raised(c, "video")
    BY <1>3 DEF Answered
  <2> QED BY <1>3, <2>1, RaisedEnds DEF Failing
<1>4. CASE ~m.error /\ c.at = "cmd" /\ c.step = "probe" /\ m.value.k = 0
  <2>1. Answered(c, m) = [c EXCEPT !.asking = FALSE]
    BY <1>4 DEF Answered
  <2> QED BY <1>4, <2>1 DEF Failing, Client
<1>5. CASE /\ ~m.error /\ c.at = "cmd" /\ c.step # "diag"
           /\ ~(c.step = "probe" /\ m.value.k = 0)
  BY <1>5 DEF Answered
<1> QED BY <1>1, <1>2, <1>3, <1>4, <1>5

\* A command of the session is answered as the exporter hopes.
Hoped(m) ==
  CASE client.step = "info" -> [Advanced(client) EXCEPT !.info = m.value.report]
    [] client.step = "shot" -> [Advanced(client) EXCEPT !.taken = client.taken + 1]
    [] OTHER -> Advanced(client)

\* A reply that brings the session on: info names the report the page shows, the
\* awaited frame is drawn, and the picture is the next frame of that report.
LEMMA AdvancedKeeps ==
  ASSUME VideoInv, client.asking, client.at = "cmd", client.step # "diag", chrome.inbox # << >>, Taken,
         NEW m \in Message, m = Head(chrome.inbox), m.mine, ~m.error, client' = Hoped(m),
         files' = IF client'.taken = client.taken + 1
                  THEN [files EXCEPT !.frames = Saved(@, client'.taken, m.value)] ELSE files
  PROVE  VideoInv'
<1>1. /\ client \in Client /\ chrome \in Chrome /\ files \in Files /\ Talk /\ Replies
      /\ Told(files.frames, client.taken, client.info)
  BY DEF VideoInv, TypeInv, Phases, Talk, Made
<1>2. /\ chrome' \in Chrome /\ chrome'.asked = chrome.asked /\ chrome'.shows = chrome.shows
      /\ chrome'.drawing = chrome.drawing /\ chrome'.report = chrome.report
      /\ chrome'.inbox = Tail(chrome.inbox) /\ chrome'.proc = chrome.proc
      /\ chrome'.entered = (chrome.entered \/ client'.step = "navigate")
  BY <1>1, TakenTyped
<1>3. chrome.asked = << >> /\ Answers(client, chrome, m)
  <2>1. 1 \in DOMAIN chrome.inbox /\ m = chrome.inbox[1]
    BY <1>1, TailFacts DEF Chrome
  <2> QED BY <1>1, <2>1 DEF Replies
<1>4. \A c \in Client : ~[c EXCEPT !.asking = FALSE].asking
  BY DEF Client
<1>5. CASE client.step \in {"attach", "navigate", "probe"}
  <2>1. PICK s \in {"navigate", "probe", "info"} :
          client' = [[client EXCEPT !.asking = FALSE] EXCEPT !.step = s]
    BY <1>1, <1>5 DEF Hoped, Advanced
  <2>2. /\ client' \in Client /\ client'.at = "cmd" /\ client'.step = s /\ ~client'.asking
        /\ client'.k = client.k /\ client'.taken = client.taken /\ client'.fault = client.fault
        /\ client'.info = client.info
    BY <1>1, <2>1 DEF Client, Steps, Before
  <2>3. files' = files
    BY <1>1, <2>2 DEF Client
  <2>4. Talk'
    BY <1>1, <1>2, <1>3, <1>5, <2>2 DEF Talk, Queue, Before
  <2>5. Made'
    BY <1>1, <2>2, <2>3 DEF VideoInv, Made
  <2> QED BY <1>1, <1>2, <2>2, <2>3, <2>4, <2>5
          DEF VideoInv, TypeInv, Phases, BrowsersAreClosed
<1>6. CASE client.step = "info"
  <2>1. client' = [[[client EXCEPT !.asking = FALSE] EXCEPT !.step = "frame", !.k = 1]
                     EXCEPT !.info = m.value.report]
    BY <1>6 DEF Hoped, Advanced
  <2>2. m.value.report = chrome.report /\ m.value.report \in Names
    BY <1>1, <1>3, <1>6 DEF Answers, Chrome
  <2>3. /\ client' \in Client /\ client'.at = "cmd" /\ client'.step = "frame" /\ ~client'.asking
        /\ client'.k = 1 /\ client'.taken = client.taken /\ client'.fault = client.fault
        /\ client'.info = chrome.report
    <3>1. 1 \in 0 .. Frames /\ "frame" \in Steps
      BY VideoAssumption DEF Steps
    <3> DEFINE e == [[client EXCEPT !.asking = FALSE] EXCEPT !.step = "frame", !.k = 1]
    <3>2. /\ e \in Client /\ e.at = "cmd" /\ e.step = "frame" /\ ~e.asking /\ e.k = 1
          /\ e.taken = client.taken /\ e.fault = client.fault
      BY <1>1, <3>1 DEF Client
    <3>3. client' = [e EXCEPT !.info = m.value.report]
      BY <2>1
    <3> HIDE DEF e
    <3> QED BY <2>2, <3>2, <3>3 DEF Client
  <2>4. files' = files
    BY <1>1, <2>3 DEF Client
  <2>5. client.taken = 0 /\ chrome.shows = 0 /\ chrome.drawing = 0 /\ client.fault = None
    BY <1>1, <1>6 DEF Talk, Before
  <2>6. Talk'
    BY <1>2, <1>3, <2>3, <2>5, VideoAssumption DEF Talk, Queue, Before, Drawing
  <2>7. Told(files'.frames, client'.taken, client'.info)
    BY <1>1, <2>3, <2>4, <2>5 DEF Told
  <2>8. Made'
    BY <1>1, <2>3, <2>4, <2>7 DEF VideoInv, Made
  <2> QED BY <1>1, <1>2, <2>3, <2>4, <2>6, <2>8
          DEF VideoInv, TypeInv, Phases, BrowsersAreClosed
<1>7. CASE client.step = "frame"
  <2>1. client' = [[client EXCEPT !.asking = FALSE] EXCEPT !.step = "shot"]
    BY <1>7 DEF Hoped, Advanced
  <2>2. /\ client' \in Client /\ client'.at = "cmd" /\ client'.step = "shot" /\ ~client'.asking
        /\ client'.k = client.k /\ client'.taken = client.taken /\ client'.fault = client.fault
        /\ client'.info = client.info
    BY <1>1, <2>1 DEF Client, Steps, Before
  <2>3. files' = files
    BY <1>1, <2>2 DEF Client
  <2>4. chrome.shows = client.k /\ chrome.drawing = client.k
    BY <1>3, <1>7 DEF Answers
  <2>5. Talk'
    BY <1>1, <1>2, <1>3, <1>7, <2>2, <2>4 DEF Talk, Queue, Before
  <2>6. Made'
    BY <1>1, <2>2, <2>3 DEF VideoInv, Made
  <2> QED BY <1>1, <1>2, <2>2, <2>3, <2>5, <2>6
          DEF VideoInv, TypeInv, Phases, BrowsersAreClosed
<1>8. CASE client.step = "shot"
  <2>1. /\ client.k \in 1 .. Frames /\ client.taken = client.k - 1 /\ client.info = chrome.report
        /\ chrome.shows = client.k /\ chrome.drawing = client.k /\ client.fault = None
        /\ m.value = Picture(client.info, client.k) /\ m.value \in Pictures
    BY <1>1, <1>3, <1>8 DEF Talk, Answers, Message
  <2>2. PICK d \in Client : /\ client' = [d EXCEPT !.taken = client.taken + 1]
                            /\ ~d.asking /\ d.fault = None /\ d.info = client.info
                            /\ \/ /\ d.at = "cmd" /\ d.step = "frame" /\ d.k = client.k + 1
                                  /\ client.k < Frames
                               \/ d.at = "close" /\ d.step = "shot" /\ client.k = Frames
    <3> DEFINE e == [client EXCEPT !.asking = FALSE]
    <3>1. /\ e \in Client /\ ~e.asking /\ e.at = "cmd" /\ e.step = "shot" /\ e.k = client.k
          /\ e.fault = None /\ e.info = client.info
      BY <1>1, <1>8, <2>1 DEF Client
    <3>2. client' = [Advanced(client) EXCEPT !.taken = client.taken + 1]
      BY <1>8 DEF Hoped
    <3>3. CASE client.k < Frames
      <4>1. Advanced(client) = [e EXCEPT !.step = "frame", !.k = client.k + 1]
        BY <1>8, <3>3 DEF Advanced
      <4> DEFINE d == [e EXCEPT !.step = "frame", !.k = client.k + 1]
      <4> HIDE DEF e
      <4>2. /\ d \in Client /\ ~d.asking /\ d.fault = None /\ d.info = client.info
            /\ d.at = "cmd" /\ d.step = "frame" /\ d.k = client.k + 1
        <5>1. client.k + 1 \in 0 .. Frames /\ "frame" \in Steps
          BY <2>1, <3>3, VideoAssumption DEF Steps
        <5> QED BY <3>1, <5>1 DEF Client
      <4> HIDE DEF d
      <4>3. client' = [d EXCEPT !.taken = client.taken + 1]
        BY <3>2, <4>1 DEF d
      <4> QED BY <3>3, <4>2, <4>3
    <3>4. CASE ~(client.k < Frames)
      <4>1. Advanced(client) = [e EXCEPT !.at = "close"]
        BY <1>8, <3>4 DEF Advanced
      <4> DEFINE d == [e EXCEPT !.at = "close"]
      <4> HIDE DEF e
      <4>2. /\ d \in Client /\ ~d.asking /\ d.fault = None /\ d.info = client.info
            /\ d.at = "close" /\ d.step = "shot"
        BY <3>1 DEF Client
      <4>3. client.k = Frames
        BY <2>1, <3>4, VideoAssumption
      <4> HIDE DEF d
      <4>4. client' = [d EXCEPT !.taken = client.taken + 1]
        BY <3>2, <4>1 DEF d
      <4> QED BY <4>2, <4>3, <4>4
    <3> QED BY <3>3, <3>4
  <2>3. /\ client' \in Client /\ client'.taken = client.k /\ ~client'.asking
        /\ client'.fault = None /\ client'.info = client.info
        /\ client'.at = d.at /\ client'.step = d.step /\ client'.k = d.k
    BY SMTT(40), <1>1, <2>1, <2>2, VideoAssumption DEF Client
  <2>4. files' = [files EXCEPT !.frames = Saved(files.frames, client.k, m.value)]
    BY <2>1, <2>3, VideoAssumption
  <2> DEFINE g == Saved(files.frames, client.k, m.value)
  <2>5. Len(files.frames) + 1 = client.k /\ files.frames \in Seq(Pictures)
    BY <1>1, <2>1, VideoAssumption DEF Told, Files
  <2>6. /\ g \in Seq(Pictures) /\ Len(g) = client.k
        /\ \A i \in 1 .. Len(files.frames) : g[i] = files.frames[i]
        /\ g[client.k] = m.value
    <3>1. client.k \in Nat /\ client.k = Len(files.frames) + 1
      BY <2>1, <2>5, VideoAssumption
    <3> QED BY <2>1, <2>5, <3>1, SavedNext
  <2> HIDE DEF g
  <2>7. files' \in Files /\ files'.frames = g /\ files'.sidecar = files.sidecar
    BY <1>1, <2>4, <2>6 DEF Files, g
  <2>8. Told(files'.frames, client.k, client.info)
    <3>1. \A i \in 1 .. Len(files.frames) : files.frames[i] = Picture(client.info, i)
      BY <1>1, <2>1, <2>5 DEF Told
    <3>2. \A i \in 1 .. client.k : i = client.k \/ i \in 1 .. Len(files.frames)
      BY <2>1, <2>5, VideoAssumption
    <3> QED BY <2>1, <2>6, <2>7, <3>1, <3>2 DEF Told
  <2>9. client'.at = "cmd" => Talk'
    <3> SUFFICES ASSUME client'.at = "cmd" PROVE Talk'
      OBVIOUS
    <3>1. /\ client'.step = "frame" /\ client'.k = client.k + 1 /\ client.k < Frames
      BY <2>2, <2>3
    <3>2. client'.k \in 1 .. Frames /\ client'.taken = client'.k - 1
          /\ chrome'.shows = client'.k - 1 /\ chrome'.drawing = client'.k - 1
      BY <1>2, <2>1, <2>3, <3>1, VideoAssumption
    <3>3. Drawing' /\ Queue'
      BY <1>2, <1>3, <3>2 DEF Drawing, Queue
    <3> QED BY <1>2, <2>1, <2>3, <3>1, <3>2, <3>3 DEF Talk, Before
  <2>10. Made'
    <3>1. client'.at = "close" => client.k = Frames
      BY <2>2, <2>3
    <3>2. client'.at \in {"cmd", "close"}
      BY <2>2, <2>3
    <3> QED BY <2>3, <2>7, <2>8, <3>1, <3>2 DEF VideoInv, Made
  <2> QED BY <1>2, <2>2, <2>3, <2>7, <2>9, <2>10
          DEF VideoInv, TypeInv, Phases, BrowsersAreClosed
<1> QED BY <1>1, <1>5, <1>6, <1>7, <1>8 DEF Client, Steps, Before

\* A message is read, whether it is an answer, a stale reply or an event.
LEMMA ReceiveKeeps == VideoInv /\ Receive => VideoInv'
<1> SUFFICES ASSUME VideoInv, Receive PROVE VideoInv'
  OBVIOUS
<1> DEFINE m == Head(chrome.inbox)
           c == IF m.mine THEN Answered(client, m)
                ELSE IF OutOfTime THEN Fails(client, "cdp") ELSE client
<1>1. /\ client \in Client /\ chrome \in Chrome /\ files \in Files
      /\ client.asking /\ chrome.inbox # << >> /\ client.at \in {"cmd", "close"}
      /\ client' = c
  BY DEF VideoInv, TypeInv, Receive, Phases
<1>2. Taken
  BY DEF Receive, Taken
<1>3. files' = IF client'.taken = client.taken + 1
               THEN [files EXCEPT !.frames = Saved(@, client'.taken, m.value)] ELSE files
  BY DEF Receive
<1>4. m \in Message
  BY <1>1, TailFacts DEF Chrome
<1> HIDE DEF m
<1>5. /\ chrome' \in Chrome /\ chrome'.asked = chrome.asked /\ chrome'.shows = chrome.shows
      /\ chrome'.drawing = chrome.drawing /\ chrome'.report = chrome.report
      /\ chrome'.entered = (chrome.entered \/ client'.step = "navigate")
  BY <1>1, <1>2, TakenTyped
<1>6. ASSUME client' \in Client, Failing(client, client'), client'.taken \in {0, client.taken}
      PROVE  VideoInv'
  <2>1. client.taken + 1 \notin {0, client.taken}
    BY <1>1 DEF Client
  <2>2. files' = files
    BY <1>3, <1>6, <2>1
  <2> QED BY <1>1, <1>5, <1>6, <2>2, FailingKeeps
<1>7. CASE m.mine
  <2>1. client' = Answered(client, m)
    BY <1>1, <1>7
  <2>2. CASE /\ Answered(client, m) \in Client /\ Failing(client, Answered(client, m))
             /\ Answered(client, m).taken \in {0, client.taken}
    BY <1>6, <2>1, <2>2
  <2>3. CASE /\ client.at = "cmd" /\ client.step # "diag" /\ ~m.error
             /\ Answered(client, m) = Hoped(m)
    <3>1. m = Head(chrome.inbox)
      BY DEF m
    <3> QED BY <1>1, <1>2, <1>3, <1>4, <1>7, <2>1, <2>3, <3>1, AdvancedKeeps
  <2> QED BY <1>1, <1>4, <2>2, <2>3, AnsweredCases DEF Hoped
<1>8. CASE ~m.mine /\ OutOfTime
  <2>1. client' = Fails(client, "cdp")
    BY <1>1, <1>8
  <2> QED BY <1>1, <1>6, <2>1, FailsFailing
<1>9. CASE ~m.mine /\ ~OutOfTime
  <2>1. client' = client
    BY <1>1, <1>9
  <2>2. files' = files
    BY <1>1, <1>3, <2>1 DEF Client
  <2> QED BY <1>1, <1>2, <2>1, <2>2, PassedKeeps
<1> QED BY <1>7, <1>8, <1>9

\* A step of the browser that leaves the exporter and the files alone.
LEMMA ChromeKeeps ==
  ASSUME VideoInv, client' = client, files' = files, chrome' \in Chrome, chrome.proc = "up",
         chrome'.entered = chrome.entered, client.at # "launch", client.at = "cmd" => Talk'
  PROVE  VideoInv'
<1>1. client.at \in {"begin", "encode", "ffmpeg", "sidecar", "done", "failed"} => ~chrome'.entered
  BY DEF VideoInv, BrowsersAreClosed
<1> QED BY <1>1 DEF VideoInv, TypeInv, Phases, Fresh, Made, BrowsersAreClosed

\* The browser at work.
LEMMA WorkingFacts ==
  ASSUME VideoInv, Working
  PROVE  /\ client \in Client /\ chrome \in Chrome /\ files \in Files /\ chrome.proc = "up"
         /\ chrome.asked # << >> /\ client.at # "launch" /\ Asked \in Request
         /\ Asked = chrome.asked[1] /\ 1 \in DOMAIN chrome.asked
<1>1. client \in Client /\ chrome \in Chrome /\ files \in Files
  BY DEF VideoInv, TypeInv
<1>2. chrome.proc = "up" /\ chrome.asked # << >> /\ client.at # "launch"
  BY DEF VideoInv, Phases, Empty, Working
<1>3. chrome.asked \in Seq(Request)
  BY <1>1 DEF Chrome
<1> QED BY <1>1, <1>2, <1>3, TailFacts DEF Asked

\* The browser's state after the oldest request got the answer m.
LEMMA PoppedTyped ==
  ASSUME chrome \in Chrome, chrome.asked # << >>, NEW m \in Message
  PROVE  /\ [chrome EXCEPT !.asked = Tail(@), !.inbox = Append(@, m)] \in Chrome
         /\ Tail(chrome.asked) \in Seq(Request) /\ Append(chrome.inbox, m) \in Seq(Message)
<1> DEFINE a == Tail(chrome.asked)
           b == Append(chrome.inbox, m)
<1>1. a \in Seq(Request) /\ b \in Seq(Message)
  BY TailFacts DEF Chrome
<1>2. [chrome EXCEPT !.asked = Tail(@), !.inbox = Append(@, m)] = [chrome EXCEPT !.asked = a, !.inbox = b]
  OBVIOUS
<1> HIDE DEF a, b
<1>3. [chrome EXCEPT !.asked = a, !.inbox = b] \in Chrome
  BY <1>1 DEF Chrome
<1> QED BY <1>1, <1>2, <1>3 DEF a, b

\* The two directions of the socket after an answer of the session.
LEMMA PoppedKeeps ==
  ASSUME VideoInv, Working, client.at = "cmd", client' = client,
         NEW m \in Message, m.mine = Asked.mine, ~m.error => Answers(client', chrome', m),
         chrome'.asked = Tail(chrome.asked), chrome'.inbox = Append(chrome.inbox, m)
  PROVE  Queue' /\ (client.asking => Replies')
<1>1. /\ client \in Client /\ chrome \in Chrome /\ chrome.asked # << >> /\ Talk /\ Queue
      /\ chrome.asked \in Seq(Request) /\ chrome.inbox \in Seq(Message)
      /\ Asked = chrome.asked[1] /\ 1 \in DOMAIN chrome.asked
  BY WorkingFacts DEF VideoInv, Phases, Talk, Chrome
<1>2. /\ chrome'.asked \in Seq(Request)
      /\ Len(chrome.asked) \in Nat \ {0} /\ DOMAIN chrome.asked = 1 .. Len(chrome.asked)
      /\ DOMAIN chrome'.asked = 1 .. (Len(chrome.asked) - 1)
      /\ Len(chrome'.asked) = Len(chrome.asked) - 1
      /\ \A i \in 1 .. (Len(chrome.asked) - 1) : chrome'.asked[i] = chrome.asked[i + 1]
  BY <1>1, TailFacts
<1>3. Queue'
  <2>1. \A i \in DOMAIN chrome'.asked : i + 1 \in DOMAIN chrome.asked /\ i \in Int
    BY <1>2
  <2>2. client.step \notin {"probe", "diag"} => chrome'.asked = << >>
    BY <1>1, <1>2 DEF Queue
  <2>3. \A i \in DOMAIN chrome'.asked :
          /\ chrome'.asked[i].k = client.k
          /\ \/ chrome'.asked[i].do = client.step
             \/ chrome'.asked[i].do = "probe" /\ client.step = "diag"
          /\ chrome'.asked[i].mine => i = Len(chrome'.asked)
    <3> SUFFICES ASSUME NEW i \in DOMAIN chrome'.asked
                 PROVE  /\ chrome'.asked[i].k = client.k
                        /\ \/ chrome'.asked[i].do = client.step
                           \/ chrome'.asked[i].do = "probe" /\ client.step = "diag"
                        /\ chrome'.asked[i].mine => i = Len(chrome'.asked)
      OBVIOUS
    <3>1. chrome'.asked[i] = chrome.asked[i + 1] /\ i + 1 \in DOMAIN chrome.asked
      BY <1>2, <2>1
    <3>2. chrome.asked[i + 1].mine => i + 1 = Len(chrome.asked)
      BY <1>1, <3>1 DEF Queue
    <3> QED BY <1>1, <1>2, <2>1, <3>1, <3>2 DEF Queue
  <2>4. Len(<< >>) <= 1
    OBVIOUS
  <2> QED BY <2>2, <2>3, <2>4 DEF Queue
<1>4. ASSUME client.asking PROVE Replies'
  <2>1. /\ DOMAIN chrome'.inbox = 1 .. (Len(chrome.inbox) + 1)
        /\ DOMAIN chrome.inbox = 1 .. Len(chrome.inbox) /\ Len(chrome.inbox) \in Nat
        /\ \A i \in 1 .. Len(chrome.inbox) : chrome'.inbox[i] = chrome.inbox[i]
        /\ chrome'.inbox[Len(chrome.inbox) + 1] = m
    BY <1>1
  <2>2. \A i \in DOMAIN chrome.inbox : ~chrome.inbox[i].mine
    BY <1>1, <1>4 DEF Talk, Replies
  <2>3. m.mine => chrome'.asked = << >>
    BY <1>1, <1>2 DEF Queue
  <2>4. \A i \in DOMAIN chrome'.inbox : i \in DOMAIN chrome.inbox \/ i = Len(chrome.inbox) + 1
    BY <2>1
  <2> SUFFICES ASSUME NEW i \in DOMAIN chrome'.inbox, chrome'.inbox[i].mine
               PROVE  /\ chrome'.asked = << >>
                      /\ ~chrome'.inbox[i].error => Answers(client', chrome', chrome'.inbox[i])
    BY DEF Replies
  <2>5. chrome'.inbox[i] = m
    BY <2>1, <2>2, <2>4
  <2> QED BY <2>3, <2>5 DEF Answers
<1> QED BY <1>3, <1>4

\* What the browser works on while render_frames talks to it.
LEMMA AskedAtCmd ==
  ASSUME VideoInv, Working, client.at = "cmd"
  PROVE  /\ Talk /\ Asked.k = client.k
         /\ Asked.do = client.step \/ (Asked.do = "probe" /\ client.step = "diag")
         /\ client.step \in {"frame", "shot"} => client.asking /\ Tail(chrome.asked) = << >>
<1>1. Talk /\ Queue /\ chrome \in Chrome /\ chrome.asked # << >> /\ chrome.asked \in Seq(Request)
  BY WorkingFacts DEF VideoInv, Phases, Talk, Chrome
<1>2. Asked = chrome.asked[1] /\ 1 \in DOMAIN chrome.asked
  BY WorkingFacts
<1>3. Len(chrome.asked) <= 1 => Tail(chrome.asked) = << >>
  BY <1>1, TailFacts
<1> QED BY <1>1, <1>2, <1>3 DEF Queue

\* The browser answers the oldest request.
LEMMA AnswerKeeps ==
  ASSUME VideoInv, Working, client' = client, files' = files, chrome' \in Chrome,
         chrome'.entered = chrome.entered, NEW m \in Message, m.mine = Asked.mine,
         chrome'.asked = Tail(chrome.asked), chrome'.inbox = Append(chrome.inbox, m),
         client.at = "cmd" =>
           /\ ~m.error => Answers(client', chrome', m)
           /\ client.step \in {"frame", "shot"} => chrome'.report = chrome.report
           /\ client.step # "frame" =>
                chrome'.shows = chrome.shows /\ chrome'.drawing = chrome.drawing
  PROVE  VideoInv'
<1>1. client.at # "launch" /\ chrome.proc = "up"
  BY WorkingFacts
<1>2. ASSUME client.at = "cmd" PROVE Talk'
  <2>1. Talk /\ (client.step \in {"frame", "shot"} => client.asking /\ Tail(chrome.asked) = << >>)
    BY <1>2, AskedAtCmd
  <2>2. Queue' /\ (client.asking => Replies')
    BY <1>2, PoppedKeeps
  <2>3. client.step = "frame" => Drawing'
    BY <2>1 DEF Drawing
  <2> QED BY <1>2, <2>1, <2>2, <2>3 DEF Talk, Before
<1> QED BY <1>1, <1>2, ChromeKeeps

\* A finished request leaves one reply and changes nothing of the page.
LEMMA DoneFacts ==
  ASSUME chrome \in Chrome, chrome.asked # << >>, NEW v \in Pictures, Asked \in Request
  PROVE  /\ Reply(v) \in Message /\ Reply(v).mine = Asked.mine /\ ~Reply(v).error
         /\ Reply(v).value = v /\ Done(v, chrome) \in Chrome
         /\ Done(v, chrome).asked = Tail(chrome.asked)
         /\ Done(v, chrome).inbox = Append(chrome.inbox, Reply(v))
         /\ Done(v, chrome).entered = chrome.entered /\ Done(v, chrome).report = chrome.report
         /\ Done(v, chrome).shows = chrome.shows /\ Done(v, chrome).drawing = chrome.drawing
<1>1. Reply(v) \in Message /\ Reply(v).mine = Asked.mine /\ ~Reply(v).error /\ Reply(v).value = v
  BY DEF Reply, Message, Request
<1>2. Done(v, chrome) = [chrome EXCEPT !.asked = Tail(@), !.inbox = Append(@, Reply(v))]
  BY DEF Done
<1> DEFINE m == Reply(v)
           d == Done(v, chrome)
<1> HIDE DEF m, d
<1>3. m \in Message /\ d = [chrome EXCEPT !.asked = Tail(@), !.inbox = Append(@, m)]
  BY <1>1, <1>2 DEF m, d
<1>4. d \in Chrome
  BY <1>3, PoppedTyped
<1>5. /\ d.asked = Tail(chrome.asked) /\ d.inbox = Append(chrome.inbox, m)
      /\ d.entered = chrome.entered /\ d.report = chrome.report
      /\ d.shows = chrome.shows /\ d.drawing = chrome.drawing
  BY <1>3 DEF Chrome
<1> QED BY <1>1, <1>4, <1>5 DEF m, d

\* The browser carries out the oldest request.
LEMMA ExecuteKeeps == VideoInv /\ Execute => VideoInv'
<1> SUFFICES ASSUME VideoInv, Execute PROVE VideoInv'
  OBVIOUS
<1>1. /\ client \in Client /\ chrome \in Chrome /\ files \in Files /\ chrome.proc = "up"
      /\ chrome.asked # << >> /\ client.at # "launch" /\ Asked \in Request
      /\ Working /\ client' = client /\ files' = files
  BY WorkingFacts DEF Execute
<1>2. /\ \A r \in Names, k \in 0 .. Frames : Picture(r, k) \in Pictures
      /\ None \in Names /\ 0 \in 0 .. Frames /\ 1 \in 0 .. Frames
  BY VideoAssumption DEF Picture, Pictures, Names
<1>3. chrome.report \in Names /\ chrome.shows \in 0 .. Frames /\ files.html \in Reports
  BY <1>1 DEF Chrome, Files
<1>4. client.at = "cmd" => /\ Talk /\ Asked.k = client.k
                           /\ \/ Asked.do = client.step
                              \/ Asked.do = "probe" /\ client.step = "diag"
  BY <1>1, AskedAtCmd
\* an answer that changes nothing of the page
<1>5. ASSUME NEW v \in Pictures,
             chrome' = Done(v, chrome) \/ chrome' = [Done(v, chrome) EXCEPT !.proc = "gone"],
             client.at = "cmd" => /\ client.step # "frame"
                                  /\ client.step = "info" => v.report = chrome.report
                                  /\ client.step = "shot" => v = Picture(chrome.report, client.k)
      PROVE  VideoInv'
  <2> DEFINE d == Done(v, chrome)
             m == Reply(v)
  <2>1. /\ m \in Message /\ m.mine = Asked.mine /\ ~m.error /\ m.value = v
        /\ d \in Chrome /\ d.asked = Tail(chrome.asked) /\ d.inbox = Append(chrome.inbox, m)
        /\ d.entered = chrome.entered /\ d.report = chrome.report /\ d.shows = chrome.shows
        /\ d.drawing = chrome.drawing
    BY <1>1, DoneFacts
  <2>2. chrome' = d \/ chrome' = [d EXCEPT !.proc = "gone"]
    BY <1>5
  <2> HIDE DEF d, m
  <2>3. /\ chrome' \in Chrome /\ chrome'.asked = Tail(chrome.asked)
        /\ chrome'.inbox = Append(chrome.inbox, m)
        /\ chrome'.entered = chrome.entered /\ chrome'.report = chrome.report
        /\ chrome'.shows = chrome.shows /\ chrome'.drawing = chrome.drawing
    BY <2>1, <2>2 DEF Chrome
  <2>4. client.at = "cmd" => Answers(client', chrome', m)
    BY <1>1, <1>5, <2>1, <2>3 DEF Answers
  <2> QED BY <1>1, <2>1, <2>3, <2>4, AnswerKeeps
<1>6. CASE Asked.do = "navigate"
  <2> DEFINE d == Done(Picture(None, 0), chrome)
             m == Reply(Picture(None, 0))
  <2>1. Picture(None, 0) \in Pictures
    BY <1>2
  <2>2. /\ m \in Message /\ m.mine = Asked.mine /\ d \in Chrome
        /\ d.asked = Tail(chrome.asked) /\ d.inbox = Append(chrome.inbox, m)
        /\ d.entered = chrome.entered
    BY <1>1, <2>1, DoneFacts
  <2>3. chrome' = [d EXCEPT !.report = files.html, !.drawing = 0, !.shows = 0]
    BY <1>6 DEF Execute
  <2> HIDE DEF d, m
  <2>4. files.html \in Names /\ 0 \in 0 .. Frames
    BY <1>2, <1>3 DEF Names
  <2>5. /\ chrome' \in Chrome /\ chrome'.asked = Tail(chrome.asked)
        /\ chrome'.inbox = Append(chrome.inbox, m) /\ chrome'.entered = chrome.entered
        /\ chrome'.shows = 0 /\ chrome'.drawing = 0
    BY <2>2, <2>3, <2>4 DEF Chrome
  <2>6. client.at = "cmd" => /\ client.step = "navigate" /\ chrome.shows = 0 /\ chrome.drawing = 0
                             /\ Answers(client', chrome', m)
    BY <1>1, <1>4, <1>6 DEF Talk, Before, Answers
  <2> QED BY <1>1, <2>2, <2>5, <2>6, AnswerKeeps
<1>7. CASE Asked.do = "frame"
  <2>1. chrome.drawing # Asked.k /\ chrome' = [chrome EXCEPT !.drawing = Asked.k]
    BY <1>7 DEF Execute, Awaits
  <2>2. Asked.k \in 0 .. Frames
    BY <1>1 DEF Request
  <2>3. /\ chrome' \in Chrome /\ chrome'.asked = chrome.asked /\ chrome'.inbox = chrome.inbox
        /\ chrome'.entered = chrome.entered /\ chrome'.report = chrome.report
        /\ chrome'.shows = chrome.shows /\ chrome'.drawing = Asked.k
    BY <1>1, <2>1, <2>2 DEF Chrome
  <2>4. ASSUME client.at = "cmd" PROVE Talk'
    <3>1. client.step = "frame" /\ Talk /\ Asked.k = client.k
      BY <1>4, <1>7, <2>4
    <3>2. client.asking
      BY <1>1, <2>4, <3>1, AskedAtCmd
    <3>3. Drawing'
      BY <1>1, <2>3, <3>1, <3>2 DEF Talk, Drawing
    <3>4. Replies'
      BY <1>1, <2>3, <3>1, <3>2 DEF Talk, Replies
    <3> QED BY <1>1, <2>3, <3>1, <3>2, <3>3, <3>4 DEF Talk, Queue, Before
  <2> QED BY <1>1, <2>3, <2>4, ChromeKeeps
<1>8. CASE Asked.do = "probe"
  <2>1. PICK k \in {0, 1} : chrome' = Done(Picture(None, k), chrome)
    BY <1>8 DEF Execute
  <2>2. Picture(None, k) \in Pictures
    BY <1>2
  <2> QED BY <1>4, <1>5, <1>8, <2>1, <2>2
<1>9. CASE Asked.do = "info"
  <2>1. chrome' = Done(Picture(chrome.report, 0), chrome) /\ Picture(chrome.report, 0) \in Pictures
    BY <1>2, <1>3, <1>9 DEF Execute
  <2>2. Picture(chrome.report, 0).report = chrome.report
    BY DEF Picture
  <2> QED BY <1>4, <1>5, <1>9, <2>1, <2>2
<1>10. CASE Asked.do = "shot"
  <2>1. /\ chrome' = Done(Picture(chrome.report, chrome.shows), chrome)
        /\ Picture(chrome.report, chrome.shows) \in Pictures
    BY <1>2, <1>3, <1>10 DEF Execute
  <2>2. client.at = "cmd" => client.step = "shot" /\ chrome.shows = client.k
    BY <1>4, <1>10 DEF Talk
  <2> QED BY <1>5, <2>1, <2>2
<1>11. CASE Asked.do \in {"attach", "diag", "close"}
  <2>1. Picture(None, 0) \in Pictures
    BY <1>2
  <2>2. \/ chrome' = Done(Picture(None, 0), chrome)
        \/ chrome' = [Done(Picture(None, 0), chrome) EXCEPT !.proc = "gone"]
    BY <1>11 DEF Execute
  <2>3. client.at = "cmd" => client.step \in {"attach", "diag"}
    BY <1>1, <1>4, <1>11 DEF Client, Steps, Before
  <2> QED BY <1>5, <2>1, <2>2, <2>3
<1> QED BY <1>1, <1>6, <1>7, <1>8, <1>9, <1>10, <1>11 DEF Request, Steps, Before

\* The page has been drawn; the awaited frame is answered.
LEMMA SettleKeeps == VideoInv /\ Settle => VideoInv'
<1> SUFFICES ASSUME VideoInv, Settle PROVE VideoInv'
  OBVIOUS
<1> DEFINE awaited == chrome.asked # << >> /\ Awaits(Asked)
<1>1. /\ client \in Client /\ chrome \in Chrome /\ files \in Files /\ chrome.proc = "up"
      /\ client' = client /\ files' = files /\ chrome.shows # chrome.drawing
      /\ client.at # "launch" /\ chrome.drawing \in 0 .. Frames
  BY DEF VideoInv, TypeInv, Settle, Phases, Empty, Chrome
<1>2. client.at = "cmd" => client.step = "frame" /\ client.asking /\ Talk
  BY <1>1 DEF VideoInv, Phases, Talk, Drawing, Client, Steps, Before
<1>3. CASE awaited
  <2> DEFINE d == Done(Picture(None, 0), chrome)
             m == Reply(Picture(None, 0))
  <2>1. Working
    BY <1>1, <1>3 DEF Working
  <2>2. Picture(None, 0) \in Pictures
    BY VideoAssumption DEF Picture, Pictures, Names
  <2>3. /\ m \in Message /\ m.mine = Asked.mine /\ ~m.error
        /\ d \in Chrome /\ d.asked = Tail(chrome.asked) /\ d.inbox = Append(chrome.inbox, m)
        /\ d.entered = chrome.entered /\ d.report = chrome.report /\ d.drawing = chrome.drawing
    BY <1>1, <1>3, <2>1, <2>2, DoneFacts, WorkingFacts
  <2>4. chrome' = [d EXCEPT !.shows = chrome.drawing]
    BY <1>3 DEF Settle
  <2> HIDE DEF d, m
  <2>5. /\ chrome' \in Chrome /\ chrome'.asked = Tail(chrome.asked)
        /\ chrome'.inbox = Append(chrome.inbox, m)
        /\ chrome'.entered = chrome.entered /\ chrome'.report = chrome.report
        /\ chrome'.shows = chrome.drawing /\ chrome'.drawing = chrome.drawing
    BY <1>1, <2>3, <2>4 DEF Chrome
  <2>6. client.at = "cmd" => Answers(client', chrome', m)
    <3>1. client.at = "cmd" => chrome.drawing = client.k
      BY <1>1, <1>2, <1>3 DEF Talk, Drawing
    <3> QED BY <1>1, <1>2, <2>5, <3>1 DEF Answers
  <2> QED BY <1>1, <1>2, <2>1, <2>3, <2>5, <2>6, AnswerKeeps
<1>4. CASE ~awaited
  <2>1. chrome' = [chrome EXCEPT !.shows = chrome.drawing]
    BY <1>4 DEF Settle
  <2>2. /\ chrome' \in Chrome /\ chrome'.asked = chrome.asked /\ chrome'.inbox = chrome.inbox
        /\ chrome'.entered = chrome.entered /\ chrome'.report = chrome.report
        /\ chrome'.shows = chrome.drawing /\ chrome'.drawing = chrome.drawing
    BY <1>1, <2>1 DEF Chrome
  <2>3. ASSUME client.at = "cmd" PROVE Talk'
    <3>1. chrome.asked = << >>
      <4> SUFFICES ASSUME chrome.asked # << >> PROVE FALSE
        OBVIOUS
      <4>1. Working
        BY <1>1 DEF Working
      <4>2. Asked.do = "frame"
        BY <1>2, <2>3, <4>1, AskedAtCmd
      <4> QED BY <1>4, <4>2 DEF Awaits
    <3>2. Replies'
      <4>1. Replies
        BY <1>2, <2>3 DEF Talk
      <4>2. \A i \in DOMAIN chrome.inbox : chrome.inbox[i].mine => chrome.inbox[i].error
        <5> SUFFICES ASSUME NEW i \in DOMAIN chrome.inbox, chrome.inbox[i].mine,
                            ~chrome.inbox[i].error
                     PROVE  FALSE
          OBVIOUS
        <5>1. Answers(client, chrome, chrome.inbox[i])
          BY <4>1 DEF Replies
        <5> QED BY <1>1, <1>2, <2>3, <5>1 DEF Answers
      <4> QED BY <2>2, <3>1, <4>2 DEF Replies
    <3>3. Drawing'
      BY <1>1, <1>2, <2>2, <2>3, <3>1 DEF Drawing
    <3>4. client.step \notin Before
      BY <1>2, <2>3 DEF Before
    <3> QED BY <1>1, <1>2, <2>2, <2>3, <3>1, <3>2, <3>3, <3>4 DEF Talk, Queue
  <2> QED BY <1>1, <2>2, <2>3, ChromeKeeps
<1> QED BY <1>3, <1>4

\* The browser answers with an error.
LEMMA CommandErrsKeeps == VideoInv /\ CommandErrs => VideoInv'
<1> SUFFICES ASSUME VideoInv, CommandErrs PROVE VideoInv'
  OBVIOUS
<1>1. /\ chrome \in Chrome /\ chrome.asked # << >> /\ Asked \in Request /\ Working
      /\ client' = client /\ files' = files
  BY WorkingFacts DEF CommandErrs
<1> DEFINE m == [Reply(Picture(None, 0)) EXCEPT !.error = TRUE]
<1>2. m \in Message /\ m.mine = Asked.mine /\ m.error
  <2>1. Picture(None, 0) \in Pictures
    BY VideoAssumption DEF Picture, Pictures, Names
  <2>2. Reply(Picture(None, 0)) \in Message /\ Reply(Picture(None, 0)).mine = Asked.mine
    BY <1>1, <2>1, DoneFacts
  <2> QED BY <2>2 DEF Message
<1>3. chrome' = [chrome EXCEPT !.asked = Tail(@), !.inbox = Append(@, m)]
  BY DEF CommandErrs
<1> HIDE DEF m
<1>4. chrome' \in Chrome
  BY <1>1, <1>2, <1>3, PoppedTyped
<1>5. /\ chrome'.asked = Tail(chrome.asked) /\ chrome'.inbox = Append(chrome.inbox, m)
      /\ chrome'.entered = chrome.entered /\ chrome'.report = chrome.report
      /\ chrome'.shows = chrome.shows /\ chrome'.drawing = chrome.drawing
  BY <1>1, <1>3 DEF Chrome
<1> QED BY <1>1, <1>2, <1>4, <1>5, AnswerKeeps

\* An event the exporter did not ask for joins the replies.
LEMMA BrowserEventKeeps == VideoInv /\ BrowserEvent => VideoInv'
<1> SUFFICES ASSUME VideoInv, BrowserEvent PROVE VideoInv'
  OBVIOUS
<1> DEFINE m == [mine |-> FALSE, error |-> FALSE, value |-> Picture(None, 0)]
           b == Append(chrome.inbox, m)
<1>1. /\ client \in Client /\ chrome \in Chrome /\ chrome.proc = "up" /\ client.at # "launch"
      /\ client' = client /\ files' = files
  BY DEF VideoInv, TypeInv, BrowserEvent
<1>2. m \in Message /\ ~m.mine
  BY VideoAssumption DEF Message, Picture, Pictures, Names
<1>3. chrome' = [chrome EXCEPT !.inbox = b]
  BY DEF BrowserEvent
<1> HIDE DEF m
<1>4. b \in Seq(Message)
  BY <1>1, <1>2 DEF Chrome
<1>5. /\ chrome.inbox \in Seq(Message) /\ DOMAIN b = 1 .. (Len(chrome.inbox) + 1)
      /\ DOMAIN chrome.inbox = 1 .. Len(chrome.inbox) /\ Len(chrome.inbox) \in Nat
      /\ \A i \in 1 .. Len(chrome.inbox) : b[i] = chrome.inbox[i]
      /\ b[Len(chrome.inbox) + 1] = m
  BY <1>1, <1>2 DEF Chrome
<1> HIDE DEF b
<1>6. /\ chrome' \in Chrome /\ chrome'.asked = chrome.asked /\ chrome'.inbox = b
      /\ chrome'.entered = chrome.entered /\ chrome'.report = chrome.report
      /\ chrome'.shows = chrome.shows /\ chrome'.drawing = chrome.drawing
  BY <1>1, <1>3, <1>4 DEF Chrome
<1>7. ASSUME client.at = "cmd" PROVE Talk'
  <2>1. Talk
    BY <1>7 DEF VideoInv, Phases
  <2>2. ASSUME client.asking PROVE Replies'
    <3>1. Replies
      BY <2>1, <2>2 DEF Talk
    <3>2. \A i \in DOMAIN b : b[i].mine => i \in DOMAIN chrome.inbox /\ b[i] = chrome.inbox[i]
      <4>1. \A i \in DOMAIN b : i \in DOMAIN chrome.inbox \/ i = Len(chrome.inbox) + 1
        BY <1>5
      <4> QED BY <1>2, <1>5, <4>1
    <3> QED BY <1>1, <1>6, <3>1, <3>2 DEF Replies, Answers
  <2> QED BY <1>1, <1>6, <2>1, <2>2 DEF Talk, Queue, Drawing
<1> QED BY <1>1, <1>6, <1>7, ChromeKeeps

\* The browser dies with the requests it had.
LEMMA BrowserDiesKeeps == VideoInv /\ BrowserDies => VideoInv'
<1> SUFFICES ASSUME VideoInv, BrowserDies PROVE VideoInv'
  OBVIOUS
<1> DEFINE none == << >>
<1>1. /\ client \in Client /\ chrome \in Chrome /\ chrome.proc = "up"
      /\ client' = client /\ files' = files /\ chrome' = [chrome EXCEPT !.proc = "gone", !.asked = none]
  BY DEF VideoInv, TypeInv, BrowserDies
<1>2. none \in Seq(Request) /\ Len(none) = 0 /\ DOMAIN none = {}
  OBVIOUS
<1>3. none = << >>
  OBVIOUS
<1> HIDE DEF none
<1>4. /\ chrome' \in Chrome /\ chrome'.asked = none /\ chrome'.inbox = chrome.inbox
      /\ chrome'.entered = chrome.entered /\ chrome'.report = chrome.report
      /\ chrome'.shows = chrome.shows /\ chrome'.drawing = chrome.drawing /\ chrome'.proc = "gone"
  BY <1>1, <1>2 DEF Chrome
<1>5. ASSUME client.at = "cmd" PROVE Talk'
  <2>1. Talk
    BY <1>5 DEF VideoInv, Phases
  <2>2. Replies => Replies'
    BY <1>1, <1>3, <1>4 DEF Replies, Answers
  <2>3. Drawing => Drawing'
    BY <1>1, <1>3, <1>4 DEF Drawing
  <2>4. Queue'
    BY <1>2, <1>3, <1>4 DEF Queue
  <2> QED BY <1>1, <1>4, <2>1, <2>2, <2>3, <2>4 DEF Talk
<1>6. client.at = "launch" => Empty'
  BY <1>1, <1>3, <1>4 DEF VideoInv, Phases, Empty
<1> QED BY <1>1, <1>4, <1>5, <1>6 DEF VideoInv, TypeInv, Phases, Fresh, Made, BrowsersAreClosed

\* The browser is waited for or killed; the pictures are encoded or all begins again.
LEMMA WaitBrowserKeeps == VideoInv /\ WaitBrowser => VideoInv'
<1> SUFFICES ASSUME VideoInv, WaitBrowser PROVE VideoInv'
  OBVIOUS
<1> DEFINE none == << >>
<1>1. /\ client \in Client /\ chrome \in Chrome /\ files \in Files /\ client.at = "wait"
      /\ client' = Left(client) /\ files' = files /\ ~client.asking
      /\ chrome' = [chrome EXCEPT !.proc = "gone", !.asked = none, !.inbox = none]
  BY DEF VideoInv, TypeInv, Phases, WaitBrowser, Reaped
<1>2. none \in Seq(Request) /\ none \in Seq(Message)
  OBVIOUS
<1> HIDE DEF none
<1>3. chrome' \in Chrome /\ chrome'.proc = "gone"
  BY <1>1, <1>2 DEF Chrome
<1>4. CASE client.fault = None
  <2>1. client' = [client EXCEPT !.at = "encode"]
    BY <1>1, <1>4 DEF Left
  <2>2. /\ client' \in Client /\ client'.at = "encode" /\ ~client'.asking
        /\ client'.fault = None /\ client'.taken = client.taken /\ client'.info = client.info
    BY <1>1, <1>4, <2>1 DEF Client
  <2> QED BY <1>1, <1>3, <1>4, <2>2 DEF VideoInv, TypeInv, Phases, Made, BrowsersAreClosed
<1>5. CASE client.fault # None
  <2>1. /\ client' \in Client
        /\ client' = [client EXCEPT !.at = "failed"] \/ \E a \in Nat : client' = Attempt(a)
    BY <1>1, <1>5, LeftGone
  <2>2. /\ client'.at \in {"failed", "begin"} /\ ~client'.asking
        /\ client'.at = "begin" => Fresh'
    BY <1>1, <2>1 DEF Client, Attempt, Fresh
  <2> QED BY <1>1, <1>3, <2>1, <2>2 DEF VideoInv, TypeInv, Phases, Made, BrowsersAreClosed
<1> QED BY <1>4, <1>5

\* A sequence of pictures makes a video.
LEMMA NewVideoTyped ==
  ASSUME NEW s \in Seq(Pictures), NEW b \in BOOLEAN
  PROVE  [whole |-> b, frames |-> s] \in Video
BY DEF Video

\* The old MP4 is deleted before ffmpeg runs; its sidecar stays.
LEMMA DeleteVideoKeeps == VideoInv /\ DeleteVideo => VideoInv'
<1> SUFFICES ASSUME VideoInv, DeleteVideo PROVE VideoInv'
  OBVIOUS
<1>1. /\ client \in Client /\ chrome \in Chrome /\ files \in Files /\ chrome' = chrome
      /\ client.at = "encode" /\ client' = [client EXCEPT !.at = "ffmpeg"]
      /\ files' = [files EXCEPT !.mp4 = NoVideo] /\ ~client.asking
  BY DEF VideoInv, TypeInv, Phases, DeleteVideo
<1>2. NoVideo \in Video
  BY DEF NoVideo, Video
<1>3. /\ client' \in Client /\ client'.at = "ffmpeg" /\ ~client'.asking
      /\ client'.fault = client.fault /\ client'.taken = client.taken /\ client'.info = client.info
  BY <1>1 DEF Client
<1>4. files' \in Files /\ files'.frames = files.frames /\ files'.sidecar = files.sidecar
  BY <1>1, <1>2 DEF Files
<1> QED BY <1>1, <1>3, <1>4 DEF VideoInv, TypeInv, Phases, Made, BrowsersAreClosed

\* ffmpeg makes an MP4 of the pictures of the directory.
LEMMA EncodeKeeps == VideoInv /\ Encode => VideoInv'
<1> SUFFICES ASSUME VideoInv, Encode PROVE VideoInv'
  OBVIOUS
<1>1. /\ client \in Client /\ chrome \in Chrome /\ files \in Files /\ chrome' = chrome
      /\ client.at = "ffmpeg" /\ ~client.asking
  BY DEF VideoInv, TypeInv, Phases, Encode
<1>2. ASSUME client' = [client EXCEPT !.at = "sidecar"], NEW rest \in {files.frames, << >>},
             files' = [files EXCEPT !.mp4 = [whole |-> TRUE, frames |-> files.frames],
                                    !.frames = rest]
      PROVE  VideoInv'
  <2> DEFINE v == [whole |-> TRUE, frames |-> files.frames]
  <2>1. files.frames \in Seq(Pictures) /\ rest \in Seq(Pictures)
    <3>1. files.frames \in Seq(Pictures)
      BY <1>1 DEF Files
    <3>2. << >> \in Seq(Pictures)
      OBVIOUS
    <3> QED BY <3>1, <3>2
  <2>2. v \in Video /\ v.frames = files.frames
    BY <2>1, NewVideoTyped
  <2>3. files' = [files EXCEPT !.mp4 = v, !.frames = rest]
    BY <1>2
  <2> HIDE DEF v
  <2>4. files' \in Files /\ files'.sidecar = files.sidecar /\ files'.mp4 = v
    BY <1>1, <2>1, <2>2, <2>3 DEF Files
  <2>5. /\ client' \in Client /\ client'.at = "sidecar" /\ ~client'.asking
        /\ client'.fault = client.fault /\ client'.taken = client.taken /\ client'.info = client.info
    BY <1>1, <1>2 DEF Client
  <2> QED BY <1>1, <2>2, <2>4, <2>5 DEF VideoInv, TypeInv, Phases, Made, BrowsersAreClosed
<1>3. CASE client' = [client EXCEPT !.at = "failed"] /\ UNCHANGED files
  <2>1. client' \in Client /\ client'.at = "failed" /\ ~client'.asking
    BY <1>1, <1>3 DEF Client
  <2> QED BY <1>1, <1>3, <2>1 DEF VideoInv, TypeInv, Phases, Made, BrowsersAreClosed
<1> QED BY <1>2, <1>3 DEF Encode

\* The sidecar is written for the MP4 just made.
LEMMA SidecarKeeps == VideoInv /\ Sidecar => VideoInv'
<1> SUFFICES ASSUME VideoInv, Sidecar PROVE VideoInv'
  OBVIOUS
<1> DEFINE s == [video |-> files.mp4, frames |-> client.taken, info |-> client.info]
<1>1. /\ client \in Client /\ chrome \in Chrome /\ files \in Files /\ chrome' = chrome
      /\ client.at = "sidecar" /\ client' = [client EXCEPT !.at = "done"] /\ ~client.asking
      /\ files' = [files EXCEPT !.sidecar = s]
  BY DEF VideoInv, TypeInv, Phases, Sidecar
<1>2. /\ s \in [video : Video, frames : 0 .. Frames, info : Names]
      /\ s.video = files.mp4 /\ s.frames = client.taken /\ s.info = client.info
  BY <1>1 DEF Files, Client
<1> HIDE DEF s
<1>3. files' \in Files /\ files'.sidecar = s
  BY <1>1, <1>2 DEF Files
<1>4. client' \in Client /\ client'.at = "done" /\ ~client'.asking
  BY <1>1 DEF Client
<1> QED BY <1>1, <1>2, <1>3, <1>4 DEF VideoInv, TypeInv, Phases, Made, BrowsersAreClosed

\* A new report changes neither pictures nor the page already loaded.
LEMMA NewReportKeeps == VideoInv /\ NewReport => VideoInv'
<1> SUFFICES ASSUME VideoInv, NewReport PROVE VideoInv'
  OBVIOUS
<1>1. PICK r \in Reports : files' = [files EXCEPT !.html = r]
  BY DEF NewReport
<1>2. /\ client \in Client /\ chrome \in Chrome /\ files \in Files
      /\ client' = client /\ chrome' = chrome
  BY DEF VideoInv, TypeInv, NewReport
<1>3. /\ files' \in Files /\ files'.frames = files.frames /\ files'.mp4 = files.mp4
      /\ files'.sidecar = files.sidecar
  BY <1>1, <1>2 DEF Files
<1>4. Talk => Talk'
  BY <1>2 DEF Talk, Queue, Drawing, Replies, Answers
<1> QED BY <1>2, <1>3, <1>4 DEF VideoInv, TypeInv, Phases, Fresh, Empty, Made, BrowsersAreClosed

\* An exporter killed anywhere leaves files that satisfy the invariant.
LEMMA ExportAgainKeeps == VideoInv /\ ExportAgain => VideoInv'
<1> SUFFICES ASSUME VideoInv, ExportAgain PROVE VideoInv'
  OBVIOUS
<1>1. files \in Files /\ client' = Attempt(1) /\ chrome' = NoBrowser /\ files' = files
  BY DEF VideoInv, TypeInv, ExportAgain
<1>2. client' \in Client
  BY <1>1, AttemptTyped
<1>3. chrome' \in Chrome
  BY <1>1, VideoAssumption DEF NoBrowser, Chrome, Names
<1> QED BY <1>1, <1>2, <1>3
        DEF VideoInv, TypeInv, Phases, Attempt, Fresh, NoBrowser, Made, BrowsersAreClosed

\* Every step keeps the invariant.
LEMMA NextKeeps == VideoInv /\ [VideoNext]_videoVars => VideoInv'
<1> SUFFICES ASSUME VideoInv, [VideoNext]_videoVars PROVE VideoInv'
  OBVIOUS
<1>1. CASE ExporterSteps
  BY <1>1, BeginKeeps, LaunchKeeps, SendKeeps, GiveUpKeeps, ReceiveKeeps, ReadFailsKeeps,
     WaitBrowserKeeps, DeleteVideoKeeps, EncodeKeeps, SidecarKeeps DEF ExporterSteps
<1>2. CASE ReadTimesOut \/ CommandExpires \/ WaitExpires
  BY <1>2, ReadTimesOutKeeps, ClocksKeep
<1>3. CASE Execute \/ Settle \/ CommandErrs \/ BrowserEvent \/ BrowserDies
  BY <1>3, ExecuteKeeps, SettleKeeps, CommandErrsKeeps, BrowserEventKeeps, BrowserDiesKeeps
<1>4. CASE NewReport \/ ExportAgain
  BY <1>4, NewReportKeeps, ExportAgainKeeps
<1>5. CASE UNCHANGED videoVars
  <2>1. client' = client /\ chrome' = chrome /\ files' = files
    BY <1>5 DEF videoVars
  <2>2. Talk => Talk'
    BY <2>1 DEF Talk, Queue, Drawing, Replies, Answers
  <2> QED BY <2>1, <2>2 DEF VideoInv, TypeInv, Phases, Fresh, Empty, Made, BrowsersAreClosed
<1> QED BY <1>1, <1>2, <1>3, <1>4, <1>5 DEF VideoNext

\* VideoInv is an invariant of the export.
THEOREM VideoInvariant == VideoSpec => []VideoInv
<1>1. VideoInit => VideoInv
  BY InitVideo
<1>2. VideoInv /\ [VideoNext]_videoVars => VideoInv'
  BY NextKeeps
<1> QED BY <1>1, <1>2, PTL DEF VideoSpec

\* The variables keep their types: every counter of frames stays within the storyboard.
THEOREM VideoTypeCorrect == VideoSpec => []TypeInv
<1>1. VideoInv => TypeInv
  BY DEF VideoInv
<1> QED BY <1>1, VideoInvariant, PTL

\* A sidecar that carries the hash of the MP4 beside it tells the truth about its
\* frames, their order and their report (video.py, make_video; cdp.py, cmd).
THEOREM SidecarSafe == VideoSpec => []SidecarDescribesVideo
<1>1. VideoInv => SidecarDescribesVideo
  <2> SUFFICES ASSUME VideoInv, files.sidecar.video.whole
               PROVE  /\ files.sidecar.frames = Frames
                      /\ files.sidecar.video.frames
                           = [k \in 1 .. Frames |-> Picture(files.sidecar.info, k)]
    BY DEF SidecarDescribesVideo
  <2> DEFINE s == files.sidecar.video.frames
             t == [k \in 1 .. Frames |-> Picture(files.sidecar.info, k)]
  <2>1. files.sidecar.frames = Frames /\ Told(s, Frames, files.sidecar.info)
    BY DEF VideoInv, Made
  <2>2. s \in Seq(Pictures)
    BY DEF VideoInv, TypeInv, Files, Video
  <2>3. DOMAIN s = 1 .. Frames /\ \A k \in 1 .. Frames : s[k] = t[k]
    BY <2>1, <2>2 DEF Told
  <2>4. s = [k \in DOMAIN s |-> s[k]]
    BY <2>2
  <2> HIDE DEF s
  <2>5. s = t
    BY <2>3, <2>4
  <2> QED BY <2>1, <2>5 DEF s
<1> QED BY <1>1, VideoInvariant, PTL

\* make_video goes on only after the browser of a started session has ended
\* (cdp.py, Browser.__exit__ and close).
THEOREM BrowsersSafe == VideoSpec => []BrowsersAreClosed
<1>1. VideoInv => BrowsersAreClosed
  BY DEF VideoInv
<1> QED BY <1>1, VideoInvariant, PTL

---------------------------------------------------------------------------
(* The session with QEMU.                                                   *)

(* Which markers a text has.                                                *)

\* An appended marker is the only new one.
LEMMA HasAppend ==
  ASSUME NEW S, NEW s \in Seq(S), NEW e \in S, NEW m
  PROVE  Has(Append(s, e), m) <=> Has(s, m) \/ m = e
<1>1. /\ Len(Append(s, e)) = Len(s) + 1 /\ Append(s, e)[Len(s) + 1] = e
      /\ \A i \in 1..Len(s) : Append(s, e)[i] = s[i]
      /\ Append(s, e) \in Seq(S)
  BY AppendProperties
<1>. QED BY <1>1, LenProperties DEF Has

\* A text is its first marker and the rest.
LEMMA HasTail ==
  ASSUME NEW S, NEW s \in Seq(S), s # << >>, NEW m
  PROVE  Has(s, m) <=> m = Head(s) \/ Has(Tail(s), m)
<1>1. Len(s) \in Nat \ {0} /\ DOMAIN s = 1..Len(s)
  BY EmptySeq, LenProperties
<1>2. Head(s) = s[1] /\ Len(Tail(s)) = Len(s) - 1
      /\ \A i \in 1..(Len(s) - 1) : Tail(s)[i] = s[i + 1]
  BY HeadTailProperties
<1>3. DOMAIN Tail(s) = 1..(Len(s) - 1)
  BY <1>2, HeadTailProperties, LenProperties
<1>4. ASSUME NEW i \in DOMAIN s, s[i] = m PROVE m = Head(s) \/ Has(Tail(s), m)
  <2>1. CASE i # 1
    <3>1. i - 1 \in DOMAIN Tail(s) /\ Tail(s)[i - 1] = s[(i - 1) + 1] /\ (i - 1) + 1 = i
      BY <1>1, <1>2, <1>3, <2>1
    <3>. QED BY <1>4, <3>1 DEF Has
  <2>. QED BY <1>2, <1>4, <2>1
<1>5. ASSUME NEW i \in DOMAIN Tail(s), Tail(s)[i] = m PROVE Has(s, m)
  <2>1. i + 1 \in DOMAIN s /\ Tail(s)[i] = s[i + 1]
    BY <1>1, <1>2, <1>3
  <2>. QED BY <1>5, <2>1 DEF Has
<1>6. 1 \in DOMAIN s
  BY <1>1
<1>7. m = Head(s) => Has(s, m)
  BY <1>2, <1>6 DEF Has
<1>. QED BY <1>4, <1>5, <1>7 DEF Has

\* What was said after the mark stays said.
LEMMA FromAppend ==
  ASSUME NEW S, NEW s \in Seq(S), NEW e \in S, NEW n \in 0..Len(s), NEW m, Has(From(s, n), m)
  PROVE  Has(From(Append(s, e), n), m)
<1>. DEFINE t == Append(s, e)
<1>1. /\ Len(s) \in Nat /\ DOMAIN s = 1..Len(s) /\ \A i \in 1..Len(s) : s[i] \in S
  BY LenProperties
<1>2. /\ t \in Seq(S) /\ Len(t) = Len(s) + 1 /\ \A i \in 1..Len(s) : t[i] = s[i]
  BY AppendProperties
<1>3. \A i \in 1..Len(t) : t[i] \in S
  BY <1>2, LenProperties
<1>. HIDE DEF t
<1>4. /\ From(s, n) \in Seq(S)
      /\ DOMAIN From(s, n) = 1..(Len(s) - n)
      /\ \A i \in 1..(Len(s) - n) : From(s, n)[i] = s[n + i]
  <2>1. n + 1 \in Int /\ Len(s) \in Int /\ \A i \in (n + 1)..Len(s) : s[i] \in S
    BY <1>1
  <2>2. /\ From(s, n) \in Seq(S)
        /\ Len(From(s, n)) = IF n + 1 <= Len(s) THEN Len(s) - (n + 1) + 1 ELSE 0
        /\ \A i \in 1..(Len(s) - (n + 1) + 1) : From(s, n)[i] = s[(n + 1) + i - 1]
    BY <2>1, SubSeqProperties DEF From
  <2>3. Len(From(s, n)) = Len(s) - n /\ Len(s) - (n + 1) + 1 = Len(s) - n
    <3>1. n \in Nat /\ Len(s) \in Nat /\ n <= Len(s)
      BY <1>1
    <3>2. Len(From(s, n)) = IF n + 1 <= Len(s) THEN Len(s) - (n + 1) + 1 ELSE 0
      BY <2>2
    <3>. QED BY <3>1, <3>2
  <2>4. \A i \in 1..(Len(s) - n) : (n + 1) + i - 1 = n + i
    BY <1>1
  <2>5. DOMAIN From(s, n) = 1..(Len(s) - n)
    BY <2>2, <2>3, LenProperties
  <2>. QED BY <2>2, <2>3, <2>4, <2>5
<1>5. /\ From(t, n) \in Seq(S)
      /\ DOMAIN From(t, n) = 1..(Len(t) - n)
      /\ \A i \in 1..(Len(t) - n) : From(t, n)[i] = t[n + i]
  <2>1. n + 1 \in Int /\ Len(t) \in Int /\ \A i \in (n + 1)..Len(t) : t[i] \in S
    BY <1>1, <1>2, <1>3
  <2>2. /\ From(t, n) \in Seq(S)
        /\ Len(From(t, n)) = IF n + 1 <= Len(t) THEN Len(t) - (n + 1) + 1 ELSE 0
        /\ \A i \in 1..(Len(t) - (n + 1) + 1) : From(t, n)[i] = t[(n + 1) + i - 1]
    BY <2>1, SubSeqProperties DEF From
  <2>3. Len(From(t, n)) = Len(t) - n /\ Len(t) - (n + 1) + 1 = Len(t) - n
    <3>1. n \in Nat /\ Len(t) \in Nat /\ n <= Len(t)
      BY <1>1, <1>2, <1>3
    <3>2. Len(From(t, n)) = IF n + 1 <= Len(t) THEN Len(t) - (n + 1) + 1 ELSE 0
      BY <2>2
    <3>. QED BY <3>1, <3>2
  <2>4. \A i \in 1..(Len(t) - n) : (n + 1) + i - 1 = n + i
    BY <1>1, <1>2, <1>3
  <2>5. DOMAIN From(t, n) = 1..(Len(t) - n)
    BY <2>2, <2>3, LenProperties
  <2>. QED BY <2>2, <2>3, <2>4, <2>5
<1>6. PICK i \in DOMAIN From(s, n) : From(s, n)[i] = m
  BY DEF Has
<1>7. i \in 1..(Len(s) - n) /\ i \in 1..(Len(t) - n) /\ n + i \in 1..Len(s)
  BY <1>1, <1>2, <1>4, <1>6
<1>8. From(t, n)[i] = m /\ i \in DOMAIN From(t, n)
  BY <1>2, <1>4, <1>5, <1>6, <1>7
<1>. QED BY <1>8 DEF Has, t
---------------------------------------------------------------------------
(* What every step of the watching functions leaves alone.                  *)

Gone == {"join", "returned", "raised"}
Closing == {"cleanup", "waitQemu"} \cup Gone

\* The watching functions touch no process, pipe or reader, and they leave QEMU's
\* end to the cleanup.
LEMMA WatchingAlone ==
  ASSUME Watching \/ Interrupted
  PROVE  UNCHANGED <<process, pipe, errPipe, reading, bootLate>> /\ pc' \notin Gone
<1>. USE DEF Alone, Return, Raise, SendText, StepTo, NewDeadline, Gone
<1>1. CASE Headless
  BY <1>1 DEF Headless
<1>2. CASE ClassifyConsole \/ Linger \/ StartShell \/ Interrupted
  BY <1>2 DEF ClassifyConsole, Linger, StartShell, Interrupted
<1>3. CASE TestBoot \/ Command \/ SetMark \/ TestAsk
  BY <1>3 DEF TestBoot, Command, SetMark, TestAsk
<1>4. CASE Shell \/ Halted \/ Alive
  BY <1>4 DEF Shell, Halted, Alive
<1>5. CASE Look("boot", "bootTest") \/ Look("ask", "askTest")
  BY <1>5 DEF Look
<1>. QED BY <1>1, <1>2, <1>3, <1>4, <1>5 DEF Watching

---------------------------------------------------------------------------
(* The end of QEMU.                                                         *)

QemuInv == pc \in Gone => qemu = "gone"

\* At the start QEMU is running and the main thread far from its end.
LEMMA InitQemu == SessionInit => QemuInv
  BY DEF SessionInit, QemuInv, Gone

\* Nothing brings QEMU back, and only a QEMU that is gone lets _drive go on.
LEMMA NextQemu == QemuInv /\ [SessionNext]_sessionVars => QemuInv'
<1>. SUFFICES ASSUME QemuInv, [SessionNext]_sessionVars PROVE QemuInv'
  OBVIOUS
<1>. USE DEF QemuInv
<1>1. CASE Watching \/ Interrupted
  BY <1>1, WatchingAlone
<1>2. CASE \E m \in profile.markers : GuestPrints(m)
  BY <1>2 DEF GuestPrints, host
<1>3. CASE PowerOff \/ PluginEnds \/ QemuExits \/ QemuFails
  BY <1>3 DEF PowerOff, PluginEnds, QemuExits, QemuFails, host
<1>4. CASE Read \/ ReadErr \/ BootTimePasses \/ TimePasses
  BY <1>4 DEF Read, ReadErr, BootTimePasses, TimePasses, host, process
<1>5. CASE Cleanup
  BY <1>5 DEF Cleanup, StepTo, QemuGone, Gone
<1>6. CASE WaitQemu
  BY <1>6 DEF WaitQemu
<1>7. CASE Join
  BY <1>7 DEF Join, Alone, process, Gone
<1>8. CASE UNCHANGED sessionVars
  BY <1>8 DEF sessionVars
<1>. QED BY <1>1, <1>2, <1>3, <1>4, <1>5, <1>6, <1>7, <1>8 DEF SessionNext, Main

\* However _drive ends, there is no QEMU left.
THEOREM NoQemuSurvives == SessionSpec => []NoQemuLeft
<1>1. QemuInv => NoQemuLeft
  BY DEF QemuInv, NoQemuLeft, Ended, Gone
<1>. QED BY <1>1, InitQemu, NextQemu, PTL DEF SessionSpec

---------------------------------------------------------------------------
(* Types.                                                                   *)

\* Nothing has been printed or read at the start but the plugin's first line.
LEMMA InitType == SessionInit => SessionTypeOK
<1>. SUFFICES ASSUME SessionInit PROVE SessionTypeOK
  OBVIOUS
<1>1. << >> \in Seq(profile.markers) /\ << >> \o << >> = << >> /\ Len(<< >>) = 0
  BY EmptySeq, ConcatEmptySeq
<1>2. << >> \in Seq({"mounted", "finished"}) /\ <<"mounted">> \in Seq({"mounted", "finished"})
  OBVIOUS
<1>3. {buf, pipe} \subseteq Seq(profile.markers) /\ printed = buf \o pipe
  BY <1>1 DEF SessionInit
<1>4. {errBuf, errPipe} \subseteq Seq({"mounted", "finished"})
  BY <1>2 DEF SessionInit
<1>5. mark \in 0..Len(buf)
  BY <1>1 DEF SessionInit
<1>. QED BY <1>3, <1>4, <1>5 DEF SessionInit, SessionTypeOK

\* A marker that is read moves from the pipe to the text.
LEMMA Moved ==
  ASSUME NEW S, NEW b \in Seq(S), NEW p \in Seq(S), p # << >>
  PROVE  Append(b, Head(p)) \o Tail(p) = b \o p
  OBVIOUS

\* A marker that is printed comes after all others.
LEMMA Printed ==
  ASSUME NEW S, NEW b \in Seq(S), NEW p \in Seq(S), NEW e \in S
  PROVE  Append(b \o p, e) = b \o Append(p, e)
  OBVIOUS

\* The values a watching function can return.
Outcome == {"completed", "panic", "guest_halted", "boot_failed", "timeout", "qemu_exited"}

\* Every verdict is borne out by the text it is given on.
LEMMA VerdictEvidence ==
  ASSUME NEW txt, NEW m, NEW v, v = Verdict(txt, m)
  PROVE  /\ v \in {"completed", "panic", "guest_halted", "none"}
         /\ v = "completed" => \/ Has(txt, "done")
                              \/ \E e \in {"exit", "prompt"} : Has(From(txt, m), e)
         /\ v = "panic" => Has(txt, "panic")
         /\ v = "guest_halted" => Has(txt, "halt")
         /\ Has(txt, "halt") => v # "none"
  BY DEF Verdict

\* What is known of the text and of the outcome at each position of the main
\* thread; outcomes are only set on the way to the cleanup.
EvidenceInv ==
  /\ pc = "linger" => Has(buf, "done")
  /\ pc = "halted" => Has(buf, "halt")
  /\ pc = "bootTest" => \A m : Has(seen, m) => Has(buf, m)
  /\ outcome = "completed" => \/ Has(buf, "done")
                              \/ \E m \in {"exit", "prompt"} : Has(From(buf, mark), m)
  /\ outcome = "panic" => Has(buf, "panic")
  /\ outcome = "guest_halted" => Has(buf, "halt")
  /\ outcome \in Outcome \cup {"unknown"}
  /\ IF pc \in Closing THEN raised \/ outcome # "unknown" ELSE outcome = "unknown"

\* A step of the watching functions answers only with what the text bears out.
LEMMA WatchingEvidence ==
  ASSUME SessionTypeOK, EvidenceInv, Watching \/ Interrupted
  PROVE  EvidenceInv' /\ mark' \in 0..Len(buf') /\ booted' \in BOOLEAN
         /\ late' \in BOOLEAN /\ raised' \in BOOLEAN
<1>. USE DEF EvidenceInv, Return, Raise, SendText, StepTo, NewDeadline, Closing, Gone, Outcome
<1>0. buf' = buf
  BY WatchingAlone DEF reading
<1>00. buf \in Seq(profile.markers) /\ Len(buf) \in Nat /\ DOMAIN buf = 1..Len(buf)
  BY LenProperties DEF SessionTypeOK
<1>1. CASE Headless
  BY <1>0, <1>1 DEF Headless, SessionTypeOK
<1>2. CASE ClassifyConsole
  BY <1>0, <1>2 DEF ClassifyConsole, Classify, SessionTypeOK
<1>3. CASE Linger
  BY <1>0, <1>3 DEF Linger, SessionTypeOK
<1>4. CASE StartShell
  BY <1>0, <1>4 DEF StartShell, SessionTypeOK
<1>5. CASE Interrupted
  BY <1>0, <1>5 DEF Interrupted, Ended, SessionTypeOK
<1>6. CASE TestBoot
  BY <1>0, <1>6 DEF TestBoot, SessionTypeOK
<1>7. CASE Command
  <2>1. mark' \in 0..Len(buf')
    BY <1>0, <1>00, <1>7 DEF Command, SessionTypeOK
  <2>2. late' \in BOOLEAN /\ raised' \in BOOLEAN /\ booted' \in BOOLEAN
    BY <1>7 DEF Command, SessionTypeOK
  <2>3. \/ pc' \in {"ask", "shell", "sent"} /\ outcome' = "unknown"
        \/ pc' = "cleanup" /\ outcome' = "unknown" /\ raised'
    BY <1>7 DEF Command
  <2>. QED BY <2>1, <2>2, <2>3
<1>8. CASE SetMark
  <2>1. mark' \in 0..Len(buf')
    BY <1>0, <1>00, <1>8 DEF SetMark
  <2>2. late' \in BOOLEAN /\ raised' \in BOOLEAN /\ booted' \in BOOLEAN
    BY <1>8 DEF SetMark, SessionTypeOK
  <2>3. pc' \in {"ask", "shell"} /\ outcome' = "unknown"
    BY <1>8 DEF SetMark
  <2>. QED BY <2>1, <2>2, <2>3
<1>9. CASE TestAsk
  BY <1>0, <1>9 DEF TestAsk, SessionTypeOK
<1>10. CASE Shell
  <2>. DEFINE v == Verdict(buf, mark)
  <2>1. /\ v \in {"completed", "panic", "guest_halted", "none"}
        /\ v = "completed" => \/ Has(buf, "done")
                             \/ \E e \in {"exit", "prompt"} : Has(From(buf, mark), e)
        /\ v = "panic" => Has(buf, "panic")
        /\ v = "guest_halted" => Has(buf, "halt")
    BY VerdictEvidence
  <2>2. /\ mark' = mark /\ booted' = booted /\ outcome = "unknown"
        /\ \/ pc' = "cleanup" /\ outcome' = "timeout"
           \/ pc' = "alive" /\ outcome' = outcome
           \/ pc' = "halted" /\ outcome' = outcome /\ v = "guest_halted"
           \/ pc' = "cleanup" /\ outcome' = v /\ v # "none"
        /\ raised' = raised /\ late' \in {late, FALSE}
    BY <1>10 DEF Shell
  <2>. HIDE DEF v
  <2>. QED BY <1>0, <2>1, <2>2 DEF SessionTypeOK
<1>11. CASE Halted
  <2>. DEFINE v == Verdict(buf, mark)
  <2>1. /\ v \in {"completed", "panic", "guest_halted", "none"}
        /\ v = "completed" => \/ Has(buf, "done")
                             \/ \E e \in {"exit", "prompt"} : Has(From(buf, mark), e)
        /\ v = "panic" => Has(buf, "panic")
        /\ v = "guest_halted" => Has(buf, "halt")
        /\ Has(buf, "halt") => v # "none"
    BY VerdictEvidence
  <2>2. /\ mark' = mark /\ booted' = booted /\ outcome = "unknown" /\ Has(buf, "halt")
        /\ pc' = "cleanup" /\ outcome' = v /\ raised' = raised /\ late' = FALSE
    BY <1>11 DEF Halted
  <2>. HIDE DEF v
  <2>. QED BY <1>0, <2>1, <2>2 DEF SessionTypeOK
<1>12. CASE Alive
  BY <1>0, <1>12 DEF Alive, SessionTypeOK
<1>13. CASE Look("boot", "bootTest") \/ Look("ask", "askTest")
  BY <1>0, <1>13 DEF Look, SessionTypeOK
<1>. QED BY <1>1, <1>2, <1>3, <1>4, <1>5, <1>6, <1>7, <1>8, <1>9, <1>10, <1>11, <1>12, <1>13
         DEF Watching

---------------------------------------------------------------------------
(* What every step preserves.                                               *)

Lines == {"mounted", "finished"}

\* The plugin's closing line is written once the file is closed, and stays in
\* the pipe until it is read; the end of the stream is the end of QEMU.
StderrInv ==
  /\ finished <=> Has(errBuf, "finished") \/ Has(errPipe, "finished")
  /\ errEof => errPipe = << >> /\ qemu = "gone"

SessionInv == SessionTypeOK /\ EvidenceInv /\ StderrInv

\* Nothing is known and nothing is claimed at the start.
LEMMA InitSession == SessionInit => SessionInv
<1>. SUFFICES ASSUME SessionInit PROVE SessionInv
  OBVIOUS
<1>1. ~Has(<<"mounted">>, "finished") /\ ~Has(<< >>, "finished")
  BY DEF Has
<1>2. StderrInv
  BY <1>1 DEF SessionInit, StderrInv
<1>3. EvidenceInv
  BY DEF SessionInit, EvidenceInv, Closing, Gone, Outcome
<1>. QED BY <1>2, <1>3, InitType DEF SessionInv

\* A step of QEMU, of the guest or of the clock touches no text.
LEMMA OutsideStep ==
  ASSUME SessionInv, \/ \E m \in profile.markers : GuestPrints(m)
               \/ PowerOff \/ PluginEnds \/ QemuExits \/ QemuFails
               \/ BootTimePasses \/ TimePasses
  PROVE  SessionInv'
<1>. USE DEF SessionInv
<1>1. EvidenceInv'
  <2>1. UNCHANGED <<buf, pc, seen, mark, outcome, raised>>
    BY DEF GuestPrints, PowerOff, PluginEnds, QemuExits, QemuFails, BootTimePasses, TimePasses,
           reading, host
  <2>. QED BY <2>1 DEF EvidenceInv
<1>2. CASE \E m \in profile.markers : GuestPrints(m)
  <2>1. PICK m \in profile.markers : GuestPrints(m)
    BY <1>2
  <2>2. buf \in Seq(profile.markers) /\ pipe \in Seq(profile.markers) /\ printed = buf \o pipe
    BY DEF SessionTypeOK
  <2>3. Append(pipe, m) \in Seq(profile.markers) /\ Append(printed, m) = buf \o Append(pipe, m)
    BY <2>2, AppendProperties, Printed
  <2>4. {buf', pipe'} \subseteq Seq(profile'.markers) /\ printed' = buf' \o pipe'
    BY <2>1, <2>2, <2>3 DEF GuestPrints, reading
  <2>5. UNCHANGED <<profile, qemu, finished, errPipe, buf, eof, errBuf, errEof, mark, booted,
                    bootLate, late, raised, outcome>>
    BY <2>1 DEF GuestPrints, reading, host
  <2>. QED BY <1>1, <2>4, <2>5 DEF SessionTypeOK, StderrInv
<1>3. CASE PluginEnds
  <2>1. UNCHANGED <<profile, qemu, pipe, printed, buf, eof, errBuf, errEof, mark, booted,
                    bootLate, late, raised, outcome>>
    BY <1>3 DEF PluginEnds, reading, host
  <2>2. qemu = "closing" /\ finished' = TRUE /\ errPipe' = Append(errPipe, "finished")
    BY <1>3 DEF PluginEnds
  <2>3. errPipe \in Seq(Lines) /\ errBuf \in Seq(Lines) /\ "finished" \in Lines
    BY DEF SessionTypeOK, Lines
  <2>4. Append(errPipe, "finished") \in Seq(Lines) /\ Has(Append(errPipe, "finished"), "finished")
    BY <2>3, AppendProperties, HasAppend
  <2>5. StderrInv'
    BY <2>1, <2>2, <2>4 DEF StderrInv
  <2>6. {errBuf', errPipe'} \subseteq Seq({"mounted", "finished"})
    BY <2>1, <2>2, <2>3, <2>4 DEF Lines
  <2>. QED BY <1>1, <2>1, <2>2, <2>5, <2>6 DEF SessionTypeOK
<1>4. CASE PowerOff \/ QemuExits \/ QemuFails
  <2>1. UNCHANGED <<profile, finished, pipe, errPipe, printed, buf, eof, errBuf, errEof, mark,
                    booted, bootLate, late, raised, outcome>>
    BY <1>4 DEF PowerOff, QemuExits, QemuFails, reading, host
  <2>2. qemu # "gone" /\ qemu' \in {"closing", "gone", "hung"}
    BY <1>4 DEF PowerOff, QemuExits, QemuFails
  <2>. QED BY <1>1, <2>1, <2>2 DEF SessionTypeOK, StderrInv
<1>5. CASE BootTimePasses \/ TimePasses
  <2>1. /\ UNCHANGED <<profile, qemu, finished, pipe, errPipe, printed, buf, eof, errBuf, errEof,
                       mark, booted, raised, outcome>>
        /\ bootLate' \in {bootLate, TRUE} /\ late' \in {late, TRUE}
    BY <1>5 DEF BootTimePasses, TimePasses, process, reading, host
  <2>. QED BY <1>1, <2>1 DEF SessionTypeOK, StderrInv
<1>. QED BY <1>2, <1>3, <1>4, <1>5

\* What is read is added to the text: whatever was said stays said.
LEMMA ReadStep ==
  ASSUME SessionInv, Read
  PROVE  SessionInv'
<1>. USE DEF SessionInv
<1>1. UNCHANGED <<profile, qemu, printed, finished, errPipe, errBuf, errEof, pc, seen, mark, booted,
                  outcome, raised, bootLate, late>>
  BY DEF Read, process, host
<1>2. buf \in Seq(profile.markers) /\ pipe \in Seq(profile.markers) /\ printed = buf \o pipe
      /\ mark \in 0..Len(buf) /\ Len(buf) \in Nat
  BY LenProperties DEF SessionTypeOK
<1>3. StderrInv'
  BY <1>1 DEF StderrInv
<1>4. CASE pipe = << >>
  <2>1. buf' = buf /\ pipe' = pipe /\ eof' = TRUE
    BY <1>4 DEF Read
  <2>. QED BY <1>1, <1>3, <2>1 DEF SessionTypeOK, EvidenceInv
<1>5. CASE pipe # << >>
  <2>1. buf' = Append(buf, Head(pipe)) /\ pipe' = Tail(pipe) /\ eof' = eof
    BY <1>5 DEF Read
  <2>2. Head(pipe) \in profile.markers /\ Tail(pipe) \in Seq(profile.markers)
    BY <1>2, <1>5, HeadTailProperties
  <2>3. buf' \in Seq(profile.markers) /\ Len(buf') = Len(buf) + 1 /\ printed' = buf' \o pipe'
    BY <1>1, <1>2, <1>5, <2>1, <2>2, AppendProperties, Moved
  <2>4. mark' \in 0..Len(buf')
    BY <1>1, <1>2, <2>3
  <2>5. SessionTypeOK'
    BY <1>1, <1>2, <2>1, <2>2, <2>3, <2>4 DEF SessionTypeOK
  <2>6. \A m : Has(buf, m) => Has(buf', m)
    BY <1>2, <2>1, <2>2, HasAppend
  <2>7. \A m : Has(From(buf, mark), m) => Has(From(buf', mark'), m)
    BY <1>1, <1>2, <2>1, <2>2, FromAppend
  <2>8. EvidenceInv'
    BY <1>1, <2>6, <2>7 DEF EvidenceInv
  <2>. QED BY <1>3, <2>5, <2>8
<1>. QED BY <1>4, <1>5

\* The same of stderr, of which nothing is lost.
LEMMA ReadErrStep ==
  ASSUME SessionInv, ReadErr
  PROVE  SessionInv'
<1>. USE DEF SessionInv
<1>1. UNCHANGED <<profile, qemu, printed, finished, pipe, buf, eof, pc, seen, mark, booted,
                  outcome, raised, bootLate, late>>
  BY DEF ReadErr, process, host
<1>2. errBuf \in Seq(Lines) /\ errPipe \in Seq(Lines)
  BY DEF SessionTypeOK, Lines
<1>3. EvidenceInv'
  BY <1>1 DEF EvidenceInv
<1>4. CASE errPipe = << >>
  <2>1. errBuf' = errBuf /\ errPipe' = errPipe /\ errEof' = TRUE /\ qemu = "gone"
    BY <1>4 DEF ReadErr
  <2>. QED BY <1>1, <1>3, <1>4, <2>1 DEF SessionTypeOK, StderrInv
<1>5. CASE errPipe # << >>
  <2>1. errBuf' = Append(errBuf, Head(errPipe)) /\ errPipe' = Tail(errPipe) /\ errEof' = errEof
        /\ ~errEof
    BY <1>5 DEF ReadErr
  <2>2. Head(errPipe) \in Lines /\ Tail(errPipe) \in Seq(Lines)
    BY <1>2, <1>5, HeadTailProperties
  <2>3. errBuf' \in Seq(Lines)
    BY <1>2, <2>1, <2>2, AppendProperties
  <2>4. {errBuf', errPipe'} \subseteq Seq({"mounted", "finished"})
    BY <2>1, <2>2, <2>3 DEF Lines
  <2>5. Has(errBuf', "finished") <=> Has(errBuf, "finished") \/ "finished" = Head(errPipe)
    BY <1>2, <2>1, <2>2, HasAppend
  <2>6. Has(errPipe, "finished") <=> "finished" = Head(errPipe) \/ Has(errPipe', "finished")
    BY <1>2, <1>5, <2>1, HasTail
  <2>7. StderrInv'
    BY <1>1, <2>1, <2>5, <2>6 DEF StderrInv
  <2>. QED BY <1>1, <1>3, <2>1, <2>4, <2>7 DEF SessionTypeOK
<1>. QED BY <1>4, <1>5

\* The cleanup ends QEMU and keeps the answer.
LEMMA CleanupStep ==
  ASSUME SessionInv, Cleanup \/ WaitQemu \/ Join
  PROVE  SessionInv'
<1>. USE DEF SessionInv
<1>1. UNCHANGED <<profile, seen, mark, booted, outcome, raised, pipe, errPipe, printed, finished,
                  buf, eof, errBuf, errEof, bootLate>>
  BY DEF Cleanup, WaitQemu, Join, Alone, process, reading
<1>2. pc \in Closing /\ pc' \in Closing \ {"cleanup"} /\ late' \in {late, FALSE}
  BY DEF Cleanup, WaitQemu, Join, StepTo, NewDeadline, Closing, Gone
<1>3. qemu' \in {"running", "closing", "hung", "gone"} /\ (qemu = "gone" => qemu' = "gone")
  BY DEF Cleanup, WaitQemu, Join, Alone, process, SessionTypeOK
<1>4. EvidenceInv'
  BY <1>1, <1>2 DEF EvidenceInv, Closing, Gone
<1>. QED BY <1>1, <1>2, <1>3, <1>4 DEF SessionTypeOK, StderrInv

\* Every step of the system keeps the three parts.
LEMMA NextSession == SessionInv /\ [SessionNext]_sessionVars => SessionInv'
<1>. SUFFICES ASSUME SessionInv, [SessionNext]_sessionVars PROVE SessionInv'
  OBVIOUS
<1>1. CASE Watching \/ Interrupted
  <2>1. EvidenceInv' /\ mark' \in 0..Len(buf') /\ booted' \in BOOLEAN
        /\ late' \in BOOLEAN /\ raised' \in BOOLEAN
    BY <1>1, WatchingEvidence DEF SessionInv
  <2>2. UNCHANGED <<profile, qemu, printed, finished, pipe, errPipe, buf, eof, errBuf, errEof,
                    bootLate>>
    BY <1>1, WatchingAlone DEF process, reading
  <2>3. outcome' \in Outcome \cup {"unknown"}
    BY <2>1 DEF EvidenceInv
  <2>4. SessionTypeOK'
    BY <2>1, <2>2, <2>3 DEF SessionInv, SessionTypeOK, Outcome
  <2>. QED BY <2>1, <2>2, <2>4 DEF SessionInv, StderrInv
<1>2. CASE UNCHANGED sessionVars
  BY <1>2 DEF sessionVars, SessionInv, SessionTypeOK, EvidenceInv, StderrInv
<1>. QED BY <1>1, <1>2, OutsideStep, ReadStep, ReadErrStep, CleanupStep DEF SessionNext, Main

\* Types, and the order of the markers between the guest and the reader.
THEOREM SessionTyped == SessionSpec => []SessionTypeOK
<1>1. SessionInv => SessionTypeOK
  BY DEF SessionInv
<1>. QED BY <1>1, InitSession, NextSession, PTL DEF SessionSpec

\* An outcome of _drive that names something the guest did is borne out by the
\* console text it saves.
THEOREM EvidenceKept == SessionSpec => []OutcomeHasEvidence
<1>1. SessionInv => OutcomeHasEvidence
  BY DEF SessionInv, EvidenceInv, OutcomeHasEvidence, Ended, Closing, Gone
<1>. QED BY <1>1, InitSession, NextSession, PTL DEF SessionSpec

\* _trace_incomplete neither trusts a file that nf_finish has not closed nor
\* doubts one whose stderr was read to the end.
THEOREM TraceVerdict == SessionSpec => []TraceCompleteIsTrue
<1>1. ~Has(<< >>, "finished")
  BY DEF Has
<1>2. SessionInv => TraceCompleteIsTrue
  BY <1>1 DEF SessionInv, StderrInv, TraceCompleteIsTrue, TraceComplete
<1>. QED BY <1>2, InitSession, NextSession, PTL DEF SessionSpec
=============================================================================
