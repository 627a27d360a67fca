---------------------------- MODULE VideoExport ----------------------------
(***************************************************************************)
(* The export of a report as a video (host/video.py, host/cdp.py): a       *)
(* browser is started, told over a WebSocket to draw one frame after the   *)
(* other, photographed and closed; ffmpeg makes an MP4 of the pictures,    *)
(* and a sidecar with its hash is written beside it.  The browser answers  *)
(* in its own time, sends events of its own, hangs or dies.  A report may  *)
(* be replaced at any time, the exporter killed and started again.         *)
(***************************************************************************)
EXTENDS Integers, Sequences

CONSTANTS
  Frames,       \* frames of the storyboard
  Reports,      \* the reports that may stand in the HTML file
  MaxExports,   \* bound: runs of the exporter
  MaxInbox      \* bound: unread messages that still let the browser send an event

ASSUME VideoAssumption ==
  Frames \in Nat \ {0} /\ MaxExports \in Nat \ {0} /\ MaxInbox \in Nat /\ Reports # {}

None == "none"
Attempts == 2

VARIABLES
  exports,    \* exports that were started
  client,     \* make_video, its Browser and its _WebSocket
  chrome,     \* the browser process, its tab and the two directions of the socket
  files       \* the report, _frames_<stem>/f_*.png, the MP4 and the sidecar

videoVars == <<exports, client, chrome, files>>

Picture(r, k) == [report |-> r, k |-> k]
NoVideo == [whole |-> FALSE, frames |-> << >>]

\* Attempt a of make_video.  `step' is the command that is next or awaited, with
\* the number k of the frame; `late' and `overdue' say that the time of the
\* command and of wait_for is over; `broken' that a read stopped inside a frame.
Attempt(a) ==
  [at |-> "begin", attempt |-> a, step |-> "attach", k |-> 0, asking |-> FALSE,
   late |-> FALSE, overdue |-> FALSE, broken |-> FALSE, fault |-> None,
   taken |-> 0, info |-> None]

NoBrowser ==
  [proc |-> "none", entered |-> FALSE, asked |-> << >>, inbox |-> << >>,
   report |-> None, drawing |-> 0, shows |-> 0]

\* Pictures of an earlier, longer export may still lie in the directory.
VideoInit ==
  /\ exports = 1 /\ client = Attempt(1) /\ chrome = NoBrowser
  /\ \E r \in Reports, n \in {0, Frames + 1} :
       files = [html |-> r, frames |-> [i \in 1..n |-> Picture(r, i)], mp4 |-> NoVideo,
                sidecar |-> [video |-> NoVideo, frames |-> 0, info |-> None]]

---------------------------------------------------------------------------
(* How an exception travels: "cdp" is a CdpError, "video" a VideoError, and *)
(* "other" an OSError or a reply that cannot be decoded.                    *)

\* make_video after render_frames: only a CdpError is tried again.
Left(c) ==
  IF c.fault = None THEN [c EXCEPT !.at = "encode"]
  ELSE IF c.fault = "cdp" /\ c.attempt < Attempts THEN Attempt(c.attempt + 1)
  ELSE [c EXCEPT !.at = "failed"]

\* Browser.__exit__ runs only when start() had returned.
Raised(c, fault) ==
  LET d == [c EXCEPT !.fault = fault, !.asking = FALSE]
  IN IF c.step = "attach" THEN Left(d) ELSE [d EXCEPT !.at = "close"]

\* An exception in cmd: close() swallows it, wait_for goes on after a CdpError.
Fails(c, fault) ==
  CASE c.at = "close" -> [c EXCEPT !.at = "wait", !.asking = FALSE]
    [] c.at = "cmd" /\ c.step = "probe" /\ fault = "cdp" -> [c EXCEPT !.asking = FALSE]
    [] c.at = "cmd" /\ c.step = "diag" /\ fault = "cdp" -> Raised(c, "video")
    [] OTHER -> Raised(c, fault)

---------------------------------------------------------------------------
(* The beginning of render_frames and Browser.start.                        *)

\* Mutant of BeginAttempt: what an earlier export left is not deleted.
BeginAttemptDirty ==
  /\ client.at = "begin" /\ client' = [client EXCEPT !.at = "launch"]
  /\ chrome' = NoBrowser /\ UNCHANGED <<exports, files>>
BeginAttempt ==
  /\ client.at = "begin" /\ client' = [client EXCEPT !.at = "launch"]
  /\ files' = [files EXCEPT !.frames = << >>]
  /\ chrome' = NoBrowser /\ UNCHANGED exports

\* find_browser, Popen, _wait_port, /json/version, the handshake.
Launch ==
  /\ client.at = "launch" /\ UNCHANGED <<exports, files>>
  /\ \/ client' = [client EXCEPT !.at = "cmd"] /\ chrome' = [chrome EXCEPT !.proc = "up"]
     \/ \E fault \in {"cdp", "other"}, p \in {"none", "up", "gone"} :
          client' = Raised(client, fault) /\ chrome' = [chrome EXCEPT !.proc = p]

---------------------------------------------------------------------------
(* Browser.cmd and _WebSocket.  A message carries `mine' when its id is the *)
(* _id of the command in hand; the next command makes all older ones stale. *)

Stale(s) == [i \in 1..Len(s) |-> [s[i] EXCEPT !.mine = FALSE]]

Send ==
  /\ client.at \in {"cmd", "close"} /\ ~client.asking
  /\ ~(client.at = "cmd" /\ client.step = "probe" /\ client.overdue)
  /\ \/ /\ client' = [client EXCEPT !.asking = TRUE, !.late = FALSE]
        /\ LET what == IF client.at = "close" THEN "close" ELSE client.step
               request == [mine |-> TRUE, do |-> what, k |-> client.k]
           IN chrome' = [chrome EXCEPT !.inbox = Stale(@),
                           !.asked = IF chrome.proc = "up" THEN Append(Stale(@), request)
                                     ELSE @]
     \/ chrome.proc = "gone" /\ client' = Fails(client, "other") /\ UNCHANGED chrome
  /\ UNCHANGED <<exports, files>>

\* wait_for is over: render_frames asks the page why.
GiveUpWaiting ==
  /\ client.at = "cmd" /\ client.step = "probe" /\ client.overdue /\ ~client.asking
  /\ client' = [client EXCEPT !.step = "diag"]
  /\ UNCHANGED <<exports, chrome, files>>

\* The command after the one that was answered; after the last picture, close().
Advanced(c) ==
  LET d == [c EXCEPT !.asking = FALSE]
  IN CASE c.step = "attach"   -> [d EXCEPT !.step = "navigate"]
       [] c.step = "navigate" -> [d EXCEPT !.step = "probe"]
       [] c.step = "probe"    -> [d EXCEPT !.step = "info"]
       [] c.step = "info"     -> [d EXCEPT !.step = "frame", !.k = 1]
       [] c.step = "frame"    -> [d EXCEPT !.step = "shot"]
       [] c.step = "shot" /\ c.k < Frames -> [d EXCEPT !.step = "frame", !.k = c.k + 1]
       [] OTHER -> [d EXCEPT !.at = "close"]

Answered(c, m) ==
  IF m.error THEN Fails(c, "cdp")
  ELSE IF c.at = "close" THEN [c EXCEPT !.at = "wait", !.asking = FALSE]
  ELSE CASE c.step = "diag" -> Raised(c, "video")
         [] c.step = "probe" /\ m.value.k = 0 -> [c EXCEPT !.asking = FALSE]
         [] c.step = "info" -> [Advanced(c) EXCEPT !.info = m.value.report]
         [] c.step = "shot" -> [Advanced(c) EXCEPT !.taken = c.taken + 1]
         [] OTHER -> Advanced(c)

\* The picture becomes f_<len(frames)>.png.
Saved(frames, n, picture) ==
  IF n <= Len(frames) THEN [frames EXCEPT ![n] = picture] ELSE Append(frames, picture)

\* Mutant of OutOfTime: the loop of cmd does not look at the clock.
OutOfTimeNever == FALSE
OutOfTime == client.late

\* The clock is looked at before a read, so a reply that comes late still counts.
Receive ==
  /\ client.asking /\ ~client.broken /\ chrome.inbox # << >>
  /\ LET m == Head(chrome.inbox)
         c == IF m.mine THEN Answered(client, m)
              ELSE IF OutOfTime THEN Fails(client, "cdp") ELSE client
     IN /\ client' = c
        /\ chrome' = [chrome EXCEPT !.inbox = Tail(@), !.entered = @ \/ c.step = "navigate"]
        /\ files' = IF c.taken = client.taken + 1
                    THEN [files EXCEPT !.frames = Saved(@, c.taken, m.value)] ELSE files
  /\ UNCHANGED exports

\* The connection ends, or what is left of a half-read frame is read as a frame.
ReadFails ==
  /\ client.asking
  /\ client.broken \/ (chrome.inbox = << >> /\ chrome.proc = "gone")
  /\ \E fault \in {"cdp", "other"} : client' = Fails(client, fault)
  /\ UNCHANGED <<exports, chrome, files>>

\* Nothing comes for as long as the socket waits, which is longer than wait_for.
ReadTimesOut ==
  /\ client.asking /\ ~client.broken /\ chrome.inbox = << >> /\ chrome.proc = "up"
  /\ \E b \in BOOLEAN :
       client' = Fails([client EXCEPT !.broken = b, !.overdue = TRUE], "cdp")
  /\ UNCHANGED <<exports, chrome, files>>

CommandExpires ==
  /\ client.asking /\ ~client.late
  /\ client' = [client EXCEPT !.late = TRUE, !.overdue = TRUE]
  /\ UNCHANGED <<exports, chrome, files>>

WaitExpires ==
  /\ client.at = "cmd" /\ client.step = "probe" /\ ~client.overdue
  /\ client' = [client EXCEPT !.overdue = TRUE]
  /\ UNCHANGED <<exports, chrome, files>>

---------------------------------------------------------------------------
(* The browser.                                                             *)

\* A frame is evaluated with awaitPromise: it is answered after settle().
Awaits(request) == request.do = "frame"

Asked == Head(chrome.asked)
Reply(v) == [mine |-> Asked.mine, error |-> FALSE, value |-> v]
Done(v, c) == [c EXCEPT !.asked = Tail(@), !.inbox = Append(@, Reply(v))]
Working == chrome.proc = "up" /\ chrome.asked # << >>

Execute ==
  /\ Working
  /\ LET done == Done(Picture(None, 0), chrome)
     IN CASE Asked.do = "navigate" ->
               chrome' = [done EXCEPT !.report = files.html, !.drawing = 0, !.shows = 0]
          [] Asked.do = "probe" -> \E k \in {0, 1} : chrome' = Done(Picture(None, k), chrome)
          [] Asked.do = "info" -> chrome' = Done(Picture(chrome.report, 0), chrome)
          [] Asked.do = "shot" -> chrome' = Done(Picture(chrome.report, chrome.shows), chrome)
          [] Asked.do = "close" -> \/ chrome' = [done EXCEPT !.proc = "gone"]
                                   \/ chrome' = done
          [] Asked.do = "frame" ->
               /\ chrome.drawing # Asked.k
               /\ chrome' = [(IF Awaits(Asked) THEN chrome ELSE done) EXCEPT !.drawing = Asked.k]
          [] OTHER -> chrome' = done
  /\ UNCHANGED <<exports, client, files>>

\* settle(): the page has been drawn.
Settle ==
  /\ chrome.proc = "up" /\ chrome.shows # chrome.drawing
  /\ LET awaited == chrome.asked # << >> /\ Awaits(Asked)
     IN chrome' = [(IF awaited THEN Done(Picture(None, 0), chrome) ELSE chrome)
                     EXCEPT !.shows = chrome.drawing]
  /\ UNCHANGED <<exports, client, files>>

CommandErrs ==
  /\ Working /\ Asked.do # "close"
  /\ chrome' = [chrome EXCEPT !.asked = Tail(@),
                  !.inbox = Append(@, [Reply(Picture(None, 0)) EXCEPT !.error = TRUE])]
  /\ UNCHANGED <<exports, client, files>>

BrowserEvent ==
  /\ chrome.proc = "up" /\ Len(chrome.inbox) < MaxInbox /\ client.at \in {"cmd", "close"}
  /\ chrome' = [chrome EXCEPT !.inbox =
                  Append(@, [mine |-> FALSE, error |-> FALSE,
                             value |-> Picture(None, 0)])]
  /\ UNCHANGED <<exports, client, files>>

BrowserDies ==
  /\ chrome.proc = "up"
  /\ chrome' = [chrome EXCEPT !.proc = "gone", !.asked = << >>]
  /\ UNCHANGED <<exports, client, files>>

---------------------------------------------------------------------------
(* Browser.close, encode, the sidecar.                                      *)

\* Mutant of Reaped: a browser that does not end by itself is left alone.
ReapedIfGone(proc) == proc
\* wait(timeout=10), then kill().
Reaped(proc) == "gone"

WaitBrowser ==
  /\ client.at = "wait"
  /\ client' = Left(client)
  /\ chrome' = [chrome EXCEPT !.proc = Reaped(@), !.asked = << >>, !.inbox = << >>]
  /\ UNCHANGED <<exports, files>>

DeleteVideo ==
  /\ client.at = "encode" /\ client' = [client EXCEPT !.at = "ffmpeg"]
  /\ files' = [files EXCEPT !.mp4 = NoVideo]
  /\ UNCHANGED <<exports, chrome>>

\* ffmpeg takes every f_*.png of the directory; without --keep-frames it goes.
Encode ==
  /\ client.at = "ffmpeg" /\ UNCHANGED <<exports, chrome>>
  /\ \/ /\ client' = [client EXCEPT !.at = "sidecar"]
        /\ \E left \in {files.frames, << >>} :
             files' = [files EXCEPT !.mp4 = [whole |-> TRUE, frames |-> files.frames],
                                    !.frames = left]
     \/ client' = [client EXCEPT !.at = "failed"] /\ UNCHANGED files

Sidecar ==
  /\ client.at = "sidecar"
  /\ client' = [client EXCEPT !.at = "done"]
  /\ files' = [files EXCEPT !.sidecar =
                 [video |-> files.mp4, frames |-> client.taken, info |-> client.info]]
  /\ UNCHANGED <<exports, chrome>>

---------------------------------------------------------------------------
(* What happens around an export.                                           *)

NewReport ==
  /\ \E r \in Reports \ {files.html} : files' = [files EXCEPT !.html = r]
  /\ UNCHANGED <<exports, client, chrome>>

\* The exporter is started again after its end, or after a kill at any point.
ExportAgain ==
  /\ exports < MaxExports /\ exports' = exports + 1
  /\ client' = Attempt(1) /\ chrome' = NoBrowser /\ UNCHANGED files

ExporterSteps ==
  \/ BeginAttempt
  \/ Launch
  \/ Send
  \/ GiveUpWaiting
  \/ Receive
  \/ ReadFails
  \/ WaitBrowser
  \/ DeleteVideo
  \/ Encode
  \/ Sidecar

VideoNext ==
  \/ ExporterSteps
  \/ ReadTimesOut
  \/ CommandExpires
  \/ WaitExpires
  \/ Execute
  \/ Settle
  \/ CommandErrs
  \/ BrowserEvent
  \/ BrowserDies
  \/ NewReport
  \/ ExportAgain

\* The exporter runs, its clocks advance, ffmpeg ends; the browser owes nothing.
VideoFairness ==
  /\ WF_videoVars(ExporterSteps) /\ WF_videoVars(ReadTimesOut)
  /\ WF_videoVars(CommandExpires) /\ WF_videoVars(WaitExpires)

VideoSpec == VideoInit /\ [][VideoNext]_videoVars /\ VideoFairness

---------------------------------------------------------------------------
(* Properties.                                                              *)

\* A sidecar that carries the hash of the MP4 beside it tells the truth about it:
\* the video has the frames it counts, in the order of the storyboard, all of the
\* report it names, whatever older exports left behind and however the browser
\* delayed, repeated or failed its answers (video.py:32, "self-verifying").
SidecarDescribesVideo ==
  LET s == files.sidecar
  IN s.video = files.mp4 /\ s.video.whole =>
       /\ s.frames = Frames
       /\ s.video.frames = [k \in 1..Frames |-> Picture(s.info, k)]

\* The browser of an attempt whose start() returned has ended when make_video goes
\* on, whatever went wrong; only a start() that raises may leave one behind.
BrowsersAreClosed ==
  client.at \in {"begin", "encode", "ffmpeg", "sidecar", "done", "failed"} /\ chrome.entered =>
    chrome.proc = "gone"

\* An export ends, also with a browser that hangs, never gets ready or never stops
\* talking: the limits of cmd, of wait_for and of the socket see to it.
ExportEnds == []<>(client.at \in {"done", "failed"})
=============================================================================
