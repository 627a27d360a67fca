---------------------------- MODULE DriveSession ----------------------------
(***************************************************************************)
(* One QEMU run driven by record.py: _drive starts QEMU and two threads    *)
(* that read its console and its stderr, _drive_headless or _drive_shell   *)
(* watches the console text and decides the outcome, and the cleanup ends  *)
(* QEMU by QMP, SIGTERM or SIGKILL.  The guest may print any marker at any *)
(* time, power off, or hang; QEMU may hang too.  A marker is one token: a  *)
(* reader takes bytes, but nobody acts on a part of a marker.              *)
(***************************************************************************)
EXTENDS Integers, Sequences

CONSTANTS
  Profiles,     \* kernels and workloads to drive
  MaxPrinted,   \* model bound: markers the guest prints
  PipeRoom      \* model bound: markers a pipe holds

\* A profile says whether a shell gets the program's name (interactive), whether
\* the command is sent before boot (preload), and which markers are known: the
\* profile's lists of ready, done, panic, halt and exit markers, its prompt, and
\* "ask" for an entry of stdin_after.
Marker == {"ready", "done", "panic", "prompt", "halt", "exit", "ask"}

ASSUME DriveAssumption ==
  /\ Profiles \subseteq [interactive : BOOLEAN, preload : BOOLEAN,
                          markers : SUBSET Marker]
  /\ {MaxPrinted, PipeRoom} \subseteq Nat \ {0}

VARIABLES
  profile,   \* the one in use
  qemu,      \* "running", "closing" (in its exit handlers), "hung" or "gone"
  pipe,      \* console markers written and not yet read
  errPipe,   \* stderr lines written and not yet read
  printed,   \* history: every marker the guest has printed
  finished,  \* history: the plugin has written END and its closing line
  buf, eof,        \* reader.buf, reader.eof
  errBuf, errEof,  \* the same of err_reader
  pc,        \* where the main thread is
  seen,      \* its copy of the console text, between reading and testing
  mark,      \* the part of the text before the program's output
  booted,    \* _drive_headless has seen a ready marker
  bootLate, late,  \* the deadline for booting, of the present wait, has passed
  outcome,   \* what _drive_headless or _drive_shell has returned
  raised     \* an exception is on its way out

reading == <<buf, eof, errBuf, errEof>>
host    == <<pc, seen, mark, booted, outcome, raised>>
process == <<profile, qemu, printed, finished>>
sessionVars ==
  <<profile, qemu, pipe, errPipe, printed, finished, buf, eof, errBuf, errEof, pc, seen, mark,
    booted, bootLate, late, outcome, raised>>

Interactive == profile.interactive
Preload == profile.preload
Known(m) == m \in profile.markers

Has(txt, m) == \E i \in DOMAIN txt : txt[i] = m
From(txt, n) == SubSeq(txt, n + 1, Len(txt))
Ended == pc \in {"returned", "raised"}

SessionInit ==
  /\ profile \in Profiles
  /\ qemu = "running" /\ pipe = << >> /\ printed = << >> /\ finished = FALSE
  /\ errPipe = <<"mounted">>
  /\ buf = << >> /\ eof = FALSE /\ errBuf = << >> /\ errEof = FALSE
  /\ pc = IF Interactive THEN "start" ELSE "headless"
  /\ seen = << >> /\ mark = 0 /\ booted = FALSE
  /\ bootLate = FALSE /\ late = FALSE
  /\ outcome = "unknown" /\ raised = FALSE

---------------------------------------------------------------------------
(* QEMU, its plugin and the guest; what is in a pipe survives the process.  *)

GuestPrints(m) ==
  /\ qemu = "running" /\ Len(pipe) < PipeRoom /\ Len(printed) < MaxPrinted
  /\ pipe' = Append(pipe, m) /\ printed' = Append(printed, m)
  /\ UNCHANGED <<profile, qemu, finished, errPipe, reading, host, bootLate, late>>

PowerOff ==
  /\ qemu = "running" /\ qemu' = "closing"
  /\ UNCHANGED <<profile, pipe, errPipe, printed, finished, reading, host, bootLate, late>>

\* nf_finish writes END, closes the file and prints its closing line.
PluginEnds ==
  /\ qemu = "closing" /\ ~finished /\ Len(errPipe) < PipeRoom
  /\ finished' = TRUE /\ errPipe' = Append(errPipe, "finished")
  /\ UNCHANGED <<profile, qemu, pipe, printed, reading, host, bootLate, late>>

QemuExits ==
  /\ qemu = "closing" /\ finished
  /\ qemu' = "gone"
  /\ UNCHANGED <<profile, pipe, errPipe, printed, finished, reading, host, bootLate, late>>

\* QEMU dies of a signal, or hangs (nf_die exits with nf.lock held).
QemuFails ==
  /\ qemu \in {"running", "closing"}
  /\ qemu' \in {"gone", "hung"}
  /\ UNCHANGED <<profile, pipe, errPipe, printed, finished, reading, host, bootLate, late>>

---------------------------------------------------------------------------
(* _ConsoleReader.run for both streams.                                     *)

Read ==
  /\ ~eof
  /\ IF pipe # << >>
     THEN /\ buf' = Append(buf, Head(pipe)) /\ pipe' = Tail(pipe) /\ UNCHANGED eof
     ELSE /\ qemu = "gone" /\ eof' = TRUE /\ UNCHANGED <<buf, pipe>>
  /\ UNCHANGED <<process, errPipe, errBuf, errEof, host, bootLate, late>>

ReadErr ==
  /\ ~errEof
  /\ IF errPipe # << >>
     THEN /\ errBuf' = Append(errBuf, Head(errPipe)) /\ errPipe' = Tail(errPipe)
          /\ UNCHANGED errEof
     ELSE /\ qemu = "gone" /\ errEof' = TRUE /\ UNCHANGED <<errBuf, errPipe>>
  /\ UNCHANGED <<process, pipe, buf, eof, host, bootLate, late>>

---------------------------------------------------------------------------
(* The main thread.  Deadlines pass by themselves; each wait sets its own.  *)

BootTimePasses ==
  /\ ~bootLate /\ bootLate' = TRUE
  /\ UNCHANGED <<process, pipe, errPipe, reading, host, late>>

TimePasses ==
  /\ ~late /\ late' = TRUE
  /\ UNCHANGED <<process, pipe, errPipe, reading, host, bootLate>>

StepTo(p) == pc' = p
NewDeadline == late' = FALSE
QemuGone == qemu = "gone"

\* The guest side is left alone by a step of the main thread.
Alone == UNCHANGED <<process, pipe, errPipe, reading, bootLate>>

\* The watching functions return o, or raise.
Return(o) ==
  /\ outcome' = o /\ StepTo("cleanup") /\ NewDeadline
  /\ UNCHANGED raised
Raise == raised' = TRUE /\ StepTo("cleanup") /\ NewDeadline /\ UNCHANGED outcome

\* The verdict of a headless profile on a finished console.
Classify(txt) ==
  IF Has(txt, "done") THEN "completed" ELSE IF Has(txt, "panic") THEN "panic"
  ELSE "qemu_exited"

\* One round of _drive_headless.
Headless ==
  /\ pc = "headless"
  /\ LET up == booted \/ ~Known("ready") \/ Has(buf, "ready")
     IN \/ late /\ Return("timeout") /\ UNCHANGED <<seen, mark, booted>>
        \/ /\ ~late /\ (eof \/ QemuGone)
           /\ StepTo("classify") /\ UNCHANGED <<seen, mark, booted, late, outcome, raised>>
        \/ /\ ~late /\ ~eof /\ ~QemuGone
           /\ booted' = up
           /\ UNCHANGED <<seen, mark>>
           /\ IF ~up /\ bootLate THEN Return("boot_failed")
              ELSE IF Has(buf, "done")
                THEN StepTo("linger") /\ NewDeadline /\ UNCHANGED <<outcome, raised>>
              ELSE IF Has(buf, "panic") THEN Return("panic")
              ELSE UNCHANGED <<pc, late, outcome, raised>>
  /\ Alone

\* QEMU was seen to have ended; the text is read only now.
ClassifyConsole ==
  /\ pc = "classify"
  /\ Return(Classify(buf))
  /\ UNCHANGED <<seen, mark, booted>> /\ Alone

\* After a done marker QEMU has a while to end by itself.
Linger ==
  /\ pc = "linger" /\ (late \/ eof \/ QemuGone)
  /\ Return("completed")
  /\ UNCHANGED <<seen, mark, booted>> /\ Alone

\* Writing to the console of a QEMU that has ended raises.
SendText(next) ==
  IF QemuGone THEN Raise ELSE StepTo(next) /\ NewDeadline /\ UNCHANGED <<outcome, raised>>

\* _drive_shell: a command that is sent ahead, then the wait for the prompt.
StartShell ==
  /\ pc = "start"
  /\ IF Preload THEN SendText("boot")
     ELSE StepTo("boot") /\ NewDeadline /\ UNCHANGED <<outcome, raised>>
  /\ UNCHANGED <<seen, mark, booted>> /\ Alone

\* wait_any: the text is read first, then eof and the deadline are tested.
Look(wait, test) ==
  /\ pc = wait /\ StepTo(test) /\ seen' = buf
  /\ UNCHANGED <<mark, booted, late, outcome, raised>> /\ Alone

TestBoot ==
  /\ pc = "bootTest"
  /\ \/ Has(seen, "prompt") /\ StepTo("command") /\ UNCHANGED <<late, outcome, raised>>
     \/ ~Has(seen, "prompt") /\ Has(seen, "panic") /\ Return("panic")
     \/ /\ ~Has(seen, "prompt") /\ ~Has(seen, "panic")
        /\ IF eof \/ bootLate THEN Return("boot_failed")
           ELSE StepTo("boot") /\ UNCHANGED <<late, outcome, raised>>
  /\ seen' = << >>
  /\ UNCHANGED <<mark, booted>> /\ Alone

\* The first prompt starts the output of a preloaded program.
Command ==
  /\ pc = "command"
  /\ IF Preload
     THEN /\ \E i \in DOMAIN buf : /\ buf[i] = "prompt" /\ ~Has(SubSeq(buf, 1, i - 1), "prompt")
                                 /\ mark' = i
          /\ StepTo(IF Known("ask") THEN "ask" ELSE "shell") /\ NewDeadline
          /\ UNCHANGED <<outcome, raised>>
     ELSE SendText("sent") /\ UNCHANGED mark
  /\ UNCHANGED <<seen, booted>> /\ Alone

\* mark = len(reader.text()), after the command has been sent.
SetMark ==
  /\ pc = "sent"
  /\ mark' = Len(buf)
  /\ StepTo(IF Known("ask") THEN "ask" ELSE "shell") /\ NewDeadline
  /\ UNCHANGED <<seen, booted, outcome, raised>> /\ Alone

TestAsk ==
  /\ pc = "askTest"
  /\ \/ Has(seen, "ask") /\ SendText("shell")
     \/ /\ ~Has(seen, "ask")
        /\ IF eof \/ late THEN Raise ELSE StepTo("ask") /\ UNCHANGED <<late, outcome, raised>>
  /\ seen' = << >>
  /\ UNCHANGED <<mark, booted>> /\ Alone

\* A mutant of Verdict that forgets the mark.
VerdictOfWholeText(txt, m) ==
  IF Has(txt, "exit") \/ Has(txt, "done") THEN "completed"
  ELSE IF Has(txt, "panic") THEN "panic"
  ELSE IF Has(txt, "prompt") THEN "completed"
  ELSE IF Has(txt, "halt") THEN "guest_halted"
  ELSE "none"

\* _verdict
Verdict(txt, m) ==
  IF Has(From(txt, m), "exit") \/ Has(txt, "done") THEN "completed"
  ELSE IF Has(txt, "panic") THEN "panic"
  ELSE IF Has(From(txt, m), "prompt") THEN "completed"
  ELSE IF Has(txt, "halt") THEN "guest_halted"
  ELSE "none"

\* One round of the loop of _drive_shell, up to the test of the text.
Shell ==
  /\ pc = "shell"
  /\ LET v == Verdict(buf, mark)
     IN IF late THEN Return("timeout")
        ELSE IF v = "none" THEN StepTo("alive") /\ UNCHANGED <<late, outcome, raised>>
        ELSE IF v = "guest_halted" THEN StepTo("halted") /\ UNCHANGED <<late, outcome, raised>>
        ELSE Return(v)
  /\ UNCHANGED <<seen, mark, booted>> /\ Alone

\* A halted program may still give its exit code a moment later.
Halted ==
  /\ pc = "halted"
  /\ Return(Verdict(buf, mark))
  /\ UNCHANGED <<seen, mark, booted>> /\ Alone

\* ... and the test whether QEMU is still there, after that of the text.
Alive ==
  /\ pc = "alive"
  /\ IF eof \/ QemuGone THEN Return("qemu_exited")
     ELSE StepTo("shell") /\ UNCHANGED <<late, outcome, raised>>
  /\ UNCHANGED <<seen, mark, booted>> /\ Alone

\* Ctrl-C in the watching functions.
Interrupted ==
  /\ ~Ended /\ pc \notin {"cleanup", "waitQemu", "join"}
  /\ Raise
  /\ UNCHANGED <<seen, mark, booted>> /\ Alone

---------------------------------------------------------------------------
(* The cleanup of _drive.                                                   *)

\* poll(), then QMP quit; where that fails, SIGTERM.  A QEMU that hangs answers
\* neither, and the signal is forgotten.
Cleanup ==
  /\ pc = "cleanup"
  /\ StepTo(IF QemuGone THEN "join" ELSE "waitQemu") /\ NewDeadline
  /\ qemu' \in IF qemu = "running" THEN {"running", "closing"} ELSE {qemu}
  /\ UNCHANGED <<profile, seen, mark, booted, outcome, raised, pipe, errPipe, printed, finished,
                 reading, bootLate>>

\* A mutant of WaitQemu that gives up instead of killing.
NoKill ==
  /\ pc = "waitQemu" /\ (QemuGone \/ late)
  /\ StepTo("join") /\ NewDeadline
  /\ UNCHANGED <<profile, qemu, seen, mark, booted, outcome, raised, pipe, errPipe, printed,
                 finished, reading, bootLate>>

\* wait(timeout=20), then SIGKILL and a wait that nothing can withstand.
WaitQemu ==
  /\ pc = "waitQemu" /\ (QemuGone \/ late)
  /\ StepTo("join") /\ NewDeadline
  /\ qemu' = "gone"
  /\ UNCHANGED <<profile, seen, mark, booted, outcome, raised, pipe, errPipe, printed, finished,
                 reading, bootLate>>

\* A mutant of Join without the time limit.
JoinForever ==
  /\ pc = "join" /\ eof /\ errEof
  /\ StepTo(IF raised THEN "raised" ELSE "returned")
  /\ UNCHANGED <<seen, mark, booted, outcome, raised, late>> /\ Alone

\* join(timeout=5) of both readers.
Join ==
  /\ pc = "join" /\ (late \/ (eof /\ errEof))
  /\ StepTo(IF raised THEN "raised" ELSE "returned")
  /\ UNCHANGED <<seen, mark, booted, outcome, raised, late>> /\ Alone

Watching == Headless \/ ClassifyConsole \/ Linger \/ StartShell \/ TestBoot \/ Command
            \/ SetMark \/ TestAsk \/ Shell \/ Halted \/ Alive
            \/ Look("boot", "bootTest") \/ Look("ask", "askTest")

Main == Watching \/ Cleanup \/ WaitQemu \/ Join

SessionNext ==
  \/ \E m \in profile.markers : GuestPrints(m)
  \/ PowerOff \/ PluginEnds \/ QemuExits \/ QemuFails
  \/ Read \/ ReadErr \/ BootTimePasses \/ TimePasses
  \/ Main \/ Interrupted

SessionSpec == SessionInit /\ [][SessionNext]_sessionVars

\* The recorder's main thread runs and time passes.  Nothing is asked of QEMU,
\* of the guest, or of the reader threads, which may hang in read().
FairSpec ==
  /\ SessionSpec
  /\ WF_sessionVars(Main) /\ WF_sessionVars(TimePasses) /\ WF_sessionVars(BootTimePasses)

---------------------------------------------------------------------------
(* Properties.                                                              *)

\* Every variable stays in its range, and no marker is lost or reordered
\* between the guest and the reader.
SessionTypeOK ==
  /\ profile \in Profiles /\ qemu \in {"running", "closing", "hung", "gone"}
  /\ {buf, pipe} \subseteq Seq(profile.markers) /\ printed = buf \o pipe
  /\ {errBuf, errPipe} \subseteq Seq({"mounted", "finished"})
  /\ mark \in 0..Len(buf)
  /\ {finished, eof, errEof, booted, bootLate, late, raised} \subseteq BOOLEAN
  /\ outcome \in {"unknown", "completed", "panic", "guest_halted", "boot_failed",
                  "timeout", "qemu_exited"}

\* However _drive ends, it leaves no QEMU behind that goes on writing the
\* trace, the disk images or the log files.
NoQemuLeft == Ended => qemu = "gone"

\* An outcome that names something the guest did is borne out by the console
\* that is saved with it; a completion in a shell by text after the mark.
OutcomeHasEvidence ==
  Ended =>
    /\ outcome = "completed" => \/ Has(buf, "done")
                                \/ \E m \in {"exit", "prompt"} : Has(From(buf, mark), m)
    /\ outcome = "panic" => Has(buf, "panic")
    /\ outcome = "guest_halted" => Has(buf, "halt")
    /\ outcome = "unknown" => raised

\* A mutant of TraceComplete that looks for the first line of the plugin.
TraceStarted == Has(errBuf, "mounted")

\* _trace_incomplete
TraceComplete == Has(errBuf, "finished")

\* trace_complete is claimed only for a file that nf_finish has closed, and it
\* is claimed for every such file whose stderr was read to the end.
TraceCompleteIsTrue ==
  Ended => /\ TraceComplete => finished
           /\ finished /\ errEof => TraceComplete

\* _drive always comes back, whatever the guest, QEMU and the readers do.
SessionEnds == <>Ended

\* test_shell_verdict.py: the same console always gives the same answer.  A run
\* that is reported as an unexplained exit of QEMU has nothing on its console
\* that is known as an end.
ExitIsUnexplained ==
  Ended /\ outcome = "qemu_exited" =>
    IF Interactive THEN Verdict(buf, mark) = "none" ELSE Classify(buf) = "qemu_exited"
=============================================================================
