----------------------------- MODULE Experiments -----------------------------
(***************************************************************************)
(* Programs and parts that run on their own, side by side: each behaviour  *)
(* is one of one of them.  The TCP checks of Experiments A and B, the      *)
(* screen capture of C and of a share, the audio pipeline of D and the     *)
(* sound of a share, which capture through the same LoopbackCapture, the   *)
(* WebRTC sender and receivers of E and F, the connectivity checklist, and *)
(* the parts of the desktop program around its sessions.                   *)
(***************************************************************************)
EXTENDS ExperimentLink, ScreenCapture, LoopbackAudio, AudioPipeline, TcpEcho, Checklist, Desktop

VARIABLE program

ownVars == <<share, pa, track>>  \* of LoopbackAudio, without the ring and the capture
soundVars == <<ring, capture, ownVars, pipe>>
programVars == <<program, linkVars, captureVars, soundVars, echoVars, checkVars, deskVars>>

Is(p) == program = p

\* What a program that does not run chooses at its start is fixed.
ProgramInit ==
  /\ program \in {"link", "capture", "sound", "pipeline", "echo", "checklist", "desktop"}
  /\ LinkInit /\ ScreenInit /\ (~Is("capture") => user = "track")
  /\ Init /\ PipeInit /\ (~Is("pipeline") => playback)
  /\ EchoInit /\ ChecklistInit /\ (~Is("checklist") => local /\ live = "none")
  /\ DeskInit /\ (~Is("desktop") => part = "shell")

ProgramNext ==
  \/ Is("link") /\ LinkNext
     /\ UNCHANGED <<program, captureVars, soundVars, echoVars, checkVars, deskVars>>
  \/ Is("capture") /\ ScreenNext
     /\ UNCHANGED <<program, linkVars, soundVars, echoVars, checkVars, deskVars>>
  \/ Is("sound") /\ Next
     /\ UNCHANGED <<program, linkVars, captureVars, pipe, echoVars, checkVars, deskVars>>
  \/ Is("pipeline") /\ PipeNext
     /\ UNCHANGED <<program, linkVars, captureVars, ownVars, echoVars, checkVars, deskVars>>
  \/ Is("echo") /\ EchoNext
     /\ UNCHANGED <<program, linkVars, captureVars, soundVars, checkVars, deskVars>>
  \/ Is("checklist") /\ ChecklistNext
     /\ UNCHANGED <<program, linkVars, captureVars, soundVars, echoVars, deskVars>>
  \/ Is("desktop") /\ DeskNext
     /\ UNCHANGED <<program, linkVars, captureVars, soundVars, echoVars, checkVars>>

\* The threads of the capture and of its session run.  What the user, the network or the
\* clock may do at any time need not happen.
ProgramSpec ==
  /\ ProgramInit /\ [][ProgramNext]_programVars
  /\ WF_captureVars(Is("capture") /\ CaptureWorker) /\ WF_captureVars(Is("capture") /\ Taker)
  /\ WF_captureVars(Is("capture") /\ SessionOwner)

-----------------------------------------------------------------------------
\* What a program tells its user or caller is what happened: the pipeline of D, the two
\* ends of an echo, and the checklist leaves the port it has tried to the share.
ReportsTrue == PipelineReported /\ EchoAgrees /\ PortReturned

\* A track accounts for all its time: no picture's interval and no sample is counted twice
\* or lost uncounted, and time stamps go on without a gap.
TracksExact == Scheduled /\ Accounted /\ PtsContinue
=============================================================================
