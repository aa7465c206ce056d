---------------------------- MODULE AudioPipeline ----------------------------
(***************************************************************************)
(* Experiment D (src/src/snowlink/media/audio_pipeline.py and              *)
(* audio_playback.py): run_audio_pipeline starts a loopback capture, a     *)
(* worker that converts what the ring holds and writes it to an            *)
(* AudioPlayer, waits for the end of the run, and shuts them down.  It may *)
(* only monitor: then there is no player.                                  *)
(***************************************************************************)
EXTENDS LoopbackCapture

VARIABLES
  playback,    \* enable_playback
  run,         \* run_audio_pipeline: the next call of start(), of its loop, of shutdown()
  pipePa,      \* _pa: none, open, terminated
  player,      \* AudioPlayer._stream: none, open, active, stopped
  converter,   \* _process_loop: none, test, read, write, done
  stopPipe,    \* _stop
  pipeErrors,  \* errors is not empty
  outcome      \* none, success, failure

pipe == <<playback, run, pipePa, player, converter, stopPipe, pipeErrors, outcome>>
pipeVars == <<ring, capture, pipe>>

PipeTypeOK ==
  /\ playback \in BOOLEAN /\ stopPipe \in BOOLEAN /\ pipeErrors \in BOOLEAN
  /\ run \in {"new", "open", "start", "player", "worker", "on", "stop", "stopCapture", "stopPlayer",
              "close", "closePlayer", "join", "terminate", "result", "over"}
  /\ pipePa \in {"none", "open", "terminated"}
  /\ player \in {"none", "open", "active", "stopped"}
  /\ converter \in {"none", "test", "read", "write", "done"}
  /\ outcome \in {"none", "success", "failure"}

PipeInit ==
  /\ RingInit /\ CaptureInit
  /\ playback \in BOOLEAN /\ run = "new" /\ pipePa = "none" /\ player = "none"
  /\ converter = "none" /\ stopPipe = FALSE /\ pipeErrors = FALSE /\ outcome = "none"

-----------------------------------------------------------------------------
(* run_audio_pipeline: start().                                            *)

RunGoes(from, to) == run = from /\ run' = to /\ UNCHANGED <<playback, outcome>>
NoSound == UNCHANGED <<ring, capture>>

\* PyAudio(), the endpoints, the ring and the converter.
PipeOpens ==
  /\ RunGoes("new", "open") /\ pipePa' = "open"
  /\ UNCHANGED <<player, converter, stopPipe, pipeErrors>> /\ NoSound
PipeCaptures ==
  /\ \/ RunGoes("open", "start") /\ OpenStream
     \/ RunGoes("start", IF playback THEN "player" ELSE "worker") /\ StartStream
  /\ UNCHANGED <<pipePa, player, converter, stopPipe, pipeErrors, ring>>
PipePlays ==
  /\ \/ player = "none" /\ player' = "open" /\ RunGoes("player", "player")
     \/ player = "open" /\ player' = "active" /\ RunGoes("player", "worker")
  /\ UNCHANGED <<pipePa, converter, stopPipe, pipeErrors>> /\ NoSound
PipeWorks ==
  /\ RunGoes("worker", "on") /\ converter' = "test"
  /\ UNCHANGED <<pipePa, player, stopPipe, pipeErrors>> /\ NoSound
\* No PyAudio, no such device, or one that cannot be opened or started: the error is recorded and
\* shutdown() takes down what there is.
PipeStartFails ==
  /\ run \in {"new", "open", "start", "player"} /\ RunGoes(run, "stop") /\ pipeErrors' = TRUE
  /\ UNCHANGED <<pipePa, player, converter, stopPipe>> /\ NoSound

\* The loop finds the stop, an error, or the end of the time; or Ctrl+C ends it.
PipeOver ==
  /\ RunGoes("on", "stop")
  /\ UNCHANGED <<pipePa, player, converter, stopPipe, pipeErrors>> /\ NoSound

-----------------------------------------------------------------------------
(* shutdown(): the stop, the streams stopped and closed, the ring closed,  *)
(* and only then the worker joined, for five seconds.                      *)

PipeRaisesStop ==
  /\ RunGoes("stop", "stopCapture") /\ stopPipe' = TRUE /\ RaiseStop
  /\ UNCHANGED <<pipePa, player, converter, pipeErrors, ring>>
PipeStops ==
  /\ \/ RunGoes("stopCapture", "stopPlayer") /\ StopStream /\ UNCHANGED player
     \/ /\ RunGoes("stopPlayer", "close") /\ UNCHANGED capture
        /\ player' = IF player = "active" THEN "stopped" ELSE player
  /\ UNCHANGED <<pipePa, converter, stopPipe, pipeErrors, ring>>
PipeCloses ==
  /\ \/ RunGoes("close", "closePlayer") /\ CloseStream /\ UNCHANGED <<player, ring>>
     \/ RunGoes("closePlayer", "join") /\ player' = "none" /\ Close /\ UNCHANGED capture
  /\ UNCHANGED <<pipePa, converter, stopPipe, pipeErrors>>

\* A write or a read of the worker ends within the five seconds.
PipeJoins ==
  /\ converter \in {"none", "done"} /\ RunGoes("join", "terminate")
  /\ UNCHANGED <<pipePa, player, converter, stopPipe, pipeErrors>> /\ NoSound
PipeTerminates ==
  /\ RunGoes("terminate", "result") /\ pipePa' = (IF pipePa = "open" THEN "terminated" ELSE pipePa)
  /\ UNCHANGED <<player, converter, stopPipe, pipeErrors>> /\ NoSound
\* build_result()
PipeResult ==
  /\ run = "result" /\ run' = "over" /\ outcome' = IF pipeErrors THEN "failure" ELSE "success"
  /\ UNCHANGED <<playback, pipePa, player, converter, stopPipe, pipeErrors>> /\ NoSound

-----------------------------------------------------------------------------
(* _process_loop, and the callback's failure.                              *)

WorkerAt(from, to) ==
  /\ converter = from /\ converter' = to
  /\ UNCHANGED <<playback, run, pipePa, player, outcome, capture>>
\* The stop, or the error of the capture, which its callback has already reported.
LoopTests ==
  /\ WorkerAt("test", IF stopPipe \/ fatal THEN "done" ELSE "read")
  /\ pipeErrors' = (pipeErrors \/ (~stopPipe /\ fatal)) /\ UNCHANGED <<stopPipe, ring>>
\* read_exact() with its timeout; then silence for a read that is short, or the frames of
\* the converter, if it has one.
LoopReads ==
  /\ Read(Chunk) /\ UNCHANGED <<stopPipe, pipeErrors>>
  /\ \/ playback /\ WorkerAt("read", "write")
     \/ (~playback \/ Got(Chunk) = Chunk) /\ WorkerAt("read", "test")
ConversionFails ==
  /\ WorkerAt("read", "done") /\ Read(Chunk) /\ Got(Chunk) = Chunk
  /\ pipeErrors' = TRUE /\ UNCHANGED stopPipe
LoopWrites ==
  /\ player = "active" /\ WorkerAt("write", "test") /\ UNCHANGED <<stopPipe, pipeErrors, ring>>
\* The device is gone - or shutdown() has stopped or closed the stream.
WriteFails ==
  /\ WorkerAt("write", "test") /\ pipeErrors' = TRUE /\ stopPipe' = TRUE /\ UNCHANGED ring

ConverterLoop == LoopTests \/ LoopReads \/ ConversionFails \/ LoopWrites \/ WriteFails

\* Mutation: the callback's failure stops the run and is not recorded.
CaptureLostSilently ==
  /\ CallbackFails /\ stopPipe' = TRUE
  /\ UNCHANGED <<playback, run, pipePa, player, converter, pipeErrors, outcome>>

\* _on_capture_error, called by the callback.
CaptureLost ==
  /\ CallbackFails /\ pipeErrors' = TRUE /\ stopPipe' = TRUE
  /\ UNCHANGED <<playback, run, pipePa, player, converter, outcome>>
Captured == Callback /\ UNCHANGED pipe

PipeSeesError == (stopPipe \/ pipeErrors) /\ PipeOver

PipeRun ==
  \/ PipeOpens \/ PipeCaptures \/ PipePlays \/ PipeWorks \/ PipeStartFails \/ PipeStops
  \/ PipeRaisesStop \/ PipeCloses \/ PipeJoins \/ PipeTerminates \/ PipeResult
  \/ PipeSeesError
PipeNext == PipeRun \/ PipeOver \/ ConverterLoop \/ CaptureLost \/ Captured

-----------------------------------------------------------------------------
\* When the result is made, the device and the worker are at rest and PortAudio was
\* terminated, and a capture that was lost at any instant - while shutdown() waits for the
\* callback in which it happens, too - makes the run a failure.
PipelineReported ==
  run = "over" => /\ device = "none" /\ callback = "idle" /\ player = "none"
                  /\ pipePa # "open" /\ converter \in {"none", "done"}
                  /\ fatal => outcome = "failure"
=============================================================================
