--------------------------- MODULE LoopbackCapture ---------------------------
(***************************************************************************)
(* LoopbackCapture (src/src/snowlink/media/loopback_capture.py): a         *)
(* PortAudio stream whose callback, on PortAudio's thread, writes each     *)
(* chunk of the system's sound into the ring, while its owner opens,       *)
(* starts, stops and closes it from another thread.                        *)
(***************************************************************************)
EXTENDS AudioRing

CONSTANT Chunk  \* frames_per_buffer: the frames of one callback

ASSUME ChunkAssumption == Chunk \in Nat \ {0} /\ 2 * Chunk <= Capacity /\ Chunk <= MaxWritten

VARIABLES
  device,       \* _stream: none, open, active (callbacks run), complete, stopped
  captureStop,  \* _stopped
  callback,     \* idle, or in: past the test of _stopped
  fatal         \* fatal_error is set

capture == <<device, captureStop, callback, fatal>>

CaptureTypeOK ==
  /\ device \in {"none", "open", "active", "complete", "stopped"}
  /\ callback \in {"idle", "in"}
  /\ {captureStop, fatal} \subseteq BOOLEAN

CaptureInit == device = "none" /\ callback = "idle" /\ captureStop = FALSE /\ fatal = FALSE

\* open(): one of two sample formats is taken.
OpenStream == device = "none" /\ device' = "open" /\ UNCHANGED <<captureStop, callback, fatal>>

\* start()
StartStream ==
  /\ device = "open" /\ device' = "active" /\ captureStop' = FALSE
  /\ UNCHANGED <<callback, fatal>>

\* PortAudio calls back with the next chunk.
CallbackEnters ==
  /\ device = "active" /\ callback = "idle"
  /\ captureStop \/ written + Chunk <= MaxWritten
  /\ IF captureStop THEN device' = "complete" /\ UNCHANGED callback
                    ELSE callback' = "in" /\ UNCHANGED device
  /\ UNCHANGED <<captureStop, fatal, ring>>

\* The chunk, converted to the channels of the ring, is written.
CallbackWrites ==
  /\ callback = "in"
  /\ IF ringClosed THEN UNCHANGED ring ELSE Write(Chunk)
  /\ callback' = "idle" /\ UNCHANGED <<device, captureStop, fatal>>

\* The device was lost, or its data cannot be converted.
CallbackFails ==
  /\ callback = "in"
  /\ fatal' = TRUE /\ captureStop' = TRUE
  /\ callback' = "idle" /\ device' = "complete"
  /\ UNCHANGED ring

\* stop(), first line.
RaiseStop == captureStop' = TRUE /\ UNCHANGED <<device, callback, fatal>>

\* stop_stream() waits for the callback that runs.
StopStream ==
  /\ device = "active" => callback = "idle"
  /\ device' = IF device = "active" THEN "stopped" ELSE device
  /\ UNCHANGED <<captureStop, callback, fatal>>

CloseStream == device' = "none" /\ UNCHANGED <<captureStop, callback, fatal>>

\* PortAudio's thread.
Callback == CallbackEnters \/ CallbackWrites
=============================================================================
