---------------------------- MODULE LoopbackAudio ----------------------------
(***************************************************************************)
(* The sound of a share (src/src/snowlink/media/audio_track.py):           *)
(* ShareAudioCapture owns the loopback stream and its ring, and            *)
(* LoopbackAudioTrack, asked by the RTP sender for a frame at a time, pulls *)
(* chunks out of the ring, through the AudioFormatConverter, on a thread   *)
(* of its own, and sends silence where there is nothing to pull.           *)
(***************************************************************************)
EXTENDS LoopbackCapture

CONSTANTS PtsCycle,  \* bound: time stamps are counted in frames, modulo this
          FrameSize  \* frame_samples: samples of an encoded frame

ASSUME FrameAssumption == PtsCycle \in Nat \ {0, 1} /\ FrameSize \in Nat \ {0}
\* The ring of a share holds 160 ms, a chunk 20 ms: eight chunks, at every rate of which
\* 20 ms are a whole number of frames.
ASSUME WholeChunks == \E chunks \in 0..Capacity : Capacity = chunks * Chunk

VARIABLES
  share,     \* ShareAudioCapture, from start() to the end of shutdown()
  pa,        \* _pa: none, open, terminated
  stopTrack, \* LoopbackAudioTrack._stopped
  pull,      \* the sender: rest, drain, wait (_pull_one_frame), give, ended
  held,      \* the converter's samples that fill no frame yet
  frames,    \* _pending_frames
  given,     \* the frame _pull_one_frame returns
  clock,     \* the converter's pts_clock, in frames
  lastPts,   \* the time stamp of the last frame sent, in frames
  sent       \* history: samples sent

track == <<stopTrack, pull, held, frames, given, clock, lastPts, sent>>
vars == <<ring, capture, share, pa, track>>

Silence == <<>>
Shares == {"new", "opening", "starting", "serving", "stopping", "closing", "down", "failed"}

TypeOK ==
  /\ RingTypeOK /\ CaptureTypeOK
  /\ share \in Shares /\ pa \in {"none", "open", "terminated"}
  /\ stopTrack \in BOOLEAN /\ pull \in {"rest", "drain", "wait", "give", "ended"}
  /\ held \in Seq(Nat) /\ clock \in 0..(PtsCycle - 1) /\ lastPts \in 0..(PtsCycle - 1)
  /\ sent \in Nat

Init ==
  /\ RingInit /\ CaptureInit
  /\ share = "new" /\ pa = "none" /\ stopTrack = FALSE /\ pull = "rest"
  /\ held = <<>> /\ frames = <<>> /\ given = [samples |-> Silence, pts |-> 0]
  /\ clock = 0 /\ lastPts = PtsCycle - 1
  /\ sent = 0

-----------------------------------------------------------------------------
(* ShareAudioCapture, on the thread of the session.                        *)

Goes(from, to) == share = from /\ share' = to

\* start(): PyAudio(), then the stream is opened, and started.
Opens  == Goes("new", "opening") /\ pa' = "open" /\ UNCHANGED <<capture, ring, track>>
Opened == Goes("opening", "starting") /\ OpenStream /\ UNCHANGED <<pa, ring, track>>
Starts == Goes("starting", "serving") /\ StartStream /\ UNCHANGED <<pa, ring, track>>

\* No device, or it cannot be opened or started: nobody releases what is open.
StartFails ==
  /\ share \in {"opening", "starting"} /\ share' = "failed"
  /\ UNCHANGED <<capture, pa, ring, track>>

\* shutdown(): capture.stop(), ...
Shutdown == Goes("serving", "stopping") /\ RaiseStop /\ UNCHANGED <<pa, ring, track>>
Stops == Goes("stopping", "closing") /\ StopStream /\ UNCHANGED <<pa, ring, track>>

\* ... capture.close(), ring.close(), terminate()
ShutsDown ==
  /\ Goes("closing", "down")
  /\ CloseStream /\ Close /\ pa' = "terminated"
  /\ UNCHANGED track

-----------------------------------------------------------------------------
(* LoopbackAudioTrack, asked by the RTP sender.                            *)

\* stop(), by the closing of the peer connection.
StopTrack ==
  /\ stopTrack' = TRUE
  /\ UNCHANGED <<ring, capture, share, pa, pull, held, frames, given, clock, lastPts, sent>>

\* recv(): the tests before and after the wait for the frame's turn are one,
\* because nothing is done between them.
Recv ==
  /\ pull = "rest" /\ share \notin {"new", "opening", "starting", "failed"}
  /\ IF stopTrack \/ ringClosed
     THEN pull' = "ended" /\ UNCHANGED <<frames, given>>
     ELSE IF frames = <<>>
          THEN pull' = "drain" /\ UNCHANGED <<frames, given>>
          ELSE pull' = "give" /\ given' = Head(frames) /\ frames' = Tail(frames)
  /\ UNCHANGED <<ring, capture, share, pa, stopTrack, held, clock, lastPts, sent>>

\* The frames and the rest of samples, of which some are kept back.
Full(samples, kept) == (Len(samples) - kept) \div FrameSize
Packed(samples, n) ==
  [k \in 1..n |-> [samples |-> SubSeq(samples, (k - 1) * FrameSize + 1, k * FrameSize),
                   pts |-> (clock + k - 1) % PtsCycle]]

\* converter.push(): the complete frames get the next time stamps, and the first
\* is returned.  The resampler may keep a sample back for the next chunk.
Push(samples, otherwise) ==
  \E kept \in {0, 1} :
    LET n == Full(samples, kept)
    IN /\ held' = SubSeq(samples, n * FrameSize + 1, Len(samples))
       /\ IF n = 0
          THEN otherwise /\ UNCHANGED frames
          ELSE /\ pull' = "give" /\ clock' = (clock + n) % PtsCycle
               /\ given' = Head(Packed(samples, n)) /\ frames' = Tail(Packed(samples, n))

\* make_silence_frame()
GiveSilence ==
  /\ pull' = "give" /\ given' = [samples |-> Silence, pts |-> clock]
  /\ clock' = (clock + 1) % PtsCycle

\* The loop of _pull_one_frame: read_exact() without a timeout, until there is
\* a frame or too little sound.  The sound of a read that is short is not used.
Drain ==
  /\ pull = "drain" /\ Read(Chunk)
  /\ IF fill >= Chunk THEN Push(held \o out', UNCHANGED <<pull, given, clock>>)
                      ELSE pull' = "wait" /\ UNCHANGED <<held, frames, given, clock>>
  /\ UNCHANGED <<capture, share, pa, stopTrack, lastPts, sent>>

\* read_exact() with five milliseconds of timeout.
Wait ==
  /\ pull = "wait" /\ Read(Chunk)
  /\ IF fill >= Chunk THEN Push(held \o out', GiveSilence)
                      ELSE GiveSilence /\ UNCHANGED <<held, frames>>
  /\ UNCHANGED <<capture, share, pa, stopTrack, lastPts, sent>>

\* The rest of recv().  It would push on a time stamp that does not go forward:
\* PtsContinue says that none does.
Give ==
  /\ pull = "give" /\ pull' = "rest"
  /\ lastPts' = given.pts
  /\ sent' = sent + Len(given.samples)
  /\ UNCHANGED <<ring, capture, share, pa, stopTrack, held, frames, given, clock>>

-----------------------------------------------------------------------------
Owner == Opens \/ Opened \/ Starts \/ StartFails \/ Shutdown \/ Stops \/ ShutsDown
Sender == Recv \/ Drain \/ Wait \/ Give
PortAudio == (Callback \/ CallbackFails) /\ UNCHANGED <<share, pa, track>>

Next == Owner \/ StopTrack \/ Sender \/ PortAudio

Spec == Init /\ [][Next]_vars

-----------------------------------------------------------------------------
\* Every captured sample was sent, was dropped because the ring was full, or
\* waits: in the ring, in the converter, or in a frame.  The short reads whose
\* sound is thrown away do not happen, because the ring holds whole chunks
\* (the capacity is a multiple of the callback's frames).
Accounted ==
  LET packed == Len(frames) * FrameSize + IF pull = "give" THEN Len(given.samples) ELSE 0
  IN share # "new" => written = dropped + sent + packed + Len(held) + fill

\* Time stamps go on frame by frame, across silence and buffered frames: the
\* track's own correction never has to change one.
PtsContinue == pull = "give" => given.pts = (lastPts + 1) % PtsCycle
=============================================================================
