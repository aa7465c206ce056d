---------------------------- MODULE ViewerPlayback ----------------------------
(***************************************************************************)
(* Sound and picture on the viewer (Python media path), from the moment    *)
(* the tracks have come: RemoteAudioConsumer fills a ring,                 *)
(* PlaybackWorker plays it on its own thread (rtc/audio_receiver.py),      *)
(* RemoteVideoConsumer keeps the newest picture (rtc/preview.py), the      *)
(* session paints it if AvSyncController agrees (rtc/av_sync.py), and the  *)
(* control loop of run_screen_view_session tells AvSyncController twice a  *)
(* second how much has been played.                                        *)
(*                                                                         *)
(* Time passes in ticks (of 250 ms in the configuration), in each of which *)
(* the network, the worker, the control loop and the painting have their   *)
(* turn, in this order.  Clocks are kept as differences: the time stamps   *)
(* of pictures and the count of samples played differ by an unknown        *)
(* constant anyway.                                                        *)
(***************************************************************************)
EXTENDS Integers, FiniteSets

CONSTANTS
  Capacity,      \* ticks of sound in the ring
  Prebuffer,     \* prebuffer_ms, in ticks
  RebufferAfter, \* rebuffer_after_underruns: ticks of silence in a row
  PollEvery,     \* ticks between two rounds of the control loop
  DropBehind,    \* drop_behind_ms: a picture this many ticks late is dropped
  HardResync,    \* hard_resync_ms: a picture this many ticks early is dropped
  Relatch,       \* ticks of skew beyond which the clocks are latched anew
  History,       \* bound: lead of good over silent ticks that is remembered
  MaxStall       \* bound: ticks a stall of the network lasts

ASSUME PlaybackAssumption ==
  /\ {Capacity, Prebuffer, RebufferAfter, PollEvery, DropBehind, HardResync, Relatch,
      History, MaxStall} \subseteq Nat \ {0}
  /\ Prebuffer <= Capacity

VARIABLES
  turn, tick,   \* whose turn it is; ticks since the last round of the control loop
  session,      \* starting (no picture yet), viewing, over
  receiver,     \* RemoteAudioConsumer: running, ended (its track), failed, stopped
  fill,         \* ticks of sound in the ring
  worker,       \* PlaybackWorker: waiting, opening, playing, rebuffering, ended, failed
  player,       \* _player: none, open, closed, lost (opened, but never stored)
  underruns,    \* consecutive_underruns
  balance,      \* ticks played with sound minus ticks of silence, -History..History
  played,       \* samples_played since the control loop last looked, in ticks
  anyPlayed,    \* samples_played > 0
  age,          \* how old the newest picture is
  fresh,        \* it was not painted yet
  seen,         \* last_video_pts_ms is set
  healthy,      \* audio_healthy
  observed,     \* audio_playhead_pts_ms is set
  latched,      \* _pts_offset_ms is set
  lead,         \* then: the present minus the observed and aligned playhead
  apart,        \* the two clocks differ by more than Relatch from the start
  painted, \* history: a picture in this tick
  waited        \* history: the worker waited for the buffer a second time

sound == <<receiver, fill, worker, player, underruns, balance, played, anyPlayed, waited>>
sync  == <<healthy, observed, latched, lead, apart, seen>>
picture == <<age, fresh, painted>>
vars == <<turn, tick, session, sound, sync, picture>>

Workers == {"waiting", "opening", "playing", "rebuffering", "ended", "failed"}

TypeOK ==
  /\ turn \in {"net", "play", "poll", "paint"} /\ tick \in 0..PollEvery
  /\ session \in {"starting", "viewing", "over"}
  /\ receiver \in {"running", "ended", "failed", "stopped"}
  /\ fill \in 0..Capacity /\ worker \in Workers
  /\ player \in {"none", "open", "closed", "lost"}
  /\ underruns \in 0..RebufferAfter /\ balance \in (-History)..History
  /\ played \in Nat /\ age \in 0..MaxStall /\ lead \in Int
  /\ {anyPlayed, fresh, seen, healthy, observed, latched, apart, painted, waited}
       \subseteq BOOLEAN

Init ==
  /\ turn = "net" /\ tick = 0 /\ session = "starting" /\ receiver = "running"
  /\ fill = 0 /\ worker = "waiting" /\ player = "none"
  /\ underruns = 0 /\ balance = 0 /\ played = 0 /\ anyPlayed = FALSE
  /\ age = 0 /\ fresh = FALSE /\ seen = FALSE
  /\ healthy = FALSE /\ observed = FALSE /\ latched = FALSE /\ lead = 0
  /\ apart \in BOOLEAN
  /\ painted = FALSE /\ waited = FALSE

LeastOf(x, y) == IF x <= y THEN x ELSE y
Running == session # "over"

-----------------------------------------------------------------------------
(* The network, and the two consumers.                                     *)

\* A tick begins.  Every clock but the playhead goes on.
Passes(sounds, pictures) ==
  /\ turn = "net" /\ turn' = "play" /\ Running
  /\ painted' = FALSE
  /\ lead' = IF latched THEN lead + 1 ELSE 0
  /\ tick' = IF session = "viewing" THEN tick + 1 ELSE PollEvery
  /\ fill' = IF receiver = "running" THEN LeastOf(fill + sounds, Capacity) ELSE fill
  /\ IF pictures
     THEN age' = 0 /\ fresh' = TRUE
     ELSE age' = age + 1 /\ UNCHANGED fresh
  /\ UNCHANGED <<receiver, worker, player, underruns, balance, played, anyPlayed, waited>>
  /\ UNCHANGED <<healthy, observed, latched, apart, seen>>

\* Sound and pictures come: what a stall held up comes at once, or is lost.
Arrives ==
  \E sounds \in 1..Capacity :
    /\ sounds > 1 => age > 0
    /\ Passes(sounds, TRUE)
    /\ session' = "viewing"

\* The sound is there before the first picture.
SoundFirst == session = "starting" /\ age < MaxStall /\ Passes(1, FALSE) /\ UNCHANGED session

\* Nothing comes.
Stall == session = "viewing" /\ age < MaxStall /\ Passes(0, FALSE) /\ UNCHANGED session

\* The audio track ends, or brings a frame that is not valid.
TrackEnds ==
  /\ Running /\ receiver = "running" /\ receiver' \in {"ended", "failed"}
  /\ UNCHANGED <<turn, tick, session, sync, picture>>
  /\ UNCHANGED <<fill, worker, player, underruns, balance, played, anyPlayed, waited>>

-----------------------------------------------------------------------------
(* PlaybackWorker._run, on its thread.                                     *)

WorkerTurn == turn = "play" /\ Running

\* _prebuffer_frames(), as tested by _wait_for_prebuffer().
Buffered == fill >= Prebuffer

\* Nothing to do: the buffer is filling, the device is being opened, or the
\* worker is gone.
Idles ==
  /\ WorkerTurn /\ turn' = "poll"
  /\ \/ worker \in {"waiting", "rebuffering"} /\ ~Buffered
     \/ worker \in {"opening", "ended", "failed"}
  /\ UNCHANGED <<tick, session, sync, picture, sound>>

\* The first prebuffer is there: the device is opened.
OpensPlayer ==
  /\ WorkerTurn /\ worker = "waiting" /\ Buffered /\ worker' = "opening"
  /\ UNCHANGED <<turn, tick, session, sync, picture>>
  /\ UNCHANGED <<receiver, fill, player, underruns, balance, played, anyPlayed, waited>>

\* It is open and started, if need be after the session is over.
PlayerOpens ==
  /\ worker = "opening" /\ (turn = "play" \/ ~Running)
  /\ worker' = "playing" /\ player' = "open"
  /\ UNCHANGED <<turn, tick, session, sync, picture>>
  /\ UNCHANGED <<receiver, fill, underruns, balance, played, anyPlayed, waited>>

\* open() fails, or start() does, and then nobody holds what open() opened.
PlayerFails ==
  /\ worker = "opening" /\ (turn = "play" \/ ~Running)
  /\ worker' = "failed" /\ player' \in {"none", "lost"}
  /\ UNCHANGED <<turn, tick, session, sync, picture>>
  /\ UNCHANGED <<receiver, fill, underruns, balance, played, anyPlayed, waited>>

\* The balance of a long session is only known to be at its bound.
Balances(step) ==
  balance' \in LET b == balance + step
               IN IF b > History \/ b < -History THEN {balance}
                  ELSE IF balance \in {History, -History} THEN {b, balance}
                  ELSE {b}

\* A tick of the ring is played.
PlaySound ==
  /\ WorkerTurn /\ turn' = "poll" /\ worker = "playing" /\ fill > 0
  /\ fill' = fill - 1 /\ underruns' = 0 /\ Balances(1)
  /\ played' = played + 1 /\ anyPlayed' = TRUE
  /\ UNCHANGED <<tick, session, sync, picture, receiver, worker, player, waited>>

\* Mutation: silence is not counted as played.
PlaySilenceUncounted ==
  /\ WorkerTurn /\ turn' = "poll" /\ worker = "playing" /\ fill = 0
  /\ underruns' = underruns + 1 /\ Balances(-1)
  /\ IF underruns' = RebufferAfter
     THEN worker' = "rebuffering" /\ waited' = TRUE
     ELSE UNCHANGED <<worker, waited>>
  /\ UNCHANGED <<tick, session, sync, picture, receiver, fill, player, played, anyPlayed>>

\* The ring is empty: silence is played, and counted as played.  After a long
\* silence the worker waits for the buffer again, and its clock starts anew.
PlaySilence ==
  /\ WorkerTurn /\ turn' = "poll" /\ worker = "playing" /\ fill = 0
  /\ underruns' = underruns + 1 /\ Balances(-1)
  /\ played' = played + 1 /\ anyPlayed' = TRUE
  /\ IF underruns' = RebufferAfter
     THEN worker' = "rebuffering" /\ waited' = TRUE
     ELSE UNCHANGED <<worker, waited>>
  /\ UNCHANGED <<tick, session, sync, picture, receiver, fill, player>>

Resumes ==
  /\ WorkerTurn /\ worker = "rebuffering" /\ Buffered
  /\ worker' = "playing" /\ underruns' = 0
  /\ UNCHANGED <<turn, tick, session, sync, picture>>
  /\ UNCHANGED <<receiver, fill, player, balance, played, anyPlayed, waited>>

\* Writing to the device fails: the worker closes it and ends.
WriteFails ==
  /\ WorkerTurn /\ worker = "playing" /\ worker' = "failed" /\ player' = "closed"
  /\ UNCHANGED <<turn, tick, session, sync, picture>>
  /\ UNCHANGED <<receiver, fill, underruns, balance, played, anyPlayed, waited>>

-----------------------------------------------------------------------------
(* The control loop of run_screen_view_session.                            *)

\* The failure of the worker or of the receiver ends the session, or the user does.
MediaFailed == receiver = "failed" \/ worker = "failed"
PollDue == session = "viewing" /\ tick >= PollEvery

Over == session' = "over" /\ UNCHANGED <<turn, tick, sound, sync, picture>>
FailureEnds == turn = "poll" /\ PollDue /\ MediaFailed /\ Over
Disconnect == Running /\ Over

\* observe_audio_samples(), the test for audio health, set_audio_healthy().
\* A skew of clocks that are not latched tells nothing, but it is looked at.
Observe ==
  LET now == lead - played
      far == /\ seen /\ anyPlayed
             /\ IF latched THEN now - age > Relatch \/ age - now > Relatch ELSE apart
  IN /\ observed' = (observed \/ anyPlayed) /\ played' = 0
     /\ healthy' = (anyPlayed /\ balance > 0 /\ ~far)
     /\ latched' = (latched /\ healthy')
     /\ lead' = IF latched' THEN now ELSE 0

Poll ==
  /\ turn = "poll" /\ turn' = "paint" /\ Running
  /\ PollDue => ~MediaFailed
  /\ IF PollDue THEN Observe /\ tick' = 0
                ELSE UNCHANGED <<tick, healthy, observed, latched, lead, played>>
  /\ UNCHANGED <<session, picture, apart, seen, receiver, fill, worker, player, underruns>>
  /\ UNCHANGED <<balance, anyPlayed, waited>>

-----------------------------------------------------------------------------
(* _emit_frames and AvSyncController.should_paint_video.                   *)

Skew == lead - age
InSync == Skew > -DropBehind /\ Skew < HardResync
Latches == healthy /\ observed /\ (~latched \/ Skew > Relatch \/ Skew < -Relatch)

\* A picture that is not painted is offered again until a newer one has come.
Paint ==
  /\ turn = "paint" /\ turn' = "net" /\ Running
  /\ IF session = "viewing" /\ fresh
     THEN /\ seen' = TRUE
          /\ latched' = (latched \/ Latches)
          /\ lead' = IF Latches THEN age ELSE lead
          /\ painted' = (Latches \/ ~healthy \/ ~observed \/ InSync)
          /\ fresh' = ~painted'
     ELSE UNCHANGED <<seen, latched, lead, painted, fresh>>
  /\ UNCHANGED <<tick, session, sound, healthy, observed, apart, age>>

-----------------------------------------------------------------------------
(* The end of the session: playback_worker.stop(), audio_consumer.stop().  *)

\* Mutation: the loop that plays does not look at the stop.
WorkerStopsWaiting ==
  /\ ~Running /\ worker \in {"waiting", "rebuffering"}
  /\ worker' = "ended" /\ player' = IF player = "open" THEN "closed" ELSE player
  /\ UNCHANGED <<turn, tick, session, sync, picture>>
  /\ UNCHANGED <<receiver, fill, underruns, balance, played, anyPlayed, waited>>

\* The worker sees the stop wherever it waits, and closes the device.
WorkerStops ==
  /\ ~Running /\ worker \in {"waiting", "playing", "rebuffering"}
  /\ worker' = "ended" /\ player' = IF player = "open" THEN "closed" ELSE player
  /\ UNCHANGED <<turn, tick, session, sync, picture>>
  /\ UNCHANGED <<receiver, fill, underruns, balance, played, anyPlayed, waited>>

ReceiverStops ==
  /\ ~Running /\ receiver # "stopped" /\ receiver' = "stopped"
  /\ UNCHANGED <<turn, tick, session, sync, picture>>
  /\ UNCHANGED <<fill, worker, player, underruns, balance, played, anyPlayed, waited>>

-----------------------------------------------------------------------------
Network == Arrives \/ SoundFirst \/ Stall
Worker == Idles \/ OpensPlayer \/ PlaySound \/ PlaySilence \/ Resumes
Opening == PlayerOpens \/ PlayerFails
Stops == WorkerStops \/ ReceiverStops

Next == Network \/ TrackEnds \/ Worker \/ Opening \/ WriteFails \/ FailureEnds \/ Disconnect \/ Poll \/ Paint \/ Stops

\* Time passes, so every turn comes; a device that is being opened is opened
\* some day, or fails.
Spec ==
  /\ Init /\ [][Next]_vars
  /\ WF_vars(Network \/ Worker \/ Poll \/ FailureEnds \/ Paint) /\ WF_vars(Stops)
  /\ SF_vars(Opening)

-----------------------------------------------------------------------------
Steady == <>[](age = 0)

\* After the last stall of the network pictures are painted again and again, as
\* long as the worker never waited for its buffer a second time: although the
\* playhead that decides about them is up to half a second old, and the clocks
\* were latched at any moment.
PicturesFlow == Steady => []<>(painted \/ waited \/ ~Running)

\* The exception to what follows: start() has raised after open(), and the worker that gives
\* up holds no player that anybody could close (audio_receiver.py:446-448).
LeftOpen == player = "lost" /\ worker = "failed"

\* A session that is over ends the worker, even one that was opening its device, and the
\* device was never open or is closed - but for the one that is left open by name.
PlaybackEnds ==
  session = "over" ~>
    (worker \in {"ended", "failed"} /\ (player \in {"none", "closed"} \/ LeftOpen))

\* After the last stall of the network pictures are painted again and again:
\* av_sync.py:89: clocks that drifted or stalled are latched anew "instead of
\* freezing the picture for the rest of the session".
NeverFrozen == Steady => []<>(painted \/ ~Running)
=============================================================================
