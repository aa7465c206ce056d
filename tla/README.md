# Snowlink in TLA+

Snowlink shares a Windows screen (and its sound) between two computers of a
LAN or VPN. This directory holds TLA+ models of the parts of it whose
correctness depends on the order in which things happen, the TLC
configurations that check them on small instances, and TLAPS proofs of what
matters most for every size.

Paths below are relative to the repository; `snowlink/` is
`src/snowlink/`, `native/` is `native/src/` (the map in `PROJECT.json` gives
full paths and line numbers for every definition).

To run a check: `tlc -config ShareSession_share.cfg ShareSession.tla`; to
check proofs: `tlapm EncoderProofs.tla`.

## 1. The system

A *share session* on one computer listens with a WebSocket server; a *view
session* on the other connects, proves that it knows the pairing code, waits
for the sharer's approval, and exchanges an SDP offer and answer. Media then
flows peer to peer, either through aiortc in Python or through the C++ engine.
Beside the product there are measurement programs, Experiments A to F, and a
connectivity checklist.

| Component | State | Operations | Interacts with | What is hard | What makes it correct |
|---|---|---|---|---|---|
| **Signaling server** `net/signaling_server.py` | slot flag, current socket, state label, authenticated event, answer future | start, one handler per connection, wait_answer, close | pairing authority, share session | every `await` lets other handlers, close() or a loss come in | one viewer at a time, one admission per code, an answer only from the admitted viewer, close() ends |
| **Pairing authority, rate limiter** `security/pairing.py` | nonce, consumed flag, creation time; timestamps per address | issue_challenge, validate_response, mark_consumed; is_limited, record_failure | called by the server | one nonce for all connections; a window that slides with the clock | the code admits once; no window holds too many guesses |
| **Signaling client** `net/signaling_client.py` | socket, state, attempt | connect_and_pair (with retry), wait_offer, send_answer, close | server, view session | stop during a backoff | dialing ends when it is stopped |
| **Share session** `rtc/screen_session.py` | phase, pc, tracks, capture, server, stop event | run_screen_share, run_native_screen_share, offer_factory | server's handlers, worker | teardown while handlers go on | nothing left open, a true outcome |
| **View session** `rtc/screen_session.py` | phase, pc, client, consumers, stop event | run_screen_view, run_native_screen_view, ICE recovery | client, engine, worker | stop in every wait | stop ends it |
| **Session worker, UI** `ui/` | thread, loop, approval future, pending frames and moves, buttons | start, stop, dispatch, request/respond approval | sessions, Qt | two threads, requests that replace each other | an approval belongs to its viewer, buttons follow the session |
| **H.264 encoder** `native/encode/encoder.cpp` | two bounded queues, a credit counter, stop flags, two workers | initialize, encode, poll, shutdown | stream thread, Media Foundation | lost wakeups, credits racing with refusals | order kept, credits = requests, workers stop |
| **Native transport and engine** `native/transport/`, `native/engine.cpp` | queues, sender and receive thread, channels, awaiting_keyframe | enqueue, receive_loop, shutdown, stop_receiver | encoder, decoder, libdatachannel | callbacks on library threads, a lossy unordered channel | nothing undecodable is decoded, stops return |
| **Capture (WGC, DXGI)** `native/capture/` | two texture slots, published id, callback count, keyed mutexes | start, frame callback / worker, get_latest_frame, close | Windows, stream thread | callbacks against close, reallocation, access loss | nothing freed in use, the last picture is shown |
| **Renderer** `native/render/` | latest texture, resize flag, worker | submit, resize, set_visible, shutdown | receive loop, UI | wakeups without the mutex | shows the last frame at the last size |
| **Cursor** `native/cursor/` | last shape sent, cached shapes, two workers | sampler, receive_state, receive_shape, overlay | transport, UI | two channels, one of them lossy | shows the sharer's pointer |
| **Frame slot, screen capture, video track** `media/` | newest frame, closed flag; frame index | publish, take, close; start, shutdown; recv | capture thread, RTP sender | late frames, a failing worker | the schedule keeps to the clock, a failure ends the session |
| **Loopback capture, ring, audio track** `media/` | stream, ring positions and counters, converter, time stamps | open .. close, write, read, recv | PortAudio's thread, RTP sender | wrap and overflow, short reads | no sound unaccounted for, a bounded FIFO that drops its oldest |
| **Audio receiver, A/V sync** `rtc/` | ring, worker, playhead, latched offset | consume, play, observe, should_paint_video | network, sound device, session | stalls, rebuffering, two clocks | pictures go on, playback ends |
| **Experiments A–F** `net/tcp_*`, `media/`, `rtc/session*.py` | sockets, threads, results | run_* | each other over the network | timeouts on both sides, teardown order | reports that are true |
| **Checklist** `diagnostics/`, `ui/pages/diagnostics.py` | steps, the port, a probe server | run | shares on the same port | a failure between two steps | the port is given back |
| **Preferences** `config.py`, `ui/pages/settings.py` | the file, the window's copy, the Settings page's copy and form | load, edit, reload, save, reconnect, persist at the end | share controller, View page, Home | copies that are sometimes one object; a failed write; two writers of one file | what was saved is what is used and loaded |
| **Endpoint selection** `net/adapter_selection.py`, `platform_win/audio_endpoints.py` | none of its own: lists made by Windows, the address or place that was chosen | classify, score, select, validate; resolve and open devices | Settings, share, view | lists are stale when used, places shift | a LAN address of this computer; never a microphone |
| **Main window, history** `ui/main_window.py`, `session_history.py`, `shutdown.py` | session windows, Home's buttons, entries being followed, the history file | handlers of both workers' signals, closing, clearing, quitting | workers, pages | signals of a session handled after its end or after the next one's start | windows and buttons follow the sessions, entries tell how theirs ended |
| **Decoder, GPU processor, capture manager, remote input, C API, helpers, statistics, platform queries** | little | sequential | — | — | — |

`PROJECT.json` lists them all with what is and is not modelled, and, under
`hazards`, what in this code a test would hardly reach, at its line.

## 2. The modules

| Module | Models | Uses / refines |
|---|---|---|
| `PairingAuthority` | operators for the code, its nonce and the per-address failures | used by `SignalingServer` |
| `SignalingServer` (`MCSignalingServer`) | the server and the handler of every connection | implements `PairingGate` |
| `PairingGate` | abstract: one holder, one admission | — |
| `RateLimiter` (`MCRateLimiter`) | the sliding window with its clock | implements `FailureCounter` |
| `FailureCounter` | abstract: a number that a guess raises and time lowers; what `PairingAuthority` keeps | — |
| `ShareSession` | Qt thread, session thread, both share coroutines, the handlers' approval and offer_factory | — |
| `ViewSession` | View page, session thread, both view coroutines, the client's dialing | — |
| `NativeCapture` | capture manager, WGC, DXGI, stream_loop up to the encoder's input | — |
| `EncoderPipeline` | encode(), poll(), shutdown(), both workers, an external MFT | — |
| `VideoTransport` | sender queue and worker, network, receive queue and worker, keyframe recovery, both shutdowns | — |
| `NativeViewer` | start_receiver, stop_receiver, window events | composes `CursorChannel` and `RenderWorker` |
| `ViewerPlayback` | audio consumer, playback worker, A/V sync, painting | — |
| `AudioRing` | audio_ring_buffer.py | implements `AudioStream` |
| `AudioStream` | abstract: a stream of which the reader gets each sample at most once, in order | — |
| `LoopbackCapture` | the PortAudio stream and its callback | extends `AudioRing` |
| `LoopbackAudio` | the sound of a share | extends `LoopbackCapture` |
| `AudioPipeline` | Experiment D | extends `LoopbackCapture` |
| `ScreenCapture` | capture worker, frame slot, video track; Experiment C | — |
| `TcpEcho` | Experiments A and B | — |
| `ExperimentLink` | Experiments E and F | — |
| `Checklist` | the connectivity checklist | — |
| `Preferences` | the preferences and all their copies, what a share listens on and what Home shows of it | — |
| `AdapterSelection` | classification, scores and choice of the address; its use after adapters have changed | — |
| `AudioEndpoints` | the choice of sound devices by their place in a table that changes | — |
| `AppShell` | the main window: session windows, Home's buttons, history, quitting | — |
| `Desktop` | chooses one of the last four | extends them |
| `Experiments` | chooses `ExperimentLink`, `ScreenCapture`, `LoopbackAudio`, `AudioPipeline`, `TcpEcho`, `Checklist` or `Desktop` as the program of a behaviour | extends them |
| `...Proofs` | theorems | extend the module they are about |

A definition named `...Early`, `...Unchecked`, `...Quietly` and so on under a
comment beginning "Mutation:" is not part of any specification. It is the form
the definition below it would take after a plausible mistake, kept to confirm
that each property notices one.

### Signaling server

asyncio runs one handler at a time until it waits. An action is therefore the
code between two awaits *that can really suspend*; `at[c]` says where the
handler of connection `c` is. `send_str` is treated as not suspending, and as
raising once the transport is known to be gone: every action that sends has
that failing disjunct, with the `finally` block (`EndSession`) in it. `link` is
the transport: `up`, `gone` (the viewer vanished, the server does not know
yet), or `closed` by close().

close() is taken apart at its awaits: `CloseBegin` sets the flag and hands a socket
that is there to `ws.close()`, `SocketClosed` ends that wait, by the viewer's reply
or its timeout, and `CleanupEnds` is the return of `runner.cleanup()`, which may
first have cancelled handlers (`HandlerCancelled`). Handlers go on between these
steps and after them, and their `finally` blocks write what close() has written too.

`PrepareYields` is the one scheduling question that changes the answers. aiohttp's
`prepare` writes the response headers and normally returns at once; if the
transport is paused it suspends, and then the slot check at line 132 and the
assignment at line 152 are apart. `HandlerOwnsSlot`, `AdmittedHoldsSecret` and
`GateSpec` are claims for `PrepareYields = FALSE`; `AnswerMatchesPeer` holds for
both.

The code's time to live is the flag `expired`, and the limiter the counter
`failures`: `RateLimiter` shows that the real window implements such a counter.
`AutoApprove` is FALSE in the runs; the theorems cover both. The approval wait
is not bounded by the code's time to live in the source, nor here.

### Rate limiter

One instant per tick. `Refuse`/`Pass` are is_limited, `Record` is
record_failure, with its own reading of the clock; between `Pass` and `Record`
only the clock moves (both calls are in one synchronous function). `compared`
is a history variable the code does not have.

### Share and view sessions

Three schedulers meet: the Qt thread, the event loop of the session thread, and
(in the share) the connection handlers on that loop. An action of the loop is
what one task does between two awaits; `at` is the wait its coroutine is in,
`posted` the callbacks given to `call_soon_threadsafe`, `signals` what Qt has
queued. `made` holds what has been made and not been closed, and `fault`
remembers whether something failed (`seen`) or the body raised (`raised`).
`native` chooses in Init which of the two coroutines runs: they share their
waits and differ in what they make and in how they end. In `ShareSession` the
handshake before the approval is one wait (`Connect`, then `Arrive` or `PairingEnds`;
the server's own model has its steps), and a response received before close() is
still processed after it, as the handler does not look at `_closed` again. In
`ViewSession` the sharer is whatever an attempt may meet.

### Native code

Condition variables are modelled at the grain where wakeups are lost:
`check` (predicate evaluated with the mutex held), `toSleep` (the predicate was
false, not yet blocked; the mutex is still held, so whoever takes it cannot act
here, but a notify without it can), `asleep`. A flag stored and then notified
without the mutex is one step, since a predicate evaluated between the two
already sees the flag.

The MFT, the decoder, the desktop and the network are external and free. Two
of their habits are chosen in Init, so that one run covers both: whether the
MFT may refuse what it asked for (`mayRefuse`), and whether the video channel
reorders (`reorders`); `RequestsCounted` is conditional on the first, and
`DecodesForward` on the second. An access unit is its position and whether it is
an IDR; a picture of the desktop is the number of changes before it.

History variables with names such as `missed`, `blank`, `refused`, `late`, `astray`,
`unshaped`, `unheard`, `deaf` remember that one of the cases a property excludes has
happened.

In `NativeCapture` a callback may throw at any of its calls into the system, and its
`catch` then reads the device once more, also after close() has let go of it. A
frame that comes with a new size is a surface of the pool's old size, so its copy
does nothing, and the pool is made anew only after it. In `RenderWorker`, `picture` is
the size of the last picture that was really presented, not that of the buffers.

### The desktop program around its sessions

Four parts that share only values run side by side in `Desktop`. In
`Preferences` a record stands for all fields: `pick` for those chosen from what the
machine has at that moment, which may not have what was saved, and `port` for
those typed. `same` says whether Settings and the window hold one object, which a
save makes so and a reload undoes. Writing the file is one step (it is replaced),
and a crash may come between any two.

`AdapterSelection` keeps an adapter's type (loopback by its type or its name is one
value), the classes of patterns its names match, its speed and its addresses by kind;
the scores are the code's numbers. Init has every adapter alone, and beside a usual
Wi-Fi or Ethernet adapter. `AudioEndpoints` names a device by its place in a table, as
the code does; devices come at the front and go from it, which shifts all places.

`AppShell` has any number of sessions of both roles, one of a role running at a
time, but the signals of an earlier one may still be queued. A signal carries its
session's state object, whose phase is read when it is handled, so each handling
may see any phase. `mixed` and `stray` remember two of the cases the properties except.
The history's file outlives the program: `Quit`, which stands for a crash as well,
leaves it as it is, and `Relaunch` reads it back with nobody following its entries;
`earlier` is the set of entries that come from earlier runs.

### Measurement programs and the checklist

In `ScreenCapture` a share waits for its viewer, then for the connection, then
streams; it looks at the capture worker's error only while it streams, and a stop
that it sees first ends it as stopped. In `Checklist` the port is the set of those
who listen on it: the bind probe sets SO_REUSEADDR, with which Windows may let it
bind a port that a share listens on, while the probe server does not and is refused.

### Sound

A sample is its position in what was captured. `ViewerPlayback` counts time in
ticks with a turn of the network, the worker, the control loop and the painting
in each; clocks are kept as differences, so the state stays finite without a
bound on time.

## 3. The runs

| Run | Instance | Distinct states | Shows |
|---|---|---:|---|
| server_safe | 3 connections, 2 addresses, limit 1, prepare returns at once | 131k | single viewer, single admission, refinement of `PairingGate` |
| server_live | 2 connections, prepare may suspend | 29k | the answer matches its peer connection even so; a vanished viewer's handler ends; close() comes to its end and leaves the server closed for good |
| rate_limiter | 2 addresses, limit 2, window 2, 6 ticks | 140k | the window limit, refinement of `FailureCounter` |
| share | 2 viewers, 2 posted callbacks | 21k | nothing left open, approvals, outcome, stop |
| view | 2 attempts, 2 sessions, 2 moves, 2 posted callbacks | 93k | buttons, clicks, stop |
| capture | 3 changes, 2 resets | 92k | keyed mutexes, no use after close, the last picture |
| encoder | 4 frames, 2 requests ahead, queues of 2 | 303k | credits, order, shutdown |
| video | 3 access units, queues of 2 | 470k | wakeups, IDR first, order, shutdown |
| viewer | 1 shape and hidden, 2 sizes, 2 pointer moves, 3 window events | 266k | last pointer, picture and size; shutdown |
| playback | ring of 2 ticks, stalls of up to 4, see below | 131k | pictures flow, playback ends |
| experiments | 2 receivers; 2 pictures, 3 intervals; ring 4, 8 samples, chunk 2; 2 clients, 2 blocks; 2 devices; 2 sessions, 2 signals waiting, 2 entries | 373k | what each program reports or promises, and the desktop program around its sessions |
| recovery | 2 changes, 1 reset | | refuted: finding 1 |

*Bounds.* Three connections are a holder, a rival and a latecomer; two of them
share an address, so that one's failures limit the other. A limit of 1 makes
the limited state reachable at the first failure. Three windows of time let a
window fill, empty and refill at every offset. Two viewers are one whose request
lapses and one who meets its dialog; two sessions are one whose last signals
are late and the next. Four frames fill the pending queue of 2, a hand and an
MFT; three access units overflow both video queues of 2. Three changes and two
resets give a picture before, between and after two reallocations. Two window
sizes suffice since only equal and different are compared. A ring of 4 with
chunks of 2 wraps, overflows and runs short; 8 samples go round it twice. Two
devices let a place become another device's; two sessions are a share and a view
that end in either order, or two of a role of which the second begins while the
last signal of the first waits; two entries fill the history. The
ticks of `playback` are 250 ms: 90, 250 and 2000 ms and the 0.5 s of the control
loop and of rebuffering become 1, 2, 8 and 2 ticks; a stall of 4 makes the
worker wait for its buffer a second time. `MaxFrames`, `MaxWants`, `MaxTime`, `MaxPosts`,
`MaxSessions`, `MaxMoves`, `MaxEvents`, `MaxChanges`, `MaxResets`, `MaxWritten`,
`MaxPictures`, `MaxStall`, `MaxDevices`, `MaxQueue` and `History` are the only caps that are not in the
code; all are in guards and named. ReadyLimit is 2 where the code has 4: only
full and not full differ.

*Deadlock* is not checked: every model ends in states where the session is
closed or the capped input is used up.

*Fairness.* Everywhere: a runnable thread runs, a posted callback is run, a wait
with a timeout ends, and a join whose thread has ended returns. Server: the
event loop resumes suspended handlers, reports a lost connection to a handler
that reads, and offer_factory ends by its gathering timeout; in close(), `ws.close()`
and `runner.cleanup()` end by timeouts of their own, and a handler that the latter
cancels is resumed. Screen capture: a share that has its answer is connected or
times out, and a loop that streams looks at the worker. Native capture: the
system reports changes, and a duplication asked for again and again is granted
(strong fairness, since it may be lost in between). Viewer: reliable messages
arrive, and so does a last motion that was not lost; window events reach the
engine. Playback: every tick's turns come, and a device that is being opened is
opened or fails. Nothing is assumed of users, viewers, the network, the desktop,
the MFT, the decoder, or spurious wakeups.

*Exceptions in properties.* Where the code does not keep a promise in a narrow
case, the property names the case rather than leaving it out of the model: a
dialog still open for a viewer whose request has ended (`ApprovalMeant`), a
native approval asked for while server.close() waits (`OutcomeTrue`), a
session begun before the last one's `finished` is handled (`ButtonsFollow`), the
timeout of close(), a callback that enters after it has waited, and a duplication
made anew under the stream thread (`HeldWhileUsed`), a frame id that was reused or
a frame that came with a new size (`EventuallyShown`), a motion that was lost or
overtaken, or a shape sent before its channel was open (`PointerShown`), a lost notify
(`StopReturnsIfHeard`, `ShutdownReturnsIfHeard`, `ResizeShown`; either of two in
`StopEnds`), a drawing that failed after a resize (`ResizeShown`), a playback worker
that has waited for its buffer twice (`PicturesFlow`), a device whose start() failed
after it was opened (`PlaybackEnds`), the port once Reconnect has written it
(`SavedSurvives`), the window of a connection that was refused (`WindowsFollow`), two
sessions of a role that overlap and entries of an earlier run (`HistoryTrue`), a share
that is stopped before it looks, or still waits for its viewer (`FailureEnds`), and the
checklist's bind probe, which may listen beside a share (`PortReturned`).

*Conjunctions.* `ReportsTrue`, `TracksExact` and `EndpointsRight` join the promises of
programs that never run in one behaviour: `PipelineReported`, `EchoAgrees` and
`PortReturned`; `Scheduled`, `Accounted` and `PtsContinue`; `AddressRight` and
`RecordsLoopback`. Each part is stated in its program's module.

## 4. What is proved

For all values of the constants allowed by the named assumptions, by TLAPS:

- **SignalingServerProofs.** `TypeCorrect`; `AnswerCorrect` (for both values of
  `PrepareYields`); and for `PrepareYields = FALSE`: `OneHandler`,
  `OneAdmission`, `ChallengeKept`, `AnswerAllowed` and `ServerImplementsGate`.
  "One handler in a session" is not inductive: a rejected connection could end
  an earlier one's session if the flags could disagree. `SlotInv` adds that a
  session implies the taken slot, the current socket and, while pairing, that
  nobody is authenticated; that `authenticated` implies a spent code and a
  taken slot; and that a pending approval means an unspent code. `AnswerInv`
  says where an admitted viewer can be. The refinement maps the holder to the
  connection in a session and the admitted viewer to the owner of the secret.
- **RateLimiterProofs.** `TypeCorrect`, `GuessesLimited` and
  `OnlyEarnedRefusals`. `LimiterInv` says that a bucket is the history without
  some oldest, stale entries; a guess passes only when fewer than the limit
  remain, so the entry that far back in the history is stale; and a full
  bucket is that many entries of the window. `CounterKept` is the refinement of
  `FailureCounter`: pruning is a bijection between the live entries before and
  after it, so a tick can only lower their number and a failure raises it by one.
- **EncoderProofs.** `TypeCorrect` and `ReleaseCorrect` from `WorkerInv` (a
  frame in hand has a credit; workers start and stop in order); and, while
  `mayRefuse` is false, `CreditsAreRequests` and `NoRefusal`: unread events plus
  credits equal open requests, plus one between `ProcessInput` and `fetch_sub`,
  hence a taken frame was asked for, hence no refusal. `NewestSubmitted` then
  follows from the worker's taking the back of the queue. `FramesInOrder` needs
  the place of every frame on its way: `OnItsWay` lines up what was taken, the
  ready queue, the transform, the worker's hand, the pending queue and the next
  frame, each rising and each below those behind it. Every action moves the
  end of one part to the next, or drops something, and both keep a line.
- **VideoProofs.** `TypeCorrect`, `NoLostWakeup`, `StrandedCorrect`, `KeyFirst`,
  `ReleaseCorrect` from `VideoInv`: what a worker about to block saw still
  holds, as the queues change only under the mutex, and `awaiting_keyframe_`
  holds exactly while the decoder has been given nothing since its reset.
  `ForwardCorrect`: on a channel that does not reorder, the six places of an
  access unit between the encoder and the decoder are in order (`InLine`).
- **NativeCaptureProofs.** `SlotsAlternate` and `NothingFreedInUse`, for any number
  of changes and resets. The second covers every use of what close() and
  create_duplication() release, the catch's included, and says that the three cases
  `HeldWhileUsed` names are the only ones in which a use and a release meet.
- **ShareSessionProofs.** `NothingIsLeft`, `OutcomeIsTrue`, `ApprovalsMeant`, for any
  set of viewers. `BodyInv` has three parts. `Admission`: one handler at a time has
  the slot, the code is good until its viewer is let in, and no answer comes before
  the offer. `Owned`: what may exist at each wait of the clean-up, so that a peer
  connection made late is still ahead of the step that closes it. `Phased`: where the
  body raised, no handler is left that could overwrite the phase; that takes all of
  `Admission`: a body raises only before its server is up or after the code is spent,
  so no approval can still be asked for. Where nothing failed, the phase is "stopped",
  or the "awaiting_approval" of a native handler that arrived after it (`late`), which
  nothing replaces. `ApprovalInv` says that a dialog, its answer and the callback that
  carries it belong to the request on the table, or to one that has lapsed.
- **ViewSessionProofs.** `ButtonsFollowSession`, from which signals of which
  session may still be queued; and `ClicksLand`: there is at most one posted
  callback that drains the moves, the newest move is in the pending list or was
  sent, and a click in the queue stands behind the callback of every move made
  before it, unless that move was sent already.
- **ExperimentsProofs.** One invariant per program, combined by `ProgramInv`.
  For the ring, modular arithmetic on the positions is the whole difficulty:
  `ContentsCorrect` (between them lie the newest frames, in order),
  `CountersCorrect`, `RingImplementsStream`, and `ProgramsStream`, that this holds
  whatever program drives the ring. `TracksAreExact` rests, for sound, on
  `SoundInv`: the ring always holds whole chunks (so a short read, which would lose
  sound, does not happen), the converter keeps less than a frame, the sum of all
  places is what was written, and every frame in flight follows the one ahead of
  it, modulo 2^w; for pictures, on the track's never waiting for a frame that is not
  due. `OneReceiverServed` follows from `LockInv` (at most one request holds the lock,
  and only then is the sender not busy with another); `ReportsAreTrue` from the order
  of the echo server's and every client's steps (`EchoInv`), and from where each
  program's teardown has come to (`PipeInv`, `PortInv`): whatever the checklist
  opened it has given back, and its probe server never listens beside a share; of the
  bind probe, which may, only the first is claimed.

  Of the desktop program: `SavedIsKept` needs that the file and, while the program
  runs, the window's copy are what Settings last saved, but for the port after
  Reconnect (`PrefInv`); the page's own copy may differ, and is never written.
  `EndpointsAreRight` is about single steps for the address: by the
  scores, the best of the preferred adapters is a LAN adapter (`BestOnLan`), wired if
  one of known speed is there (`WiredScores`), for any list of adapters.
  `WindowsGo` and `HistoryToldTrue` need `ShellInv`: what waits in the queue of a
  session stands in the order it was emitted, and a `finished` is still to come while
  a session's thread is not done (`Told`); hence the last thing handled of a role
  closes its window, and an entry is followed only while its session can still
  end it (`Followed`, `Entered`). Entries of earlier runs are kept as they were read
  and never followed, over any number of relaunches; of the others, the newest is open
  only while it is followed, and an ended one tells how its session ended.

*Assumptions.* Sizes are positive; beyond that: `LoopbackAudio` assumes that the
ring's capacity is a multiple of the chunk (`WholeChunks`; 160 ms in chunks of
20 ms in the code), `LoopbackCapture` that it holds at least two of them and
that the bound on samples allows one (`ChunkAssumption`), and
`SignalingServerProofs` takes `PrepareYields = FALSE` as a hypothesis of the
theorems named above.

*Proved, and in no run:* type invariants, `ReleasedUnused` of encoder and
transport, `NeverRefused`, `NewestTaken`, `FrameWakes`, `RefusalEarned`,
`ChallengeStillGood`, `AdmittedCanAnswer`, `Contents`, `Conserved` and the inductive
invariants, which were checked with TLC on the instances of section 3 before
they were proved.

*Only model-checked:* the liveness properties (`SessionEnds`, `CloseDrains`,
`ShutdownReturnsIfHeard`, `StopReturnsIfHeard`, `StopEndsSession`,
`DisconnectEnds`, `EventuallyShown`, `PointerShown`, `FrameShown`, `ResizeShown`,
`StopEnds`, `PicturesFlow`, `PlaybackEnds`, `FailureEnds`): they depend on
fairness, and so on ENABLED, which the prover does not reason about. Every
invariant, action property and refinement that a run checks is also proved.

## 5. Findings

`PROJECT.json` quotes the sentence of the repository that each contradicts.
The first is a run that TLC refutes. The next ten have a definition in their
module that TLC refutes too, under the constants given here (deadlock unchecked):

1. *recovery*, `RecoveryShown` — after Desktop Duplication was lost and made anew,
   the encoder refuses every texture, as they belong to another device.
2. `SignalingServer.RejectionIsTrue` (`Conns = {c1, c2, c3}`, otherwise as
   server_safe) — once a viewer has been authenticated the slot is never freed, so
   later viewers are told that a viewer is connected when none is.
3. `SignalingServer.CodeOnShowWorks` (the same) — the code is consumed before the
   viewer is told; if it is lost in between, the share keeps showing a code
   that can admit nobody.
4. `EncoderPipeline.RequestHeard` (as encoder) — "wait for the next credit" erases
   a credit that has already come; MFT and worker then wait for each other.
5. `EncoderPipeline.BackpressureDropsNewest` (`MaxFrames = 3`, `MaxWants = 1`) — a
   full queue drops its oldest, the document says the newest.
6. `VideoTransport.StopReturns` (`MaxFrames = 2`, `FairSpec`) — stop_receiver()
   stores its flag and notifies without the mutex: the wakeup can be lost and the
   join does not return.
7. `NativeCapture.ShutdownDrains` (as capture) — close() of the WGC capture waits for
   callbacks, but at most two seconds, and not for one that tested `stopping` before
   it and enters after.
8. `NativeCapture.EventuallyShown` without `blank` (as capture) — the frame that comes
   with a new size is copied between two sizes, which does nothing; a blank picture is
   published, and on a still desktop it stays.
9. `ViewerPlayback.NeverFrozen` (`Capacity = 1`, `Prebuffer = 1`,
   `RebufferAfter = 2`, `PollEvery = 2`, `DropBehind = 1`, `HardResync = 2`,
   `Relatch = 8`, `History = 3`, `MaxStall = 5`) — a second wait of the playback
   worker leaves a skew that drops every picture and is too small to re-latch.
10. `Preferences.HomeTrue` (`PrefSpec`, no constants) — a port saved in Settings while a
    share waits is shown on Home at once; the share listens on its own.
11. `Preferences.SettingsDecides` (the same) — Reconnect writes the port of the other
    computer's share into the preferences, and the next share here listens on it.

Six were met while modelling, and are modelled as the code does them:

12. create_duplication() resets the consumer's context before it takes the mutex under
    which the stream thread uses it (the third case of `HeldWhileUsed`).
13. The checklist's bind probe sets SO_REUSEADDR, so on Windows it passes on a port
    that a share listens on.
14. A receiver of Experiments E and F whose peer is lost ends as a success.
15. `--serve-forever` ends with the first client that fails.
16. A clean timed run of Experiment D can end as PLAYBACK_WRITE_FAILED, because
    the player is closed under the worker.
17. The checklist can be run only once: the second click asks a deleted thread.

The models show these as well, against which no text speaks: the encoder's
shutdown() and the cursor's lose their wakeups as stop_receiver() does; a
refused frame replaces a newer one that came meanwhile; an IDR the decoder waits
for is discarded when an inter frame has arrived behind it; onOpen's wakeup can be
lost (`StrandedOnlyAtOpen` states how far that goes); a viewer may be admitted by a
dialog opened for another whose request had lapsed; a native approval asked for
during close() leaves "awaiting_approval" over "stopped"; a drawing that fails after
a resize leaves the window blank until the next frame; a sound device whose start()
fails after open() is left open; a share that waits for its viewer does not notice that
its capture worker has failed; closing the program leaves the history's entry
"connected" for good, and only the newest entry is ever given its end
(`AppShell.EntriesEnd`, `ShellSpec`, constants as in section 3); a saved sound device
may be recorded from another loopback, which has taken its place.

## 6. Not modelled

The components marked `not_modelled` or `partly` in `PROJECT.json`, with
reasons there. In general: codecs, pixel and sample arithmetic, Windows queries,
layout and texts of widgets, measurements and report formatting are left out because
nothing in them depends on an order of events; cryptography is a value that is
right or wrong; the MFT, libdatachannel, aiohttp, aiortc, PortAudio, Qt and the network are
external and modelled by what the code can see of them. The encoder's
synchronous path and its bitrate and frame-rate setters have no concurrency.
Injection of remote input and keyframe requests against encoder shutdown() are
a check and a call of the system; what the system does in between is not in
this code. The reuse of the GPU processor's eight textures depends on how many
of them the transform holds, which no code here bounds.

## 7. Plan

1. `ViewSession`'s client composed with `SignalingServer`, so that a retry can
   meet its own half-open attempt.
2. Remote input: injection against the end of a session.
3. Larger instances: three viewers of a share, four access units.
