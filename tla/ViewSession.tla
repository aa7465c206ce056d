----------------------------- MODULE ViewSession -----------------------------
(***************************************************************************)
(* The viewer's sessions: the View page (ui/pages/view.py) on the Qt       *)
(* thread, the session thread (AsyncioSessionWorker of ui/workers.py), the *)
(* coroutines run_screen_view and run_native_screen_view                   *)
(* (rtc/screen_session.py) and the dialing with retries of the signaling   *)
(* client (net/signaling_client.py).  Sessions follow each other; Qt sees  *)
(* a session only through queued signals, the session sees Qt only through *)
(* callbacks posted to its loop.                                           *)
(*                                                                         *)
(* The loop switches tasks only at an await, so an action is what one task *)
(* does between two awaits.  The sharer is whatever an attempt meets.      *)
(***************************************************************************)
EXTENDS Naturals, Sequences

CONSTANTS MaxAttempts,  \* max_attempts of connect_and_pair_with_retry
          MaxSessions,  \* bound: sessions
          MaxMoves,     \* bound: mouse moves
          MaxPosts      \* bound: callbacks waiting in call_soon_threadsafe

ASSUME ViewAssumption ==
  /\ MaxAttempts \in Nat \ {0} /\ MaxSessions \in Nat \ {0}
  /\ MaxMoves \in Nat /\ MaxPosts \in Nat \ {0}

VARIABLES
  session,  \* which session, from 1
  native,   \* which coroutine its factory made
  thread,   \* the session thread
  posted,   \* callbacks handed to the loop: "stop", "drain", "click"
  at,       \* where the session coroutine is
  attempt,  \* of connect_and_pair_with_retry
  stop,     \* stop_event
  phase,    \* state.phase
  made,     \* what the session has made and not yet closed
  sockets,  \* WebSockets it has opened and not yet closed
  peer,     \* pc.connectionState
  fault,    \* history: "none", "seen" (something failed) or "raised"
  decoded,  \* the native decoder has had a frame
  signals,  \* queued for the Qt thread: "frame", "failed", "finished"
  owed,     \* the session whose finished has yet to be emitted, or 0
  frames,   \* _ui_frame_pending
  connect,  \* the Connect button is enabled
  page,     \* _native_engine of the page: a session's, or 0
  moves,    \* mouse moves made so far
  mouse,    \* _native_mouse_pending (a move, or 0), _native_mouse_scheduled
  pointer,  \* the last move the engine has sent; 0 is the corner
  landed,   \* history: the last click: where it was aimed, where it fell
  overlap   \* history: a session began before the last one's finished

workerVars == <<session, native, thread, owed>>
bodyVars == <<at, attempt, stop, phase, made, sockets, peer, fault, decoded>>
inputVars == <<page, moves, mouse, pointer, landed>>
vars == <<workerVars, posted, bodyVars, signals, frames, connect, inputVars, overlap>>

Things == {"client", "pc", "consumer", "audio", "playback", "painter", "engine"}
Media == {"consumer", "audio", "playback", "painter"}
NoMouse == [pending |-> 0, scheduled |-> FALSE]
Callback == [kind : {"stop", "drain", "click"}, engine : 0..MaxSessions,
             aimed : 0..MaxMoves]

TypeOK ==
  /\ session \in 0..MaxSessions /\ native \in BOOLEAN
  /\ thread \in {"idle", "starting", "running", "ending", "done"}
  /\ posted \in Seq(Callback)
  /\ at \in {"dial", "backoff", "offer", "answer", "connect", "track", "first",
             "view", "recover", "closeMedia", "closePc", "closeClient", "end"}
  /\ attempt \in 0..MaxAttempts /\ stop \in BOOLEAN
  /\ phase \in {"connecting", "pairing", "reconnecting", "negotiating", "viewing",
                "waiting_for_video", "stopping", "stopped", "failed"}
  /\ made \in SUBSET Things /\ sockets \in 0..MaxAttempts
  /\ peer \in {"none", "new", "connected", "disconnected", "failed", "closed"}
  /\ fault \in {"none", "seen", "raised"} /\ decoded \in BOOLEAN
  /\ signals \in Seq([kind : {"frame", "failed", "finished"}, of : 1..MaxSessions])
  /\ owed \in 0..MaxSessions /\ frames \in {0, 1} /\ connect \in BOOLEAN
  /\ page \in 0..MaxSessions /\ moves \in 0..MaxMoves
  /\ mouse \in [pending : 0..MaxMoves, scheduled : BOOLEAN]
  /\ pointer \in 0..MaxMoves
  /\ landed \in [aimed : 0..MaxMoves, fell : 0..MaxMoves]
  /\ overlap \in BOOLEAN

Init ==
  /\ session = 0 /\ native = FALSE /\ thread = "idle" /\ owed = 0 /\ posted = <<>>
  /\ at = "end" /\ attempt = 0 /\ stop = FALSE /\ phase = "connecting"
  /\ made = {} /\ sockets = 0 /\ peer = "none" /\ fault = "none" /\ decoded = FALSE
  /\ signals = <<>> /\ frames = 0 /\ connect = TRUE
  /\ page = 0 /\ moves = 0 /\ mouse = NoMouse /\ pointer = 0
  /\ landed = [aimed |-> 0, fell |-> 0] /\ overlap = FALSE

-----------------------------------------------------------------------------
(* The Qt thread.                                                          *)

\* Mutation: both buttons stay as they are.
KeepButtons == UNCHANGED connect

\* Connect is disabled, Disconnect enabled.
TakeButtons == connect' = FALSE

\* _connect() and start(): refused while _running is set.  The message box of a
\* failure handles what is queued by then before the user gets to the button.
StartViewing ==
  /\ connect /\ thread \in {"idle", "done"} /\ session < MaxSessions
  /\ signals = <<>>
  /\ session' = session + 1 /\ thread' = "starting" /\ native' \in BOOLEAN
  /\ TakeButtons /\ frames' = 0
  /\ at' = "dial" /\ attempt' = 1 /\ stop' = FALSE /\ phase' = "connecting"
  /\ peer' = "none" /\ fault' = "none" /\ decoded' = FALSE /\ pointer' = 0
  /\ overlap' = (overlap \/ owed # 0)
  /\ UNCHANGED <<owed, posted, made, sockets, signals, page, moves, mouse, landed>>

Post(callback) == Len(posted) < MaxPosts /\ posted' = Append(posted, callback)
InputLeaves == UNCHANGED <<workerVars, bodyVars, signals, frames, connect, pointer,
                           landed, overlap>>

\* stop(); before the loop is set, and after it is gone, it does nothing.
Disconnect ==
  /\ thread = "running" /\ at # "end"
  /\ Post([kind |-> "stop", engine |-> 0, aimed |-> 0])
  /\ InputLeaves /\ UNCHANGED <<page, moves, mouse>>

\* Mutation: a move that waits is kept.
FirstMove == IF mouse.scheduled THEN mouse.pending ELSE moves + 1

\* The newest move replaces the one that waits.
NewestMove == moves + 1

\* native_input_event() of a move: one callback at a time is in the queue.  A
\* loop that is about to close takes the callback and never runs it.
MoveMouse ==
  /\ page # 0 /\ moves < MaxMoves
  /\ moves' = moves + 1
  /\ \/ /\ mouse.scheduled \/ thread = "ending"
        /\ mouse' = [pending |-> NewestMove, scheduled |-> TRUE]
        /\ UNCHANGED posted
     \/ /\ ~mouse.scheduled /\ thread = "running"
        /\ mouse' = [pending |-> NewestMove, scheduled |-> TRUE]
        /\ Post([kind |-> "drain", engine |-> 0, aimed |-> 0])
     \/ /\ ~mouse.scheduled /\ thread \in {"ending", "done"}
        /\ mouse' = [pending |-> NewestMove, scheduled |-> FALSE]
        /\ UNCHANGED posted
  /\ InputLeaves /\ UNCHANGED page

\* native_input_event() of a button, a key or the wheel: it has no position.
Click ==
  /\ page # 0 /\ thread = "running"
  /\ Post([kind |-> "click", engine |-> page, aimed |-> moves])
  /\ InputLeaves /\ UNCHANGED <<page, moves, mouse>>

\* _on_session_failed and _on_session_finished.
SessionOver ==
  /\ page' = 0 /\ mouse' = NoMouse /\ connect' = TRUE /\ UNCHANGED frames

\* _on_frame, the window's painting, and mark_frame_consumed().
PaintFrame ==
  /\ frames' = IF frames > 0 THEN frames - 1 ELSE 0
  /\ UNCHANGED <<page, mouse, connect>>

HandleSignal ==
  /\ signals # <<>>
  /\ signals' = Tail(signals)
  /\ IF Head(signals).kind = "frame" THEN PaintFrame ELSE SessionOver
  /\ UNCHANGED <<workerVars, posted, bodyVars, moves, pointer, landed, overlap>>

-----------------------------------------------------------------------------
(* The loop runs what was posted.                                          *)

\* _drain_native_mouse(): before a frame is decoded every move is the corner.
DrainMouse ==
  /\ mouse' = NoMouse
  /\ pointer' = IF page # 0 /\ mouse.pending # 0 /\ "engine" \in made
                  THEN IF decoded THEN mouse.pending ELSE 0
                  ELSE pointer
  /\ UNCHANGED landed

\* send_discrete_input(): unless the page has another engine by now.
SendClick(click) ==
  /\ landed' = IF click.engine = page /\ "engine" \in made
                 THEN [aimed |-> click.aimed, fell |-> pointer] ELSE landed
  /\ UNCHANGED <<mouse, pointer>>

RunPosted ==
  /\ posted # <<>> /\ thread = "running" /\ at # "end"
  /\ posted' = Tail(posted)
  /\ LET c == Head(posted) IN
       CASE c.kind = "stop"  -> stop' = TRUE /\ UNCHANGED <<mouse, pointer, landed>>
         [] c.kind = "drain" -> DrainMouse /\ UNCHANGED stop
         [] c.kind = "click" -> SendClick(c) /\ UNCHANGED stop
  /\ UNCHANGED <<workerVars, at, attempt, phase, made, sockets, peer, fault, decoded,
                 signals, frames, connect, page, moves, overlap>>

-----------------------------------------------------------------------------
(* The session coroutines.                                                 *)

Running == thread = "running"
Go(place) == at' = place
Quiet == UNCHANGED <<workerVars, posted, signals, frames, connect, inputVars, overlap>>

\* The body ends in phase p; the finally block begins.
Leave(p) ==
  /\ phase' = p
  /\ stop' = (stop \/ ~native)
  /\ Go(IF native THEN "closeClient" ELSE "closeMedia")

Raise == Leave("failed") /\ fault' = "raised"

\* Everything before the first wait: the checks, the client, the first dial.
BeginPython ==
  /\ thread = "starting" /\ ~native
  /\ thread' = "running"
  /\ \/ /\ made' = {"client"} /\ phase' = "pairing"
        /\ UNCHANGED <<at, stop, fault>>
     \/ Raise /\ UNCHANGED made
  /\ UNCHANGED <<session, native, owed, posted, attempt, sockets, peer, decoded,
                 signals, frames, connect, inputVars, overlap>>

\* The same with the engine, which the page is given before it is initialized.
BeginNative ==
  /\ thread = "starting" /\ native
  /\ thread' = "running" /\ page' = session
  /\ \/ /\ made' = {"engine", "client"} /\ phase' = "pairing"
        /\ UNCHANGED <<at, stop, fault>>
     \/ Raise /\ made' = {"engine"}
  /\ UNCHANGED <<session, native, owed, posted, attempt, sockets, peer, decoded,
                 signals, frames, connect, moves, mouse, pointer, landed, overlap>>

Opened == sockets' \in {sockets, sockets + 1}

\* connect_and_pair() returns.
Paired ==
  /\ Running /\ at = "dial"
  /\ sockets' = sockets + 1
  /\ Go("offer") /\ phase' = "negotiating"
  /\ UNCHANGED <<attempt, stop, made, peer, fault, decoded>> /\ Quiet

\* The sharer denies, or the failure is one of those not to be retried.
Refused ==
  /\ Running /\ at = "dial"
  /\ Opened /\ Raise
  /\ UNCHANGED <<attempt, made, peer, decoded>> /\ Quiet

\* Any other failure: the socket is closed, and the next attempt waits.
Lost ==
  /\ Running /\ at = "dial" /\ attempt < MaxAttempts
  /\ sockets' = 0
  /\ Go("backoff") /\ fault' = "seen"
  /\ phase' = IF native THEN phase ELSE "reconnecting"
  /\ UNCHANGED <<attempt, stop, made, peer, decoded>> /\ Quiet

LostForGood ==
  /\ Running /\ at = "dial" /\ attempt = MaxAttempts
  /\ Opened /\ Raise
  /\ UNCHANGED <<attempt, made, peer, decoded>> /\ Quiet

BackoffElapses ==
  /\ Running /\ at = "backoff" /\ ~stop
  /\ attempt' = attempt + 1 /\ Go("dial")
  /\ UNCHANGED <<stop, phase, made, sockets, peer, fault, decoded>> /\ Quiet

\* A stop, from before or in the wait, is an error of its own.
BackoffCancelled ==
  /\ Running /\ at = "backoff" /\ stop
  /\ Raise
  /\ UNCHANGED <<attempt, made, sockets, peer, decoded>> /\ Quiet

\* wait_offer(); the peer connection, or the engine, is given the offer.
OfferComes ==
  /\ Running /\ at = "offer"
  /\ Go("answer")
  /\ IF native THEN UNCHANGED <<made, peer>>
               ELSE made' = made \cup {"pc"} /\ peer' = "new"
  /\ UNCHANGED <<attempt, stop, phase, sockets, fault, decoded>> /\ Quiet

\* The answer is gathered and sent.
AnswerSent ==
  /\ Running /\ at = "answer"
  /\ IF native THEN Go("view") /\ phase' = "viewing"
               ELSE Go("connect") /\ UNCHANGED phase
  /\ UNCHANGED <<attempt, stop, made, sockets, peer, fault, decoded>> /\ Quiet

IceConnects ==
  /\ Running /\ at = "connect" /\ peer = "connected"
  /\ Go("track") /\ phase' = "waiting_for_video"
  /\ UNCHANGED <<attempt, stop, made, sockets, peer, fault, decoded>> /\ Quiet

\* The consumers are started on their tracks; there may be no audio, and no
\* playback of it.
TrackComes ==
  /\ Running /\ at = "track"
  /\ \E some \in {{}, {"audio"}, {"audio", "playback"}} :
       made' = made \cup {"consumer"} \cup some
  /\ Go("first")
  /\ UNCHANGED <<attempt, stop, phase, sockets, peer, fault, decoded>> /\ Quiet

\* The first frame, or a stop; the painter is made either way.
FirstFrame ==
  /\ Running /\ at = "first"
  /\ made' = made \cup {"painter"}
  /\ Go("view") /\ phase' = "viewing"
  /\ UNCHANGED <<attempt, stop, sockets, peer, fault, decoded>> /\ Quiet

\* A timeout, a broken connection or description, a device that does not open.
Fails ==
  /\ Running /\ at \in {"offer", "answer", "connect", "track", "first"}
  /\ Raise
  /\ made' \in IF at = "track"
                 THEN {made, made \cup {"consumer"}, made \cup {"consumer", "audio"}}
                 ELSE {made}
  /\ UNCHANGED <<attempt, sockets, peer, decoded>> /\ Quiet

\* The audio consumer or the playback reports its fatal error.
AudioFails ==
  /\ Running /\ at = "view" /\ ~stop /\ made \cap {"audio", "playback"} # {}
  /\ Raise
  /\ UNCHANGED <<attempt, made, sockets, peer, decoded>> /\ Quiet

\* Natively decoder_status() or get_stats() fails; the peer is not looked at.
EngineFails ==
  /\ Running /\ at = "view" /\ ~stop /\ native
  /\ Raise
  /\ UNCHANGED <<attempt, made, sockets, peer, decoded>> /\ Quiet

\* Mutation: the loop ends with the connection, not with the stop.
LoopEndsClosed ==
  /\ Running /\ at = "view" /\ stop /\ peer # "connected"
  /\ Leave(IF native THEN "stopped" ELSE "stopping")
  /\ UNCHANGED <<attempt, made, sockets, peer, fault, decoded>> /\ Quiet

LoopEnds ==
  /\ Running /\ at = "view" /\ stop
  /\ Leave(IF native THEN "stopped" ELSE "stopping")
  /\ UNCHANGED <<attempt, made, sockets, peer, fault, decoded>> /\ Quiet

Interrupted ==
  /\ Running /\ at = "view" /\ ~stop /\ peer = "disconnected"
  /\ Go("recover") /\ phase' = "reconnecting"
  /\ UNCHANGED <<attempt, stop, made, sockets, peer, fault, decoded>> /\ Quiet

Recovered ==
  /\ Running /\ at = "recover" /\ peer = "connected"
  /\ Go("view") /\ phase' = "viewing"
  /\ UNCHANGED <<attempt, stop, made, sockets, peer, fault, decoded>> /\ Quiet

\* Ten seconds pass, the connection fails, or stop is set: all three raise.
NotRecovered ==
  /\ Running /\ at = "recover"
  /\ Raise
  /\ UNCHANGED <<attempt, made, sockets, peer, decoded>> /\ Quiet

\* The painter, the playback, the consumers and the preview are waited for.
CloseMedia ==
  /\ Running /\ at = "closeMedia"
  /\ made' = made \ Media
  /\ Go(IF "pc" \in made THEN "closePc" ELSE "closeClient")
  /\ UNCHANGED <<attempt, stop, phase, sockets, peer, fault, decoded>> /\ Quiet

ClosePc ==
  /\ Running /\ at = "closePc"
  /\ made' = made \ {"pc"} /\ peer' = "closed"
  /\ Go("closeClient")
  /\ UNCHANGED <<attempt, stop, phase, sockets, fault, decoded>> /\ Quiet

\* client.close(); natively the receiver is then stopped and the engine
\* destroyed.
CloseClient ==
  /\ Running /\ at = "closeClient"
  /\ made' = made \ {"client", "engine"}
  /\ sockets' = IF sockets > 0 THEN sockets - 1 ELSE 0
  /\ phase' = IF phase = "failed" THEN "failed" ELSE "stopped"
  /\ Go("end")
  /\ UNCHANGED <<attempt, stop, peer, fault, decoded>> /\ Quiet

-----------------------------------------------------------------------------
(* The rest of the session thread, the painter and the world.              *)

Emit(kind, of) == signals' = Append(signals, [kind |-> kind, of |-> of])

\* The coroutine has returned: failed is emitted while the loop still stands.
Returns ==
  /\ Running /\ at = "end"
  /\ thread' = "ending" /\ posted' = <<>>
  /\ IF phase = "failed" THEN Emit("failed", session) ELSE UNCHANGED signals
  /\ UNCHANGED <<session, native, owed, bodyVars, frames, connect, inputVars, overlap>>

\* The loop is closed and _running reset ...
ThreadDone ==
  /\ thread = "ending"
  /\ thread' = "done" /\ owed' = session /\ frames' = 0
  /\ UNCHANGED <<session, native, posted, bodyVars, signals, connect, inputVars, overlap>>

\* ... and only then finished is emitted.
EmitFinished ==
  /\ owed # 0
  /\ Emit("finished", owed) /\ owed' = 0
  /\ UNCHANGED <<session, native, thread, posted, bodyVars, frames, connect,
                 inputVars, overlap>>

\* _emit_frames() and on_frame(): skipped while a frame waits to be painted.
EmitFrame ==
  /\ Running /\ at \in {"view", "recover"} /\ "painter" \in made /\ ~stop
  /\ frames = 0
  /\ frames' = 1
  /\ Emit("frame", session)
  /\ UNCHANGED <<workerVars, posted, bodyVars, connect, inputVars, overlap>>

\* connectionstatechange: failed sets stop_event.
PeerChanges(s) ==
  /\ peer \in {"new", "connected", "disconnected"} /\ s # peer
  /\ peer = "new" => at = "connect" /\ s # "disconnected"
  /\ peer' = s
  /\ fault' = IF s = "connected" \/ fault # "none" THEN fault ELSE "seen"
  /\ stop' = (stop \/ s = "failed")
  /\ UNCHANGED <<workerVars, posted, at, attempt, phase, made, sockets, decoded,
                 signals, frames, connect, inputVars, overlap>>

Decodes ==
  /\ Running /\ native /\ at = "view" /\ ~decoded
  /\ decoded' = TRUE
  /\ UNCHANGED <<workerVars, posted, at, attempt, stop, phase, made, sockets, peer,
                 fault, signals, frames, connect, inputVars, overlap>>

Dialing == Paired \/ Refused \/ Lost \/ LostForGood \/ BackoffElapses \/ BackoffCancelled
Meeting == OfferComes \/ AnswerSent \/ IceConnects \/ TrackComes \/ FirstFrame \/ Fails
Viewing == LoopEnds \/ Interrupted \/ Recovered \/ NotRecovered \/ AudioFails \/ EngineFails
Closing == CloseMedia \/ ClosePc \/ CloseClient \/ Returns \/ ThreadDone \/ EmitFinished

Next ==
  \/ StartViewing \/ Disconnect \/ MoveMouse \/ Click \/ HandleSignal \/ RunPosted
  \/ BeginPython \/ BeginNative \/ Dialing \/ Meeting \/ Viewing \/ Closing
  \/ EmitFrame \/ Decodes
  \/ \E s \in {"connected", "disconnected", "failed"} : PeerChanges(s)

(***************************************************************************)
(* The threads run.  An attempt ends one way or another: the sharer's      *)
(* handler answers or gives up (module SignalingServer), and a dead link   *)
(* is found by the 30 s heartbeat; every later wait has a timeout.  The    *)
(* user, the network and the decoder need not ever act.                    *)
(***************************************************************************)
Fairness ==
  /\ WF_vars(BeginPython \/ BeginNative) /\ WF_vars(RunPosted)
  /\ WF_vars(Dialing \/ Meeting \/ LoopEnds \/ NotRecovered \/ Closing)
  /\ WF_vars(HandleSignal)

Spec == Init /\ [][Next]_vars /\ Fairness

-----------------------------------------------------------------------------
\* While a session is up its Connect button is off - unless it was started in
\* the moment between _running = False and the finished signal of the last one,
\* whose handler then takes the buttons and the engine from it.
ButtonsFollow == connect => thread \notin {"starting", "running"} \/ overlap

\* A click never falls behind the pointer: the newest move made before it is
\* sent before it, or a later one is (or the corner, with nothing decoded).
ClickNotBehind == landed.fell # 0 => landed.fell >= landed.aimed

\* A stop that has reached the loop ends the session, in a dial, in a backoff,
\* waiting for a track or in a recovery.
DisconnectEnds == (posted # <<>> /\ Head(posted).kind = "stop") ~> thread = "done"
=============================================================================
