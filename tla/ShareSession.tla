---------------------------- MODULE ShareSession ----------------------------
(***************************************************************************)
(* One share session from Start to its last signal: the Qt thread's Start, *)
(* Stop and approval dialog (ui/main_window.py, ui/share_controller.py),   *)
(* the session thread and its event loop (AsyncioSessionWorker of          *)
(* ui/workers.py), the two session coroutines run_screen_share and         *)
(* run_native_screen_share (rtc/screen_session.py), and the connection     *)
(* handlers of the signaling server as far as they touch the session: the  *)
(* approval callback and offer_factory.  Module SignalingServer has the    *)
(* handshake itself.                                                       *)
(*                                                                         *)
(* The event loop switches tasks only at an await, so an action is what    *)
(* one task does between two awaits.                                       *)
(***************************************************************************)
EXTENDS Naturals, Sequences

CONSTANTS Viewers,   \* who may come with the right code
          NoViewer,
          MaxPosts   \* bound: callbacks waiting in call_soon_threadsafe

ASSUME ShareAssumption == NoViewer \notin Viewers /\ MaxPosts \in Nat \ {0}

VARIABLES
  native,   \* which coroutine the factory made
  thread,   \* the session thread
  posted,   \* callbacks handed to the loop: "stop", "yes", "no"
  at,       \* where the session coroutine is
  stop,     \* stop_event
  phase,    \* state.phase
  made,     \* what the session has made and not yet closed
  peer,     \* connection state of pc, or of the native transport
  fault,    \* history: "none", "seen" (the link broke) or "raised"
  server,   \* "off", "up", "closing" (ws and site closed) or "closed"
  taken,    \* _viewer_taken
  spent,    \* the code is consumed
  answer,   \* the answer future is resolved
  stage,    \* [Viewers -> how far the viewer's handler has come]
  future,   \* _approval_future, with its result
  signals,  \* approval_requested signals queued for the Qt thread
  dialog,   \* the viewer on the open approval dialog
  lapsed,   \* history: viewers whose request ended without their dialog
  granted,  \* history: <<admitted, shown>>: who was let in by which dialog
  late      \* history: the approval callback ran after server.close() began

workerVars == <<native, thread>>
bodyVars == <<at, stop, phase, made, peer, fault>>
serverVars == <<server, taken, spent, answer, stage>>
dialogVars == <<future, signals, dialog, lapsed, granted, late>>
vars == <<workerVars, posted, bodyVars, serverVars, dialogVars>>

Things == {"capture", "track", "audio", "a_track", "pc", "server", "engine"}
Phases == {"idle", "starting", "waiting_for_viewer", "awaiting_approval",
           "negotiating", "sharing", "reconnecting", "stopping", "stopped",
           "failed"}
Pending == [shown |-> NoViewer, state |-> "pending"]
NoFuture == [shown |-> NoViewer, state |-> "none"]
Handled == {"pairing", "approval", "offering", "offered"}

TypeOK ==
  /\ native \in BOOLEAN
  /\ thread \in {"idle", "starting", "running", "done"}
  /\ posted \in Seq([kind : {"stop", "yes", "no"}, shown : Viewers \cup {NoViewer}])
  /\ at \in {"setup", "bind", "waiting", "connect", "share", "recover",
             "closePc", "closeServer", "end"}
  /\ stop \in BOOLEAN /\ phase \in Phases /\ made \in SUBSET Things
  /\ peer \in {"none", "new", "connected", "disconnected", "failed", "closed"}
  /\ fault \in {"none", "seen", "raised"}
  /\ server \in {"off", "up", "closing", "closed"}
  /\ taken \in BOOLEAN /\ spent \in BOOLEAN /\ answer \in BOOLEAN
  /\ stage \in [Viewers -> Handled \cup {"away", "done"}]
  /\ future \in [shown : Viewers \cup {NoViewer},
                 state : {"none", "pending", "yes", "no"}]
  /\ signals \in Seq(Viewers)
  /\ dialog \in Viewers \cup {NoViewer}
  /\ lapsed \in SUBSET Viewers
  /\ granted \in SUBSET (Viewers \X Viewers)
  /\ late \in BOOLEAN

Init ==
  /\ native \in BOOLEAN /\ thread = "idle" /\ posted = <<>>
  /\ at = "setup" /\ stop = FALSE /\ phase = "idle" /\ made = {}
  /\ peer = "none" /\ fault = "none"
  /\ server = "off" /\ taken = FALSE /\ spent = FALSE /\ answer = FALSE
  /\ stage = [v \in Viewers |-> "away"]
  /\ future = NoFuture /\ signals = <<>> /\ dialog = NoViewer
  /\ lapsed = {} /\ granted = {} /\ late = FALSE

-----------------------------------------------------------------------------
(* The Qt thread and the worker.                                           *)

StartSharing ==
  /\ thread = "idle"
  /\ thread' = "starting"
  /\ UNCHANGED <<native, posted, bodyVars, serverVars, dialogVars>>

\* _thread_main has set _loop and _stop_event and enters the coroutine.
ThreadRuns ==
  /\ thread = "starting"
  /\ thread' = "running" /\ phase' = "starting"
  /\ UNCHANGED <<native, posted, at, stop, made, peer, fault, serverVars,
                 dialogVars>>

Post(kind, v) ==
  /\ Len(posted) < MaxPosts
  /\ posted' = Append(posted, [kind |-> kind, shown |-> v])

\* stop(); before the loop is set, and after it is gone, it does nothing.
StopSharing ==
  /\ thread = "running"
  /\ Post("stop", NoViewer)
  /\ UNCHANGED <<workerVars, bodyVars, serverVars, dialogVars>>

\* _on_approval_requested: a request that finds a dialog open is ignored.
ShowDialog ==
  /\ signals # <<>>
  /\ dialog' = IF dialog = NoViewer THEN Head(signals) ELSE dialog
  /\ signals' = Tail(signals)
  /\ UNCHANGED <<workerVars, posted, bodyVars, serverVars, future, lapsed, granted,
                 late>>

\* The user answers the dialog; respond_approval names no request.
AnswerDialog(kind) ==
  /\ dialog # NoViewer
  /\ dialog' = NoViewer
  /\ IF thread = "running" THEN Post(kind, dialog) ELSE UNCHANGED posted
  /\ UNCHANGED <<workerVars, bodyVars, serverVars, future, signals, lapsed, granted,
                 late>>

Resolve(kind, v) ==
  future' = IF future.state = "pending" THEN [shown |-> v, state |-> kind] ELSE future

\* Mutation: _set leaves stop_event alone while an approval is pending.
RunPostedEither ==
  /\ posted # <<>> /\ thread = "running"
  /\ posted' = Tail(posted)
  /\ LET p == Head(posted) IN
       IF p.kind = "stop"
         THEN Resolve("no", NoViewer) /\ stop' = (stop \/ future.state # "pending")
         ELSE Resolve(p.kind, p.shown) /\ UNCHANGED stop
  /\ UNCHANGED <<workerVars, at, phase, made, peer, fault, serverVars, signals,
                 dialog, lapsed, granted, late>>

\* The loop runs _set of stop(), or _resolve of respond_approval().
RunPosted ==
  /\ posted # <<>> /\ thread = "running"
  /\ posted' = Tail(posted)
  /\ LET p == Head(posted) IN
       IF p.kind = "stop"
         THEN Resolve("no", NoViewer) /\ stop' = TRUE
         ELSE Resolve(p.kind, p.shown) /\ UNCHANGED stop
  /\ UNCHANGED <<workerVars, at, phase, made, peer, fault, serverVars, signals,
                 dialog, lapsed, granted, late>>

-----------------------------------------------------------------------------
(* The connection handlers.                                                *)

HandlerEnds(v) == stage' = [stage EXCEPT ![v] = "done"]

\* Mutation: the slot is not looked at.
ConnectAnyway(v) ==
  /\ server = "up" /\ stage[v] = "away"
  /\ stage' = [stage EXCEPT ![v] = "pairing"] /\ taken' = TRUE
  /\ UNCHANGED <<workerVars, posted, bodyVars, server, spent, answer, dialogVars>>

\* A connection that finds the slot free: hello and the challenge follow.
Connect(v) ==
  /\ server = "up" /\ ~taken /\ stage[v] = "away"
  /\ stage' = [stage EXCEPT ![v] = "pairing"] /\ taken' = TRUE
  /\ UNCHANGED <<workerVars, posted, bodyVars, server, spent, answer, dialogVars>>

\* The viewer leaves, its code is refused, or close() has closed its connection.
PairingEnds(v) ==
  /\ stage[v] = "pairing"
  /\ HandlerEnds(v) /\ taken' = FALSE
  /\ UNCHANGED <<workerVars, posted, bodyVars, server, spent, answer, dialogVars>>

\* The approval callback: state, request_approval's future and its signal.
AsksApproval(v) ==
  /\ phase' = "awaiting_approval" /\ future' = Pending
  /\ signals' = Append(signals, v)

\* The right code, also one that was received when close() began.
Arrive(v) ==
  /\ stage[v] = "pairing" /\ ~spent
  /\ stage' = [stage EXCEPT ![v] = "approval"]
  /\ AsksApproval(v) /\ late' = (late \/ server # "up")
  /\ UNCHANGED <<workerVars, posted, at, stop, made, peer, fault, server, taken,
                 spent, answer, dialog, lapsed, granted>>

\* approval_timeout_s elapses, or runner.cleanup() cancels the handler.
Lapse(v) ==
  /\ stage[v] = "approval"
  /\ HandlerEnds(v) /\ taken' = FALSE
  /\ future' = NoFuture /\ lapsed' = lapsed \cup {v}
  /\ UNCHANGED <<workerVars, posted, bodyVars, server, spent, answer, signals,
                 dialog, granted, late>>

Denied(v) ==
  /\ stage[v] = "approval" /\ future.state = "no"
  /\ HandlerEnds(v) /\ taken' = FALSE /\ future' = NoFuture
  /\ lapsed' = IF future.shown = v THEN lapsed ELSE lapsed \cup {v}
  /\ UNCHANGED <<workerVars, posted, bodyVars, server, spent, answer, signals,
                 dialog, granted, late>>

\* The future is resolved, the code consumed, but "ok" cannot be sent.
ApprovedInVain(v) ==
  /\ stage[v] = "approval" /\ future.state = "yes"
  /\ HandlerEnds(v) /\ taken' = FALSE /\ spent' = TRUE /\ future' = NoFuture
  /\ granted' = granted \cup {<<v, future.shown>>}
  /\ UNCHANGED <<workerVars, posted, bodyVars, server, answer, signals, dialog,
                 lapsed, late>>

\* What offer_factory does before it first waits.
MakePc == made' = made \cup {"pc"} /\ UNCHANGED phase
ConnectEngine == phase' = "negotiating" /\ UNCHANGED made

\* "ok" is sent, and offer_factory is called.
Approved(v) ==
  /\ stage[v] = "approval" /\ future.state = "yes" /\ server = "up"
  /\ stage' = [stage EXCEPT ![v] = "offering"]
  /\ spent' = TRUE /\ future' = NoFuture
  /\ granted' = granted \cup {<<v, future.shown>>}
  /\ peer' = "new"
  /\ IF native THEN ConnectEngine ELSE MakePc
  /\ UNCHANGED <<workerVars, posted, at, stop, fault, server, taken, answer,
                 signals, dialog, lapsed, late>>

\* The description is gathered and, the connection permitting, sent.
OfferReady(v) ==
  /\ stage[v] = "offering"
  /\ stage' = [stage EXCEPT ![v] = IF server = "up" THEN "offered" ELSE "done"]
  /\ phase' = IF native THEN phase ELSE "negotiating"
  /\ UNCHANGED <<workerVars, posted, at, stop, made, peer, fault, server, taken,
                 spent, answer, dialogVars>>

\* Gathering times out, pc is closed under it, or stop ends the native wait.
OfferFails(v) ==
  /\ stage[v] = "offering"
  /\ HandlerEnds(v)
  /\ UNCHANGED <<workerVars, posted, bodyVars, server, taken, spent, answer,
                 dialogVars>>

RecvAnswer(v) ==
  /\ stage[v] = "offered" /\ ~answer /\ server = "up"
  /\ answer' = TRUE
  /\ UNCHANGED <<workerVars, posted, bodyVars, server, taken, spent, stage,
                 dialogVars>>

\* The viewer leaves, or close() has closed its connection.
HandlerLeaves(v) ==
  /\ stage[v] = "offered"
  /\ HandlerEnds(v)
  /\ UNCHANGED <<workerVars, posted, bodyVars, server, taken, spent, answer,
                 dialogVars>>

\* connectionstatechange: failed sets stop_event (the Python transport only).
PeerChanges(s) ==
  /\ peer \in {"new", "connected", "disconnected"} /\ s # peer /\ s # "new"
  /\ peer = "new" => answer /\ at = "connect" /\ s # "disconnected"
  /\ peer' = s
  /\ fault' = IF s = "connected" \/ fault # "none" THEN fault ELSE "seen"
  /\ stop' = (stop \/ (s = "failed" /\ ~native))
  /\ UNCHANGED <<workerVars, posted, at, phase, made, serverVars, dialogVars>>

-----------------------------------------------------------------------------
(* The session coroutines.                                                 *)

Running == thread = "running"
Go(place) == at' = place
Quiet == UNCHANGED <<workerVars, posted, taken, spent, answer, stage, dialogVars>>

\* server.close() begins: no new connections, and the open one is closed.
BeginClose == server' = IF server = "off" THEN "off" ELSE "closing"

\* Mutation: the tracks, pc and server are looked at only after a wait.
LeaveLate(p, things) ==
  /\ phase' = p
  /\ stop' = (stop \/ ~native)
  /\ made' = things \ {"track", "a_track"}
  /\ Go(IF "pc" \in things THEN "closePc" ELSE "closeServer")
  /\ UNCHANGED server

\* The body ends in phase p, and the finally block runs to its first wait.
Leave(p, things) ==
  /\ phase' = p
  /\ stop' = (stop \/ ~native)
  /\ made' = things \ {"track", "a_track"}
  /\ IF "pc" \in things THEN Go("closePc") /\ UNCHANGED server
                        ELSE Go("closeServer") /\ BeginClose

Raise(things) == Leave("failed", things) /\ fault' = "raised"

\* Capture, its track, the loopback and its track: any of them may fail, and
\* there may be no audio.
SetupPython ==
  /\ Running /\ at = "setup" /\ ~native
  /\ \/ /\ made' \in {{"capture", "track"}, {"capture", "track", "audio", "a_track"}}
        /\ Go("bind")
        /\ UNCHANGED <<stop, phase, fault, server>>
     \/ \E some \in {{}, {"capture"}, {"capture", "track"}} : Raise(some)
  /\ UNCHANGED peer /\ Quiet

SetupNative ==
  /\ Running /\ at = "setup" /\ native
  /\ \/ /\ made' = {"engine"} /\ Go("bind")
        /\ UNCHANGED <<stop, phase, fault, server>>
     \/ Raise({"engine"})
  /\ UNCHANGED peer /\ Quiet

\* await server.start()
Bind ==
  /\ Running /\ at = "bind"
  /\ \/ /\ server' = "up" /\ phase' = "waiting_for_viewer"
        /\ made' = made \cup {"server"}
        /\ Go("waiting")
        /\ UNCHANGED <<stop, fault>>
     \/ Raise(made \cup {"server"})
  /\ UNCHANGED peer /\ Quiet

\* Mutation: the early return for a stop without an answer is missing.
StopWaitingAsserts ==
  /\ Running /\ at = "waiting" /\ stop
  /\ Leave(IF "pc" \in made THEN "stopped" ELSE "failed", made)
  /\ UNCHANGED <<peer, fault>> /\ Quiet

\* wait_answer() polls out and the loop finds stop set.
StopWaiting ==
  /\ Running /\ at = "waiting" /\ stop
  /\ Leave("stopped", made)
  /\ UNCHANGED <<peer, fault>> /\ Quiet

\* wait_answer() returns; the remote description is set.
TakeAnswer ==
  /\ Running /\ at = "waiting" /\ answer
  /\ Go("connect")
  /\ UNCHANGED <<stop, phase, made, peer, fault, server>> /\ Quiet

ShareBegins ==
  /\ Running /\ at = "connect" /\ peer = "connected"
  /\ Go("share") /\ phase' = "sharing"
  /\ UNCHANGED <<stop, made, peer, fault, server>> /\ Quiet

\* The description is refused or ice_connection_s runs out; stop is not
\* looked at.
ShareFails ==
  /\ Running /\ at = "connect"
  /\ Raise(made)
  /\ UNCHANGED peer /\ Quiet

\* wait_ice_connected(), and the loop around start_stream().
IceConnected == ~native /\ ShareBegins
IceFails == ~native /\ ShareFails
StreamStarts == native /\ ShareBegins
StreamFails == native /\ ShareFails

\* while not stop.is_set(): the sharing loop ends.
LoopEnds ==
  /\ Running /\ at = "share" /\ stop /\ ~native
  /\ Leave("stopping", made)
  /\ UNCHANGED <<peer, fault>> /\ Quiet

NativeLoopEnds ==
  /\ Running /\ at = "share" /\ stop /\ native
  /\ Leave("stopped", made)
  /\ UNCHANGED <<peer, fault>> /\ Quiet

MediaLost ==
  /\ Running /\ at = "share" /\ ~stop
  /\ Raise(made)
  /\ UNCHANGED peer /\ Quiet

\* Capture, loopback or the local address is lost; natively, the capture.
MediaFails == ~native /\ MediaLost
CaptureLost == native /\ MediaLost

Reconnect ==
  /\ Running /\ at = "share" /\ ~stop /\ ~native /\ peer = "disconnected"
  /\ Go("recover") /\ phase' = "reconnecting"
  /\ UNCHANGED <<stop, made, peer, fault, server>> /\ Quiet

Recovered ==
  /\ Running /\ at = "recover" /\ peer = "connected"
  /\ Go("share") /\ phase' = "sharing"
  /\ UNCHANGED <<stop, made, peer, fault, server>> /\ Quiet

\* Ten seconds pass, the connection fails, or stop is set: all three raise.
NotRecovered ==
  /\ Running /\ at = "recover"
  /\ Raise(made)
  /\ UNCHANGED peer /\ Quiet

\* pc.close() ends or is given up; then server.close() begins.
ClosePc ==
  /\ Running /\ at = "closePc"
  /\ made' = made \ {"pc"} /\ peer' = "closed"
  /\ Go("closeServer") /\ BeginClose
  /\ UNCHANGED <<stop, phase, fault>> /\ Quiet

\* server.close() has waited for every handler; the rest needs no wait.
Closed(gone) ==
  /\ Running /\ at = "closeServer"
  /\ \A v \in Viewers : stage[v] \notin Handled
  /\ server' = IF server = "off" THEN "off" ELSE "closed"
  /\ made' = made \ gone
  /\ Go("end")
  /\ UNCHANGED <<stop, fault>> /\ Quiet

ClosePython ==
  /\ ~native /\ Closed({"server", "capture", "audio"})
  /\ phase' = IF phase = "failed" THEN "failed" ELSE "stopped"
  /\ UNCHANGED peer

CloseNative ==
  /\ native /\ Closed({"server", "engine"})
  /\ peer' = "closed" /\ UNCHANGED phase

\* The coroutine returns; _thread_main cancels what is left and signals.
ThreadEnds ==
  /\ Running /\ at = "end"
  /\ thread' = "done" /\ posted' = <<>> /\ future' = NoFuture
  /\ UNCHANGED <<native, bodyVars, serverVars, signals, dialog, lapsed, granted,
                 late>>

-----------------------------------------------------------------------------
Body ==
  \/ SetupPython \/ SetupNative \/ Bind \/ StopWaiting \/ TakeAnswer
  \/ IceConnected \/ IceFails \/ StreamStarts \/ StreamFails
  \/ LoopEnds \/ NativeLoopEnds \/ MediaFails \/ CaptureLost
  \/ Reconnect \/ Recovered \/ NotRecovered
  \/ ClosePc \/ ClosePython \/ CloseNative \/ ThreadEnds

Handler(v) ==
  \/ PairingEnds(v) \/ Lapse(v) \/ Denied(v) \/ ApprovedInVain(v) \/ Approved(v)
  \/ OfferReady(v) \/ OfferFails(v) \/ HandlerLeaves(v)

Next ==
  \/ StartSharing \/ ThreadRuns \/ StopSharing \/ ShowDialog
  \/ \E kind \in {"yes", "no"} : AnswerDialog(kind)
  \/ RunPosted
  \/ Body
  \/ \E v \in Viewers : Connect(v) \/ Arrive(v) \/ Handler(v) \/ RecvAnswer(v)
  \/ \E s \in {"connected", "disconnected", "failed"} : PeerChanges(s)

(***************************************************************************)
(* The loop runs what is posted and resumes the coroutine: every wait of   *)
(* the body is a poll or has a timeout, and the coroutine leaves the       *)
(* sharing loop when stop is set.  Once the server closes, its handlers    *)
(* end: runner.cleanup() cancels those that do not.  Nothing else is fair: *)
(* neither the user, nor a viewer, nor the network need ever act.          *)
(***************************************************************************)
Fairness ==
  /\ WF_vars(RunPosted)
  /\ WF_vars(Body /\ (stop \/ at # "share"))
  /\ \A v \in Viewers : WF_vars(server = "closing" /\ Handler(v))

Spec == Init /\ [][Next]_vars /\ Fairness

-----------------------------------------------------------------------------
\* When the session's thread has ended, everything the session made has been
\* closed - also a peer connection that offer_factory made while the finally
\* block was under way - and no handler is left.
NothingLeft ==
  thread = "done" => /\ made = {}
                     /\ \A v \in Viewers : stage[v] \notin Handled

\* A viewer is let in by the dialog that showed it.  The one exception: the
\* dialog was still open for a viewer whose own request had already ended,
\* by its timeout or by a stop; the next viewer then gets that answer.
ApprovalMeant ==
  \A g \in granted : g[1] # g[2] => g[2] \in lapsed

\* The outcome is true: a session whose body raised is reported as failed,
\* and one in which nothing failed as stopped, whatever the finally block and
\* the handlers did to the phase meanwhile.  The one exception: natively the
\* approval callback may still run while server.close() waits for it, and
\* nothing then replaces the "awaiting_approval" it sets.
OutcomeTrue ==
  thread = "done" => /\ \/ phase \in {"stopped", "failed"}
                        \/ native /\ late /\ phase = "awaiting_approval"
                     /\ fault = "none" => phase # "failed"
                     /\ fault = "raised" => phase = "failed"

\* A stop that has reached the loop ends the session: its thread finishes,
\* also with a dialog open, a viewer half admitted or a peer that is gone.
StopEndsSession == (posted # <<>> /\ Head(posted).kind = "stop") ~> thread = "done"
=============================================================================
