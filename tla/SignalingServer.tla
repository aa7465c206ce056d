--------------------------- MODULE SignalingServer ---------------------------
(***************************************************************************)
(* The sharer's WebSocket signaling server                                 *)
(* (src/src/snowlink/net/signaling_server.py, WsSignalingServer): the one  *)
(* viewer slot, the pairing handshake, the sharer's approval, the offer,   *)
(* the answer and close().                                                 *)
(*                                                                         *)
(* Every connection is served by a coroutine of its own; all of them run   *)
(* on one event loop, so what a handler does between two awaits is one     *)
(* action, and at[c] names the await the handler of c is suspended in.     *)
(* A send is part of the segment that makes it: it fails when the peer is  *)
(* known to be gone, and may go either way while a loss is unnoticed.      *)
(***************************************************************************)
EXTENDS PairingAuthority, FiniteSets

CONSTANTS AutoApprove,    \* auto_approve: no human decision is asked for
          PrepareYields   \* ws.prepare() may suspend (the transport is
                          \* paused), or always returns at once
ASSUME ServerAssumption == AutoApprove \in BOOLEAN /\ PrepareYields \in BOOLEAN

VARIABLES
  at,            \* where the handler of a connection is suspended
  link,          \* the connection's transport
  outcome,       \* the verdict the peer was sent: pairing_result, or the error
  viewerTaken,   \* _viewer_taken
  wsCur,         \* _ws: the connection close() would close
  state,         \* _state, the SignalingState label
  closed,        \* _closed
  closing,       \* where close() is: "no", "socket", "cleanup" or "over"
  authenticated, \* the _authenticated event
  secret,        \* _session_secret, as the connection it was made for
  peer,          \* run_screen_share's pc: the connection it was made for
  answerState,   \* _answer_future: absent, created or resolved
  answerBy       \* the connection whose answer resolved it

slotVars == <<viewerTaken, wsCur, state>>
closeVars == <<closed, closing>>
mediaVars == <<authenticated, secret, peer, answerState, answerBy>>
serverVars == <<at, link, outcome, slotVars, closeVars, mediaVars>>
vars == <<authorityVars, serverVars>>

States == {"closed", "listening", "handshake", "authenticating",
           "media_signaling", "closing"}
ClosingStates == {"closing", "closed"}

(***************************************************************************)
(* AUTHENTICATED is left again before the next await, so of the two labels *)
(* of MEDIA_READY_STATES only MEDIA_SIGNALING is ever read.                *)
(***************************************************************************)
MediaReady == {"media_signaling"}

Receiving == {"hello", "response", "media"}   \* suspended in ws.receive()
InSession == Receiving \cup {"approval", "offer"}
Verdicts == {"ok", "denied", "invalid", "expired", "rate_limited",
             "slot_taken"}

TypeOK ==
  /\ AuthorityTypeOK
  /\ at \in [Conns -> InSession \cup {"idle", "prepare", "cancelled", "done"}]
  /\ link \in [Conns -> {"up", "gone", "closed"}]
  /\ outcome \in [Conns -> Verdicts \cup {"none"}]
  /\ viewerTaken \in BOOLEAN
  /\ wsCur \in Conns \cup {NoConn}
  /\ state \in States
  /\ closed \in BOOLEAN
  /\ closing \in {"no", "socket", "cleanup", "over"}
  /\ authenticated \in BOOLEAN
  /\ secret \in Conns \cup {NoConn}
  /\ peer \in Conns \cup {NoConn}
  /\ answerState \in {"none", "pending", "set"}
  /\ answerBy \in Conns \cup {NoConn}

Init ==
  /\ AuthorityInit
  /\ at = [c \in Conns |-> "idle"]
  /\ link = [c \in Conns |-> "up"]
  /\ outcome = [c \in Conns |-> "none"]
  /\ viewerTaken = FALSE
  /\ wsCur = NoConn
  /\ state = "closed"
  /\ closed = FALSE
  /\ closing = "no"
  /\ authenticated = FALSE
  /\ secret = NoConn
  /\ peer = NoConn
  /\ answerState = "none"
  /\ answerBy = NoConn

-----------------------------------------------------------------------------
(* Sending, moving on, and the handler's finally block.                    *)

MoveTo(c, place) == at' = [at EXCEPT ![c] = place]

\* A message leaves for c, whether or not c is still there to read it.
Tell(c, verdict) ==
  /\ link[c] # "closed"
  /\ outcome' = [outcome EXCEPT ![c] = verdict]

Sent(c) == link[c] # "closed" /\ UNCHANGED outcome

\* send_str raises: the connection is known to be gone, or was closed here.
SendFails(c) == link[c] # "up" /\ UNCHANGED outcome

\* Mutation: the finally block frees the slot of an authenticated viewer too.
EndAlwaysFrees(c, taken) ==
  /\ MoveTo(c, "done")
  /\ wsCur' = NoConn
  /\ viewerTaken' = FALSE
  /\ state' = IF state \in ClosingStates THEN state ELSE "listening"

\* Mutation: the finally block sets the label whatever close() has made of it.
EndRelabels(c, taken) ==
  /\ MoveTo(c, "done")
  /\ wsCur' = NoConn
  /\ viewerTaken' = (authenticated /\ taken)
  /\ state' = "listening"

\* The finally block of _ws_handler, entered with _viewer_taken = taken.
EndSession(c, taken) ==
  /\ MoveTo(c, "done")
  /\ wsCur' = NoConn
  /\ viewerTaken' = (authenticated /\ taken)
  /\ state' = IF state \in ClosingStates THEN state ELSE "listening"

-----------------------------------------------------------------------------
(* start() and the two entries of _ws_handler.                             *)

Start ==
  /\ state = "closed" /\ ~closed
  /\ state' = "listening"
  /\ UNCHANGED <<authorityVars, at, link, outcome, viewerTaken, wsCur, closeVars,
                 mediaVars>>

\* The port is taken: start() calls close() and raises.
BindFails ==
  /\ state = "closed" /\ ~closed
  /\ closed' = TRUE /\ closing' = "over"
  /\ UNCHANGED <<authorityVars, at, link, outcome, slotVars, mediaVars>>

CanConnect(c) == at[c] = "idle" /\ ~closed /\ state # "closed"

\* Mutation: the rejected connection runs the finally block as well.
RejectFreesSlot(c) ==
  /\ CanConnect(c)
  /\ viewerTaken
  /\ Tell(c, "slot_taken")
  /\ EndSession(c, FALSE)
  /\ UNCHANGED <<authorityVars, link, closeVars, mediaVars>>

\* The slot is taken: error VIEWER_SLOT_TAKEN, then close.
Reject(c) ==
  /\ CanConnect(c)
  /\ viewerTaken
  /\ MoveTo(c, "done")
  /\ Tell(c, "slot_taken")
  /\ UNCHANGED <<authorityVars, link, slotVars, closeVars, mediaVars>>

TakeSlot(c) ==
  /\ MoveTo(c, "hello")
  /\ viewerTaken' = TRUE
  /\ wsCur' = c
  /\ state' = "handshake"
  /\ UNCHANGED <<authorityVars, link, outcome, closeVars, mediaVars>>

\* Mutation: the slot is not looked at.
AcceptUnchecked(c) == CanConnect(c) /\ TakeSlot(c)

\* The slot is free, and ws.prepare() returns without suspending.
Accept(c) ==
  /\ CanConnect(c)
  /\ ~viewerTaken
  /\ TakeSlot(c)

\* The slot is free, but ws.prepare() suspends before the slot is taken.
SuspendInPrepare(c) ==
  /\ PrepareYields
  /\ CanConnect(c)
  /\ ~viewerTaken
  /\ MoveTo(c, "prepare")
  /\ UNCHANGED <<authorityVars, link, outcome, slotVars, closeVars, mediaVars>>

ResumePrepare(c) ==
  /\ at[c] = "prepare"
  /\ TakeSlot(c)

-----------------------------------------------------------------------------
(* _run_session, one action per await that really waits.  It does not look *)
(* at _closed: a message that had been received when close() began is      *)
(* still processed, and only the sends fail.                               *)

\* hello arrives: hello_ack, issue_challenge, pairing_challenge.
RecvHello(c) ==
  /\ at[c] = "hello"
  /\ IssueChallenge(c)
  /\ \/ /\ Sent(c)
        /\ MoveTo(c, "response")
        /\ state' = "authenticating"
        /\ UNCHANGED <<viewerTaken, wsCur>>
     \/ SendFails(c) /\ EndSession(c, viewerTaken)
  /\ UNCHANGED <<link, closeVars, mediaVars>>

\* hello arrives too late, or hello_ack cannot be sent: no challenge.
HelloRefused(c) ==
  /\ at[c] = "hello"
  /\ (expired /\ Tell(c, "expired")) \/ SendFails(c)
  /\ EndSession(c, viewerTaken)
  /\ UNCHANGED <<authorityVars, link, closeVars, mediaVars>>

(***************************************************************************)
(* The sharer approves (or auto_approve): the secret is made and the code  *)
(* spent BEFORE the result is sent; the rest happens only if the send      *)
(* succeeds.  offer_factory refuses when a peer connection exists.         *)
(***************************************************************************)
Approve(c) ==
  /\ secret' = c
  /\ MarkConsumed
  /\ \/ /\ Tell(c, "ok")
        /\ authenticated' = TRUE
        /\ answerState' = "pending"
        /\ answerBy' = NoConn
        /\ IF peer = NoConn
             THEN /\ peer' = c
                  /\ MoveTo(c, "offer")
                  /\ state' = "media_signaling"
                  /\ UNCHANGED <<viewerTaken, wsCur>>
             ELSE /\ MoveTo(c, "done")
                  /\ wsCur' = NoConn
                  /\ state' = "listening"
                  /\ UNCHANGED <<viewerTaken, peer>>
     \/ /\ SendFails(c)
        /\ EndSession(c, viewerTaken)
        /\ UNCHANGED <<authenticated, peer, answerState, answerBy>>
  /\ UNCHANGED <<link, closeVars>>

\* pairing_response with a right code and the current nonce.
ResponseAccepted(c, codeOk, n) ==
  /\ at[c] = "response"
  /\ Status(AddrOf[c], codeOk, n) = "ok"
  /\ IF AutoApprove
       THEN Approve(c)
       ELSE /\ MoveTo(c, "approval")
            /\ ValidateResponse(AddrOf[c], codeOk, n)
            /\ UNCHANGED <<link, outcome, slotVars, closeVars, mediaVars>>

\* Any other pairing_response: the verdict is sent and the slot given back.
ResponseRefused(c, codeOk, n) ==
  /\ at[c] = "response"
  /\ Status(AddrOf[c], codeOk, n) # "ok"
  /\ ValidateResponse(AddrOf[c], codeOk, n)
  /\ \/ Tell(c, Status(AddrOf[c], codeOk, n)) /\ EndSession(c, FALSE)
     \/ SendFails(c) /\ EndSession(c, viewerTaken)
  /\ UNCHANGED <<link, closeVars, mediaVars>>

SharerApproves(c) == at[c] = "approval" /\ Approve(c)

\* Mutation: the timeout is acted on only while the viewer is connected.
DenyNeedsPeer(c) ==
  /\ at[c] = "approval"
  /\ link[c] = "up"
  /\ Tell(c, "denied")
  /\ EndSession(c, FALSE)
  /\ UNCHANGED <<authorityVars, link, closeVars, mediaVars>>

\* The sharer says no, or approval_timeout_s elapses.
Deny(c) ==
  /\ at[c] = "approval"
  /\ \/ Tell(c, "denied") /\ EndSession(c, FALSE)
     \/ SendFails(c) /\ EndSession(c, viewerTaken)
  /\ UNCHANGED <<authorityVars, link, closeVars, mediaVars>>

\* offer_factory returns; the offer is sent and the media loop begins.
OfferReady(c) ==
  /\ at[c] = "offer"
  /\ \/ Sent(c) /\ MoveTo(c, "media") /\ UNCHANGED slotVars
     \/ SendFails(c) /\ EndSession(c, viewerTaken)
  /\ UNCHANGED <<authorityVars, link, closeVars, mediaVars>>

\* offer_factory raises (ICE gathering times out): the peer stays made.
OfferFails(c) ==
  /\ at[c] = "offer"
  /\ EndSession(c, viewerTaken)
  /\ UNCHANGED <<authorityVars, link, outcome, closeVars, mediaVars>>

\* Mutation: an answer is taken in any phase of the session.
RecvAnswerEarly(c) ==
  /\ at[c] \in Receiving
  /\ link[c] # "closed"
  /\ answerState = "pending"
  /\ answerState' = "set"
  /\ answerBy' = c
  /\ UNCHANGED <<authorityVars, at, link, outcome, slotVars, closeVars,
                 authenticated, secret, peer>>

\* The first answer after authentication resolves the future.
RecvAnswer(c) ==
  /\ at[c] = "media"
  /\ state \in MediaReady
  /\ answerState = "pending"
  /\ answerState' = "set"
  /\ answerBy' = c
  /\ UNCHANGED <<authorityVars, at, link, outcome, slotVars, closeVars,
                 authenticated, secret, peer>>

\* The viewer disconnects, closes, or breaks the protocol while it is there.
PeerEnds(c) ==
  /\ at[c] \in Receiving
  /\ link[c] = "up"
  /\ EndSession(c, viewerTaken)
  /\ UNCHANGED <<authorityVars, link, outcome, closeVars, mediaVars>>

\* ws.receive() reports that the connection is gone, or was closed here.
DetectLoss(c) ==
  /\ at[c] \in Receiving
  /\ link[c] # "up"
  /\ EndSession(c, viewerTaken)
  /\ UNCHANGED <<authorityVars, link, outcome, closeVars, mediaVars>>

\* The viewer or its network goes away; the handler is not told.
LinkDown(c) ==
  /\ at[c] \in InSession
  /\ link[c] = "up"
  /\ link' = [link EXCEPT ![c] = "gone"]
  /\ UNCHANGED <<authorityVars, at, outcome, slotVars, closeVars, mediaVars>>

-----------------------------------------------------------------------------
(* The share coroutine's side: wait_answer() and close().                  *)

\* wait_answer makes the future when there is none yet.
PollAnswer ==
  /\ ~closed /\ state # "closed"
  /\ answerState = "none"
  /\ answerState' = "pending"
  /\ UNCHANGED <<authorityVars, at, link, outcome, slotVars, closeVars,
                 authenticated, secret, peer, answerBy>>

\* close() up to its first await: only the current socket is closed.
CloseBegin ==
  /\ ~closed /\ state # "closed"
  /\ closed' = TRUE
  /\ closing' = IF wsCur = NoConn THEN "cleanup" ELSE "socket"
  /\ state' = "closing"
  /\ link' = [c \in Conns |-> IF c = wsCur THEN "closed" ELSE link[c]]
  /\ UNCHANGED <<authorityVars, at, outcome, viewerTaken, wsCur, mediaVars>>

\* ws.close() has the peer's close frame, or gives it up.
SocketClosed ==
  /\ closing = "socket"
  /\ closing' = "cleanup" /\ wsCur' = NoConn
  /\ UNCHANGED <<authorityVars, at, link, outcome, viewerTaken, state, closed,
                 mediaVars>>

Live(c) == at[c] \in InSession \cup {"prepare", "cancelled"}

(***************************************************************************)
(* runner.cleanup() has waited for the handlers, at most for its shutdown  *)
(* timeout, and cancels those that are left without waiting for them: one  *)
(* that is still in ws.prepare() has nothing more to do, the others run    *)
(* their finally blocks when they are resumed.                             *)
(***************************************************************************)
CleanupEnds ==
  /\ closing = "cleanup"
  /\ closing' = "over" /\ state' = "closed"
  /\ at' = [c \in Conns |-> IF at[c] \in InSession THEN "cancelled"
                            ELSE IF at[c] = "prepare" THEN "done" ELSE at[c]]
  /\ UNCHANGED <<authorityVars, link, outcome, viewerTaken, wsCur, closed,
                 mediaVars>>

\* CancelledError reaches the handler; what waits in it is abandoned.
HandlerCancelled(c) ==
  /\ at[c] = "cancelled"
  /\ EndSession(c, viewerTaken)
  /\ UNCHANGED <<authorityVars, link, outcome, closeVars, mediaVars>>

-----------------------------------------------------------------------------
Session(c) ==
  \/ RecvHello(c)
  \/ HelloRefused(c)
  \/ \E codeOk \in BOOLEAN, n \in {c, NoConn} :
       ResponseAccepted(c, codeOk, n) \/ ResponseRefused(c, codeOk, n)
  \/ SharerApproves(c)
  \/ Deny(c)
  \/ OfferReady(c)
  \/ OfferFails(c)
  \/ RecvAnswer(c)
  \/ PeerEnds(c)
  \/ DetectLoss(c)

Enter(c) == Reject(c) \/ Accept(c) \/ SuspendInPrepare(c) \/ ResumePrepare(c)

Time ==
  \/ TtlElapses /\ UNCHANGED serverVars
  \/ \E a \in Addrs : FailureAges(a) /\ UNCHANGED serverVars

Next ==
  \/ Start
  \/ BindFails
  \/ \E c \in Conns : Enter(c) \/ Session(c) \/ LinkDown(c) \/ HandlerCancelled(c)
  \/ PollAnswer
  \/ CloseBegin
  \/ SocketClosed
  \/ CleanupEnds
  \/ Time

Spec == Init /\ [][Next]_vars

(***************************************************************************)
(* What the event loop owes: a suspended prepare() resumes, a lost         *)
(* connection is reported to a handler that reads, wait_for's timer fires, *)
(* offer_factory is bounded by its gathering timeout, ws.close() and       *)
(* runner.cleanup() have timeouts of their own, and a cancelled handler is *)
(* resumed.  Nothing is owed by a viewer or by the sharer.                 *)
(***************************************************************************)
Fairness ==
  /\ \A c \in Conns : /\ WF_vars(ResumePrepare(c))
                      /\ WF_vars(DetectLoss(c))
                      /\ WF_vars(Deny(c))
                      /\ WF_vars(OfferReady(c) \/ OfferFails(c))
                      /\ WF_vars(HandlerCancelled(c))
  /\ WF_vars(SocketClosed) /\ WF_vars(CleanupEnds)

FairSpec == Spec /\ Fairness

-----------------------------------------------------------------------------
(* Safety.  The properties marked (1) are claims about a server whose      *)
(* ws.prepare() returns at once; with PrepareYields two viewers can pass   *)
(* the slot check before either takes the slot.                            *)

\* (1) A handler inside the handshake or the media loop is the only one, the
\* slot is marked taken, and close() would reach its socket, or has: no
\* earlier handler's finally block, and no rejection, freed or cleared them.
HandlerOwnsSlot ==
  \A c \in Conns : at[c] \in InSession =>
    /\ viewerTaken
    /\ wsCur = c \/ link[c] = "closed"
    /\ \A d \in Conns \ {c} : at[d] \notin InSession

\* (1) A viewer that was told "ok" holds the session secret the server keeps:
\* no second admission has replaced it, so one code admits one viewer.
AdmittedHoldsSecret ==
  \A c \in Conns : outcome[c] = "ok" => consumed /\ secret = c

\* (1) While a viewer is asked for the code, the challenge it was sent is the
\* one its response is compared with, unless the code is already spent.
ChallengeStillGood ==
  \A c \in Conns : at[c] = "response" /\ ~consumed => nonce = c

\* (1) A viewer in the media loop of an open server is never refused as
\* "Not authenticated": the label has not been moved by another handler.
AdmittedCanAnswer ==
  \A c \in Conns : at[c] = "media" /\ ~closed =>
    state \in MediaReady /\ answerState # "none"

\* The answer the share applies to its peer connection was sent by the
\* admitted viewer that peer connection was made for.
AnswerMatchesPeer ==
  answerState = "set" =>
    answerBy \in Conns /\ peer = answerBy /\ outcome[answerBy] = "ok"

-----------------------------------------------------------------------------
(* The inductive strengthenings the proofs use (SignalingServerProofs).    *)

Pairing == {"hello", "response", "approval"}
Offering == {"offer", "media"}

\* Where an admitted viewer, and the owner of the peer connection, can be.
AnswerInv ==
  /\ \A c \in Conns : at[c] \in Offering => peer = c /\ outcome[c] = "ok"
  /\ \A c \in Conns : outcome[c] = "ok" => at[c] \in Offering \cup {"done", "cancelled"}
  /\ AnswerMatchesPeer

\* (1) Only the socket close() closes has a handler in session, and cleanup
\* leaves none that goes on.
CloseInv ==
  /\ closing # "no" => closed
  /\ closing = "socket" =>
       \A c \in Conns : at[c] \in InSession => link[c] = "closed"
  /\ (\E c \in Conns : at[c] = "cancelled") =>
       closed /\ \A c \in Conns : at[c] \notin InSession

\* (1) One handler at a time, no pairing once a viewer is authenticated, no
\* approval pending on a spent code, and an authenticated event that stands
\* for the viewer the secret was made for.
SlotInv ==
  /\ \A c \in Conns : at[c] # "prepare"
  /\ HandlerOwnsSlot
  /\ CloseInv
  /\ AdmittedHoldsSecret
  /\ ChallengeStillGood
  /\ \A c \in Conns : at[c] \in Offering /\ ~closed => state \in MediaReady
  /\ \A c \in Conns : at[c] \in Pairing => ~authenticated
  /\ \A c \in Conns : at[c] = "approval" => ~consumed
  /\ \A c \in Conns : outcome[c] = "ok" => authenticated
  /\ authenticated => /\ viewerTaken /\ consumed /\ answerState # "none"
                      /\ secret \in Conns /\ outcome[secret] = "ok"

-----------------------------------------------------------------------------
(* The promise of PairingGate, kept under PrepareYields = FALSE.           *)

holderBar == IF \E c \in Conns : at[c] \in InSession
               THEN CHOOSE c \in Conns : at[c] \in InSession
               ELSE NoConn
admittedBar == IF authenticated THEN secret ELSE NoConn

Gate == INSTANCE PairingGate WITH holder <- holderBar,
                                  admitted <- admittedBar,
                                  spent <- consumed

\* The server implements the gate: one viewer holds the slot at a time, and
\* the code admits at most one viewer, the one that held the slot.
GateSpec == Gate!GateSpec

-----------------------------------------------------------------------------
(* Liveness, under Fairness.                                               *)

\* A viewer that went away does not keep its handler - and with it the slot
\* of a session that never authenticated - for ever: in the approval wait,
\* which reads nothing from the socket, the approval timeout ends it.
SessionEnds == \A c \in Conns : (link[c] = "gone") ~> (at[c] = "done")

\* close() leaves the server closed for good: it comes to its end whatever the
\* handlers are waiting for, and none of them - resumed in the middle of it,
\* ended on its own or cancelled after the label was set - puts the label or
\* the reference to a socket back, or goes on.
CloseDrains ==
  closed ~> [](state = "closed" /\ wsCur = NoConn /\ \A c \in Conns : ~Live(c))

-----------------------------------------------------------------------------
(* Claims of the source that the code does not keep (see README).          *)

\* "A viewer is already connected." (signaling_server.py:142): who is turned
\* away with it is turned away because of a viewer that is connected, or one
\* whose answer has set up the media connection.
RejectionIsTrue ==
  [][\A c \in Conns : outcome[c] = "none" /\ outcome'[c] = "slot_taken" =>
       answerState = "set" \/ \E d \in Conns \ {c} : at[d] \in InSession]_vars

\* The share waits "Listening on ws://... pairing code ..."
\* (screen_session.py:797): while nobody is authenticated and no handler is
\* at work, the code on show can still admit a viewer, or has expired.
CodeOnShowWorks ==
  (state = "listening" /\ ~authenticated) => ~consumed \/ expired
=============================================================================
