------------------------ MODULE SignalingServerProofs ------------------------
(***************************************************************************)
(* Theorems about SignalingServer, for every set of connections, every     *)
(* assignment of addresses and every failure limit.                        *)
(***************************************************************************)
EXTENDS SignalingServer, TLAPS

\* The handler's finally block leaves the slot, the label and the socket
\* reference with their types, whatever it finds (_ws_handler).
LEMMA EndSessionType ==
  ASSUME NEW c \in Conns, TypeOK, NEW taken \in BOOLEAN, EndSession(c, taken)
  PROVE  /\ at' \in [Conns -> InSession \cup {"idle", "prepare", "cancelled", "done"}]
         /\ viewerTaken' \in BOOLEAN
         /\ wsCur' \in Conns \cup {NoConn}
         /\ state' \in States
<1>1. viewerTaken' = (authenticated /\ taken)
  BY DEF EndSession
<1>2. viewerTaken' \in BOOLEAN
  BY <1>1
<1>3. QED
  BY <1>2 DEF EndSession, MoveTo, TypeOK, InSession, Receiving, States

\* The initial values have their types.
LEMMA TypeInit == Init => TypeOK
<1> SUFFICES ASSUME Init PROVE TypeOK
  OBVIOUS
<1>1. failures \in [Addrs -> 0..MaxFailures]
  BY PairingAssumption DEF Init, AuthorityInit
<1>2. AuthorityTypeOK
  BY <1>1 DEF Init, AuthorityInit, AuthorityTypeOK
<1>3. QED
  BY <1>2 DEF Init, TypeOK, States

\* Every step, of a handler, of close() or of time, keeps the types.
LEMMA TypeStep == TypeOK /\ [Next]_vars => TypeOK'
<1> SUFFICES ASSUME TypeOK, [Next]_vars PROVE TypeOK'
  OBVIOUS
<1> USE PairingAssumption DEF TypeOK, AuthorityTypeOK, InSession, Receiving,
        Verdicts, States, authorityVars, slotVars, closeVars, mediaVars
<1>1. CASE Start
  BY <1>1 DEF Start
<1>2. CASE BindFails
  BY <1>2 DEF BindFails
<1>3. ASSUME NEW c \in Conns, Enter(c) PROVE TypeOK'
  <2>1. CASE Reject(c)
    BY <2>1 DEF Reject, CanConnect, MoveTo, Tell
  <2>2. CASE Accept(c)
    BY <2>2 DEF Accept, TakeSlot, MoveTo
  <2>3. CASE SuspendInPrepare(c)
    BY <2>3 DEF SuspendInPrepare, MoveTo
  <2>4. CASE ResumePrepare(c)
    BY <2>4 DEF ResumePrepare, TakeSlot, MoveTo
  <2>5. QED
    BY <1>3, <2>1, <2>2, <2>3, <2>4 DEF Enter
<1>4. ASSUME NEW c \in Conns, LinkDown(c) PROVE TypeOK'
  BY <1>4 DEF LinkDown
<1>5. ASSUME NEW c \in Conns, Session(c) PROVE TypeOK'
  <2> USE DEF MoveTo, Tell, Sent, SendFails
  <2>1. CASE RecvHello(c)
    BY <2>1 DEF RecvHello, IssueChallenge, EndSession
  <2>2. CASE HelloRefused(c)
    BY <2>2 DEF HelloRefused, EndSession
  <2>3. ASSUME Approve(c) PROVE TypeOK'
    BY <2>3 DEF Approve, MarkConsumed, EndSession
  <2>4. ASSUME NEW codeOk \in BOOLEAN, NEW n \in {c, NoConn},
               ResponseAccepted(c, codeOk, n)
        PROVE TypeOK'
    <3>1. CASE AutoApprove
      BY <2>3, <2>4, <3>1 DEF ResponseAccepted
    <3>2. CASE ~AutoApprove
      <4>1. ~GuessFails(AddrOf[c], codeOk, n)
        BY <2>4 DEF ResponseAccepted, Status, GuessFails
      <4>2. QED
        BY <2>4, <3>2, <4>1 DEF ResponseAccepted, ValidateResponse
    <3>3. QED
      BY <3>1, <3>2
  <2>5. ASSUME NEW codeOk \in BOOLEAN, NEW n \in {c, NoConn},
               ResponseRefused(c, codeOk, n)
        PROVE TypeOK'
    <3>1. Status(AddrOf[c], codeOk, n) # "ok" =>
            Status(AddrOf[c], codeOk, n) \in Verdicts
      BY DEF Status, GuessFails, IsLimited
    <3>2. failures' \in [Addrs -> 0..MaxFailures]
      BY <2>5 DEF ResponseRefused, ValidateResponse, GuessFails, RecordFailure,
         IsLimited
    <3>3. UNCHANGED <<consumed, nonce, expired>>
      BY <2>5 DEF ResponseRefused, ValidateResponse
    <3>4. outcome' \in [Conns -> Verdicts \cup {"none"}]
      BY <2>5, <3>1 DEF ResponseRefused
    <3>5. /\ at' \in [Conns -> InSession \cup {"idle", "prepare", "cancelled", "done"}]
          /\ viewerTaken' \in BOOLEAN
          /\ wsCur' \in Conns \cup {NoConn}
          /\ state' \in States
      <4>1. EndSession(c, FALSE) \/ EndSession(c, viewerTaken)
        BY <2>5 DEF ResponseRefused
      <4>2. QED
        BY <4>1, EndSessionType
    <3>6. QED
      BY <2>5, <3>2, <3>3, <3>4, <3>5 DEF ResponseRefused
  <2>6. CASE SharerApproves(c)
    BY <2>3, <2>6 DEF SharerApproves
  <2>7. CASE Deny(c)
    <3>1. /\ at' \in [Conns -> InSession \cup {"idle", "prepare", "cancelled", "done"}]
          /\ viewerTaken' \in BOOLEAN
          /\ wsCur' \in Conns \cup {NoConn}
          /\ state' \in States
      <4>1. EndSession(c, FALSE) \/ EndSession(c, viewerTaken)
        BY <2>7 DEF Deny
      <4>2. QED
        BY <4>1, EndSessionType
    <3>2. outcome' \in [Conns -> Verdicts \cup {"none"}]
      BY <2>7 DEF Deny
    <3>3. QED
      BY <2>7, <3>1, <3>2 DEF Deny
  <2>8. CASE OfferReady(c)
    BY <2>8 DEF OfferReady, EndSession
  <2>9. CASE OfferFails(c)
    BY <2>9 DEF OfferFails, EndSession
  <2>10. CASE RecvAnswer(c)
    BY <2>10 DEF RecvAnswer
  <2>11. CASE PeerEnds(c)
    BY <2>11 DEF PeerEnds, EndSession
  <2>12. CASE DetectLoss(c)
    BY <2>12 DEF DetectLoss, EndSession
  <2>13. QED
    BY <1>5, <2>1, <2>2, <2>4, <2>5, <2>6, <2>7, <2>8, <2>9, <2>10, <2>11,
       <2>12 DEF Session
<1>6. CASE PollAnswer
  BY <1>6 DEF PollAnswer
<1>7. CASE CloseBegin
  BY <1>7 DEF CloseBegin
<1>8. CASE SocketClosed \/ CleanupEnds
  BY <1>8 DEF SocketClosed, CleanupEnds
<1>12. ASSUME NEW c \in Conns, HandlerCancelled(c) PROVE TypeOK'
  <2>1. /\ at' \in [Conns -> InSession \cup {"idle", "prepare", "cancelled", "done"}]
        /\ viewerTaken' \in BOOLEAN
        /\ wsCur' \in Conns \cup {NoConn}
        /\ state' \in States
    BY <1>12, EndSessionType DEF HandlerCancelled
  <2>2. QED
    BY <1>12, <2>1 DEF HandlerCancelled
<1>9. CASE Time
  <2>1. CASE TtlElapses /\ UNCHANGED serverVars
    BY <2>1 DEF TtlElapses, serverVars
  <2>2. ASSUME NEW a \in Addrs, FailureAges(a), UNCHANGED serverVars
        PROVE  TypeOK'
    <3>1. failures' \in [Addrs -> 0..MaxFailures]
      BY <2>2 DEF FailureAges
    <3>2. UNCHANGED <<consumed, nonce, expired, serverVars>>
      BY <2>2 DEF FailureAges
    <3>3. QED
      BY <3>1, <3>2 DEF serverVars
  <2>3. QED
    BY <1>9, <2>1, <2>2 DEF Time
<1>10. CASE UNCHANGED vars
  BY <1>10 DEF vars, serverVars
<1>11. QED
  BY <1>1, <1>2, <1>3, <1>4, <1>5, <1>6, <1>7, <1>8, <1>9, <1>10, <1>12 DEF Next

\* Every variable keeps its type; no address exceeds the failure limit.
THEOREM TypeCorrect == Spec => []TypeOK
  BY TypeInit, TypeStep, PTL DEF Spec

-----------------------------------------------------------------------------
(* The answer belongs to the admitted viewer, suspended prepare() or not.  *)

\* Approving a viewer hands the peer connection to it, or to nobody new.
LEMMA AnswerApprove ==
  ASSUME TypeOK, AnswerInv, NEW c \in Conns, at[c] \in Pairing, Approve(c)
  PROVE  AnswerInv'
<1>1. CASE SendFails(c) /\ EndSession(c, viewerTaken)
           /\ UNCHANGED <<authenticated, peer, answerState, answerBy>>
  BY <1>1 DEF TypeOK, AnswerInv, AnswerMatchesPeer, Offering, Pairing, SendFails,
     EndSession, MoveTo
<1>2. CASE Tell(c, "ok") /\ answerState' = "pending"
           /\ IF peer = NoConn THEN peer' = c /\ MoveTo(c, "offer")
                               ELSE UNCHANGED peer /\ MoveTo(c, "done")
  BY <1>2, PairingAssumption DEF TypeOK, AnswerInv, AnswerMatchesPeer, Offering,
     Pairing, Tell, MoveTo
<1>3. QED
  BY <1>1, <1>2 DEF Approve

\* A connection that was not admitted may move and be told anything but "ok".
LEMMA AnswerRefuse ==
  ASSUME TypeOK, AnswerInv, NEW c \in Conns, at[c] \notin Offering \cup {"done", "cancelled"},
         NEW place, place \notin Offering, MoveTo(c, place),
         NEW verdict, verdict # "ok", Tell(c, verdict),
         UNCHANGED <<peer, answerState, answerBy>>
  PROVE  AnswerInv'
<1>1. outcome[c] # "ok"
  BY DEF AnswerInv
<1>2. \A d \in Conns : d # c => outcome'[d] = outcome[d] /\ at'[d] = at[d]
  BY DEF Tell, MoveTo, TypeOK
<1>3. outcome'[c] = verdict /\ at'[c] = place
  BY DEF Tell, MoveTo, TypeOK
<1>4. answerState = "set" => answerBy \in Conns \ {c}
  BY <1>1, PairingAssumption DEF AnswerInv, AnswerMatchesPeer, TypeOK
<1>5. QED
  BY <1>1, <1>2, <1>3, <1>4 DEF AnswerInv, AnswerMatchesPeer

\* No step hands a resolved answer to another viewer's peer connection.
LEMMA AnswerStep == TypeOK /\ AnswerInv /\ [Next]_vars => AnswerInv'
<1> SUFFICES ASSUME TypeOK, AnswerInv, [Next]_vars PROVE AnswerInv'
  OBVIOUS
<1> USE DEF TypeOK, AnswerInv, AnswerMatchesPeer, Offering, slotVars, mediaVars
<1>1. CASE Start \/ BindFails \/ PollAnswer \/ CloseBegin
  BY <1>1 DEF Start, BindFails, PollAnswer, CloseBegin
<1>2. ASSUME NEW c \in Conns, Enter(c) PROVE AnswerInv'
  <2>1. CASE Reject(c)
    BY <2>1, AnswerRefuse DEF Reject, CanConnect
  <2>2. CASE Accept(c) \/ SuspendInPrepare(c) \/ ResumePrepare(c)
    BY <2>2 DEF Accept, SuspendInPrepare, ResumePrepare, CanConnect, TakeSlot,
       MoveTo
  <2>3. QED
    BY <1>2, <2>1, <2>2 DEF Enter
<1>3. ASSUME NEW c \in Conns, LinkDown(c) PROVE AnswerInv'
  BY <1>3 DEF LinkDown
<1>4. ASSUME NEW c \in Conns, Session(c) PROVE AnswerInv'
  <2>1. CASE RecvHello(c)
    BY <2>1 DEF RecvHello, IssueChallenge, Sent, SendFails, EndSession, MoveTo
  <2>2. CASE HelloRefused(c)
    <3>1. CASE UNCHANGED outcome
      BY <2>2, <3>1 DEF HelloRefused, EndSession, MoveTo
    <3>2. CASE ~UNCHANGED outcome
      BY <2>2, <3>2, AnswerRefuse DEF HelloRefused, SendFails, EndSession
    <3>3. QED
      BY <3>1, <3>2
  <2>3. ASSUME NEW codeOk \in BOOLEAN, NEW n \in {c, NoConn},
               ResponseAccepted(c, codeOk, n)
        PROVE  AnswerInv'
    <3>1. CASE AutoApprove
      BY <2>3, <3>1, AnswerApprove DEF ResponseAccepted, Pairing
    <3>2. CASE ~AutoApprove
      BY <2>3, <3>2 DEF ResponseAccepted, MoveTo
    <3>3. QED
      BY <3>1, <3>2
  <2>4. ASSUME NEW codeOk \in BOOLEAN, NEW n \in {c, NoConn},
               ResponseRefused(c, codeOk, n)
        PROVE  AnswerInv'
    <3>1. CASE UNCHANGED outcome
      BY <2>4, <3>1 DEF ResponseRefused, EndSession, MoveTo
    <3>2. CASE ~UNCHANGED outcome
      BY <2>4, <3>2, AnswerRefuse DEF ResponseRefused, SendFails, EndSession
    <3>3. QED
      BY <3>1, <3>2
  <2>5. CASE SharerApproves(c)
    BY <2>5, AnswerApprove DEF SharerApproves, Pairing
  <2>6. CASE Deny(c)
    <3>1. CASE UNCHANGED outcome
      BY <2>6, <3>1 DEF Deny, EndSession, MoveTo
    <3>2. CASE ~UNCHANGED outcome
      BY <2>6, <3>2, AnswerRefuse DEF Deny, SendFails, EndSession
    <3>3. QED
      BY <3>1, <3>2
  <2>7. CASE OfferReady(c) \/ OfferFails(c)
    BY <2>7 DEF OfferReady, OfferFails, Sent, SendFails, EndSession, MoveTo
  <2>8. CASE RecvAnswer(c)
    BY <2>8 DEF RecvAnswer
  <2>9. CASE PeerEnds(c) \/ DetectLoss(c)
    BY <2>9 DEF PeerEnds, DetectLoss, Receiving, EndSession, MoveTo
  <2>10. QED
    BY <1>4, <2>1, <2>2, <2>3, <2>4, <2>5, <2>6, <2>7, <2>8, <2>9 DEF Session
<1>5. CASE SocketClosed \/ CleanupEnds
  <2>1. \A c \in Conns : /\ at'[c] \in Offering => at[c] \in Offering
                         /\ at[c] \in {"done", "cancelled"} => at'[c] = at[c]
                         /\ at[c] \in Offering => at'[c] \in Offering \cup {"done", "cancelled"}
    BY <1>5 DEF SocketClosed, CleanupEnds, InSession, Receiving
  <2>2. UNCHANGED <<outcome, mediaVars>>
    BY <1>5 DEF SocketClosed, CleanupEnds
  <2>3. QED
    BY <2>1, <2>2
<1>8. ASSUME NEW c \in Conns, HandlerCancelled(c) PROVE AnswerInv'
  BY <1>8 DEF HandlerCancelled, EndSession, MoveTo
<1>6. CASE Time \/ UNCHANGED vars
  BY <1>6 DEF Time, serverVars, vars
<1>7. QED
  BY <1>1, <1>2, <1>3, <1>4, <1>5, <1>6, <1>8 DEF Next

\* The answer that run_screen_share applies to its peer connection comes from
\* the viewer that was told "ok" and that the peer connection was made for -
\* even if ws.prepare() suspends and several handlers are at work.
THEOREM AnswerCorrect == Spec => []AnswerMatchesPeer
<1>1. Init => AnswerInv
  BY DEF Init, AnswerInv, AnswerMatchesPeer, Offering
<1>2. AnswerInv => AnswerMatchesPeer
  BY DEF AnswerInv
<1>3. QED
  BY <1>1, <1>2, AnswerStep, TypeCorrect, PTL DEF Spec

-----------------------------------------------------------------------------
(* One viewer, when ws.prepare() returns without suspending.               *)

\* No step of a handler in session, and no refusal, disturbs what close() left.
LEMMA CloseKept ==
  ASSUME CloseInv, UNCHANGED <<link, closeVars>>,
         \A d \in Conns : /\ at'[d] \in InSession => at[d] \in InSession
                          /\ at'[d] = "cancelled" => at[d] = "cancelled"
  PROVE  CloseInv'
BY DEF CloseInv, closeVars

\* After the only handler has left, nothing is in session; the invariant
\* holds if nobody new was told "ok" and an authenticated viewer kept its
\* verdict, the secret and the slot.
LEMMA SlotLeave ==
  ASSUME TypeOK, SlotInv, NEW c \in Conns, at[c] \in InSession,
         MoveTo(c, "done"), UNCHANGED <<link, closeVars>>,
         \A d \in Conns : outcome'[d] = "ok" <=> outcome[d] = "ok",
         authenticated' = authenticated, consumed => consumed',
         authenticated => viewerTaken' /\ UNCHANGED <<secret, answerState>>
  PROVE  SlotInv'
<1> USE DEF InSession, Receiving, Offering, Pairing
<1>1. \A d \in Conns \ {c} : at'[d] = at[d] /\ at[d] \notin InSession
  BY DEF SlotInv, HandlerOwnsSlot, MoveTo, TypeOK
<1>2. at'[c] = "done"
  BY DEF MoveTo, TypeOK
<1>3. \A d \in Conns : at'[d] \notin InSession /\ at'[d] # "prepare"
  BY <1>1, <1>2 DEF SlotInv
<1>4. (HandlerOwnsSlot /\ ChallengeStillGood)'
  BY <1>3 DEF HandlerOwnsSlot, ChallengeStillGood
<1>5. AdmittedHoldsSecret'
  BY DEF SlotInv, AdmittedHoldsSecret
<1>6. CloseInv'
  BY <1>1, <1>2, CloseKept DEF SlotInv
<1>7. QED
  BY <1>3, <1>4, <1>5, <1>6 DEF SlotInv

\* EndSession frees the slot only of a session that never authenticated.
LEMMA SlotEnd ==
  ASSUME TypeOK, SlotInv, NEW c \in Conns, at[c] \in InSession,
         NEW taken \in BOOLEAN, EndSession(c, taken), UNCHANGED <<link, closeVars>>,
         taken = viewerTaken \/ at[c] \in Pairing,
         \A d \in Conns : outcome'[d] = "ok" <=> outcome[d] = "ok",
         authenticated' = authenticated, consumed => consumed',
         authenticated => UNCHANGED <<secret, answerState>>
  PROVE  SlotInv'
<1>1. authenticated => viewerTaken'
  BY DEF SlotInv, EndSession
<1>2. QED
  BY <1>1, SlotLeave DEF EndSession

\* A connection that was not told "ok" is told something else.
LEMMA TellOther ==
  ASSUME TypeOK, NEW c \in Conns, outcome[c] # "ok",
         NEW verdict, verdict # "ok", Tell(c, verdict)
  PROVE  \A d \in Conns : outcome'[d] = "ok" <=> outcome[d] = "ok"
BY DEF Tell, TypeOK

\* While a viewer is pairing, nobody has been told "ok".
LEMMA PairingNotTold ==
  ASSUME SlotInv, NEW c \in Conns, at[c] \in Pairing
  PROVE  ~authenticated /\ \A d \in Conns : outcome[d] # "ok"
BY DEF SlotInv

\* The only handler of an unspent code is approved: it alone is told "ok".
LEMMA SlotApprove ==
  ASSUME TypeOK, SlotInv, NEW c \in Conns, at[c] \in Pairing, Approve(c)
  PROVE  SlotInv'
<1> USE DEF InSession, Receiving, Offering, Pairing
<1>1. ~authenticated /\ \A d \in Conns : outcome[d] # "ok"
  BY PairingNotTold
<1>2. consumed' = TRUE /\ secret' = c
  BY DEF Approve, MarkConsumed
<1>3. CASE SendFails(c) /\ EndSession(c, viewerTaken)
           /\ UNCHANGED <<authenticated, peer, answerState, answerBy>>
  BY <1>1, <1>2, <1>3, SlotEnd DEF SendFails, TypeOK, Approve
<1>4. ASSUME Tell(c, "ok"), authenticated' = TRUE, answerState' = "pending",
             viewerTaken' = viewerTaken
      PROVE  /\ \A d \in Conns : outcome'[d] = "ok" => d = c
             /\ outcome'[c] = "ok" /\ viewerTaken'
  BY <1>1, <1>4 DEF Tell, TypeOK, SlotInv, HandlerOwnsSlot
<1>5. \A d \in Conns \ {c} : at[d] \notin InSession /\ at[d] # "prepare"
  BY DEF SlotInv, HandlerOwnsSlot
<1>9. UNCHANGED <<link, closeVars>>
  BY DEF Approve
<1>6. ASSUME Tell(c, "ok"), authenticated' = TRUE, answerState' = "pending",
             MoveTo(c, "offer"), state' = "media_signaling",
             UNCHANGED <<viewerTaken, wsCur>>
      PROVE  SlotInv'
  <2>1. at'[c] = "offer" /\ \A d \in Conns \ {c} : at'[d] = at[d]
    BY <1>6 DEF MoveTo, TypeOK
  <2>2. HandlerOwnsSlot'
    BY <1>5, <1>6, <1>9, <2>1 DEF HandlerOwnsSlot, SlotInv
  <2>3. AdmittedHoldsSecret' /\ ChallengeStillGood'
    BY <1>2, <1>4, <1>5, <1>6, <2>1 DEF AdmittedHoldsSecret, ChallengeStillGood
  <2>4. CloseInv'
    BY <1>9, <2>1, CloseKept DEF SlotInv
  <2>5. QED
    BY <1>2, <1>4, <1>5, <1>6, <1>9, <2>1, <2>2, <2>3, <2>4 DEF SlotInv, MediaReady
<1>7. ASSUME Tell(c, "ok"), authenticated' = TRUE, answerState' = "pending",
             MoveTo(c, "done"), UNCHANGED viewerTaken
      PROVE  SlotInv'
  <2>1. at'[c] = "done" /\ \A d \in Conns \ {c} : at'[d] = at[d]
    BY <1>7 DEF MoveTo, TypeOK
  <2>2. HandlerOwnsSlot' /\ ChallengeStillGood' /\ AdmittedHoldsSecret'
    BY <1>2, <1>4, <1>5, <1>7, <2>1 DEF HandlerOwnsSlot, ChallengeStillGood,
       AdmittedHoldsSecret
  <2>3. CloseInv'
    BY <1>9, <2>1, CloseKept DEF SlotInv
  <2>4. QED
    BY <1>2, <1>4, <1>5, <1>7, <2>1, <2>2, <2>3 DEF SlotInv
<1>8. QED
  BY <1>3, <1>6, <1>7 DEF Approve

\* Every step of a handler keeps the slot invariant.
LEMMA SlotSession ==
  ASSUME TypeOK, SlotInv, NEW c \in Conns, Session(c)
  PROVE  SlotInv'
<1> USE DEF InSession, Receiving, Offering, Pairing
<1>1. at[c] \in Pairing => ~authenticated /\ \A d \in Conns : outcome[d] # "ok"
  BY PairingNotTold
<1>2. CASE RecvHello(c)
  <2>1. CASE SendFails(c) /\ EndSession(c, viewerTaken)
    BY <1>1, <1>2, <2>1, SlotEnd DEF RecvHello, IssueChallenge, SendFails,
       mediaVars, TypeOK
  <2>2. CASE Sent(c) /\ MoveTo(c, "response") /\ UNCHANGED <<viewerTaken, wsCur>>
    <3>1. UNCHANGED <<link, closeVars>> /\ at[c] = "hello"
      BY <1>2 DEF RecvHello
    <3>2. CloseInv'
      BY <2>2, <3>1, CloseKept DEF SlotInv, MoveTo, TypeOK
    <3>3. QED
      BY <1>1, <1>2, <2>2, <3>1, <3>2 DEF RecvHello, IssueChallenge, Sent, MoveTo, closeVars,
         mediaVars, TypeOK, SlotInv, HandlerOwnsSlot, AdmittedHoldsSecret, ChallengeStillGood
  <2>3. QED
    BY <1>2, <2>1, <2>2 DEF RecvHello
<1>3. CASE HelloRefused(c)
  <2>1. \A d \in Conns : outcome'[d] = "ok" <=> outcome[d] = "ok"
    BY <1>1, <1>3, TellOther DEF HelloRefused, SendFails
  <2>2. QED
    BY <1>1, <1>3, <2>1, SlotEnd DEF HelloRefused, authorityVars, mediaVars, TypeOK
<1>4. ASSUME NEW codeOk \in BOOLEAN, NEW n \in {c, NoConn},
             ResponseAccepted(c, codeOk, n)
      PROVE  SlotInv'
  <2>1. CASE AutoApprove
    BY <1>4, <2>1, SlotApprove DEF ResponseAccepted
  <2>2. CASE ~AutoApprove
    <3>1. ~consumed /\ at[c] = "response" /\ MoveTo(c, "approval")
      BY <1>4, <2>2 DEF ResponseAccepted, Status
    <3>2. UNCHANGED <<consumed, nonce, link, outcome, slotVars, closeVars, mediaVars>>
      BY <1>4, <2>2 DEF ResponseAccepted, ValidateResponse
    <3>3. CloseInv'
      BY <3>1, <3>2, CloseKept DEF SlotInv, MoveTo, TypeOK
    <3>4. QED
      BY <1>1, <3>1, <3>2, <3>3 DEF MoveTo, slotVars, closeVars, mediaVars, TypeOK, SlotInv,
         HandlerOwnsSlot, AdmittedHoldsSecret, ChallengeStillGood
  <2>3. QED
    BY <2>1, <2>2
<1>5. ASSUME NEW codeOk \in BOOLEAN, NEW n \in {c, NoConn},
             ResponseRefused(c, codeOk, n)
      PROVE  SlotInv'
  <2>1. \A d \in Conns : outcome'[d] = "ok" <=> outcome[d] = "ok"
    BY <1>1, <1>5, TellOther DEF ResponseRefused, SendFails
  <2>2. UNCHANGED <<consumed, link, closeVars, mediaVars>> /\ at[c] = "response"
    BY <1>5 DEF ResponseRefused, ValidateResponse
  <2>3. EndSession(c, FALSE) \/ EndSession(c, viewerTaken)
    BY <1>5 DEF ResponseRefused
  <2>4. QED
    BY <2>1, <2>2, <2>3, SlotEnd DEF mediaVars, TypeOK
<1>6. CASE SharerApproves(c)
  BY <1>6, SlotApprove DEF SharerApproves
<1>7. CASE Deny(c)
  <2>1. \A d \in Conns : outcome'[d] = "ok" <=> outcome[d] = "ok"
    BY <1>1, <1>7, TellOther DEF Deny, SendFails
  <2>2. UNCHANGED <<consumed, link, closeVars, mediaVars>> /\ at[c] = "approval"
    BY <1>7 DEF Deny, authorityVars
  <2>3. EndSession(c, FALSE) \/ EndSession(c, viewerTaken)
    BY <1>7 DEF Deny
  <2>4. QED
    BY <2>1, <2>2, <2>3, SlotEnd DEF mediaVars, TypeOK
<1>8. CASE OfferReady(c)
  <2>1. CASE SendFails(c) /\ EndSession(c, viewerTaken)
    BY <1>8, <2>1, SlotEnd DEF OfferReady, SendFails, authorityVars, mediaVars,
       TypeOK
  <2>2. CASE Sent(c) /\ MoveTo(c, "media") /\ UNCHANGED slotVars
    <3>1. UNCHANGED <<link, closeVars>> /\ at[c] = "offer"
      BY <1>8 DEF OfferReady
    <3>2. CloseInv'
      BY <2>2, <3>1, CloseKept DEF SlotInv, MoveTo, TypeOK
    <3>3. QED
      BY <1>8, <2>2, <3>1, <3>2 DEF OfferReady, Sent, MoveTo, authorityVars, slotVars,
         closeVars, mediaVars, TypeOK, SlotInv, HandlerOwnsSlot, AdmittedHoldsSecret,
         ChallengeStillGood
  <2>3. QED
    BY <1>8, <2>1, <2>2 DEF OfferReady
<1>9. CASE OfferFails(c) \/ PeerEnds(c) \/ DetectLoss(c)
  BY <1>9, SlotEnd DEF OfferFails, PeerEnds, DetectLoss, authorityVars, mediaVars,
     TypeOK
<1>10. CASE RecvAnswer(c)
  <2>1. CloseInv'
    BY <1>10, CloseKept DEF RecvAnswer, SlotInv
  <2>2. QED
    BY <1>10, <2>1 DEF RecvAnswer, authorityVars, slotVars, closeVars, SlotInv, HandlerOwnsSlot,
       AdmittedHoldsSecret, ChallengeStillGood
<1>11. QED
  BY <1>2, <1>3, <1>4, <1>5, <1>6, <1>7, <1>8, <1>9, <1>10 DEF Session

\* Every step keeps the slot invariant, when prepare() never suspends.
LEMMA SlotStep ==
  ASSUME PrepareYields = FALSE, TypeOK, AnswerInv, SlotInv, [Next]_vars
  PROVE  SlotInv'
<1> USE DEF InSession, Receiving, Offering, Pairing
<1>1. CASE Start \/ BindFails \/ PollAnswer \/ CloseBegin
  <2>1. CASE Start \/ BindFails \/ PollAnswer
    BY <2>1 DEF Start, BindFails, PollAnswer, authorityVars, slotVars, closeVars,
       mediaVars, SlotInv, CloseInv, HandlerOwnsSlot, AdmittedHoldsSecret,
       ChallengeStillGood, MediaReady
  <2>2. CASE CloseBegin
    <3>1. \A c \in Conns : at[c] \in InSession => link'[c] = "closed"
      BY <2>2 DEF CloseBegin, SlotInv, HandlerOwnsSlot
    <3>2. closed' /\ UNCHANGED <<consumed, nonce, at, outcome, viewerTaken, wsCur, mediaVars>>
      BY <2>2 DEF CloseBegin, authorityVars
    <3>3. HandlerOwnsSlot' /\ AdmittedHoldsSecret' /\ ChallengeStillGood' /\ CloseInv'
      BY <3>1, <3>2 DEF mediaVars, SlotInv, HandlerOwnsSlot, AdmittedHoldsSecret,
         ChallengeStillGood, CloseInv
    <3>4. QED
      BY <3>2, <3>3 DEF mediaVars, SlotInv
  <2>3. QED
    BY <1>1, <2>1, <2>2
<1>2. ASSUME NEW c \in Conns, Enter(c) PROVE SlotInv'
  <2>1. CASE Reject(c)
    <3>1. outcome[c] # "ok" /\ at[c] = "idle"
      BY <2>1 DEF Reject, CanConnect, AnswerInv
    <3>2. \A d \in Conns : outcome'[d] = "ok" <=> outcome[d] = "ok"
      BY <2>1, <3>1, TellOther DEF Reject
    <3>3. at'[c] = "done" /\ \A d \in Conns \ {c} : at'[d] = at[d]
      BY <2>1 DEF Reject, MoveTo, TypeOK
    <3>4. UNCHANGED <<consumed, nonce, link, slotVars, closeVars, mediaVars>>
      BY <2>1 DEF Reject, authorityVars
    <3>5. (HandlerOwnsSlot /\ AdmittedHoldsSecret /\ ChallengeStillGood)'
      BY <3>1, <3>2, <3>3, <3>4 DEF slotVars, mediaVars, SlotInv,
         HandlerOwnsSlot, AdmittedHoldsSecret, ChallengeStillGood
    <3>6. authenticated => secret # c
      BY <3>1 DEF SlotInv
    <3>7. CloseInv'
      BY <3>3, <3>4, CloseKept DEF SlotInv
    <3>8. QED
      BY <3>1, <3>2, <3>3, <3>4, <3>5, <3>6, <3>7 DEF slotVars, closeVars, mediaVars, SlotInv
  <2>2. CASE Accept(c)
    <3>1. ~authenticated /\ \A d \in Conns : at[d] \notin InSession
      BY <2>2 DEF Accept, SlotInv, HandlerOwnsSlot
    <3>2. at'[c] = "hello" /\ \A d \in Conns \ {c} : at'[d] = at[d]
      BY <2>2 DEF Accept, TakeSlot, MoveTo, TypeOK
    <3>3. viewerTaken' /\ wsCur' = c
          /\ ~closed /\ UNCHANGED <<consumed, outcome, closeVars, mediaVars>>
      BY <2>2 DEF Accept, CanConnect, TakeSlot, authorityVars
    <3>4. (HandlerOwnsSlot /\ AdmittedHoldsSecret /\ ChallengeStillGood)'
      BY <3>1, <3>2, <3>3 DEF mediaVars, SlotInv, HandlerOwnsSlot,
         AdmittedHoldsSecret, ChallengeStillGood
    <3>5. CloseInv'
      BY <3>2, <3>3 DEF SlotInv, CloseInv, closeVars
    <3>6. QED
      BY <3>1, <3>2, <3>3, <3>4, <3>5 DEF closeVars, mediaVars, SlotInv
  <2>3. QED
    BY <1>2, <2>1, <2>2 DEF Enter, SuspendInPrepare, ResumePrepare, SlotInv
<1>3. ASSUME NEW c \in Conns, LinkDown(c) PROVE SlotInv'
  BY <1>3 DEF LinkDown, authorityVars, slotVars, closeVars, mediaVars, SlotInv, CloseInv,
     TypeOK, HandlerOwnsSlot, AdmittedHoldsSecret, ChallengeStillGood
<1>4. CASE SocketClosed
  BY <1>4 DEF SocketClosed, authorityVars, mediaVars, TypeOK, SlotInv, CloseInv,
     HandlerOwnsSlot, AdmittedHoldsSecret, ChallengeStillGood, MediaReady
<1>7. CASE CleanupEnds
  <2>1. \A c \in Conns : at'[c] \notin InSession /\ at'[c] # "prepare"
    BY <1>7 DEF CleanupEnds
  <2>2. HandlerOwnsSlot' /\ ChallengeStillGood'
    BY <2>1 DEF HandlerOwnsSlot, ChallengeStillGood
  <2>3. closing' = "over" /\ UNCHANGED <<consumed, outcome, viewerTaken, closed, mediaVars>>
    BY <1>7 DEF CleanupEnds, authorityVars
  <2>4. closed
    BY <1>7 DEF CleanupEnds, SlotInv, CloseInv
  <2>5. AdmittedHoldsSecret' /\ CloseInv'
    BY <2>1, <2>3, <2>4 DEF SlotInv, AdmittedHoldsSecret, CloseInv, mediaVars
  <2>6. QED
    BY <2>1, <2>2, <2>3, <2>5 DEF SlotInv, mediaVars
<1>8. ASSUME NEW c \in Conns, HandlerCancelled(c) PROVE SlotInv'
  <2>1. /\ closed /\ \A d \in Conns : at[d] \notin InSession /\ at[d] # "prepare"
        /\ at'[c] = "done" /\ \A d \in Conns \ {c} : at'[d] = at[d]
    BY <1>8 DEF HandlerCancelled, EndSession, MoveTo, TypeOK, SlotInv, CloseInv
  <2>2. viewerTaken' = (authenticated /\ viewerTaken)
        /\ UNCHANGED <<authorityVars, link, outcome, closeVars, mediaVars>>
    BY <1>8 DEF HandlerCancelled, EndSession
  <2>3. HandlerOwnsSlot' /\ ChallengeStillGood'
    BY <2>1 DEF HandlerOwnsSlot, ChallengeStillGood
  <2>4. AdmittedHoldsSecret'
    BY <2>2 DEF SlotInv, AdmittedHoldsSecret, authorityVars, mediaVars
  <2>5. CloseInv'
    BY <2>1, <2>2, CloseKept DEF SlotInv
  <2>6. QED
    BY <2>1, <2>2, <2>3, <2>4, <2>5 DEF SlotInv, authorityVars, closeVars, mediaVars
<1>5. CASE Time \/ UNCHANGED vars
  BY <1>5 DEF Time, TtlElapses, FailureAges, vars, serverVars, authorityVars,
     slotVars, closeVars, mediaVars, SlotInv, CloseInv, HandlerOwnsSlot,
     AdmittedHoldsSecret, ChallengeStillGood
<1>6. QED
  BY <1>1, <1>2, <1>3, <1>4, <1>5, <1>7, <1>8, SlotSession DEF Next

\* The slot invariant holds of every reachable state of such a server.
LEMMA SlotCorrect == ASSUME PrepareYields = FALSE PROVE Spec => []SlotInv
<1>1. Init => AnswerInv /\ SlotInv
  BY PairingAssumption DEF Init, AuthorityInit, AnswerInv, AnswerMatchesPeer,
     SlotInv, CloseInv, HandlerOwnsSlot, AdmittedHoldsSecret, ChallengeStillGood, Offering,
     Pairing, InSession, Receiving
<1>2. TypeOK /\ AnswerInv /\ SlotInv /\ [Next]_vars => AnswerInv' /\ SlotInv'
  BY AnswerStep, SlotStep
<1>3. QED
  BY <1>1, <1>2, TypeCorrect, PTL DEF Spec

\* One viewer at a time is in the handshake or the media loop, the slot is
\* marked taken for it, and close() would reach its socket (_ws_handler).
THEOREM OneHandler == ASSUME PrepareYields = FALSE PROVE Spec => []HandlerOwnsSlot
<1>1. SlotInv => HandlerOwnsSlot
  BY DEF SlotInv
<1>2. QED
  BY <1>1, SlotCorrect, PTL

\* One code admits one viewer: whoever was told "ok" holds the secret the
\* server keeps, and the code is spent (_run_session).
THEOREM OneAdmission ==
  ASSUME PrepareYields = FALSE PROVE Spec => []AdmittedHoldsSecret
<1>1. SlotInv => AdmittedHoldsSecret
  BY DEF SlotInv
<1>2. QED
  BY <1>1, SlotCorrect, PTL

\* A viewer asked for the code can still answer the challenge it was sent: no
\* other connection has replaced the nonce (issue_challenge).
THEOREM ChallengeKept ==
  ASSUME PrepareYields = FALSE PROVE Spec => []ChallengeStillGood
<1>1. SlotInv => ChallengeStillGood
  BY DEF SlotInv
<1>2. QED
  BY <1>1, SlotCorrect, PTL

\* A viewer in the media loop of an open server is never turned away as
\* unauthenticated, and there is a future for its answer (_run_session).
THEOREM AnswerAllowed == ASSUME PrepareYields = FALSE PROVE Spec => []AdmittedCanAnswer
<1>1. AnswerInv /\ SlotInv => AdmittedCanAnswer
  BY DEF AnswerInv, SlotInv, AdmittedCanAnswer, Offering
<1>2. Init => AnswerInv
  BY DEF Init, AnswerInv, AnswerMatchesPeer, Offering
<1>3. QED
  BY <1>1, <1>2, AnswerStep, TypeCorrect, SlotCorrect, PTL DEF Spec

-----------------------------------------------------------------------------
(* The server implements PairingGate, when prepare() never suspends.       *)

\* The gate's holder is the connection whose handler is in session.
LEMMA HolderIs ==
  ASSUME HandlerOwnsSlot, NEW c \in Conns, at[c] \in InSession
  PROVE  holderBar = c
BY DEF HandlerOwnsSlot, holderBar

\* Without such a handler nobody holds the gate.
LEMMA HolderNone ==
  ASSUME \A c \in Conns : at[c] \notin InSession
  PROVE  holderBar = NoConn
BY DEF holderBar

\* A handler that ends, or goes on, releases the gate or keeps it; the code
\* and the admitted viewer are untouched.
LEMMA GateLeave ==
  ASSUME TypeOK, SlotInv, SlotInv', NEW c \in Conns, at[c] \in InSession,
         NEW place \in InSession \cup {"done"}, MoveTo(c, place),
         UNCHANGED <<consumed, authenticated, secret>>
  PROVE  Gate!Release(c) \/ UNCHANGED Gate!gateVars
<1>1. at'[c] = place /\ \A d \in Conns \ {c} : at'[d] = at[d] /\ at[d] \notin InSession
  BY DEF MoveTo, TypeOK, SlotInv, HandlerOwnsSlot
<1>2. holderBar = c
  BY HolderIs DEF SlotInv
<1>3. admittedBar' = admittedBar
  BY DEF admittedBar
<1>4. CASE place = "done"
  <2>1. holderBar' = NoConn
    BY <1>1, <1>4 DEF holderBar, InSession, Receiving
  <2>2. QED
    BY <1>2, <1>3, <2>1 DEF Gate!Release
<1>5. CASE place # "done"
  <2>1. holderBar' = c
    BY <1>1, <1>5 DEF holderBar
  <2>2. QED
    BY <1>2, <1>3, <2>1 DEF Gate!gateVars
<1>6. QED
  BY <1>4, <1>5

\* Approving spends the code on the viewer that holds the gate.
LEMMA GateApprove ==
  ASSUME TypeOK, SlotInv, NEW c \in Conns, at[c] \in Pairing, ~consumed,
         Approve(c)
  PROVE  Gate!Admit(c) \/ Gate!Waste(c)
<1>1. at[c] \in InSession /\ ~authenticated
  BY DEF Pairing, InSession, Receiving, SlotInv
<1>2. holderBar = c /\ consumed' = TRUE /\ secret' = c
  BY <1>1, HolderIs DEF SlotInv, Approve, MarkConsumed
<1>3. \A d \in Conns \ {c} : at[d] \notin InSession
  BY <1>1 DEF SlotInv, HandlerOwnsSlot
<1>4. ASSUME NEW place \in {"offer", "done"}, MoveTo(c, place)
      PROVE  holderBar' = IF place = "offer" THEN c ELSE NoConn
  <2>1. at'[c] = place /\ \A d \in Conns \ {c} : at'[d] = at[d]
    BY <1>4 DEF MoveTo, TypeOK
  <2>2. QED
    BY <1>3, <2>1 DEF holderBar, InSession, Receiving
<1>5. CASE authenticated' = TRUE /\ (MoveTo(c, "offer") \/ MoveTo(c, "done"))
  <2>1. holderBar' \in {c, NoConn}
    BY <1>4, <1>5
  <2>2. admittedBar' = c
    BY <1>2, <1>5 DEF admittedBar
  <2>3. QED
    BY <1>2, <2>1, <2>2 DEF Gate!Admit
<1>6. CASE EndSession(c, viewerTaken) /\ UNCHANGED authenticated
  <2>1. holderBar' = NoConn
    BY <1>4, <1>6 DEF EndSession
  <2>2. admittedBar' = admittedBar
    BY <1>1, <1>6 DEF admittedBar
  <2>3. QED
    BY <1>2, <2>1, <2>2 DEF Gate!Waste
<1>7. QED
  BY <1>5, <1>6 DEF Approve

\* Every step of a handler is a step of the gate, or none.
LEMMA GateSession ==
  ASSUME TypeOK, SlotInv, SlotInv', NEW c \in Conns, Session(c)
  PROVE  Gate!GateNext \/ UNCHANGED Gate!gateVars
<1>1. ASSUME NEW codeOk \in BOOLEAN, NEW n \in {c, NoConn},
             ResponseAccepted(c, codeOk, n), AutoApprove
      PROVE  Gate!GateNext
  <2>1. at[c] \in Pairing /\ ~consumed /\ Approve(c)
    BY <1>1 DEF ResponseAccepted, Status, Pairing
  <2>2. QED
    BY <2>1, GateApprove DEF Gate!GateNext
<1>2. ASSUME SharerApproves(c)
      PROVE  Gate!GateNext
  <2>1. at[c] \in Pairing /\ ~consumed /\ Approve(c)
    BY <1>2 DEF SharerApproves, Pairing, SlotInv
  <2>2. QED
    BY <2>1, GateApprove DEF Gate!GateNext
<1>3. CASE RecvAnswer(c)
  BY <1>3 DEF RecvAnswer, authorityVars, Gate!gateVars, holderBar, admittedBar
<1>4. ASSUME NEW place \in InSession \cup {"done"}, MoveTo(c, place),
             at[c] \in InSession, UNCHANGED <<consumed, authenticated, secret>>
      PROVE  Gate!GateNext \/ UNCHANGED Gate!gateVars
  BY <1>4, GateLeave DEF Gate!GateNext
<1>5. ASSUME NEW codeOk \in BOOLEAN, NEW n \in {c, NoConn},
             \/ ResponseAccepted(c, codeOk, n) /\ ~AutoApprove
             \/ ResponseRefused(c, codeOk, n)
      PROVE  Gate!GateNext \/ UNCHANGED Gate!gateVars
  BY <1>4, <1>5 DEF ResponseAccepted, ResponseRefused, ValidateResponse,
     EndSession, mediaVars, InSession, Receiving
<1>6. CASE RecvHello(c) \/ HelloRefused(c)
  BY <1>4, <1>6 DEF RecvHello, HelloRefused, IssueChallenge, EndSession,
     authorityVars, mediaVars, InSession, Receiving
<1>7. CASE Deny(c) \/ OfferReady(c) \/ OfferFails(c)
  BY <1>4, <1>7 DEF Deny, OfferReady, OfferFails, EndSession, authorityVars,
     mediaVars, InSession, Receiving
<1>8. CASE PeerEnds(c) \/ DetectLoss(c)
  BY <1>4, <1>8 DEF PeerEnds, DetectLoss, EndSession, authorityVars, mediaVars,
     InSession, Receiving
<1>9. QED
  BY <1>1, <1>2, <1>3, <1>5, <1>6, <1>7, <1>8 DEF Session

\* Every step of the server is a step of the gate, or none.
LEMMA GateStep ==
  ASSUME PrepareYields = FALSE, TypeOK, SlotInv, SlotInv', [Next]_vars
  PROVE  Gate!GateNext \/ UNCHANGED Gate!gateVars
<1>1. CASE UNCHANGED <<at, consumed, authenticated, secret>>
  BY <1>1 DEF Gate!gateVars, holderBar, admittedBar
<1>2. ASSUME NEW c \in Conns, Enter(c)
      PROVE  Gate!GateNext \/ UNCHANGED Gate!gateVars
  <2>1. CASE Reject(c)
    <3>1. \A d \in Conns : at'[d] \in InSession <=> at[d] \in InSession
      BY <2>1 DEF Reject, CanConnect, MoveTo, TypeOK, InSession, Receiving
    <3>2. CASE \E d \in Conns : at[d] \in InSession
      BY <3>1, <3>2, HolderIs, <2>1 DEF Reject, authorityVars, mediaVars,
         Gate!gateVars, admittedBar, SlotInv, HandlerOwnsSlot, holderBar
    <3>3. CASE \A d \in Conns : at[d] \notin InSession
      BY <3>1, <3>3, <2>1 DEF Reject, authorityVars, mediaVars, Gate!gateVars,
         admittedBar, holderBar
    <3>4. QED
      BY <3>2, <3>3
  <2>2. CASE Accept(c)
    <3>1. ~authenticated /\ \A d \in Conns : at[d] \notin InSession
      BY <2>2 DEF Accept, SlotInv, HandlerOwnsSlot
    <3>2. at'[c] = "hello" /\ UNCHANGED <<consumed, authenticated, secret>>
      BY <2>2 DEF Accept, TakeSlot, MoveTo, TypeOK, authorityVars, mediaVars
    <3>3. holderBar' = c
      BY <3>1, <3>2, <2>2 DEF Accept, TakeSlot, MoveTo, TypeOK, holderBar,
         InSession, Receiving
    <3>4. Gate!Claim(c)
      BY <3>1, <3>2, <3>3 DEF Gate!Claim, holderBar, admittedBar
    <3>5. QED
      BY <3>4 DEF Gate!GateNext
  <2>3. QED
    BY <1>2, <2>1, <2>2 DEF Enter, SuspendInPrepare, ResumePrepare, SlotInv
<1>3. CASE CleanupEnds
  <2>1. \A d \in Conns : at'[d] \notin InSession
    BY <1>3 DEF CleanupEnds, TypeOK, InSession, Receiving
  <2>2. holderBar' = NoConn /\ admittedBar' = admittedBar /\ consumed' = consumed
    BY <1>3, <2>1 DEF CleanupEnds, holderBar, admittedBar, authorityVars, mediaVars
  <2>3. CASE \E c \in Conns : at[c] \in InSession
    <3>1. PICK c \in Conns : at[c] \in InSession
      BY <2>3
    <3>2. Gate!Release(c)
      BY <2>2, <3>1, HolderIs DEF Gate!Release, SlotInv
    <3>3. QED
      BY <3>2 DEF Gate!GateNext
  <2>4. CASE \A c \in Conns : at[c] \notin InSession
    BY <2>2, <2>4, HolderNone DEF Gate!gateVars
  <2>5. QED
    BY <2>3, <2>4
<1>4. CASE Start \/ BindFails \/ PollAnswer \/ CloseBegin \/ SocketClosed
  BY <1>1, <1>4 DEF Start, BindFails, PollAnswer, CloseBegin, SocketClosed,
     authorityVars, mediaVars
<1>8. ASSUME NEW c \in Conns, HandlerCancelled(c)
      PROVE  Gate!GateNext \/ UNCHANGED Gate!gateVars
  <2>1. \A d \in Conns : at[d] \notin InSession /\ at'[d] \notin InSession
    BY <1>8 DEF HandlerCancelled, EndSession, MoveTo, TypeOK, SlotInv, CloseInv, InSession,
       Receiving
  <2>2. QED
    BY <1>8, <2>1 DEF HandlerCancelled, holderBar, admittedBar, authorityVars, mediaVars,
       Gate!gateVars
<1>5. ASSUME NEW c \in Conns, LinkDown(c)
      PROVE  Gate!GateNext \/ UNCHANGED Gate!gateVars
  BY <1>1, <1>5 DEF LinkDown, authorityVars, mediaVars
<1>6. CASE Time \/ UNCHANGED vars
  BY <1>1, <1>6 DEF Time, TtlElapses, FailureAges, vars, serverVars,
     authorityVars, mediaVars
<1>7. QED
  BY <1>2, <1>3, <1>4, <1>5, <1>6, <1>8, GateSession DEF Next

\* The signaling server keeps the promise of PairingGate: one holder at a
\* time, one admission for the code, and only of the holder.
THEOREM ServerImplementsGate == ASSUME PrepareYields = FALSE PROVE Spec => GateSpec
<1>1. Init => Gate!GateInit
  BY DEF Init, AuthorityInit, Gate!GateInit, holderBar, admittedBar, InSession,
     Receiving
<1>2. TypeOK /\ SlotInv /\ SlotInv' /\ [Next]_vars => [Gate!GateNext]_(Gate!gateVars)
  BY GateStep
<1>3. QED
  BY <1>1, <1>2, TypeCorrect, SlotCorrect, PTL DEF Spec, GateSpec, Gate!GateSpec
=============================================================================
