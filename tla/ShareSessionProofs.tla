-------------------------- MODULE ShareSessionProofs --------------------------
(***************************************************************************)
(* Proofs about a share session (ShareSession): for every set of viewers   *)
(* and every order of what the user, the viewers, the network and the      *)
(* session's event loop do, nothing is left, approvals are meant and the   *)
(* outcome is true.                                                        *)
(***************************************************************************)
EXTENDS ShareSession, SequenceTheorems, TLAPS

-----------------------------------------------------------------------------
(* What the session is made of, and how it ends.                           *)

Closing == at \in {"closePc", "closeServer", "end"}
Stages == Handled \cup {"away", "done"}

\* The slot: one handler at a time, the code still good until its viewer was let in, and no
\* answer before the offer.
Admission ==
  /\ stage \in [Viewers -> Stages]
  /\ \A v \in Viewers : stage[v] \in Handled => taken /\ server # "off"
  /\ \A v, w \in Viewers : stage[v] \in Handled /\ stage[w] \in Handled => v = w
  /\ \A v \in Viewers : stage[v] = "approval" => ~spent
  /\ \A v \in Viewers : stage[v] \in {"offering", "offered"} => spent
  /\ answer => spent /\ \A v \in Viewers : stage[v] # "offering"
  /\ at \in {"connect", "share", "recover"} => answer

\* What is made where, and that the clean-up has it: a peer connection is made by a handler,
\* which the server no longer admits once the clean-up has passed it.
Owned ==
  /\ made \subseteq Things
  /\ at = "setup" => made = {}
  /\ at \in {"setup", "bind"} => server = "off"
  /\ at \in {"closeServer", "end"} => server # "up" /\ "pc" \notin made
  /\ Closing => "track" \notin made /\ "a_track" \notin made
  /\ IF native THEN made \subseteq {"engine", "server"} /\ at # "closePc" ELSE "engine" \notin made
  /\ at = "end" => made = {} /\ \A v \in Viewers : stage[v] \notin Handled
  /\ thread = "done" => at = "end"
  /\ thread \in {"idle", "starting"} => at = "setup"

\* The approval callback ran while the server closed, and had the last word.
Overtaken == late /\ phase = "awaiting_approval"

\* How the body ended is what the phase says, while the clean-up runs: no handler that could
\* still write the phase is left where the body raised.
Phased ==
  /\ fault = "raised" => /\ Closing /\ phase = "failed" /\ (spent \/ server = "off")
                         /\ \A v \in Viewers : stage[v] # "offering"
  /\ Closing /\ fault # "raised" => phase # "failed"
  /\ Closing /\ native => phase \in {"stopped", "failed"} \/ Overtaken
  /\ at = "end" => phase \in {"stopped", "failed"} \/ (native /\ Overtaken)

BodyInv == Admission /\ Owned /\ Phased

LEMMA BodyStart == Init => BodyInv
BY DEF Init, BodyInv, Admission, Owned, Phased, Overtaken, Closing, Handled, Stages

LEMMA InvHolds == BodyInv => NothingLeft /\ OutcomeTrue
BY DEF BodyInv, Admission, Owned, Phased, Overtaken, Closing, NothingLeft, OutcomeTrue

\* The parts that no handler and no part of the coroutine touches.
LEMMA BodyRests ==
  ASSUME BodyInv, UNCHANGED <<native, at, made, fault, phase, server, taken, spent, answer, stage, late>>,
         thread' = "done" => at = "end", thread' \in {"idle", "starting"} => at = "setup"
  PROVE  BodyInv'
BY DEF BodyInv, Admission, Owned, Phased, Overtaken, Closing

LEMMA OutsideKeepsBody ==
  ASSUME BodyInv,
         \/ StartSharing \/ ThreadRuns \/ StopSharing \/ ShowDialog \/ RunPosted
         \/ \E kind \in {"yes", "no"} : AnswerDialog(kind)
  PROVE  BodyInv'
<1> USE DEF workerVars, bodyVars, serverVars, dialogVars
<1>1. CASE ThreadRuns
  BY <1>1 DEF ThreadRuns, BodyInv, Admission, Owned, Phased, Overtaken, Closing
<1>2. CASE StartSharing
  <2>1. at = "setup" BY <1>2 DEF StartSharing, BodyInv, Owned
  <2> QED BY <1>2, <2>1, BodyRests DEF StartSharing
<1>3. CASE StopSharing \/ ShowDialog \/ RunPosted \/ \E kind \in {"yes", "no"} : AnswerDialog(kind)
  <2>1. UNCHANGED <<native, thread, at, made, fault, phase, server, taken, spent, answer, stage, late>>
    BY <1>3, Zenon DEF StopSharing, ShowDialog, RunPosted, AnswerDialog
  <2> QED BY <2>1, BodyRests DEF BodyInv, Owned
<1> QED BY <1>1, <1>2, <1>3

\* A handler that ends.
LEMMA EndsKeepsBody ==
  ASSUME BodyInv, NEW v \in Viewers, stage[v] \in Handled, HandlerEnds(v),
         UNCHANGED <<native, thread, at, made, fault, phase, server, answer, late>>,
         UNCHANGED taken \/ stage[v] \in {"pairing", "approval"}, spent => spent'
  PROVE  BodyInv'
<1>1. stage' = [stage EXCEPT ![v] = "done"] /\ stage'[v] = "done"
      /\ \A w \in Viewers : w # v => stage'[w] = stage[w] /\ stage[w] \notin Handled
  BY DEF HandlerEnds, BodyInv, Admission
<1>2. \A w \in Viewers : stage'[w] \notin Handled BY <1>1 DEF Handled
<1>3. stage' \in [Viewers -> Stages] BY <1>1 DEF BodyInv, Admission, Stages
<1>4. Admission' BY <1>2, <1>3 DEF BodyInv, Admission, Handled
<1>5. Owned' BY <1>2 DEF BodyInv, Owned, Closing
<1>6. Phased' BY <1>2 DEF BodyInv, Phased, Overtaken, Closing, Handled
<1> QED BY <1>4, <1>5, <1>6 DEF BodyInv

LEMMA HandlersKeepBody ==
  ASSUME BodyInv, NEW v \in Viewers, Connect(v) \/ Arrive(v) \/ Handler(v) \/ RecvAnswer(v)
  PROVE  BodyInv'
<1> USE DEF workerVars, bodyVars, serverVars, dialogVars
<1>0. CASE Connect(v)
  <2> USE <1>0 DEF Connect, BodyInv
  <2>1. stage' \in [Viewers -> Stages] /\ stage'[v] = "pairing"
        /\ \A w \in Viewers : w # v => stage'[w] = stage[w] /\ stage[w] \notin Handled
    BY DEF Admission, Stages, Handled
  <2>2. Admission' BY <2>1 DEF Admission, Handled
  <2>3. Owned' BY DEF Owned, Closing
  <2>4. Phased' BY <2>1 DEF Phased, Overtaken, Closing
  <2> QED BY <2>2, <2>3, <2>4
<1>1. CASE Arrive(v)
  <2> USE <1>1 DEF Arrive, AsksApproval, BodyInv
  <2>1. stage' \in [Viewers -> Stages] /\ stage'[v] = "approval"
        /\ \A w \in Viewers : w # v => stage'[w] = stage[w] /\ stage[w] \notin Handled
    BY DEF Admission, Stages, Handled
  <2>2. Admission' BY <2>1 DEF Admission, Handled
  <2>3. Owned' BY <2>1 DEF Owned, Closing, Handled
  <2>4. server # "off" /\ ~spent BY DEF Admission, Handled
  <2>5. native /\ Closing => late' BY DEF Owned, Closing, Handled
  <2>6. Phased' BY <2>1, <2>4, <2>5 DEF Phased, Overtaken, Closing, Owned, Handled
  <2> QED BY <2>2, <2>3, <2>6
<1>2. CASE PairingEnds(v) \/ Lapse(v) \/ Denied(v)
  BY <1>2, EndsKeepsBody DEF PairingEnds, Lapse, Denied, Handled
<1>3. CASE ApprovedInVain(v) BY <1>3, EndsKeepsBody DEF ApprovedInVain, Handled
<1>4. CASE OfferFails(v) \/ HandlerLeaves(v)
  BY <1>4, EndsKeepsBody DEF OfferFails, HandlerLeaves, Handled
<1>5. CASE Approved(v)
  <2> USE <1>5 DEF Approved, BodyInv
  <2>1. stage' \in [Viewers -> Stages] /\ stage'[v] = "offering"
        /\ \A w \in Viewers : w # v => stage'[w] = stage[w] /\ stage[w] \notin Handled
    BY DEF Admission, Stages, Handled
  <2>2. ~spent /\ fault # "raised" BY DEF Admission, Phased
  <2>3. Admission' BY <2>1, <2>2 DEF Admission, Handled
  <2>4. IF native THEN phase' = "negotiating" /\ made' = made
                  ELSE made' = made \cup {"pc"} /\ phase' = phase
    BY DEF MakePc, ConnectEngine
  <2>5. at \notin {"setup", "bind", "closeServer", "end"} BY DEF Owned
  <2>6. Owned'
    <3>1. CASE native BY <2>4, <2>5, <3>1 DEF Owned, Closing
    <3>2. CASE ~native
      <4>1. /\ made' = made \cup {"pc"}
            /\ UNCHANGED <<native, thread, at, server>> /\ at' \notin {"setup", "closeServer", "end"}
        BY <2>4, <2>5, <3>2
      <4>2. made' \subseteq Things /\ "engine" \notin made' BY <3>2, <4>1 DEF Owned, Things
      <4>3. Closing' => "track" \notin made' /\ "a_track" \notin made' BY <4>1 DEF Owned, Closing
      <4> QED BY <3>2, <4>1, <4>2, <4>3 DEF Owned
    <3> QED BY <3>1, <3>2
  <2>7. Phased' BY <2>2, <2>4, <2>5 DEF Phased, Overtaken, Closing, Owned
  <2> QED BY <2>3, <2>6, <2>7
<1>6. CASE OfferReady(v)
  <2> USE <1>6 DEF OfferReady, BodyInv
  <2>1. stage' \in [Viewers -> Stages] /\ stage'[v] \in {"offered", "done"}
        /\ \A w \in Viewers : w # v => stage'[w] = stage[w] /\ stage[w] \notin Handled
    BY DEF Admission, Stages, Handled
  <2>2. spent /\ taken /\ server # "off" BY DEF Admission, Handled
  <2>3. Admission' BY <2>1, <2>2 DEF Admission, Handled
  <2>4. Owned' BY <2>1 DEF Owned, Closing, Handled
  <2>5. fault # "raised" /\ at # "end" BY DEF Phased, Owned, Handled
  <2>6. phase' = phase \/ (~native /\ phase' = "negotiating") OBVIOUS
  <2>7. Phased' BY <2>5, <2>6 DEF Phased, Overtaken, Closing
  <2> QED BY <2>3, <2>4, <2>7
<1>7. CASE RecvAnswer(v)
  <2> USE <1>7 DEF RecvAnswer, BodyInv
  <2>1. spent /\ \A w \in Viewers : stage[w] # "offering" BY DEF Admission, Handled
  <2> QED BY <2>1 DEF Admission, Owned, Phased, Overtaken, Closing
<1> QED BY <1>0, <1>1, <1>2, <1>3, <1>4, <1>5, <1>6, <1>7 DEF Handler

LEMMA PeerKeepsBody ==
  ASSUME BodyInv, NEW s \in {"connected", "disconnected", "failed"}, PeerChanges(s)
  PROVE  BodyInv'
<1>1. UNCHANGED <<native, thread, at, made, phase, server, taken, spent, answer, stage, late>>
      /\ (fault' = fault \/ (fault = "none" /\ fault' = "seen"))
  <2>1. UNCHANGED <<native, thread, at, made, phase, server, taken, spent, answer, stage, late>>
    BY Zenon DEF PeerChanges, workerVars, serverVars, dialogVars
  <2>2. fault' = (IF s = "connected" \/ fault # "none" THEN fault ELSE "seen") BY Zenon DEF PeerChanges
  <2>3. fault' = fault \/ (fault = "none" /\ fault' = "seen") BY <2>2
  <2> QED BY <2>1, <2>3, Zenon
<1> QED BY <1>1 DEF BodyInv, Admission, Owned, Phased, Overtaken, Closing

-----------------------------------------------------------------------------
(* The coroutine.                                                          *)

Resting == UNCHANGED <<native, thread, taken, spent, answer, stage, late>>

LEMMA LeaveDoes ==
  ASSUME NEW p, NEW things, Leave(p, things)
  PROVE  /\ phase' = p /\ made' = things \ {"track", "a_track"}
         /\ "pc" \in things => at' = "closePc" /\ server' = server
         /\ "pc" \notin things => /\ at' = "closeServer"
                                  /\ server' = IF server = "off" THEN "off" ELSE "closing"
BY Zenon DEF Leave, Go, BeginClose

\* The body ends where it raises, or as it should.
LEMMA LeaveKeepsBody ==
  ASSUME BodyInv, Resting, NEW p, NEW things \in SUBSET Things, Leave(p, things), thread = "running",
         IF native THEN things \subseteq {"engine", "server"} ELSE "engine" \notin things,
         \/ /\ fault' = "raised" /\ p = "failed" /\ (spent \/ server = "off")
            /\ \A v \in Viewers : stage[v] # "offering"
         \/ fault' = fault /\ fault # "raised" /\ p \in {"stopped", "stopping"} /\ (native => p = "stopped")
  PROVE  BodyInv'
<1>1. /\ phase' = p /\ made' = things \ {"track", "a_track"}
      /\ "pc" \in things => at' = "closePc" /\ server' = server
      /\ "pc" \notin things => /\ at' = "closeServer"
                               /\ server' = IF server = "off" THEN "off" ELSE "closing"
  BY LeaveDoes, Zenon
<1> USE DEF Resting, BodyInv
<1>3. Admission' BY <1>1 DEF Admission
<1>4. Owned' BY <1>1 DEF Owned, Closing
<1>5. Phased' BY <1>1 DEF Phased, Overtaken, Closing
<1> QED BY <1>3, <1>4, <1>5

LEMMA CoroutineKeepsBody == BodyInv /\ Body => BodyInv'
<1> SUFFICES ASSUME BodyInv, Body PROVE BodyInv'
  OBVIOUS
<1> USE DEF Running
<1>0. ThreadEnds \/ Resting BY Zenon DEF Body, SetupPython, SetupNative, Bind, StopWaiting, TakeAnswer,
    IceConnected, IceFails, StreamStarts, StreamFails, ShareBegins, ShareFails, LoopEnds,
    NativeLoopEnds, MediaFails, CaptureLost, MediaLost, Reconnect, Recovered, NotRecovered, ClosePc,
    ClosePython, CloseNative, Closed, Quiet, workerVars, dialogVars, Resting
<1>1. CASE SetupPython
  <2>0. Running /\ at = "setup" /\ ~native /\ Resting /\ server = "off"
    BY <1>1, Zenon DEF SetupPython, Resting, Quiet, workerVars, dialogVars, BodyInv, Owned
  <2>1. CASE at' = "bind" /\ made' \in {{"capture", "track"}, {"capture", "track", "audio", "a_track"}}
             /\ UNCHANGED <<phase, fault, server>>
    BY <2>0, <2>1 DEF Resting, BodyInv, Admission, Owned, Phased, Overtaken, Closing, Things
  <2>2. ASSUME NEW some \in {{}, {"capture"}, {"capture", "track"}}, Raise(some) PROVE BodyInv'
    <3>1. Leave("failed", some) /\ fault' = "raised" BY <2>2, Zenon DEF Raise
    <3>2. some \in SUBSET Things /\ "engine" \notin some BY DEF Things
    <3>3. \A v \in Viewers : stage[v] # "offering"
      BY <2>0 DEF BodyInv, Admission, Handled
    <3> QED BY <2>0, <3>1, <3>2, <3>3, LeaveKeepsBody
  <2>3. \/ at' = "bind" /\ made' \in {{"capture", "track"}, {"capture", "track", "audio", "a_track"}}
           /\ UNCHANGED <<phase, fault, server>>
        \/ \E some \in {{}, {"capture"}, {"capture", "track"}} : Raise(some)
    BY <1>1, Zenon DEF SetupPython, Go
  <2> QED BY <2>1, <2>2, <2>3
<1>2. CASE SetupNative
  <2>0. Running /\ at = "setup" /\ native /\ Resting /\ server = "off"
    BY <1>2, Zenon DEF SetupNative, Resting, Quiet, workerVars, dialogVars, BodyInv, Owned
  <2>1. CASE made' = {"engine"} /\ at' = "bind" /\ UNCHANGED <<phase, fault, server>>
    BY <2>0, <2>1 DEF Resting, BodyInv, Admission, Owned, Phased, Overtaken, Closing, Things
  <2>2. CASE Raise({"engine"})
    <3>1. Leave("failed", {"engine"}) /\ fault' = "raised" BY <2>2, Zenon DEF Raise
    <3>2. {"engine"} \in SUBSET Things BY DEF Things
    <3>3. \A v \in Viewers : stage[v] # "offering"
      BY <2>0 DEF BodyInv, Admission, Handled
    <3> QED BY <2>0, <3>1, <3>2, <3>3, LeaveKeepsBody
  <2> QED BY <1>2, <2>1, <2>2 DEF SetupNative, Go
<1>3. CASE Bind
  <2>0. Running /\ at = "bind" /\ Resting /\ server = "off"
    BY <1>3, Zenon DEF Bind, Resting, Quiet, workerVars, dialogVars, BodyInv, Owned
  <2>1. CASE server' = "up" /\ phase' = "waiting_for_viewer" /\ made' = made \cup {"server"}
             /\ at' = "waiting" /\ UNCHANGED fault
    <3>1. made' \subseteq Things /\ (native => made' \subseteq {"engine", "server"})
          /\ (~native => "engine" \notin made')
      BY <2>1 DEF BodyInv, Owned, Things
    <3> QED BY <2>0, <2>1, <3>1 DEF Resting, BodyInv, Admission, Owned, Phased, Overtaken, Closing
  <2>2. CASE Raise(made \cup {"server"})
    <3>1. Leave("failed", made \cup {"server"}) /\ fault' = "raised" BY <2>2, Zenon DEF Raise
    <3>2. /\ made \cup {"server"} \in SUBSET Things
          /\ IF native THEN made \cup {"server"} \subseteq {"engine", "server"}
                       ELSE "engine" \notin made \cup {"server"}
      <4>1. CASE native BY <4>1 DEF BodyInv, Owned, Things
      <4>2. CASE ~native BY <4>2 DEF BodyInv, Owned, Things
      <4> QED BY <4>1, <4>2
    <3>3. \A v \in Viewers : stage[v] # "offering"
      BY <2>0 DEF BodyInv, Admission, Handled
    <3> QED BY <2>0, <3>1, <3>2, <3>3, LeaveKeepsBody
  <2> QED BY <1>3, <2>1, <2>2 DEF Bind, Go
<1>12. made \in SUBSET Things /\ IF native THEN made \subseteq {"engine", "server"} ELSE "engine" \notin made
  BY DEF BodyInv, Owned
<1>4. CASE StopWaiting \/ NativeLoopEnds \/ LoopEnds
  <2>1. PICK p \in {"stopped", "stopping"} : Leave(p, made) /\ (native => p = "stopped")
    BY <1>4, Zenon DEF StopWaiting, NativeLoopEnds, LoopEnds
  <2>2. Running /\ ~Closing /\ fault' = fault
    BY <1>4 DEF StopWaiting, NativeLoopEnds, LoopEnds, Closing
  <2>3. Resting BY <1>0, <1>4 DEF ThreadEnds, StopWaiting, NativeLoopEnds, LoopEnds
  <2>4. fault # "raised" BY <2>2 DEF BodyInv, Phased
  <2> QED BY <1>12, <2>1, <2>2, <2>3, <2>4, LeaveKeepsBody
<1>6. CASE TakeAnswer \/ ShareBegins \/ Reconnect \/ Recovered
  <2>1. /\ Resting /\ at' \in {"connect", "share", "recover"} /\ answer
        /\ at \notin {"setup", "bind", "closePc", "closeServer", "end"}
        /\ UNCHANGED <<made, fault, server>>
    BY <1>6 DEF TakeAnswer, ShareBegins, Reconnect, Recovered, Go, Quiet, workerVars, dialogVars, Resting, BodyInv,
                Admission
  <2> QED BY <2>1 DEF Resting, BodyInv, Admission, Owned, Phased, Overtaken, Closing
<1>7. CASE ShareFails \/ MediaLost \/ NotRecovered
  <2>1. Leave("failed", made) /\ fault' = "raised"
    BY <1>7, Zenon DEF ShareFails, MediaLost, NotRecovered, Raise
  <2>2. Running /\ at \in {"connect", "share", "recover"}
    BY <1>7 DEF ShareFails, MediaLost, NotRecovered
  <2>3. Resting BY <1>7, Zenon DEF ShareFails, MediaLost, NotRecovered, Quiet, workerVars, dialogVars, Resting
  <2>4. spent /\ \A v \in Viewers : stage[v] # "offering" BY <2>2 DEF BodyInv, Admission
  <2> QED BY <1>12, <2>1, <2>2, <2>3, <2>4, LeaveKeepsBody
<1>8. CASE ClosePc
  <2>1. /\ Running /\ Resting /\ at = "closePc" /\ made' = made \ {"pc"} /\ at' = "closeServer"
        /\ server' = (IF server = "off" THEN "off" ELSE "closing") /\ UNCHANGED <<phase, fault>>
    BY <1>8, Zenon DEF ClosePc, Go, BeginClose, Quiet, workerVars, dialogVars, Resting
  <2>2. ~native BY <2>1 DEF BodyInv, Owned
  <2>3. server' # "up" /\ (server' = "off" <=> server = "off") BY <2>1
  <2> HIDE DEF Running
  <2> QED BY <2>1, <2>2, <2>3 DEF Resting, BodyInv, Admission, Owned, Phased, Overtaken, Closing, Running
<1>9. CASE ClosePython \/ CloseNative
  <2>1. /\ Running /\ Resting /\ at = "closeServer" /\ at' = "end" /\ UNCHANGED fault
        /\ \A v \in Viewers : stage[v] \notin Handled
        /\ server' = (IF server = "off" THEN "off" ELSE "closed")
    BY <1>9, Zenon DEF ClosePython, CloseNative, Closed, Go, Quiet, workerVars, dialogVars, Resting
  <2>2. made' = {}
    <3>1. CASE native
      BY <1>9, <3>1 DEF ClosePython, CloseNative, Closed, BodyInv, Owned
    <3>2. CASE ~native
      <4>1. made' = made \ {"server", "capture", "audio"}
        BY <1>9, <3>2 DEF ClosePython, CloseNative, Closed
      <4> QED BY <2>1, <3>2, <4>1 DEF BodyInv, Owned, Closing, Things
    <3> QED BY <3>1, <3>2
  <2>3. phase' = (IF native \/ phase = "failed" THEN phase ELSE "stopped")
    BY <1>9 DEF ClosePython, CloseNative
  <2>4. Admission' BY <2>1 DEF Resting, BodyInv, Admission
  <2>5. Owned' BY <2>1, <2>2 DEF Resting, BodyInv, Owned, Closing
  <2>6. Phased' BY <2>1, <2>3 DEF Resting, BodyInv, Phased, Overtaken, Closing
  <2> QED BY <2>4, <2>5, <2>6 DEF BodyInv
<1>11. CASE ThreadEnds
  BY <1>11, BodyRests DEF ThreadEnds, bodyVars, serverVars
<1> QED BY <1>1, <1>2, <1>3, <1>4, <1>6, <1>7, <1>8, <1>9, <1>11, Zenon
        DEF Body, IceConnected, IceFails, StreamStarts, StreamFails, MediaFails, CaptureLost

-----------------------------------------------------------------------------
(* The approvals.                                                          *)

Callback == [kind : {"stop", "yes", "no"}, shown : Viewers \cup {NoViewer}]
QueueTypes ==
  /\ posted \in Seq(Callback) /\ signals \in Seq(Viewers)
  /\ dialog \in Viewers \cup {NoViewer} /\ future.shown \in Viewers \cup {NoViewer}
  /\ \A i \in 1..Len(posted) : posted[i].kind # "stop" => posted[i].shown # NoViewer
  /\ future.state = "yes" => future.shown # NoViewer

\* A request is in one place on its way from the signal to the future.
Waits(v) == \E i \in 1..Len(signals) : signals[i] = v
Answered(v) == \E i \in 1..Len(posted) : posted[i].shown = v
Once ==
  /\ \A i, j \in 1..Len(signals) : signals[i] = signals[j] => i = j
  /\ \A i, j \in 1..Len(posted) : posted[i].shown = posted[j].shown /\ posted[i].shown # NoViewer => i = j
  /\ \A v \in Viewers :
       /\ dialog = v => ~Waits(v)
       /\ Answered(v) => ~Waits(v) /\ dialog # v
       /\ future.shown = v => ~Waits(v) /\ dialog # v /\ ~Answered(v)
       /\ stage[v] \in {"away", "pairing"} => ~Waits(v) /\ dialog # v /\ ~Answered(v) /\ future.shown # v

\* Until someone was let in, what is under way is of the viewer that waits for it, or of one
\* whose request has lapsed.
Meant ==
  /\ \A v \in Viewers :
       Waits(v) \/ Answered(v) \/ dialog = v => v \in lapsed \/ stage[v] = "approval" \/ spent
  /\ \A v \in Viewers :
       stage[v] = "approval" /\ future.state = "yes" => future.shown = v \/ future.shown \in lapsed
  /\ ApprovalMeant

ApprovalInv == QueueTypes /\ Once /\ Meant

LEMMA ApprovalStart == Init => ApprovalInv
BY ShareAssumption
   DEF Init, ApprovalInv, QueueTypes, Once, Waits, Answered, Meant, ApprovalMeant, NoFuture, Callback

\* What touches none of it.
LEMMA ApprovalRests ==
  ASSUME ApprovalInv, UNCHANGED <<posted, stage, spent, dialogVars>>
  PROVE  ApprovalInv'
BY DEF ApprovalInv, QueueTypes, Once, Waits, Answered, Meant, ApprovalMeant, dialogVars

\* The head of a queue leaves it.
LEMMA HeadLeaves ==
  ASSUME NEW S, NEW s \in Seq(S), s # <<>>
  PROVE  /\ Head(s) \in S /\ Head(s) = s[1] /\ 1 \in 1..Len(s)
         /\ Tail(s) \in Seq(S) /\ Len(Tail(s)) = Len(s) - 1 /\ Len(s) \in Nat
         /\ \A i \in 1..Len(Tail(s)) : i + 1 \in 1..Len(s) /\ Tail(s)[i] = s[i + 1] /\ i + 1 # 1
OBVIOUS

LEMMA JoinsQueue ==
  ASSUME NEW S, NEW s \in Seq(S), NEW e \in S
  PROVE  /\ Append(s, e) \in Seq(S) /\ Len(Append(s, e)) = Len(s) + 1 /\ Len(s) \in Nat
         /\ Append(s, e)[Len(s) + 1] = e
         /\ \A i \in 1..Len(s) : Append(s, e)[i] = s[i]
OBVIOUS

LEMMA PostKeepsApproval ==
  ASSUME ApprovalInv, NEW kind \in {"stop", "yes", "no"}, NEW v \in Viewers \cup {NoViewer},
         v = NoViewer => kind = "stop", v # NoViewer => dialog = v /\ dialog' = NoViewer,
         v = NoViewer => dialog' = dialog,
         Post(kind, v), UNCHANGED <<stage, spent, future, signals, lapsed, granted>>
  PROVE  ApprovalInv'
<1> DEFINE p == [kind |-> kind, shown |-> v]
<1> USE ShareAssumption DEF ApprovalInv
<1>1. /\ p \in Callback /\ posted' \in Seq(Callback) /\ Len(posted') = Len(posted) + 1
      /\ Len(posted) \in Nat
      /\ posted'[Len(posted) + 1] = p /\ \A i \in 1..Len(posted) : posted'[i] = posted[i]
  <2>1. p \in Callback BY DEF Callback
  <2>2. posted' = Append(posted, p) /\ posted \in Seq(Callback) BY DEF Post, QueueTypes
  <2> HIDE DEF p
  <2> QED BY <2>1, <2>2, JoinsQueue
<1>2. QueueTypes' BY <1>1 DEF QueueTypes
<1>3. \A w \in Viewers : (Waits(w)' <=> Waits(w)) /\ (Answered(w)' <=> Answered(w) \/ v = w)
  BY <1>1 DEF Waits, Answered
<1>4. Once'
  <2>1. \A i, j \in 1..Len(posted') :
          posted'[i].shown = posted'[j].shown /\ posted'[i].shown # NoViewer => i = j
    <3>1. v # NoViewer => ~Answered(v) BY DEF Once
    <3> QED BY <1>1, <3>1 DEF Once, Answered
  <2>2. \A w \in Viewers : dialog' = w => dialog = w /\ v # w BY DEF QueueTypes
  <2> QED BY <1>3, <2>1, <2>2 DEF Once
<1>5. Meant' BY <1>3 DEF Meant, ApprovalMeant
<1> QED BY <1>2, <1>4, <1>5

\* What the coroutine does, but for its end, is none of it.
LEMMA CoroutineKeepsApproval == ApprovalInv /\ Body => ApprovalInv'
<1> SUFFICES ASSUME ApprovalInv, Body PROVE ApprovalInv'
  OBVIOUS
<1>1. CASE ThreadEnds
  <2> USE <1>1, ShareAssumption DEF ThreadEnds, NoFuture, serverVars, ApprovalInv
  <2>1. QueueTypes' BY DEF QueueTypes
  <2>2. \A v \in Viewers : (Waits(v)' <=> Waits(v)) /\ ~Answered(v)' BY DEF Waits, Answered
  <2>3. Once' BY <2>2 DEF Once
  <2>4. Meant' BY <2>2 DEF Meant, ApprovalMeant
  <2> QED BY <2>1, <2>3, <2>4
<1>2. CASE ~ThreadEnds
  <2>1. Quiet
    BY <1>2, Zenon DEF Body, SetupPython, SetupNative, Bind, StopWaiting, TakeAnswer,
       IceConnected, IceFails, StreamStarts, StreamFails, ShareBegins, ShareFails, LoopEnds,
       NativeLoopEnds, MediaFails, CaptureLost, MediaLost, Reconnect, Recovered, NotRecovered,
       ClosePc, ClosePython, CloseNative, Closed
  <2> QED BY <2>1, ApprovalRests DEF Quiet
<1> QED BY <1>1, <1>2

LEMMA OutsideKeepsApproval ==
  ASSUME ApprovalInv, BodyInv,
         \/ StartSharing \/ ThreadRuns \/ StopSharing \/ ShowDialog \/ RunPosted
         \/ \E kind \in {"yes", "no"} : AnswerDialog(kind)
  PROVE  ApprovalInv'
<1> USE ShareAssumption DEF ApprovalInv
<1>1. CASE StartSharing \/ ThreadRuns
  <2>1. UNCHANGED <<posted, stage, spent, dialogVars>>
    BY <1>1, Zenon DEF StartSharing, ThreadRuns, serverVars
  <2> QED BY <2>1, ApprovalRests
<1>2. CASE StopSharing
  <2>1. Post("stop", NoViewer) /\ UNCHANGED <<stage, spent, future, signals, dialog, lapsed, granted>>
    BY <1>2, Zenon DEF StopSharing, serverVars, dialogVars
  <2> QED BY <2>1, PostKeepsApproval
<1>3. ASSUME NEW kind \in {"yes", "no"}, AnswerDialog(kind) PROVE ApprovalInv'
  <2>1. dialog \in Viewers /\ dialog' = NoViewer BY <1>3 DEF AnswerDialog, QueueTypes
  <2>2. UNCHANGED <<stage, spent, future, signals, lapsed, granted>>
    BY <1>3, Zenon DEF AnswerDialog, serverVars
  <2>3. CASE Post(kind, dialog) BY <2>1, <2>2, <2>3, PostKeepsApproval
  <2>4. CASE UNCHANGED posted
    BY <2>1, <2>2, <2>4 DEF QueueTypes, Once, Waits, Answered, Meant, ApprovalMeant
  <2> QED BY <1>3, <2>3, <2>4 DEF AnswerDialog
<1>4. CASE ShowDialog
  <2>1. /\ signals # <<>> /\ signals' = Tail(signals)
        /\ dialog' = IF dialog = NoViewer THEN Head(signals) ELSE dialog
        /\ UNCHANGED <<posted, stage, spent, future, lapsed, granted>>
    BY <1>4, Zenon DEF ShowDialog, serverVars
  <2>2. /\ Head(signals) \in Viewers /\ Head(signals) = signals[1] /\ 1 \in 1..Len(signals)
        /\ signals' \in Seq(Viewers) /\ Len(signals') = Len(signals) - 1 /\ Len(signals) \in Nat
        /\ \A i \in 1..Len(signals') : i + 1 \in 1..Len(signals) /\ signals'[i] = signals[i + 1] /\ i + 1 # 1
    BY <2>1, HeadLeaves DEF QueueTypes
  <2>3. QueueTypes' BY <2>1, <2>2 DEF QueueTypes
  <2>4. \A v \in Viewers : /\ Waits(v)' => Waits(v) /\ v # Head(signals)
                           /\ Answered(v)' <=> Answered(v)
                           /\ dialog' = v => dialog = v \/ v = Head(signals)
    BY <2>1, <2>2 DEF Once, Waits, Answered
  <2>5. Waits(Head(signals)) BY <2>2 DEF Waits
  <2>6. Once'
    <3>1. ASSUME NEW i \in 1..Len(signals'), NEW j \in 1..Len(signals'), signals'[i] = signals'[j]
          PROVE  i = j
      <4>1. /\ i + 1 \in 1..Len(signals) /\ j + 1 \in 1..Len(signals)
            /\ signals[i + 1] = signals[j + 1] /\ i \in Int /\ j \in Int
        BY <2>2, <3>1
      <4>2. i + 1 = j + 1 BY <4>1, Zenon DEF Once
      <4> QED BY <4>1, <4>2
    <3>2. \A v \in Viewers :
            /\ dialog' = v => ~Waits(v)'
            /\ Answered(v)' => ~Waits(v)' /\ dialog' # v
            /\ future'.shown = v => ~Waits(v)' /\ dialog' # v /\ ~Answered(v)'
            /\ stage'[v] \in {"away", "pairing"} => ~Waits(v)' /\ dialog' # v /\ ~Answered(v)' /\ future'.shown # v
      BY <2>1, <2>4, <2>5 DEF Once
    <3> QED BY <2>1, <3>1, <3>2 DEF Once
  <2>7. Meant' BY <2>1, <2>2, <2>4, <2>5 DEF Meant, ApprovalMeant
  <2> QED BY <2>3, <2>6, <2>7
<1>5. CASE RunPosted
  <2>1. /\ posted # <<>> /\ posted' = Tail(posted)
        /\ UNCHANGED <<stage, spent, signals, dialog, lapsed, granted>>
        /\ Resolve(IF Head(posted).kind = "stop" THEN "no" ELSE Head(posted).kind,
                   IF Head(posted).kind = "stop" THEN NoViewer ELSE Head(posted).shown)
    BY <1>5 DEF RunPosted, serverVars, Resolve
  <2>2. PICK p \in Callback : p = Head(posted) /\ p = posted[1] /\ 1 \in 1..Len(posted)
        /\ posted' \in Seq(Callback) /\ Len(posted') = Len(posted) - 1 /\ Len(posted) \in Nat
        /\ \A i \in 1..Len(posted') : i + 1 \in 1..Len(posted) /\ posted'[i] = posted[i + 1] /\ i + 1 # 1
    BY <2>1, HeadLeaves DEF QueueTypes
  <2>3. \/ future' = future
        \/ future' = [shown |-> NoViewer, state |-> "no"]
        \/ p.kind # "stop" /\ future' = [shown |-> p.shown, state |-> p.kind]
    BY <2>1, <2>2 DEF Resolve
  <2>4. p.kind # "stop" => p.shown \in Viewers BY <2>2 DEF QueueTypes, Callback
  <2>5. QueueTypes' BY <2>1, <2>2, <2>3, <2>4 DEF QueueTypes
  <2>6. \A v \in Viewers : /\ Waits(v)' <=> Waits(v)
                           /\ Answered(v)' => Answered(v) /\ p.shown # v
                           /\ p.shown = v => Answered(v)
    BY <2>1, <2>2 DEF Once, Waits, Answered
  <2>7. Once'
    <3>1. \A i, j \in 1..Len(posted') :
            posted'[i].shown = posted'[j].shown /\ posted'[i].shown # NoViewer => i = j
      BY <2>2 DEF Once
    <3>2. \A v \in Viewers : future'.shown = v => future.shown = v \/ p.shown = v
      BY <2>3
    <3> QED BY <2>1, <2>6, <3>1, <3>2 DEF Once
  <2>8. Meant'
    <3>1. ASSUME NEW v \in Viewers, stage[v] = "approval", future'.state = "yes"
          PROVE  future'.shown = v \/ future'.shown \in lapsed
      <4>1. CASE future' = future BY <3>1, <4>1 DEF Meant
      <4>2. CASE p.kind # "stop" /\ future' = [shown |-> p.shown, state |-> p.kind]
        <5>1. p.shown \in Viewers /\ Answered(p.shown) /\ future'.shown = p.shown
          BY <2>4, <2>6, <4>2
        <5>2. p.shown \in lapsed \/ stage[p.shown] = "approval" \/ spent BY <5>1 DEF Meant
        <5>3. ~spent /\ (stage[p.shown] = "approval" => p.shown = v)
          BY <3>1, <5>1 DEF BodyInv, Admission, Handled
        <5> QED BY <5>1, <5>2, <5>3
      <4> QED BY <2>3, <3>1, <4>1, <4>2
    <3> QED BY <2>1, <2>6, <3>1 DEF Meant, ApprovalMeant
  <2> QED BY <2>5, <2>7, <2>8
<1> QED BY <1>1, <1>2, <1>3, <1>4, <1>5

LEMMA HandlersKeepApproval ==
  ASSUME ApprovalInv, BodyInv, NEW v \in Viewers, Connect(v) \/ Arrive(v) \/ Handler(v) \/ RecvAnswer(v)
  PROVE  ApprovalInv'
<1> USE ShareAssumption DEF ApprovalInv, HandlerEnds
<1>1. stage \in [Viewers -> Stages]
      /\ \A w \in Viewers : stage[v] \in Handled /\ w # v => stage[w] # "approval"
  BY DEF BodyInv, Admission, Handled
<1>2. CASE Arrive(v)
  <2>1. /\ ~spent /\ stage[v] = "pairing" /\ stage' = [stage EXCEPT ![v] = "approval"]
        /\ future' = Pending /\ signals' = Append(signals, v)
        /\ UNCHANGED <<posted, spent, dialog, lapsed, granted>>
    BY <1>2, Zenon DEF Arrive, AsksApproval
  <2>2. /\ signals' \in Seq(Viewers) /\ Len(signals') = Len(signals) + 1 /\ Len(signals) \in Nat
        /\ signals'[Len(signals) + 1] = v /\ \A i \in 1..Len(signals) : signals'[i] = signals[i]
    BY <2>1, JoinsQueue DEF QueueTypes
  <2>3. stage'[v] = "approval" /\ \A w \in Viewers : w # v => stage'[w] = stage[w] /\ stage[w] # "approval"
    BY <1>1, <2>1 DEF BodyInv, Admission, Handled
  <2>4. QueueTypes' BY <2>1, <2>2 DEF QueueTypes, Pending
  <2>5. \A w \in Viewers : (Waits(w)' <=> Waits(w) \/ w = v) /\ (Answered(w)' <=> Answered(w))
    BY <2>1, <2>2 DEF Waits, Answered
  <2>6. ~Waits(v) /\ dialog # v /\ ~Answered(v) BY <2>1 DEF Once
  <2>7. Once'
    <3>1. \A i, j \in 1..Len(signals') : signals'[i] = signals'[j] => i = j
      BY <2>2, <2>6 DEF Once, Waits
    <3> QED BY <2>1, <2>3, <2>5, <2>6, <3>1 DEF Once, Pending
  <2>8. Meant' BY <2>1, <2>3, <2>5 DEF Meant, ApprovalMeant, Pending
  <2> QED BY <2>4, <2>7, <2>8
<1>3. CASE Lapse(v) \/ Denied(v) \/ ApprovedInVain(v) \/ Approved(v)
  <2>1. /\ stage[v] = "approval" /\ future' = NoFuture /\ UNCHANGED <<posted, signals, dialog>>
        /\ stage' \in [Viewers -> Stages] /\ stage'[v] \notin {"approval", "away", "pairing"}
        /\ \A w \in Viewers : w # v => stage'[w] = stage[w] /\ stage[w] # "approval"
    BY <1>1, <1>3 DEF Lapse, Denied, ApprovedInVain, Approved, Handled, Stages
  <2>2. QueueTypes' BY <2>1 DEF QueueTypes, NoFuture
  <2>3. \A w \in Viewers : (Waits(w)' <=> Waits(w)) /\ (Answered(w)' <=> Answered(w))
    BY <2>1 DEF Waits, Answered
  <2>4. Once' BY <2>1, <2>3 DEF Once, NoFuture
  <2>5. lapsed \subseteq lapsed' /\ (spent => spent')
    BY <1>3 DEF Lapse, Denied, ApprovedInVain, Approved
  <2>6. Waits(v) \/ Answered(v) \/ dialog = v => v \in lapsed' \/ spent'
    BY <1>3 DEF Lapse, Denied, ApprovedInVain, Approved, Once
  <2>7. \A w \in Viewers :
          Waits(w)' \/ Answered(w)' \/ dialog' = w => w \in lapsed' \/ stage'[w] = "approval" \/ spent'
    BY <2>1, <2>3, <2>5, <2>6 DEF Meant
  <2>8. ApprovalMeant'
    <3>1. CASE granted' = granted BY <2>5, <3>1 DEF Meant, ApprovalMeant
    <3>2. CASE future.state = "yes" /\ granted' = granted \cup {<<v, future.shown>>}
      BY <2>1, <2>5, <3>2 DEF Meant, ApprovalMeant
    <3> QED BY <1>3, <3>1, <3>2 DEF Lapse, Denied, ApprovedInVain, Approved
  <2> QED BY <2>1, <2>2, <2>4, <2>7, <2>8 DEF Meant
<1>4. CASE \/ Connect(v) \/ PairingEnds(v) \/ OfferReady(v) \/ OfferFails(v) \/ HandlerLeaves(v)
           \/ RecvAnswer(v)
  <2>1. /\ UNCHANGED <<posted, spent, future, signals, dialog, lapsed, granted>>
        /\ \A w \in Viewers : /\ stage'[w] \in {"away", "pairing"} => stage[w] \in {"away", "pairing"}
                              /\ stage'[w] = "approval" <=> stage[w] = "approval"
    BY <1>1, <1>4 DEF Connect, PairingEnds, OfferReady, OfferFails, HandlerLeaves, RecvAnswer, dialogVars
  <2> QED BY <2>1 DEF QueueTypes, Once, Waits, Answered, Meant, ApprovalMeant
<1> QED BY <1>2, <1>3, <1>4 DEF Handler

-----------------------------------------------------------------------------
ShareInv == BodyInv /\ ApprovalInv

LEMMA ShareStart == Init => ShareInv
BY BodyStart, ApprovalStart DEF ShareInv

LEMMA ShareStep == ShareInv /\ [Next]_vars => ShareInv'
<1> SUFFICES ASSUME ShareInv, [Next]_vars PROVE ShareInv'
  OBVIOUS
<1> USE DEF ShareInv
<1>1. CASE \/ StartSharing \/ ThreadRuns \/ StopSharing \/ ShowDialog \/ RunPosted
           \/ \E kind \in {"yes", "no"} : AnswerDialog(kind)
  BY <1>1, OutsideKeepsBody, OutsideKeepsApproval
<1>2. CASE Body BY <1>2, CoroutineKeepsBody, CoroutineKeepsApproval
<1>3. CASE \E v \in Viewers : Connect(v) \/ Arrive(v) \/ Handler(v) \/ RecvAnswer(v)
  BY <1>3, HandlersKeepBody, HandlersKeepApproval
<1>4. ASSUME NEW s \in {"connected", "disconnected", "failed"}, PeerChanges(s) PROVE ShareInv'
  <2>1. UNCHANGED <<posted, stage, spent, dialogVars>>
    BY <1>4, Zenon DEF PeerChanges, serverVars
  <2> QED BY <1>4, <2>1, PeerKeepsBody, ApprovalRests
<1>5. CASE UNCHANGED vars
  <2>1. /\ UNCHANGED <<native, thread, at, made, fault, phase, server, taken, spent, answer, stage, late>>
        /\ UNCHANGED <<posted, stage, spent, dialogVars>>
    BY <1>5, Zenon DEF vars, workerVars, bodyVars, serverVars, dialogVars
  <2> QED BY <2>1, BodyRests, ApprovalRests DEF BodyInv, Owned
<1> QED BY <1>1, <1>2, <1>3, <1>4, <1>5 DEF Next

\* A session's thread ends with everything it made closed, whenever the user stops it and
\* whichever viewer a handler is busy with.
THEOREM NothingIsLeft == Spec => []NothingLeft
<1>1. ShareInv => NothingLeft BY InvHolds DEF ShareInv
<1> QED BY <1>1, ShareStart, ShareStep, PTL DEF Spec

\* The phase it ends with is the outcome: a failure if the body raised, and a stop if nothing
\* went wrong - but for a native share whose handler, with a response received before close()
\* began, asked for approval after the outcome was set: it ends as awaiting approval.
THEOREM OutcomeIsTrue == Spec => []OutcomeTrue
<1>1. ShareInv => OutcomeTrue BY InvHolds DEF ShareInv
<1> QED BY <1>1, ShareStart, ShareStep, PTL DEF Spec

\* A viewer is let in by its own dialog, or by that of one whose request has lapsed, for any
\* number of viewers and of answers under way.
THEOREM ApprovalsMeant == Spec => []ApprovalMeant
<1>1. ShareInv => ApprovalMeant BY DEF ShareInv, ApprovalInv, Meant
<1> QED BY <1>1, ShareStart, ShareStep, PTL DEF Spec
=============================================================================
