-------------------------- MODULE ViewSessionProofs --------------------------
(***************************************************************************)
(* Proofs about the viewer's sessions (ViewSession): for every number of   *)
(* sessions, of mouse moves and of callbacks that wait, the buttons follow *)
(* the session, and no click is behind the pointer.                        *)
(***************************************************************************)
EXTENDS ViewSession, SequenceTheorems, TLAPS

-----------------------------------------------------------------------------
(* The buttons.                                                            *)

\* Unless sessions have overlapped, nothing of the last one is under way while one is up.
Signal == [kind : {"frame", "failed", "finished"}, of : Nat]
Up == thread \in {"starting", "running"}
ButtonInv ==
  /\ signals \in Seq(Signal) /\ session \in Nat /\ owed \in Nat
  /\ overlap \in BOOLEAN
  /\ Up /\ ~overlap => ~connect /\ owed = 0 /\ \A i \in 1..Len(signals) : signals[i].kind = "frame"

-----------------------------------------------------------------------------
(* The clicks.                                                             *)

PointerTypes ==
  /\ posted \in Seq([kind : {"stop", "drain", "click"}, engine : Nat, aimed : Nat])
  /\ moves \in Nat /\ pointer \in Nat /\ page \in Nat /\ session \in Nat
  /\ mouse \in [pending : Nat, scheduled : BOOLEAN]

IsDrain(i) == i \in 1..Len(posted) /\ posted[i].kind = "drain"
Draining == \E i \in 1..Len(posted) : IsDrain(i)

\* Callbacks wait for the session that is up; it begins with its pointer in the corner, and
\* only an engine moves it.
Posts ==
  /\ posted # <<>> => thread = "running"
  /\ thread = "starting" => pointer = 0 /\ at # "end"
  /\ thread = "running" /\ at # "end" /\ "engine" \notin made => pointer = 0
  /\ thread # "running" \/ at = "end" => "engine" \notin made
\* One drain is under way for the moves that the page has noted.
OneDrain ==
  /\ \A i, j \in 1..Len(posted) : IsDrain(i) /\ IsDrain(j) => i = j
  /\ page # 0 /\ Draining => mouse.scheduled /\ mouse.pending = moves /\ moves # 0
\* The newest move was sent, or will be, or there was none to be sent.
Newest ==
  page # 0 /\ thread = "running" =>
    /\ pointer = 0 \/ pointer >= moves \/ Draining
    /\ mouse.scheduled => Draining \/ pointer = 0
\* And a click waits behind it.
Behind ==
  \A j \in 1..Len(posted) : posted[j].kind = "click" =>
    /\ posted[j].engine # 0
    /\ page # 0 => /\ posted[j].aimed <= moves
                   /\ \/ pointer = 0 \/ pointer >= posted[j].aimed
                      \/ \E i \in 1..Len(posted) : i < j /\ IsDrain(i)

ClickInv == PointerTypes /\ Posts /\ OneDrain /\ Newest /\ Behind /\ ClickNotBehind

ViewInv == ButtonInv /\ ClickInv

LEMMA ViewStart == Init => ViewInv
<1> SUFFICES ASSUME Init PROVE ViewInv
  OBVIOUS
<1>1. ButtonInv
  <2>1. /\ signals = <<>> /\ session = 0 /\ owed = 0 /\ ~overlap /\ thread = "idle"
    BY Zenon DEF Init
  <2>2. overlap \in BOOLEAN BY Zenon DEF Init
  <2>3. signals \in Seq(Signal) BY <2>1
  <2> QED BY <2>1, <2>2, <2>3 DEF ButtonInv, Up
<1>2. ClickInv
  BY DEF Init, ClickInv, PointerTypes, NoMouse, Posts, OneDrain, IsDrain, Draining, Newest, Behind,
         ClickNotBehind
<1> QED BY <1>1, <1>2 DEF ViewInv

-----------------------------------------------------------------------------
(* The session coroutine.                                                  *)

\* Between its begin and its last step the coroutine keeps its engine.
Middle == Dialing \/ Meeting \/ Viewing \/ CloseMedia \/ ClosePc

LEMMA LeaveGoes == ASSUME NEW p, Leave(p) PROVE at' \in {"closeClient", "closeMedia"}
<1>1. at' = IF native THEN "closeClient" ELSE "closeMedia" BY Zenon DEF Leave, Go
<1> QED BY <1>1

LEMMA MiddleKeepsEngine ==
  ASSUME Middle
  PROVE  /\ Quiet /\ thread = "running" /\ at # "end" /\ at' # "end"
         /\ "engine" \in made' <=> "engine" \in made
<1>1. Quiet /\ Running
  BY Zenon DEF Middle, Dialing, Paired, Refused, Lost, LostForGood, BackoffElapses, BackoffCancelled,
     Meeting, OfferComes, AnswerSent, IceConnects, TrackComes, FirstFrame, Fails, Viewing, LoopEnds,
     Interrupted, Recovered, NotRecovered, AudioFails, EngineFails, CloseMedia, ClosePc
<1>2. CASE Refused \/ LostForGood \/ BackoffCancelled \/ NotRecovered \/ AudioFails \/ EngineFails
           \/ LoopEnds
  <2>1. at # "end" /\ made' = made
    BY <1>2 DEF Refused, LostForGood, BackoffCancelled, NotRecovered, AudioFails, EngineFails, LoopEnds
  <2>2. \E p : Leave(p)
    BY <1>2, Zenon DEF Refused, LostForGood, BackoffCancelled, NotRecovered, AudioFails, EngineFails,
                       LoopEnds, Raise
  <2> QED BY <1>1, <2>1, <2>2, LeaveGoes DEF Running
<1>3. CASE Fails
  <2>1. /\ at # "end"
        /\ \/ made' = made \/ made' = made \cup {"consumer"} \/ made' = made \cup {"consumer", "audio"}
    BY <1>3 DEF Fails
  <2>2. \E p : Leave(p) BY <1>3, Zenon DEF Fails, Raise
  <2> QED BY <1>1, <2>1, <2>2, LeaveGoes DEF Running
<1>4. CASE Paired \/ Lost \/ BackoffElapses \/ OfferComes \/ AnswerSent \/ IceConnects
  BY <1>1, <1>4 DEF Paired, Lost, BackoffElapses, OfferComes, AnswerSent, IceConnects, Go, Running
<1>5. CASE TrackComes \/ FirstFrame \/ Interrupted \/ Recovered
  BY <1>1, <1>5 DEF TrackComes, FirstFrame, Interrupted, Recovered, Go, Running
<1>6. CASE CloseMedia \/ ClosePc BY <1>1, <1>6 DEF CloseMedia, ClosePc, Media, Go, Running
<1> QED BY <1>2, <1>3, <1>4, <1>5, <1>6 DEF Middle, Dialing, Meeting, Viewing

\* What touches neither the buttons nor the pointer.
LEMMA ViewRests ==
  ASSUME ViewInv,
         UNCHANGED <<session, thread, owed, posted, signals, connect, inputVars, overlap>>,
         \/ UNCHANGED <<at, made>>
         \/ at # "end" /\ at' # "end" /\ thread = "running" /\ ("engine" \in made' <=> "engine" \in made)
         \/ at' = "end" /\ thread = "running" /\ "engine" \notin made'
  PROVE  ViewInv'
<1>1. ButtonInv' BY DEF ViewInv, ButtonInv, Up
<1>2. Posts' BY DEF ViewInv, ClickInv, Posts, inputVars
<1>3. /\ PointerTypes' /\ OneDrain' /\ Newest' /\ Behind' /\ ClickNotBehind'
  BY DEF ViewInv, ClickInv, PointerTypes, OneDrain, IsDrain, Draining, Newest, Behind, ClickNotBehind,
         inputVars
<1> QED BY <1>1, <1>2, <1>3 DEF ViewInv, ClickInv

LEMMA BodyKeepsView ==
  ASSUME ViewInv,
         \/ Middle \/ CloseClient \/ Decodes
         \/ \E s \in {"connected", "disconnected", "failed"} : PeerChanges(s)
  PROVE  ViewInv'
<1>1. CASE Middle BY <1>1, MiddleKeepsEngine, ViewRests DEF Quiet, workerVars
<1>2. CASE CloseClient
  <2>1. at' = "end" /\ thread = "running" /\ "engine" \notin made' /\ Quiet
    BY <1>2 DEF CloseClient, Go, Running
  <2> QED BY <2>1, ViewRests DEF Quiet, workerVars
<1>3. CASE Decodes \/ \E s \in {"connected", "disconnected", "failed"} : PeerChanges(s)
  <2>1. UNCHANGED <<session, thread, owed, posted, signals, connect, inputVars, overlap, at, made>>
    BY <1>3, Zenon DEF Decodes, PeerChanges, workerVars
  <2> QED BY <2>1, ViewRests
<1> QED BY <1>1, <1>2, <1>3

-----------------------------------------------------------------------------
(* The buttons.                                                            *)

LEMMA JoinsQueue ==
  ASSUME NEW S, NEW s \in Seq(S), NEW e \in S
  PROVE  /\ Append(s, e) \in Seq(S) /\ Len(Append(s, e)) = Len(s) + 1 /\ Len(s) \in Nat
         /\ Append(s, e)[Len(s) + 1] = e
         /\ \A i \in 1..Len(s) : Append(s, e)[i] = s[i]
OBVIOUS

LEMMA HeadLeaves ==
  ASSUME NEW S, NEW s \in Seq(S), s # <<>>
  PROVE  /\ Head(s) \in S /\ Head(s) = s[1] /\ 1 \in 1..Len(s)
         /\ Tail(s) \in Seq(S) /\ Len(Tail(s)) = Len(s) - 1 /\ Len(s) \in Nat
         /\ \A i \in 1..Len(Tail(s)) : i + 1 \in 1..Len(s) /\ Tail(s)[i] = s[i + 1]
         /\ \A i \in 2..Len(s) : i - 1 \in 1..Len(Tail(s)) /\ Tail(s)[i - 1] = s[i]
OBVIOUS

LEMMA ButtonStep == ViewInv /\ [Next]_vars => ButtonInv'
<1> SUFFICES ASSUME ViewInv, ButtonInv, [Next]_vars PROVE ButtonInv'
  BY DEF ViewInv
<1> USE DEF workerVars
<1>1. CASE StartViewing
  <2>1. /\ connect' = FALSE /\ session' = session + 1 /\ signals = <<>> /\ UNCHANGED <<owed, signals>>
        /\ thread' = "starting"
    BY <1>1, Zenon DEF StartViewing, TakeButtons
  <2>2. overlap' = (overlap \/ owed # 0) BY <1>1, Zenon DEF StartViewing
  <2>3. overlap' \in BOOLEAN /\ (~overlap' => owed = 0) BY <2>2, Zenon
  <2> QED BY <2>1, <2>3 DEF ButtonInv
<1>2. CASE HandleSignal
  <2>1. /\ signals # <<>> /\ signals' = Tail(signals) /\ UNCHANGED <<session, thread, owed, overlap>>
        /\ (Head(signals).kind = "frame" => connect' = connect)
    BY <1>2, Zenon DEF HandleSignal, PaintFrame
  <2>2. /\ Head(signals) = signals[1] /\ 1 \in 1..Len(signals)
        /\ signals' \in Seq(Signal)
        /\ \A i \in 1..Len(signals') : i + 1 \in 1..Len(signals) /\ signals'[i] = signals[i + 1]
    BY <2>1, HeadLeaves DEF ButtonInv
  <2> QED BY <2>1, <2>2 DEF ButtonInv, Up
<1>3. CASE EmitFrame
  <2>1. /\ signals' = Append(signals, [kind |-> "frame", of |-> session])
        /\ UNCHANGED <<session, thread, owed, overlap, connect>>
    BY <1>3, Zenon DEF EmitFrame, Emit
  <2>2. [kind |-> "frame", of |-> session] \in Signal BY DEF Signal, ButtonInv
  <2>3. /\ signals' \in Seq(Signal) /\ Len(signals') = Len(signals) + 1 /\ Len(signals) \in Nat
        /\ signals'[Len(signals) + 1].kind = "frame"
        /\ \A i \in 1..Len(signals) : signals'[i] = signals[i]
    BY <2>1, <2>2, JoinsQueue DEF ButtonInv
  <2> QED BY <2>1, <2>3 DEF ButtonInv, Up
<1>4. CASE Returns
  <2>1. /\ thread' = "ending" /\ UNCHANGED <<session, owed, overlap, connect>>
        /\ (signals' = signals \/ signals' = Append(signals, [kind |-> "failed", of |-> session]))
    BY <1>4 DEF Returns, Emit
  <2>2. [kind |-> "failed", of |-> session] \in Signal BY DEF Signal, ButtonInv
  <2>3. signals' \in Seq(Signal) BY <2>1, <2>2, JoinsQueue DEF ButtonInv
  <2> QED BY <2>1, <2>3 DEF ButtonInv, Up
<1>5. CASE ThreadDone
  BY <1>5 DEF ThreadDone, ButtonInv, Up
<1>6. CASE EmitFinished
  <2>1. /\ owed # 0 /\ owed' = 0 /\ signals' = Append(signals, [kind |-> "finished", of |-> owed])
        /\ UNCHANGED <<session, thread, overlap, connect>>
    BY <1>6, Zenon DEF EmitFinished, Emit
  <2>2. [kind |-> "finished", of |-> owed] \in Signal BY DEF Signal, ButtonInv
  <2>3. signals' \in Seq(Signal) BY <2>1, <2>2, JoinsQueue DEF ButtonInv
  <2> QED BY <2>1, <2>3 DEF ButtonInv, Up
<1>7. CASE BeginPython \/ BeginNative
  <2>1. Up /\ UNCHANGED <<session, owed, overlap, connect, signals>>
    BY <1>7 DEF BeginPython, BeginNative, Up
  <2> QED BY <2>1 DEF ButtonInv
<1>8. CASE Disconnect \/ MoveMouse \/ Click \/ RunPosted \/ UNCHANGED vars
  <2>1. UNCHANGED <<session, thread, owed, overlap, connect, signals>>
    BY <1>8, Zenon DEF Disconnect, MoveMouse, Click, RunPosted, InputLeaves, vars
  <2> QED BY <2>1 DEF ButtonInv, Up
<1>9. CASE \/ Middle \/ CloseClient \/ Decodes
           \/ \E s \in {"connected", "disconnected", "failed"} : PeerChanges(s)
  BY <1>9, BodyKeepsView DEF ViewInv
<1> QED BY <1>1, <1>2, <1>3, <1>4, <1>5, <1>6, <1>7, <1>8, <1>9, Zenon DEF Next, Closing, Middle

-----------------------------------------------------------------------------
(* The clicks.                                                             *)

\* Nothing that ClickInv speaks of changes, or only the state of a thread that ends.
LEMMA ClickRests ==
  ASSUME ClickInv, UNCHANGED <<session, posted, inputVars, at, made, thread>>
  PROVE  ClickInv'
<1>1. PointerTypes' /\ Posts' BY DEF ClickInv, PointerTypes, Posts, inputVars
<1>2. OneDrain' /\ Newest' /\ Behind' /\ ClickNotBehind'
  BY DEF ClickInv, OneDrain, IsDrain, Draining, Newest, Behind, ClickNotBehind, inputVars
<1> QED BY <1>1, <1>2 DEF ClickInv

\* Nothing waits in the loop's queue.
LEMMA ClickBegins ==
  ASSUME ClickInv, posted' = <<>>, Posts', page' \in Nat, pointer' \in Nat, session' \in Nat,
         UNCHANGED <<moves, mouse, landed>>, thread' = "running" => pointer' = 0
  PROVE  ClickInv'
<1>1. PointerTypes' BY DEF ClickInv, PointerTypes
<1>2. OneDrain' /\ Newest' /\ Behind' /\ ClickNotBehind'
  BY DEF ClickInv, OneDrain, IsDrain, Draining, Newest, Behind, ClickNotBehind
<1> QED BY <1>1, <1>2 DEF ClickInv

Posted == [kind : {"stop", "drain", "click"}, engine : Nat, aimed : Nat]

LEMMA PostedTypes ==
  ASSUME ClickInv
  PROVE  /\ posted \in Seq(Posted) /\ Len(posted) \in Nat
         /\ \A j \in 1..Len(posted) : posted[j].aimed \in Nat /\ posted[j].engine \in Nat
<1>1. posted \in Seq(Posted) BY Zenon DEF ClickInv, PointerTypes, Posted
<1>2. Len(posted) \in Nat /\ \A j \in 1..Len(posted) : posted[j] \in Posted BY <1>1
<1> QED BY <1>1, <1>2 DEF Posted

\* A callback joins the queue ...
LEMMA Waits ==
  ASSUME ClickInv, NEW c \in Posted, posted' = Append(posted, c)
  PROVE  /\ posted' \in Seq(Posted) /\ Len(posted') = Len(posted) + 1 /\ Len(posted) \in Nat
         /\ posted'[Len(posted) + 1] = c
         /\ \A i \in 1..Len(posted) : posted'[i] = posted[i] /\ (IsDrain(i)' <=> IsDrain(i))
         /\ \A i : i = Len(posted) + 1 => (IsDrain(i)' <=> c.kind = "drain")
<1>1. posted \in Seq(Posted) BY PostedTypes
<1>2. /\ posted' \in Seq(Posted) /\ Len(posted') = Len(posted) + 1 /\ Len(posted) \in Nat
      /\ posted'[Len(posted) + 1] = c /\ \A i \in 1..Len(posted) : posted'[i] = posted[i]
  BY <1>1, JoinsQueue
<1>3. \A i \in 1..Len(posted) : i \in 1..Len(posted') BY <1>2
<1>4. Len(posted) + 1 \in 1..Len(posted') BY <1>2
<1>5. \A i \in 1..Len(posted) : IsDrain(i)' <=> IsDrain(i) BY <1>2, <1>3 DEF IsDrain
<1>6. \A i : i = Len(posted) + 1 => (IsDrain(i)' <=> c.kind = "drain") BY <1>2, <1>4 DEF IsDrain
<1> QED BY <1>2, <1>5, <1>6

\* ... and the oldest leaves it.
LEMMA Served ==
  ASSUME ClickInv, posted # <<>>, posted' = Tail(posted)
  PROVE  /\ posted' \in Seq(Posted) /\ Head(posted) = posted[1] /\ Head(posted) \in Posted
         /\ 1 \in 1..Len(posted) /\ Len(posted) \in Nat /\ Len(posted') = Len(posted) - 1
         /\ \A i \in 1..Len(posted') : i + 1 \in 1..Len(posted) /\ posted'[i] = posted[i + 1]
         /\ \A i : IsDrain(i)' => i + 1 \in 1..Len(posted) /\ IsDrain(i + 1) /\ i \in Nat
         /\ \A i : IsDrain(i) /\ i # 1 => i - 1 \in 1..Len(posted') /\ IsDrain(i - 1)'
<1>1. posted \in Seq(Posted) BY PostedTypes
<1>2. /\ posted' \in Seq(Posted) /\ Head(posted) = posted[1] /\ Head(posted) \in Posted
      /\ 1 \in 1..Len(posted) /\ Len(posted) \in Nat /\ Len(posted') = Len(posted) - 1
      /\ \A i \in 1..Len(posted') : i + 1 \in 1..Len(posted) /\ posted'[i] = posted[i + 1]
      /\ \A i \in 2..Len(posted) : i - 1 \in 1..Len(posted') /\ posted'[i - 1] = posted[i]
  BY <1>1, HeadLeaves
<1>3. \A i : IsDrain(i)' => i + 1 \in 1..Len(posted) /\ IsDrain(i + 1) /\ i \in Nat
  BY <1>2 DEF IsDrain
<1>4. \A i : IsDrain(i) /\ i # 1 => i - 1 \in 1..Len(posted') /\ IsDrain(i - 1)'
  <2> SUFFICES ASSUME NEW i, IsDrain(i), i # 1 PROVE i - 1 \in 1..Len(posted') /\ IsDrain(i - 1)'
    OBVIOUS
  <2>1. i \in 2..Len(posted) BY <1>2 DEF IsDrain
  <2> QED BY <1>2, <2>1 DEF IsDrain
<1> QED BY <1>2, <1>3, <1>4

\* Disconnect, and a click.
LEMMA ClickWaits ==
  ASSUME ClickInv, NEW c \in Posted, posted' = Append(posted, c), thread = "running",
         UNCHANGED <<session, thread, at, made, inputVars>>,
         \/ c.kind = "stop"
         \/ c.kind = "click" /\ c.engine = page /\ c.aimed = moves /\ page # 0
  PROVE  ClickInv'
<1>1. PICK n \in Nat : n = Len(posted) BY Waits
<1>2. /\ posted' \in Seq(Posted) /\ Len(posted') = n + 1 /\ posted'[n + 1] = c
      /\ \A i \in 1..n : posted'[i] = posted[i] /\ (IsDrain(i)' <=> IsDrain(i))
      /\ \A i : i = n + 1 => ~IsDrain(i)'
  BY <1>1, Waits
<1>3. \A i : IsDrain(i)' <=> IsDrain(i)
  <2>1. \A i : IsDrain(i) => i \in 1..n BY <1>1 DEF IsDrain
  <2>2. \A i : IsDrain(i)' => i \in 1..n \/ i = n + 1 BY <1>2 DEF IsDrain
  <2> QED BY <1>2, <2>1, <2>2
<1>4. Draining' <=> Draining
  <2>1. \A i : IsDrain(i) => i \in 1..Len(posted) BY DEF IsDrain
  <2>2. \A i : IsDrain(i)' => i \in 1..Len(posted') BY DEF IsDrain
  <2> QED BY <1>3, <2>1, <2>2 DEF Draining
<1>5. PointerTypes' /\ Posts' /\ ClickNotBehind'
  BY <1>2, Zenon DEF ClickInv, PointerTypes, Posts, ClickNotBehind, inputVars, Posted
<1>6. OneDrain' /\ Newest'
  <2>1. \A i, j : IsDrain(i) /\ IsDrain(j) => i = j BY DEF ClickInv, OneDrain, IsDrain
  <2> QED BY <1>3, <1>4, <2>1 DEF ClickInv, OneDrain, Newest, inputVars
<1>7. Behind'
  <2> SUFFICES ASSUME NEW j \in 1..n + 1, posted'[j].kind = "click"
               PROVE  /\ posted'[j].engine # 0
                      /\ page # 0 => /\ posted'[j].aimed <= moves
                                     /\ \/ pointer = 0 \/ pointer >= posted'[j].aimed
                                        \/ \E i \in 1..n + 1 : i < j /\ IsDrain(i)
    BY <1>2, <1>3 DEF Behind, inputVars
  <2>1. CASE j \in 1..n
    BY <1>1, <1>2, <2>1 DEF ClickInv, Behind
  <2>2. CASE j = n + 1
    <3>1. c.aimed = moves /\ c.engine # 0 /\ moves \in Nat
      BY <1>2, <2>2 DEF ClickInv, PointerTypes
    <3>2. pointer = 0 \/ pointer >= moves \/ Draining BY <2>2, <1>2 DEF ClickInv, Newest
    <3>3. ASSUME Draining PROVE \E i \in 1..n + 1 : i < j /\ IsDrain(i)
      <4>1. PICK i \in 1..n : IsDrain(i) BY <1>1, <3>3 DEF Draining
      <4> QED BY <4>1, <2>2
    <3>4. moves <= moves BY <3>1
    <3> QED BY <1>2, <2>2, <3>1, <3>2, <3>3, <3>4
  <2> QED BY <1>1, <2>1, <2>2
<1> QED BY <1>5, <1>6, <1>7 DEF ClickInv

\* The first move since the last drain.
LEMMA MoveWaits ==
  ASSUME ClickInv, NEW c \in Posted, posted' = Append(posted, c), c.kind = "drain",
         thread = "running", ~mouse.scheduled, page # 0, moves' = moves + 1,
         mouse' = [pending |-> moves', scheduled |-> TRUE],
         UNCHANGED <<session, thread, at, made, page, pointer, landed>>
  PROVE  ClickInv'
<1>1. PICK n \in Nat : n = Len(posted) BY Waits
<1>2. /\ posted' \in Seq(Posted) /\ Len(posted') = n + 1 /\ posted'[n + 1] = c
      /\ \A i \in 1..n : posted'[i] = posted[i] /\ (IsDrain(i)' <=> IsDrain(i))
      /\ \A i : i = n + 1 => IsDrain(i)'
  BY <1>1, Waits
<1>3. moves \in Nat /\ moves' \in Nat /\ moves' # 0 BY DEF ClickInv, PointerTypes
<1>4. \A i : ~IsDrain(i)
  <2>1. ~Draining BY DEF ClickInv, OneDrain
  <2> QED BY <2>1 DEF Draining, IsDrain
<1>5. Draining' BY <1>2 DEF Draining
<1>6. \A i : IsDrain(i)' => i = n + 1
  <2>1. \A i : IsDrain(i)' => i \in 1..n \/ i = n + 1 BY <1>2 DEF IsDrain
  <2> QED BY <1>2, <1>4, <2>1
<1>7. PointerTypes' /\ Posts' /\ ClickNotBehind'
  <2>1. mouse' \in [pending : Nat, scheduled : BOOLEAN] BY <1>3
  <2> QED BY <1>2, <1>3, <2>1, Zenon DEF ClickInv, PointerTypes, Posts, ClickNotBehind, Posted
<1>8. OneDrain' /\ Newest' BY <1>3, <1>5, <1>6 DEF OneDrain, Newest
<1>9. Behind'
  <2>1. \A j \in 1..n + 1 : posted'[j].kind = "click" => j \in 1..n BY <1>2
  <2>2. ASSUME NEW j \in 1..n, posted'[j].kind = "click"
        PROVE  /\ posted'[j].engine # 0 /\ posted'[j].aimed <= moves'
               /\ pointer = 0 \/ pointer >= posted'[j].aimed
    <3>1. posted'[j] = posted[j] BY <1>2
    <3>2. /\ posted[j].engine # 0 /\ posted[j].aimed <= moves
          /\ pointer = 0 \/ pointer >= posted[j].aimed
      BY <1>1, <1>4, <2>2, <3>1 DEF ClickInv, Behind
    <3>3. PICK a \in Nat : a = posted[j].aimed BY <1>1, PostedTypes
    <3>4. a <= moves + 1 BY <1>3, <3>2, <3>3
    <3> QED BY <3>1, <3>2, <3>3, <3>4
  <2> QED BY <1>2, <2>1, <2>2 DEF Behind
<1> QED BY <1>7, <1>8, <1>9 DEF ClickInv

LEMMA ClickMoves == ASSUME ClickInv, MoveMouse PROVE ClickInv'
<1> USE DEF workerVars, bodyVars
<1>1. /\ page # 0 /\ moves' = moves + 1 /\ moves \in Nat
      /\ UNCHANGED <<session, thread, at, made, page, pointer, landed>>
  BY DEF MoveMouse, InputLeaves, ClickInv, PointerTypes
<1>2. CASE ~mouse.scheduled /\ thread = "running"
  <2>1. thread = "running" /\ posted' = Append(posted, [kind |-> "drain", engine |-> 0, aimed |-> 0])
        /\ mouse' = [pending |-> moves + 1, scheduled |-> TRUE]
    BY <1>2 DEF MoveMouse, Post, NewestMove
  <2>2. [kind |-> "drain", engine |-> 0, aimed |-> 0] \in Posted BY DEF Posted
  <2> QED BY <1>1, <1>2, <2>1, <2>2, MoveWaits
<1>3. CASE posted' = posted /\ posted = <<>> /\ thread # "running"
  <2>1. mouse' \in [pending : Nat, scheduled : BOOLEAN]
    <3>1. \E b \in BOOLEAN : mouse' = [pending |-> moves + 1, scheduled |-> b]
      BY Zenon DEF MoveMouse, NewestMove
    <3>2. moves + 1 \in Nat BY <1>1
    <3> QED BY <3>1, <3>2
  <2>2. PointerTypes' BY <1>1, <1>3, <2>1 DEF ClickInv, PointerTypes
  <2>3. Posts' BY <1>1, <1>3 DEF ClickInv, Posts
  <2> QED BY <1>1, <1>3, <2>2, <2>3 DEF ClickInv, OneDrain, Newest, Behind, Draining, IsDrain,
                                         ClickNotBehind
<1>4. CASE posted' = posted /\ mouse.scheduled
  <2>1. mouse' = [pending |-> moves', scheduled |-> TRUE] /\ moves' \in Nat /\ moves' # 0
    BY <1>1, <1>4 DEF MoveMouse, NewestMove
  <2>2. /\ PointerTypes' /\ Posts' /\ ClickNotBehind'
    BY <1>1, <1>4, <2>1 DEF ClickInv, PointerTypes, Posts, ClickNotBehind
  <2>3. (Draining' <=> Draining) /\ \A i : IsDrain(i)' <=> IsDrain(i)
    BY <1>4 DEF Draining, IsDrain
  <2>4. OneDrain' /\ Newest'
    BY <1>1, <1>4, <2>1, <2>3 DEF ClickInv, OneDrain, Newest
  <2>5. Behind'
    <3> SUFFICES ASSUME NEW j \in 1..Len(posted), posted[j].kind = "click"
                 PROVE  posted[j].engine # 0 /\ posted[j].aimed <= moves'
      BY <1>1, <1>4, <2>3, Zenon DEF ClickInv, Behind
    <3>1. PICK a \in Nat : a = posted[j].aimed BY PostedTypes
    <3>2. a <= moves /\ posted[j].engine # 0 BY <1>1, <3>1 DEF ClickInv, Behind
    <3> QED BY <1>1, <3>1, <3>2
  <2> QED BY <2>2, <2>4, <2>5 DEF ClickInv
<1>5. \/ ~mouse.scheduled /\ thread = "running"
      \/ posted' = posted /\ posted = <<>> /\ thread # "running"
      \/ posted' = posted /\ mouse.scheduled
  BY Zenon DEF MoveMouse, ClickInv, Posts
<1> QED BY <1>2, <1>3, <1>4, <1>5

\* A stop or a click is served: the drain, if any, is nearer to the head.
LEMMA ClickServed ==
  ASSUME ClickInv, posted # <<>>, posted' = Tail(posted), Head(posted).kind # "drain",
         UNCHANGED <<session, thread, at, made, page, moves, mouse, pointer>>, ClickNotBehind'
  PROVE  ClickInv'
<1>1. /\ posted' \in Seq(Posted) /\ Len(posted') \in Nat
      /\ \A i \in 1..Len(posted') : i + 1 \in 1..Len(posted) /\ posted'[i] = posted[i + 1]
      /\ \A i : IsDrain(i)' => i + 1 \in 1..Len(posted) /\ IsDrain(i + 1) /\ i \in Nat
      /\ \A i : IsDrain(i) => i # 1 /\ i - 1 \in 1..Len(posted') /\ IsDrain(i - 1)' /\ i \in Nat
  <2>1. /\ posted' \in Seq(Posted) /\ Head(posted) = posted[1]
        /\ \A i \in 1..Len(posted') : i + 1 \in 1..Len(posted) /\ posted'[i] = posted[i + 1]
        /\ \A i : IsDrain(i)' => i + 1 \in 1..Len(posted) /\ IsDrain(i + 1) /\ i \in Nat
        /\ \A i : IsDrain(i) /\ i # 1 => i - 1 \in 1..Len(posted') /\ IsDrain(i - 1)'
    BY Served
  <2>2. \A i : IsDrain(i) => i # 1 /\ i \in Nat BY <2>1 DEF IsDrain
  <2> QED BY <2>1, <2>2
<1>2. Draining' <=> Draining
  <2>1. \A i : IsDrain(i) => i \in 1..Len(posted) BY DEF IsDrain
  <2>2. \A i : IsDrain(i)' => i \in 1..Len(posted') BY DEF IsDrain
  <2> QED BY <1>1, <2>1, <2>2 DEF Draining
<1>3. PointerTypes' /\ Posts'
  BY <1>1, Zenon DEF ClickInv, PointerTypes, Posts, Posted
<1>4. Newest' BY <1>2 DEF ClickInv, Newest
<1>5. OneDrain'
  <2>1. ASSUME NEW i, NEW j, IsDrain(i)', IsDrain(j)' PROVE i = j
    <3>1. i \in Nat /\ j \in Nat BY <1>1, <2>1
    <3>2. /\ i + 1 \in 1..Len(posted) /\ j + 1 \in 1..Len(posted)
          /\ IsDrain(i + 1) /\ IsDrain(j + 1)
      BY <1>1, <2>1
    <3>3. i + 1 = j + 1 BY <3>2 DEF ClickInv, OneDrain
    <3> QED BY <3>1, <3>3
  <2> QED BY <1>2, <2>1 DEF ClickInv, OneDrain
<1>6. Behind'
  <2> SUFFICES ASSUME NEW j \in 1..Len(posted'), posted'[j].kind = "click"
               PROVE  /\ posted'[j].engine # 0
                      /\ page # 0 => /\ posted'[j].aimed <= moves
                                     /\ \/ pointer = 0 \/ pointer >= posted'[j].aimed
                                        \/ \E i \in 1..Len(posted') : i < j /\ IsDrain(i)'
    BY DEF Behind
  <2>1. j + 1 \in 1..Len(posted) /\ posted'[j] = posted[j + 1] BY <1>1
  <2>2. /\ posted'[j].engine # 0
        /\ page # 0 => /\ posted'[j].aimed <= moves
                       /\ \/ pointer = 0 \/ pointer >= posted'[j].aimed
                          \/ \E i \in 1..Len(posted) : i < j + 1 /\ IsDrain(i)
    BY <2>1 DEF ClickInv, Behind
  <2>3. ASSUME NEW i \in 1..Len(posted), i < j + 1, IsDrain(i)
        PROVE  \E k \in 1..Len(posted') : k < j /\ IsDrain(k)'
    <3>1. i - 1 \in 1..Len(posted') /\ IsDrain(i - 1)' /\ i \in Nat BY <1>1, <2>3
    <3>2. j \in Nat BY <1>1
    <3>3. PICK k \in 1..Len(posted') : k = i - 1 BY <3>1
    <3>4. k < j BY <2>3, <3>1, <3>2, <3>3
    <3>5. IsDrain(k)' BY <3>1, <3>3
    <3> QED BY <3>4, <3>5
  <2> QED BY <2>2, <2>3
<1> QED BY <1>3, <1>4, <1>5, <1>6 DEF ClickInv

\* The drain is served: nothing waits behind another one.
LEMMA DrainServed ==
  ASSUME ClickInv, posted # <<>>, posted' = Tail(posted), Head(posted).kind = "drain",
         thread = "running", at # "end", DrainMouse,
         UNCHANGED <<session, thread, at, made, page, moves>>
  PROVE  ClickInv'
<1>1. /\ posted' \in Seq(Posted) /\ IsDrain(1) /\ Len(posted') \in Nat
      /\ \A i \in 1..Len(posted') : i + 1 \in 1..Len(posted) /\ posted'[i] = posted[i + 1]
  <2>1. /\ posted' \in Seq(Posted) /\ Head(posted) = posted[1] /\ 1 \in 1..Len(posted)
        /\ \A i \in 1..Len(posted') : i + 1 \in 1..Len(posted) /\ posted'[i] = posted[i + 1]
    BY Served
  <2> QED BY <2>1 DEF IsDrain
<1>2. \A i : ~IsDrain(i)'
  <2> SUFFICES ASSUME NEW i, IsDrain(i)' PROVE FALSE
    OBVIOUS
  <2>1. i + 1 \in 1..Len(posted) /\ IsDrain(i + 1) /\ i \in Nat BY Served
  <2>2. i \in 1..Len(posted') BY DEF IsDrain
  <2>3. i + 1 = 1 BY <1>1, <2>1 DEF ClickInv, OneDrain, IsDrain
  <2> QED BY <1>1, <2>2, <2>3
<1>3. page # 0 => mouse.pending = moves /\ moves # 0
  BY <1>1 DEF ClickInv, OneDrain, Draining, IsDrain
<1>4. moves \in Nat /\ pointer \in Nat BY DEF ClickInv, PointerTypes
<1>5. mouse' = NoMouse /\ landed' = landed BY DEF DrainMouse
<1>6. /\ page # 0 => pointer' = 0 \/ pointer' = moves
      /\ pointer' \in Nat
      /\ "engine" \notin made => pointer' = pointer
  <2>1. CASE page # 0 /\ "engine" \in made
    BY <1>3, <1>4, <2>1 DEF DrainMouse
  <2>2. CASE ~(page # 0 /\ "engine" \in made)
    <3>1. pointer' = pointer BY <2>2 DEF DrainMouse
    <3>2. "engine" \notin made => pointer = 0 BY DEF ClickInv, Posts
    <3> QED BY <1>4, <2>2, <3>1, <3>2
  <2> QED BY <2>1, <2>2
<1>7. PointerTypes'
  <2>1. mouse' \in [pending : Nat, scheduled : BOOLEAN] BY <1>5 DEF NoMouse
  <2> QED BY <1>1, <1>4, <1>6, <2>1, Zenon DEF ClickInv, PointerTypes, Posted
<1>8. Posts' BY <1>6 DEF ClickInv, Posts
<1>9. ~Draining' BY <1>2 DEF Draining
<1>10. page # 0 => pointer' = 0 \/ pointer' >= moves BY <1>4, <1>6
<1>11. OneDrain' /\ Newest' /\ ClickNotBehind'
  BY <1>2, <1>5, <1>9, <1>10 DEF ClickInv, OneDrain, Newest, ClickNotBehind, NoMouse
<1>12. Behind'
  <2> SUFFICES ASSUME NEW j \in 1..Len(posted'), posted'[j].kind = "click"
               PROVE  /\ posted'[j].engine # 0
                      /\ page # 0 => /\ posted'[j].aimed <= moves
                                     /\ pointer' = 0 \/ pointer' >= posted'[j].aimed
    BY DEF Behind
  <2>1. j + 1 \in 1..Len(posted) /\ posted'[j] = posted[j + 1] BY <1>1
  <2>2. posted'[j].engine # 0 /\ (page # 0 => posted'[j].aimed <= moves)
    BY <2>1 DEF ClickInv, Behind
  <2>3. posted'[j].aimed \in Nat BY <2>1, PostedTypes
  <2> QED BY <1>4, <1>6, <2>2, <2>3
<1> QED BY <1>7, <1>8, <1>11, <1>12 DEF ClickInv

LEMMA ClickRuns == ASSUME ClickInv, RunPosted PROVE ClickInv'
<1>1. /\ posted # <<>> /\ posted' = Tail(posted) /\ thread = "running" /\ at # "end"
      /\ UNCHANGED <<session, thread, at, made, page, moves>>
  BY DEF RunPosted, workerVars
<1>2. CASE Head(posted).kind = "stop"
  <2>1. UNCHANGED <<mouse, pointer, landed>> BY <1>2, Zenon DEF RunPosted
  <2>2. ClickNotBehind' BY <2>1 DEF ClickInv, ClickNotBehind
  <2> QED BY <1>1, <1>2, <2>1, <2>2, ClickServed
<1>3. CASE Head(posted).kind = "drain"
  <2>1. DrainMouse BY <1>3 DEF RunPosted
  <2> QED BY <1>1, <1>3, <2>1, DrainServed
<1>4. CASE Head(posted).kind = "click"
  <2>1. SendClick(Head(posted)) BY <1>4 DEF RunPosted
  <2>2. UNCHANGED <<mouse, pointer>> BY <2>1 DEF SendClick
  <2>3. Head(posted) = posted[1] /\ 1 \in 1..Len(posted) BY <1>1, Served
  <2>4. ~\E i \in 1..Len(posted) : i < 1 /\ IsDrain(i) OBVIOUS
  <2>5. /\ posted[1].engine # 0
        /\ page # 0 => pointer = 0 \/ pointer >= posted[1].aimed
    BY <1>4, <2>3, <2>4 DEF ClickInv, Behind
  <2>6. ClickNotBehind'
    BY <2>1, <2>3, <2>5 DEF SendClick, ClickInv, ClickNotBehind
  <2> QED BY <1>1, <1>4, <2>2, <2>6, ClickServed
<1>5. Head(posted).kind \in {"stop", "drain", "click"}
  BY <1>1, Served DEF Posted
<1> QED BY <1>2, <1>3, <1>4, <1>5

LEMMA ClickStep == ViewInv /\ [Next]_vars => ClickInv'
<1> SUFFICES ASSUME ViewInv, ClickInv, [Next]_vars PROVE ClickInv'
  BY DEF ViewInv
<1> USE DEF workerVars, bodyVars, inputVars
<1>1. CASE StartViewing
  <2>1. /\ thread # "running" /\ thread' = "starting" /\ at' = "dial" /\ pointer' = 0
        /\ session' = session + 1 /\ UNCHANGED <<posted, made, page, moves, mouse, landed>>
    BY <1>1, Zenon DEF StartViewing
  <2>2. posted' = <<>> /\ page' \in Nat /\ session' \in Nat
    BY <1>1, <2>1 DEF StartViewing, ClickInv, PointerTypes, Posts
  <2>3. Posts' BY <1>1, <2>1, <2>2 DEF StartViewing, ClickInv, Posts
  <2> QED BY <2>1, <2>2, <2>3, ClickBegins
<1>2. CASE Disconnect
  <2>1. [kind |-> "stop", engine |-> 0, aimed |-> 0] \in Posted BY DEF Posted
  <2>2. /\ posted' = Append(posted, [kind |-> "stop", engine |-> 0, aimed |-> 0])
        /\ thread = "running" /\ UNCHANGED <<session, thread, at, made, inputVars>>
    BY <1>2, Zenon DEF Disconnect, Post, InputLeaves
  <2> QED BY <2>1, <2>2, ClickWaits
<1>3. CASE Click
  <2>1. [kind |-> "click", engine |-> page, aimed |-> moves] \in Posted
    BY DEF Posted, ClickInv, PointerTypes
  <2>2. /\ posted' = Append(posted, [kind |-> "click", engine |-> page, aimed |-> moves])
        /\ page # 0 /\ thread = "running" /\ UNCHANGED <<session, thread, at, made, inputVars>>
    BY <1>3, Zenon DEF Click, Post, InputLeaves
  <2> QED BY <2>1, <2>2, ClickWaits
<1>4. CASE MoveMouse BY <1>4, ClickMoves
<1>5. CASE RunPosted BY <1>5, ClickRuns
<1>6. CASE HandleSignal
  <2>1. UNCHANGED <<session, posted, at, made, thread, moves, pointer, landed>>
    BY <1>6, Zenon DEF HandleSignal
  <2>2. CASE UNCHANGED <<page, mouse>> BY <2>1, <2>2, ClickRests
  <2>3. CASE page' = 0 /\ mouse' = NoMouse
    <3>1. mouse' \in [pending : Nat, scheduled : BOOLEAN] BY <2>3 DEF NoMouse
    <3>2. PointerTypes' BY <2>1, <2>3, <3>1 DEF ClickInv, PointerTypes
    <3>3. Posts' BY <2>1 DEF ClickInv, Posts
    <3> QED BY <2>1, <2>3, <3>2, <3>3
            DEF ClickInv, OneDrain, Newest, Behind, Draining, IsDrain, ClickNotBehind
  <2>4. (page' = 0 /\ mouse' = NoMouse) \/ UNCHANGED <<page, mouse>>
    BY <1>6, Zenon DEF HandleSignal, SessionOver, PaintFrame
  <2> QED BY <2>2, <2>3, <2>4
<1>7. CASE BeginPython \/ BeginNative
  <2>1. /\ thread = "starting" /\ thread' = "running" /\ (page' = page \/ page' = session)
        /\ UNCHANGED <<session, posted, moves, mouse, pointer, landed>>
    BY <1>7, Zenon DEF BeginPython, BeginNative
  <2>2. posted' = <<>> /\ pointer' = 0 /\ at # "end" /\ page' \in Nat /\ session' \in Nat
    BY <2>1 DEF ClickInv, PointerTypes, Posts
  <2>3. at' # "end"
    <3>1. at' = at \/ Leave("failed") BY <1>7, Zenon DEF BeginPython, BeginNative, Raise
    <3> QED BY <2>2, <3>1, LeaveGoes
  <2>4. Posts' BY <2>1, <2>2, <2>3 DEF Posts
  <2> QED BY <2>1, <2>2, <2>4, ClickBegins
<1>8. CASE Returns
  <2>1. /\ at = "end" /\ thread = "running" /\ thread' = "ending" /\ posted' = <<>>
        /\ UNCHANGED <<session, at, made, page, moves, mouse, pointer, landed>>
    BY <1>8, Zenon DEF Returns, Running
  <2>2. Posts' BY <2>1 DEF ClickInv, Posts
  <2>3. page' \in Nat /\ pointer' \in Nat /\ session' \in Nat BY <2>1 DEF ClickInv, PointerTypes
  <2> QED BY <2>1, <2>2, <2>3, ClickBegins
<1>9. CASE ThreadDone
  <2>1. /\ thread = "ending" /\ thread' = "done"
        /\ UNCHANGED <<session, posted, at, made, page, moves, mouse, pointer, landed>>
    BY <1>9, Zenon DEF ThreadDone
  <2>2. posted' = <<>> BY <2>1 DEF ClickInv, Posts
  <2>3. Posts' BY <2>1, <2>2 DEF ClickInv, Posts
  <2>4. page' \in Nat /\ pointer' \in Nat /\ session' \in Nat BY <2>1 DEF ClickInv, PointerTypes
  <2> QED BY <2>1, <2>2, <2>3, <2>4, ClickBegins
<1>10. CASE EmitFrame \/ EmitFinished \/ UNCHANGED vars
  <2>1. UNCHANGED <<session, posted, inputVars, at, made, thread>>
    BY <1>10, Zenon DEF EmitFrame, EmitFinished, vars
  <2> QED BY <2>1, ClickRests
<1>11. CASE \/ Middle \/ CloseClient \/ Decodes
            \/ \E s \in {"connected", "disconnected", "failed"} : PeerChanges(s)
  BY <1>11, BodyKeepsView DEF ViewInv
<1> QED BY <1>1, <1>2, <1>3, <1>4, <1>5, <1>6, <1>7, <1>8, <1>9, <1>10, <1>11, Zenon
        DEF Next, Closing, Middle

-----------------------------------------------------------------------------
(* The theorems.                                                           *)

LEMMA ViewHolds == Spec => []ViewInv
<1>1. ViewInv /\ [Next]_vars => ViewInv' BY ButtonStep, ClickStep DEF ViewInv
<1> QED BY ViewStart, <1>1, PTL DEF Spec

\* The buttons follow the session: Connect is off while one is up, unless it was begun before
\* the last one's finished.
THEOREM ButtonsFollowSession == Spec => []ButtonsFollow
<1>1. ViewInv => ButtonsFollow
  BY Zenon DEF ViewInv, ButtonInv, Up, ButtonsFollow
<1> QED BY ViewHolds, <1>1, PTL

\* A click never falls behind the pointer.
THEOREM ClicksLand == Spec => []ClickNotBehind
<1>1. ViewInv => ClickNotBehind BY DEF ViewInv, ClickInv
<1> QED BY ViewHolds, <1>1, PTL
=============================================================================
