--------------------------- MODULE VideoTransport ---------------------------
(***************************************************************************)
(* The encoded video from the sharer's stream thread to the viewer's       *)
(* decoder: the sender's bounded queue and its worker                      *)
(* (src/native/src/transport/transport.cpp), the unordered, unreliable     *)
(* "snowlink.video" data channel, and the receiver's bounded queue, its    *)
(* worker and the keyframe recovery (src/native/src/engine.cpp).           *)
(*                                                                         *)
(* Both workers wait on a condition variable, in the three steps of module *)
(* EncoderPipeline: "check", "toSleep", "asleep".  A behaviour begins when *)
(* both ends are set up and the connection is being made.                  *)
(***************************************************************************)
EXTENDS Naturals, Sequences

CONSTANTS MaxFrames,   \* bound: access units the stream thread enqueues
          SendLimit,   \* frame_queue_limit
          RecvLimit    \* the 2 of transport_access_unit

ASSUME VideoAssumption ==
  /\ MaxFrames \in Nat /\ SendLimit \in Nat \ {0} /\ RecvLimit \in Nat \ {0}

VARIABLES
  last,       \* access units enqueued so far
  keyAsked,   \* external: the encoder was told to force a keyframe
  sendQueue,  \* queue
  sendPc, sending,  \* the sender worker, and the access unit it has taken
  sendStage,  \* how far shutdown() of the sender's transport has come
  channel,    \* the video channel: "new", "open" or "closed"
  openAt,     \* history: access units enqueued when the channel opened
  net,        \* external: access units on the way
  reorders,   \* external: whether the network delivers out of order
  pli,        \* external: keyframe requests (RTCP PLI) on the way
  recvQueue,  \* receive_queue_
  recvPc, got,      \* the receive worker, and the access unit it has taken
  recvStage,  \* how far stop_receiver() has come
  awaiting,   \* awaiting_keyframe_
  mayAsk,     \* 500 ms have gone by since last_keyframe_request
  fed         \* history: what the decoder was given since its last reset

sendVars == <<last, keyAsked, sendQueue, sendPc, sending, sendStage, channel,
              openAt>>
recvVars == <<recvQueue, recvPc, got, recvStage, awaiting, mayAsk, fed>>
wire == <<net, reorders>>
vars == <<sendVars, wire, pli, recvVars>>

\* An access unit: its position in the stream, and whether it is an IDR.
Units == [id : 1..MaxFrames, key : BOOLEAN]
NoUnit == [id |-> 0, key |-> FALSE]
Waiting == {"check", "toSleep", "asleep"}

TypeOK ==
  /\ last \in 0..MaxFrames /\ openAt \in 0..MaxFrames
  /\ keyAsked \in BOOLEAN
  /\ sendQueue \in Seq(Units) /\ Len(sendQueue) <= SendLimit
  /\ sendPc \in Waiting \cup {"send", "stopped"}
  /\ sending \in Units \cup {NoUnit} /\ got \in Units \cup {NoUnit}
  /\ sendStage \in {"on", "joining", "closed"}
  /\ channel \in {"new", "open", "closed"}
  /\ net \in Seq(Units) /\ fed \in Seq(Units)
  /\ pli \in BOOLEAN /\ reorders \in BOOLEAN
  /\ recvQueue \in Seq(Units) /\ Len(recvQueue) <= RecvLimit
  /\ recvPc \in Waiting \cup {"have", "stopped"}
  /\ recvStage \in {"on", "joining", "joined", "released"}
  /\ awaiting \in BOOLEAN /\ mayAsk \in BOOLEAN

Init ==
  /\ last = 0 /\ keyAsked = TRUE /\ sendQueue = <<>>
  /\ sendPc = "check" /\ sending = NoUnit /\ sendStage = "on"
  /\ channel = "new" /\ openAt = 0
  /\ net = <<>> /\ reorders \in BOOLEAN /\ pli = FALSE
  /\ recvQueue = <<>> /\ recvPc = "check" /\ got = NoUnit /\ recvStage = "on"
  /\ awaiting = TRUE /\ mayAsk = TRUE /\ fed = <<>>

\* Append to a bounded queue that makes room by dropping its oldest element.
Push(queue, limit, u) ==
  IF Len(queue) >= limit THEN Append(Tail(queue), u) ELSE Append(queue, u)

Woken(pc) == IF pc = "asleep" THEN "check" ELSE pc

Without(q, i) == SubSeq(q, 1, i - 1) \o SubSeq(q, i + 1, Len(q))

-----------------------------------------------------------------------------
(* The sender: enqueue() by the stream thread, the worker, shutdown().     *)

Produce(u) ==
  /\ sendStage = "on" /\ sendPc # "toSleep"
  /\ last < MaxFrames /\ u.id = last + 1 /\ (keyAsked => u.key)
  /\ last' = last + 1 /\ keyAsked' = FALSE
  /\ sendQueue' = Push(sendQueue, SendLimit, u)
  /\ UNCHANGED <<sending, sendStage, channel, openAt, wire, pli, recvVars>>

\* Mutation: the worker is not woken.
EnqueueQuietly(u) == Produce(u) /\ UNCHANGED sendPc

\* The encoder makes an IDR when it was asked to, and whenever it likes.
Enqueue(u) == Produce(u) /\ sendPc' = Woken(sendPc)

\* The IDR asked for does not get here: the encoder's ready_frames dropped it.
IdrDropped ==
  /\ keyAsked /\ keyAsked' = FALSE
  /\ UNCHANGED <<last, sendQueue, sendPc, sending, sendStage, channel, openAt,
                 wire, pli, recvVars>>

\* onOpen: the worker is woken without the mutex.
ChannelOpens ==
  /\ channel = "new" /\ sendStage # "closed"
  /\ channel' = "open" /\ openAt' = last
  /\ sendPc' = Woken(sendPc)
  /\ UNCHANGED <<last, keyAsked, sendQueue, sending, sendStage, wire, pli,
                 recvVars>>

ChannelCloses ==
  /\ channel = "open"
  /\ channel' = "closed"
  /\ UNCHANGED <<last, keyAsked, sendQueue, sendPc, sending, sendStage, openAt,
                 wire, pli, recvVars>>

SendStep(from, to) ==
  /\ sendPc = from /\ sendPc' = to
  /\ UNCHANGED <<last, keyAsked, sendStage, channel, openAt, pli, recvVars>>

CanSend == sendQueue # <<>> /\ channel = "open"

SenderStops ==
  /\ SendStep("check", "stopped") /\ sendStage # "on"
  /\ UNCHANGED <<sendQueue, sending, wire>>

SenderTakes ==
  /\ SendStep("check", "send") /\ sendStage = "on" /\ CanSend
  /\ sending' = Head(sendQueue) /\ sendQueue' = Tail(sendQueue)
  /\ UNCHANGED wire

SenderWaits ==
  /\ SendStep("check", "toSleep") /\ sendStage = "on" /\ ~CanSend
  /\ UNCHANGED <<sendQueue, sending, wire>>

SenderSleeps ==
  /\ SendStep("toSleep", "asleep")
  /\ UNCHANGED <<sendQueue, sending, wire>>

\* output->send(): what a channel that is not open any more makes it throw is
\* caught, and the access unit is gone.
SenderSends ==
  /\ SendStep("send", "check")
  /\ net' = IF channel = "open" THEN Append(net, sending) ELSE net
  /\ sending' = NoUnit
  /\ UNCHANGED <<sendQueue, reorders>>

Stop ==
  /\ sendStage = "on"
  /\ sendStage' = "joining" /\ sendQueue' = <<>>
  /\ sendPc' = Woken(sendPc)
  /\ UNCHANGED <<last, keyAsked, sending, channel, openAt, wire, pli,
                 recvVars>>

\* shutdown(): stopping is set with the mutex held, then everybody is woken.
StopSender == sendPc # "toSleep" /\ Stop

SenderJoined ==
  /\ sendStage = "joining" /\ sendPc = "stopped"
  /\ sendStage' = "closed" /\ channel' = "closed"
  /\ UNCHANGED <<last, keyAsked, sendQueue, sendPc, sending, openAt, wire, pli,
                 recvVars>>

\* PliHandler: encoder_->request_keyframe().
PliArrives ==
  /\ pli /\ sendStage # "closed"
  /\ pli' = FALSE /\ keyAsked' = TRUE
  /\ UNCHANGED <<last, sendQueue, sendPc, sending, sendStage, channel, openAt,
                 wire, recvVars>>

-----------------------------------------------------------------------------
(* The network, as the channel's options leave it.                         *)

Lost ==
  \/ /\ \E i \in 1..Len(net) : net' = Without(net, i)
     /\ UNCHANGED <<reorders, pli, sendVars, recvVars>>
  \/ /\ pli /\ pli' = FALSE
     /\ UNCHANGED <<wire, sendVars, recvVars>>

Arrives(i) ==
  /\ recvStage # "released" /\ recvPc # "toSleep"
  /\ i = 1 \/ reorders
  /\ net' = Without(net, i)
  /\ recvQueue' = Push(recvQueue, RecvLimit, net[i])
  /\ UNCHANGED <<sendVars, reorders, pli, got, recvStage, awaiting, mayAsk,
                 fed>>

\* transport_access_unit, called by the data channel's onMessage.
Deliver(i) == Arrives(i) /\ recvPc' = Woken(recvPc)

-----------------------------------------------------------------------------
(* The receiver: receive_loop() and stop_receiver().                       *)

RecvStep(from, to) ==
  /\ recvPc = from /\ recvPc' = to
  /\ UNCHANGED <<sendVars, wire, recvStage>>

\* Mutation: the worker stops only when nothing is queued any more.
ReceiverStopsDrained ==
  /\ RecvStep("check", "stopped") /\ recvStage # "on" /\ recvQueue = <<>>
  /\ UNCHANGED <<pli, recvQueue, got, awaiting, mayAsk, fed>>

ReceiverStops ==
  /\ RecvStep("check", "stopped") /\ recvStage # "on"
  /\ UNCHANGED <<pli, recvQueue, got, awaiting, mayAsk, fed>>

\* Mutation: the older access units stay in the queue.
ReceiverTakesOne ==
  /\ RecvStep("check", "have") /\ recvStage = "on" /\ recvQueue # <<>>
  /\ got' = recvQueue[Len(recvQueue)]
  /\ recvQueue' = SubSeq(recvQueue, 1, Len(recvQueue) - 1)
  /\ UNCHANGED <<pli, awaiting, mayAsk, fed>>

\* The last access unit to arrive is taken and the others are cleared.
ReceiverTakes ==
  /\ RecvStep("check", "have") /\ recvStage = "on" /\ recvQueue # <<>>
  /\ got' = recvQueue[Len(recvQueue)] /\ recvQueue' = <<>>
  /\ UNCHANGED <<pli, awaiting, mayAsk, fed>>

ReceiverWaits ==
  /\ RecvStep("check", "toSleep") /\ recvStage = "on" /\ recvQueue = <<>>
  /\ UNCHANGED <<pli, recvQueue, got, awaiting, mayAsk, fed>>

ReceiverSleeps ==
  /\ RecvStep("toSleep", "asleep")
  /\ UNCHANGED <<pli, recvQueue, got, awaiting, mayAsk, fed>>

MustSkip == awaiting /\ ~got.key

\* An inter frame while awaiting an IDR: one request in 500 ms.
Skip ==
  /\ RecvStep("have", "check") /\ MustSkip
  /\ pli' = (pli \/ mayAsk) /\ mayAsk' = FALSE
  /\ got' = NoUnit
  /\ UNCHANGED <<recvQueue, awaiting, fed>>

\* The decoder takes it: a texture, or S_FALSE.
Decodes ==
  /\ RecvStep("have", "check") /\ ~MustSkip
  /\ fed' = Append(fed, got)
  /\ awaiting' = (awaiting /\ ~got.key)
  /\ got' = NoUnit
  /\ UNCHANGED <<pli, recvQueue, mayAsk>>

Reset ==
  /\ RecvStep("have", "check") /\ ~MustSkip
  /\ fed' = <<>> /\ pli' = TRUE /\ got' = NoUnit
  /\ UNCHANGED <<recvQueue, mayAsk>>

\* Mutation: inter frames are decoded right after the reset.
DecodeFailsGoesOn == Reset /\ UNCHANGED awaiting

\* The decoder rejects it: reset, and a request at once.
DecodeFails == Reset /\ awaiting' = TRUE

HalfSecond ==
  /\ ~mayAsk /\ mayAsk' = TRUE
  /\ UNCHANGED <<sendVars, wire, pli, recvQueue, recvPc, got, recvStage,
                 awaiting, fed>>

\* wait() may return without a notify; nothing says it will.
SpuriousWake ==
  \/ SendStep("asleep", "check") /\ UNCHANGED <<sendQueue, sending, wire>>
  \/ /\ RecvStep("asleep", "check")
     /\ UNCHANGED <<pli, recvQueue, got, awaiting, mayAsk, fed>>

\* stop_receive_requested_ is stored and the worker woken, without the mutex.
StopReceiver ==
  /\ recvStage = "on"
  /\ recvStage' = "joining"
  /\ recvPc' = Woken(recvPc)
  /\ UNCHANGED <<sendVars, wire, pli, recvQueue, got, awaiting, mayAsk, fed>>

Clear ==
  /\ recvStage = "joining"
  /\ recvStage' = "joined" /\ recvQueue' = <<>>
  /\ UNCHANGED <<sendVars, wire, pli, recvPc, got, awaiting, mayAsk, fed>>

ReceiverJoined == recvPc = "stopped" /\ Clear

\* The transport, then the renderer and the decoder are shut down.
ReceiverReleased ==
  /\ recvStage = "joined"
  /\ recvStage' = "released"
  /\ UNCHANGED <<sendVars, wire, pli, recvQueue, recvPc, got, awaiting, mayAsk,
                 fed>>

-----------------------------------------------------------------------------
SenderWorker == SenderStops \/ SenderTakes \/ SenderWaits \/ SenderSleeps
                \/ SenderSends
ReceiveWorker == ReceiverStops \/ ReceiverTakes \/ ReceiverWaits
                 \/ ReceiverSleeps \/ Skip \/ Decodes \/ DecodeFails

Next ==
  \/ \E u \in Units : Enqueue(u)
  \/ IdrDropped
  \/ ChannelOpens \/ ChannelCloses \/ StopSender \/ SenderJoined
  \/ SenderWorker \/ ReceiveWorker \/ SpuriousWake
  \/ PliArrives \/ Lost \/ \E i \in 1..Len(net) : Deliver(i)
  \/ HalfSecond \/ StopReceiver \/ ReceiverJoined \/ ReceiverReleased

Spec == Init /\ [][Next]_vars

\* The workers run, send() and decode() return, a join that can end ends, and
\* time passes.  Nothing is owed by the network, the desktop or the encoder.
Fairness ==
  /\ WF_vars(SenderWorker) /\ WF_vars(ReceiveWorker)
  /\ WF_vars(SenderJoined) /\ WF_vars(ReceiverJoined)
  /\ WF_vars(ReceiverReleased)

FairSpec == Spec /\ Fairness

-----------------------------------------------------------------------------

\* The receive worker never sleeps over a frame: no delivery's wakeup is lost.
FrameWakes == recvPc = "asleep" => recvQueue = <<>>

\* The sender worker sleeps over an access unit behind an open channel only if
\* nothing was enqueued since the channel opened: the wakeup of onOpen, which
\* does not take the mutex, is the only one that can be lost.
StrandedOnlyAtOpen ==
  sendPc = "asleep" /\ channel = "open" /\ sendQueue # <<>> => last = openAt

\* What the decoder is given since it was set up or reset starts with an IDR,
\* across losses, drops of both queues, failures and reordering.
StartsWithKey == fed # <<>> => fed[1].key

\* "decoder consumes newest" (native-engine-architecture.md:145): the decoder
\* is given no access unit older than one it has been given since its reset,
\* over a network that keeps the order: the receiver looks at no timestamp.
DecodesForward ==
  [][\A i \in 1..Len(fed) : ~reorders /\ Len(fed') = Len(fed) + 1
       => fed[i].id < fed'[Len(fed')].id]_vars

\* The decoder and the renderer go only after the receive worker.
ReleasedUnused == recvStage \in {"joined", "released"} => recvPc = "stopped"

\* The inductive strengthening of these: what a worker that is about to block
\* saw still holds, since the mutex keeps the queues as they are, and the
\* receiver awaits an IDR exactly while its decoder has been given nothing.
VideoInv ==
  /\ recvPc \in {"toSleep", "asleep"} => recvQueue = <<>>
  /\ sendPc \in {"toSleep", "asleep"} /\ CanSend => last = openAt
  /\ sendPc = "send" => sending \in Units
  /\ recvPc = "have" => got \in Units
  /\ awaiting <=> fed = <<>>
  /\ StartsWithKey
  /\ ReleasedUnused

\* stop_receiver() comes back from its join, when its wakeup did not fall
\* between the predicate and the blocking of wait().
StopReturnsIfHeard ==
  (recvStage = "joining" /\ recvPc \notin {"toSleep", "asleep"})
    ~> (recvStage = "released")

-----------------------------------------------------------------------------
(* A claim of the source that the code does not keep (see README).         *)

\* "Shutdown signals workers, joins [them], then releases codecs"
\* (native-engine-architecture.md:34).
StopReturns == (recvStage = "joining") ~> (recvStage = "released")
=============================================================================
