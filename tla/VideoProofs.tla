----------------------------- MODULE VideoProofs -----------------------------
(***************************************************************************)
(* Proofs about the video path (VideoTransport), for every number of       *)
(* access units, every queue limit, and a channel that loses and reorders. *)
(***************************************************************************)
EXTENDS VideoTransport, SequenceTheorems, TLAPS

\* Append to a bounded queue keeps it a queue of its elements, within bounds.
LEMMA PushFits ==
  ASSUME NEW S, NEW q \in Seq(S), NEW u \in S, NEW limit \in Nat \ {0},
         Len(q) <= limit
  PROVE  Push(q, limit, u) \in Seq(S) /\ Len(Push(q, limit, u)) <= limit
<1>1. CASE Len(q) >= limit
  <2>1. q # <<>> BY <1>1
  <2>2. Tail(q) \in Seq(S) /\ Len(Tail(q)) = Len(q) - 1 BY <2>1
  <2> QED BY <1>1, <2>2 DEF Push
<1>2. CASE ~(Len(q) >= limit)
  BY <1>2 DEF Push
<1> QED BY <1>1, <1>2

\* Taking a message out of the network leaves messages.
LEMMA WithoutFits ==
  ASSUME NEW S, NEW q \in Seq(S), NEW i \in 1..Len(q)
  PROVE  Without(q, i) \in Seq(S) /\ q[i] \in S
<1>1. SubSeq(q, 1, i - 1) \in Seq(S)
  <2>1. \A j \in 1..(i - 1) : q[j] \in S BY ElementOfSeq
  <2> QED BY <2>1, SubSeqProperties
<1>2. SubSeq(q, i + 1, Len(q)) \in Seq(S)
  <2>1. \A j \in (i + 1)..Len(q) : q[j] \in S BY ElementOfSeq
  <2> QED BY <2>1, SubSeqProperties
<1> QED BY <1>1, <1>2, ElementOfSeq, ConcatProperties DEF Without

\* The empty queue is a queue of anything, within every limit.
LEMMA EmptyFits ==
  ASSUME NEW S, NEW q, q = <<>>
  PROVE  q \in Seq(S) /\ Len(q) = 0 /\ Len(q) <= SendLimit /\ Len(q) <= RecvLimit
BY VideoAssumption

Inv == TypeOK /\ VideoInv

\* Initially both workers look at empty queues and the decoder awaits an IDR.
LEMMA InitInv == Init => Inv
<1> SUFFICES ASSUME Init PROVE Inv
  OBVIOUS
<1>1. /\ sendQueue \in Seq(Units) /\ Len(sendQueue) <= SendLimit
      /\ recvQueue \in Seq(Units) /\ Len(recvQueue) <= RecvLimit
      /\ net \in Seq(Units) /\ fed \in Seq(Units)
  <2>1. sendQueue = <<>> /\ recvQueue = <<>> /\ net = <<>> /\ fed = <<>>
    BY DEF Init
  <2> QED BY <2>1, EmptyFits
<1>2. TypeOK
  <2>1. keyAsked \in BOOLEAN /\ reorders \in BOOLEAN /\ pli \in BOOLEAN
        /\ awaiting \in BOOLEAN /\ mayAsk \in BOOLEAN
    BY DEF Init
  <2>2. /\ last = 0 /\ openAt = 0 /\ sendPc = "check" /\ sending = NoUnit
        /\ sendStage = "on" /\ channel = "new" /\ recvPc = "check"
        /\ got = NoUnit /\ recvStage = "on"
    BY DEF Init
  <2> QED BY <1>1, <2>1, <2>2, VideoAssumption DEF TypeOK, Waiting
<1>3. VideoInv
  BY DEF Init, VideoInv, StartsWithKey, ReleasedUnused
<1> QED BY <1>2, <1>3 DEF Inv

\* The sender's side of a step: its queue stays within its limit, and the
\* worker blocks over an access unit only if none came since the opening.
LEMMA SendStepInv ==
  ASSUME Inv,
         \/ \E u \in Units : Enqueue(u)
         \/ IdrDropped \/ ChannelOpens \/ ChannelCloses \/ StopSender
         \/ SenderJoined \/ SenderWorker \/ PliArrives
  PROVE  Inv'
<1> USE VideoAssumption DEF Inv, VideoInv, StartsWithKey, ReleasedUnused, recvVars,
           wire
<1>1. CASE \E u \in Units : Enqueue(u)
  <2> PICK u \in Units : Enqueue(u) BY <1>1
  <2>1. /\ sendQueue' \in Seq(Units) /\ Len(sendQueue') <= SendLimit
    BY PushFits DEF Enqueue, Produce, TypeOK
  <2>2. last' \in 0..MaxFrames BY DEF Enqueue, Produce, TypeOK
  <2>3. sendPc' \in {"check", "send", "stopped"} /\ (sendPc' = "send" => sendPc = "send")
    BY DEF Enqueue, Produce, Woken, TypeOK, Waiting
  <2>4. keyAsked' \in BOOLEAN BY DEF Enqueue, Produce
  <2>5. UNCHANGED <<sending, sendStage, channel, openAt, wire, pli, recvVars>>
    BY DEF Enqueue, Produce
  <2>6. TypeOK'
    BY <2>1, <2>2, <2>3, <2>4, <2>5 DEF TypeOK, Waiting
  <2> QED BY <2>3, <2>5, <2>6
<1>2. CASE IdrDropped \/ PliArrives
  <2>1. keyAsked' \in BOOLEAN /\ pli' \in BOOLEAN
    BY <1>2 DEF IdrDropped, PliArrives, TypeOK
  <2>2. UNCHANGED <<last, sendQueue, sendPc, sending, sendStage, channel,
                    openAt, wire, recvVars>>
    BY <1>2 DEF IdrDropped, PliArrives
  <2> QED BY <2>1, <2>2 DEF TypeOK, CanSend
<1>3. CASE ChannelOpens
  <2>1. sendPc' \in Waiting \cup {"send", "stopped"} /\ (sendPc' = "send" => sendPc = "send")
    BY <1>3 DEF ChannelOpens, Woken, TypeOK, Waiting
  <2>2. TypeOK' BY <1>3, <2>1 DEF ChannelOpens, TypeOK
  <2> QED BY <1>3, <2>1, <2>2 DEF ChannelOpens
<1>4. CASE ChannelCloses
  BY <1>4 DEF ChannelCloses, TypeOK, CanSend
<1>5. CASE StopSender
  <2>1. sendQueue' \in Seq(Units) /\ Len(sendQueue') <= SendLimit /\ ~CanSend'
    BY <1>5, EmptyFits DEF StopSender, Stop, CanSend
  <2>2. sendPc' \in Waiting \cup {"send", "stopped"} /\ (sendPc' = "send" => sendPc = "send")
    BY <1>5 DEF StopSender, Stop, Woken, TypeOK, Waiting
  <2>3. TypeOK' BY <1>5, <2>1, <2>2 DEF StopSender, Stop, TypeOK
  <2> QED BY <1>5, <2>1, <2>2, <2>3 DEF StopSender, Stop
<1>6. CASE SenderJoined
  BY <1>6 DEF SenderJoined, TypeOK, CanSend
<1>7. CASE SenderWorker
  <2>1. CASE SenderStops \/ SenderWaits \/ SenderSleeps
    BY <1>7, <2>1 DEF SenderStops, SenderWaits, SenderSleeps, SendStep, TypeOK,
       CanSend, Waiting
  <2>2. CASE SenderTakes
    <3>1. sending' \in Units /\ sendQueue' \in Seq(Units)
          /\ Len(sendQueue') <= SendLimit
      <4>1. sendQueue # <<>> BY <2>2 DEF SenderTakes, CanSend
      <4> QED BY <2>2, <4>1 DEF SenderTakes, TypeOK
    <3> QED BY <2>2, <3>1 DEF SenderTakes, SendStep, TypeOK, Waiting
  <2>3. CASE SenderSends
    <3>1. net' \in Seq(Units)
      BY <2>3 DEF SenderSends, SendStep, TypeOK
    <3> QED BY <2>3, <3>1 DEF SenderSends, SendStep, TypeOK, Waiting
  <2> QED BY <1>7, <2>1, <2>2, <2>3 DEF SenderWorker
<1> QED BY <1>1, <1>2, <1>3, <1>4, <1>5, <1>6, <1>7

\* The receiver's side of a step: it never blocks over an access unit, and
\* leaves the keyframe wait exactly when the decoder was given an IDR.
LEMMA RecvStepInv ==
  ASSUME Inv,
         \/ ReceiveWorker \/ HalfSecond \/ StopReceiver \/ ReceiverJoined
         \/ ReceiverReleased
  PROVE  Inv'
<1> USE VideoAssumption DEF Inv, VideoInv, StartsWithKey, ReleasedUnused, sendVars,
           wire
<1>1. CASE ReceiverStops \/ ReceiverWaits \/ ReceiverSleeps
  BY <1>1 DEF ReceiverStops, ReceiverWaits, ReceiverSleeps, RecvStep,
     TypeOK, Waiting, CanSend
<1>9. CASE HalfSecond
  <2>1. mayAsk' \in BOOLEAN BY <1>9 DEF HalfSecond
  <2>2. UNCHANGED <<sendVars, wire, pli, recvQueue, recvPc, got, recvStage,
                    awaiting, fed>>
    BY <1>9 DEF HalfSecond
  <2> QED BY <2>1, <2>2 DEF TypeOK, CanSend
<1>2. CASE ReceiverTakes
  <2>1. recvQueue # <<>> BY <1>2 DEF ReceiverTakes
  <2>2. got' \in Units BY <1>2, <2>1 DEF ReceiverTakes, TypeOK
  <2>3. recvQueue' \in Seq(Units) /\ Len(recvQueue') <= RecvLimit
    BY <1>2, EmptyFits DEF ReceiverTakes
  <2>4. TypeOK' BY <1>2, <2>2, <2>3 DEF ReceiverTakes, RecvStep, TypeOK
  <2> QED BY <1>2, <2>2, <2>4 DEF ReceiverTakes, RecvStep, CanSend
<1>3. CASE Skip
  <2>1. pli' \in BOOLEAN /\ mayAsk' \in BOOLEAN BY <1>3 DEF Skip
  <2>2. /\ recvPc' = "check" /\ recvPc = "have" /\ got' = NoUnit
        /\ UNCHANGED <<sendVars, wire, recvStage, recvQueue, awaiting, fed>>
    BY <1>3 DEF Skip, RecvStep
  <2> QED BY <2>1, <2>2 DEF TypeOK, Waiting, CanSend
<1>4. CASE Decodes
  <2>1. got \in Units /\ fed' = Append(fed, got)
    BY <1>4 DEF Decodes, RecvStep
  <2>2. fed' \in Seq(Units) /\ fed' # <<>> BY <2>1 DEF TypeOK
  <2>3. fed'[1].key
    <3>1. CASE fed = <<>>
      <4>1. got.key BY <1>4, <3>1 DEF Decodes, MustSkip
      <4> QED BY <2>1, <3>1, <4>1
    <3>2. CASE fed # <<>>
      <4>1. fed'[1] = fed[1] BY <2>1, <3>2 DEF TypeOK
      <4> QED BY <3>2, <4>1
    <3> QED BY <3>1, <3>2
  <2>4. ~awaiting'
    BY <1>4 DEF Decodes, MustSkip, TypeOK
  <2>5. TypeOK'
    BY <1>4, <2>2, <2>4 DEF Decodes, RecvStep, TypeOK, Waiting
  <2> QED BY <1>4, <2>2, <2>3, <2>4, <2>5 DEF Decodes, RecvStep, CanSend
<1>5. CASE DecodeFails
  <2>1. fed' \in Seq(Units) /\ fed' = <<>>
    BY <1>5, EmptyFits DEF DecodeFails, Reset
  <2>2. TypeOK'
    BY <1>5, <2>1 DEF DecodeFails, Reset, RecvStep, TypeOK, Waiting
  <2> QED BY <1>5, <2>1, <2>2 DEF DecodeFails, Reset, RecvStep, CanSend
<1>6. CASE StopReceiver
  <2>1. recvPc' \in Waiting \cup {"have", "stopped"}
        /\ (recvPc' \in {"toSleep", "asleep"} => recvPc = recvPc')
        /\ (recvPc' = "have" => recvPc = "have")
    BY <1>6 DEF StopReceiver, Woken, TypeOK, Waiting
  <2> QED BY <1>6, <2>1 DEF StopReceiver, TypeOK, CanSend
<1>7. CASE ReceiverJoined
  <2>1. recvQueue' \in Seq(Units) /\ Len(recvQueue') <= RecvLimit
        /\ recvQueue' = <<>>
    BY <1>7, EmptyFits DEF ReceiverJoined, Clear
  <2>2. TypeOK' BY <1>7, <2>1 DEF ReceiverJoined, Clear, TypeOK
  <2> QED BY <1>7, <2>1, <2>2 DEF ReceiverJoined, Clear, CanSend
<1>8. CASE ReceiverReleased
  BY <1>8 DEF ReceiverReleased, TypeOK, CanSend
<1> QED BY <1>1, <1>2, <1>3, <1>4, <1>5, <1>6, <1>7, <1>8, <1>9 DEF ReceiveWorker

\* What the network and a spurious wakeup can do.
LEMMA NetStepInv ==
  ASSUME Inv, SpuriousWake \/ Lost \/ \E i \in 1..Len(net) : Deliver(i)
  PROVE  Inv'
<1> USE VideoAssumption DEF Inv, VideoInv, StartsWithKey, ReleasedUnused, wire
<1>1. CASE SpuriousWake
  <2>1. CASE SendStep("asleep", "check") /\ UNCHANGED <<sendQueue, sending, wire>>
    BY <2>1 DEF SendStep, recvVars, TypeOK, Waiting, CanSend
  <2>2. CASE /\ RecvStep("asleep", "check")
             /\ UNCHANGED <<pli, recvQueue, got, awaiting, mayAsk, fed>>
    BY <2>2 DEF RecvStep, sendVars, TypeOK, Waiting, CanSend
  <2> QED BY <1>1, <2>1, <2>2 DEF SpuriousWake
<1>2. CASE Lost
  <2>1. net' \in Seq(Units)
    <3>1. (\E i \in 1..Len(net) : net' = Without(net, i)) \/ net' = net
      BY <1>2 DEF Lost
    <3> QED BY <3>1, WithoutFits DEF TypeOK
  <2>2. pli' \in BOOLEAN /\ reorders' = reorders
    <3>1. (pli' = pli \/ pli' = FALSE) /\ reorders' = reorders
      BY <1>2 DEF Lost
    <3> QED BY <3>1 DEF TypeOK
  <2>3. UNCHANGED <<sendVars, recvVars>>
    BY <1>2 DEF Lost
  <2> QED BY <2>1, <2>2, <2>3 DEF sendVars, recvVars, TypeOK, CanSend
<1>3. CASE \E i \in 1..Len(net) : Deliver(i)
  <2> PICK i \in 1..Len(net) : Deliver(i) BY <1>3
  <2>1. net' \in Seq(Units) /\ net[i] \in Units
    BY WithoutFits DEF Deliver, Arrives, TypeOK
  <2>2. recvQueue' \in Seq(Units) /\ Len(recvQueue') <= RecvLimit
    BY <2>1, PushFits DEF Deliver, Arrives, TypeOK
  <2>3. /\ recvPc' \in {"check", "have", "stopped"}
        /\ recvPc' = "have" => recvPc = "have"
        /\ recvPc = "stopped" => recvPc' = "stopped"
    BY DEF Deliver, Arrives, Woken, TypeOK, Waiting
  <2>4. TypeOK'
    BY <2>1, <2>2, <2>3 DEF Deliver, Arrives, sendVars, TypeOK, Waiting
  <2> QED BY <2>3, <2>4 DEF Deliver, Arrives, sendVars, CanSend
<1> QED BY <1>1, <1>2, <1>3

\* Inv is inductive.
LEMMA StepInv == Inv /\ [Next]_vars => Inv'
<1> SUFFICES ASSUME Inv, [Next]_vars PROVE Inv'
  OBVIOUS
<1>1. CASE Next
  BY <1>1, SendStepInv, RecvStepInv, NetStepInv DEF Next
<1>2. CASE UNCHANGED vars
  BY <1>2 DEF vars, sendVars, wire, recvVars, Inv, TypeOK, VideoInv,
     StartsWithKey, ReleasedUnused, CanSend
<1> QED BY <1>1, <1>2

\* Inv holds in every reachable state.
LEMMA InvHolds == Spec => []Inv
<1> QED BY InitInv, StepInv, PTL DEF Spec

\* Neither bounded queue ever holds more than its limit, whatever arrives.
THEOREM TypeCorrect == Spec => []TypeOK
<1>1. Inv => TypeOK BY DEF Inv
<1> QED BY <1>1, InvHolds, PTL

\* The receive worker never sleeps over an access unit.
THEOREM NoLostWakeup == Spec => []FrameWakes
<1>1. Inv => FrameWakes BY DEF Inv, VideoInv, FrameWakes
<1> QED BY <1>1, InvHolds, PTL

\* The sender worker sleeps over an access unit only if none was enqueued
\* since the channel opened.
THEOREM StrandedCorrect == Spec => []StrandedOnlyAtOpen
<1>1. Inv => StrandedOnlyAtOpen
  BY DEF Inv, VideoInv, StrandedOnlyAtOpen, CanSend
<1> QED BY <1>1, InvHolds, PTL

\* A decoder that was set up or reset is given an IDR first, over a channel
\* that loses and reorders and queues that drop.
THEOREM KeyFirst == Spec => []StartsWithKey
<1>1. Inv => StartsWithKey BY DEF Inv, VideoInv
<1> QED BY <1>1, InvHolds, PTL

\* The decoder is released only after the receive worker has stopped.
THEOREM ReleaseCorrect == Spec => []ReleasedUnused
<1>1. Inv => ReleasedUnused BY DEF Inv, VideoInv
<1> QED BY <1>1, InvHolds, PTL
-----------------------------------------------------------------------------
(* The order of the access units.  From the decoder back to the encoder    *)
(* they are in six places, each of them behind the one before it.          *)

Ids(q) == {q[i].id : i \in 1..Len(q)}
Got == IF recvPc = "have" THEN {got.id} ELSE {}
Sending == IF sendPc = "send" THEN {sending.id} ELSE {}

Less(A, B) == \A x \in A, y \in B : x < y
Rising(q) == \A i, j \in 1..Len(q) : i < j => q[i].id < q[j].id

Order(F, G, R, N, S, Q, l) ==
  /\ Less(F, G \cup R \cup N \cup S \cup Q)
  /\ Less(G, R \cup N \cup S \cup Q)
  /\ Less(R, N \cup S \cup Q)
  /\ Less(N, S \cup Q)
  /\ Less(S, Q)
  /\ \A x \in F \cup G \cup R \cup N \cup S \cup Q : x <= l

InLine ==
  ~reorders =>
    /\ Order(Ids(fed), Got, Ids(recvQueue), Ids(net), Sending, Ids(sendQueue), last)
    /\ Rising(net) /\ Rising(sendQueue)

\* What a queue's operations do to the numbers of its access units.
LEMMA IdsAre ==
  ASSUME NEW q \in Seq(Units)
  PROVE  /\ Ids(q) \subseteq Nat /\ Len(q) \in Nat
         /\ \A i \in 1..Len(q) : q[i].id \in Nat /\ q[i].id \in Ids(q)
<1>1. Len(q) \in Nat /\ \A i \in 1..Len(q) : q[i] \in Units OBVIOUS
<1>2. \A u \in Units : u.id \in Nat BY VideoAssumption DEF Units
<1> QED BY <1>1, <1>2 DEF Ids

LEMMA IdsAppend ==
  ASSUME NEW q \in Seq(Units), NEW u \in Units
  PROVE  /\ Ids(Append(q, u)) \subseteq Ids(q) \cup {u.id}
         /\ Rising(q) /\ Less(Ids(q), {u.id}) => Rising(Append(q, u))
<1> DEFINE a == Append(q, u)
<1>1. /\ Len(a) = Len(q) + 1 /\ Len(q) \in Nat /\ a[Len(q) + 1] = u
      /\ \A i \in 1..Len(q) : a[i] = q[i]
  OBVIOUS
<1> HIDE DEF a
<1>2. \A i \in 1..Len(a) : i \in 1..Len(q) \/ i = Len(q) + 1 BY <1>1
<1>3. Ids(a) \subseteq Ids(q) \cup {u.id} BY <1>1, <1>2 DEF Ids
<1>4. ASSUME Rising(q), Less(Ids(q), {u.id}), NEW i \in 1..Len(a), NEW j \in 1..Len(a), i < j
      PROVE  a[i].id < a[j].id
  <2>1. i \in 1..Len(q) BY <1>1, <1>4
  <2>2. CASE j \in 1..Len(q) BY <1>1, <1>4, <2>1, <2>2 DEF Rising
  <2>3. CASE j = Len(q) + 1
    <3>1. q[i].id \in Ids(q) BY <2>1, IdsAre
    <3> QED BY <1>1, <1>4, <2>1, <2>3, <3>1 DEF Less
  <2> QED BY <1>2, <2>2, <2>3
<1> QED BY <1>3, <1>4 DEF a, Rising

LEMMA IdsTail ==
  ASSUME NEW q \in Seq(Units), q # <<>>
  PROVE  /\ Ids(Tail(q)) \subseteq Ids(q) /\ Head(q) \in Units /\ Head(q).id \in Ids(q)
         /\ Tail(q) \in Seq(Units)
         /\ Rising(q) => Rising(Tail(q)) /\ Less({Head(q).id}, Ids(Tail(q)))
<1> DEFINE t == Tail(q)
<1>1. /\ Len(t) = Len(q) - 1 /\ Len(q) \in Nat /\ Head(q) = q[1] /\ Head(q) \in Units
      /\ 1 \in 1..Len(q) /\ t \in Seq(Units)
      /\ \A i \in 1..Len(t) : i + 1 \in 1..Len(q) /\ t[i] = q[i + 1]
  OBVIOUS
<1> HIDE DEF t
<1>2. Ids(t) \subseteq Ids(q) /\ Head(q).id \in Ids(q) BY <1>1 DEF Ids
<1>3. ASSUME Rising(q) PROVE Rising(t) /\ Less({Head(q).id}, Ids(t))
  <2>1. ASSUME NEW i \in 1..Len(t), NEW j \in 1..Len(t), i < j PROVE t[i].id < t[j].id
    <3>1. i + 1 < j + 1 BY <2>1, <1>1
    <3> QED BY <1>1, <1>3, <3>1 DEF Rising
  <2>2. ASSUME NEW i \in 1..Len(t) PROVE Head(q).id < t[i].id
    <3>1. 1 < i + 1 BY <1>1
    <3> QED BY <1>1, <1>3, <3>1 DEF Rising
  <2> QED BY <2>1, <2>2 DEF Rising, Less, Ids
<1> QED BY <1>1, <1>2, <1>3 DEF t

LEMMA IdsPush ==
  ASSUME NEW q \in Seq(Units), NEW u \in Units, NEW limit \in Nat \ {0}
  PROVE  /\ Ids(Push(q, limit, u)) \subseteq Ids(q) \cup {u.id}
         /\ Rising(q) /\ Less(Ids(q), {u.id}) => Rising(Push(q, limit, u))
<1>1. CASE Len(q) >= limit
  <2>1. q # <<>> BY <1>1
  <2>2. /\ Tail(q) \in Seq(Units) /\ Ids(Tail(q)) \subseteq Ids(q)
        /\ Rising(q) => Rising(Tail(q))
    BY <2>1, IdsTail
  <2>3. Less(Ids(q), {u.id}) => Less(Ids(Tail(q)), {u.id}) BY <2>2 DEF Less
  <2>4. Push(q, limit, u) = Append(Tail(q), u) BY <1>1 DEF Push
  <2>5. /\ Ids(Append(Tail(q), u)) \subseteq Ids(Tail(q)) \cup {u.id}
        /\ Rising(Tail(q)) /\ Less(Ids(Tail(q)), {u.id}) => Rising(Append(Tail(q), u))
    BY <2>2, IdsAppend
  <2> QED BY <2>2, <2>3, <2>4, <2>5
<1>2. CASE ~(Len(q) >= limit)
  <2>1. Push(q, limit, u) = Append(q, u) BY <1>2 DEF Push
  <2> QED BY <2>1, IdsAppend
<1> QED BY <1>1, <1>2

LEMMA IdsWithout ==
  ASSUME NEW q \in Seq(Units), NEW i \in 1..Len(q)
  PROVE  /\ Ids(Without(q, i)) \subseteq Ids(q) /\ (Rising(q) => Rising(Without(q, i)))
         /\ i = 1 => Without(q, i) = Tail(q)
<1> DEFINE w == Without(q, i)
<1>1. /\ Len(q) \in Nat /\ Len(w) = Len(q) - 1
      /\ \A j \in 1..(i - 1) : w[j] = q[j]
      /\ \A j \in i..(Len(q) - 1) : w[j] = q[j + 1]
  <2> DEFINE l == SubSeq(q, 1, i - 1)
             r == SubSeq(q, i + 1, Len(q))
  <2>1. /\ l \in Seq(Units) /\ Len(l) = i - 1 /\ Len(q) \in Nat
        /\ \A j \in 1..(i - 1) : l[j] = q[j]
    OBVIOUS
  <2>2. /\ r \in Seq(Units) /\ Len(r) = Len(q) - i
        /\ \A j \in 1..(Len(q) - i) : r[j] = q[i + j]
    OBVIOUS
  <2>3. w = l \o r BY DEF Without
  <2> HIDE DEF l, r
  <2>4. /\ Len(w) = Len(l) + Len(r) /\ \A j \in 1..Len(l) : w[j] = l[j]
        /\ \A j \in 1..Len(r) : w[Len(l) + j] = r[j]
    <3>1. /\ Len(l \o r) = Len(l) + Len(r) /\ \A j \in 1..Len(l) : (l \o r)[j] = l[j]
          /\ \A j \in 1..Len(r) : (l \o r)[Len(l) + j] = r[j]
      <4>1. l \in Seq(Units) /\ r \in Seq(Units) BY <2>1, <2>2
      <4> QED BY <4>1
    <3> QED BY <2>3, <3>1, Zenon
  <2>5. ASSUME NEW j \in i..(Len(q) - 1) PROVE w[j] = q[j + 1]
    <3>1. PICK k \in 1..(Len(q) - i) : k = j - (i - 1) BY <2>1
    <3>2. Len(l) + k = j /\ i + k = j + 1 /\ k \in 1..Len(r) BY <2>1, <2>2, <3>1
    <3>3. w[Len(l) + k] = r[k] /\ r[k] = q[i + k] BY <2>2, <2>4, <3>2, Zenon
    <3> QED BY <3>2, <3>3
  <2> QED BY <2>1, <2>2, <2>4, <2>5
<1>2. \A j \in 1..Len(w) : \E k \in 1..Len(q) : w[j] = q[k] /\ (k = j \/ k = j + 1) /\ (k = j <=> j < i)
  <2> SUFFICES ASSUME NEW j \in 1..Len(w)
               PROVE  \E k \in 1..Len(q) : w[j] = q[k] /\ (k = j \/ k = j + 1) /\ (k = j <=> j < i)
    OBVIOUS
  <2>1. CASE j < i
    <3>1. j \in 1..(i - 1) /\ j \in 1..Len(q) BY <1>1, <2>1
    <3> QED BY <1>1, <2>1, <3>1
  <2>2. CASE ~(j < i)
    <3>1. j \in i..(Len(q) - 1) /\ j + 1 \in 1..Len(q) /\ j + 1 # j BY <1>1, <2>2
    <3> QED BY <1>1, <2>2, <3>1
  <2> QED BY <2>1, <2>2
<1> HIDE DEF w
<1>3. Ids(w) \subseteq Ids(q) BY <1>2 DEF Ids
<1>4. ASSUME Rising(q), NEW j \in 1..Len(w), NEW k \in 1..Len(w), j < k PROVE w[j].id < w[k].id
  <2>1. PICK m \in 1..Len(q) : w[j] = q[m] /\ (m = j \/ m = j + 1) /\ (m = j <=> j < i) BY <1>2
  <2>2. PICK n \in 1..Len(q) : w[k] = q[n] /\ (n = k \/ n = k + 1) /\ (n = k <=> k < i) BY <1>2
  <2>3. m < n
    <3>1. j \in Nat /\ k \in Nat /\ m \in Nat /\ n \in Nat BY <1>1
    <3> QED BY <1>4, <2>1, <2>2, <3>1
  <2> QED BY <1>4, <2>1, <2>2, <2>3 DEF Rising
<1>5. i = 1 => w = Tail(q) BY DEF w, Without
<1> QED BY <1>3, <1>4, <1>5 DEF w, Rising

\* Places may be emptied, and an access unit may be left out.
LEMMA OrderShrinks ==
  ASSUME NEW F, NEW G, NEW R, NEW N, NEW S, NEW Q, NEW l, Order(F, G, R, N, S, Q, l),
         NEW F1 \in SUBSET F, NEW G1 \in SUBSET G, NEW R1 \in SUBSET R, NEW N1 \in SUBSET N,
         NEW S1 \in SUBSET S, NEW Q1 \in SUBSET Q
  PROVE  Order(F1, G1, R1, N1, S1, Q1, l)
BY Zenon DEF Order, Less

\* An access unit moves on to the next place.
LEMMA OrderMoves ==
  ASSUME NEW F, NEW G, NEW R, NEW N, NEW S, NEW Q, NEW l, Order(F, G, R, N, S, Q, l), NEW h
  PROVE  /\ Order(F \cup G, {}, R, N, S, Q, l)
         /\ G = {} /\ h \in R => Order(F, {h}, {}, N, S, Q, l)
         /\ h \in N => \A N1 \in SUBSET N : Less({h}, N1) => Order(F, G, R \cup {h}, N1, S, Q, l)
         /\ Order(F, G, R, N \cup S, {}, Q, l)
         /\ S = {} /\ h \in Q => \A Q1 \in SUBSET Q : Less({h}, Q1) => Order(F, G, R, N, {h}, Q1, l)
<1>1. Order(F \cup G, {}, R, N, S, Q, l) BY DEF Order, Less
<1>2. G = {} /\ h \in R => Order(F, {h}, {}, N, S, Q, l) BY DEF Order, Less
<1>3. ASSUME h \in N, NEW N1 \in SUBSET N, Less({h}, N1) PROVE Order(F, G, R \cup {h}, N1, S, Q, l)
  BY <1>3 DEF Order, Less
<1>4. Order(F, G, R, N \cup S, {}, Q, l) BY DEF Order, Less
<1>5. ASSUME S = {}, h \in Q, NEW Q1 \in SUBSET Q, Less({h}, Q1) PROVE Order(F, G, R, N, {h}, Q1, l)
  BY <1>5 DEF Order, Less
<1> QED BY <1>1, <1>2, <1>3, <1>4, <1>5

LEMMA OrderGrows ==
  ASSUME NEW F \in SUBSET Nat, NEW G \in SUBSET Nat, NEW R \in SUBSET Nat, NEW N \in SUBSET Nat,
         NEW S \in SUBSET Nat, NEW Q \in SUBSET Nat, NEW l \in Nat, Order(F, G, R, N, S, Q, l),
         NEW Q1 \in SUBSET (Q \cup {l + 1})
  PROVE  Order(F, G, R, N, S, Q1, l + 1)
<1>1. \A x \in Nat : x <= l => x < l + 1 /\ x <= l + 1 OBVIOUS
<1>2. l + 1 <= l + 1 OBVIOUS
<1> HIDE DEF Order
<1> QED BY <1>1, <1>2 DEF Order, Less

LEMMA LineTypes ==
  ASSUME Inv
  PROVE  /\ Ids(fed) \subseteq Nat /\ Got \subseteq Nat /\ Ids(recvQueue) \subseteq Nat
         /\ Ids(net) \subseteq Nat /\ Sending \subseteq Nat /\ Ids(sendQueue) \subseteq Nat
         /\ last \in Nat
<1>1. \A u \in Units : u.id \in Nat BY VideoAssumption DEF Units
<1>2. /\ fed \in Seq(Units) /\ recvQueue \in Seq(Units) /\ net \in Seq(Units)
      /\ sendQueue \in Seq(Units) /\ last \in Nat
  BY VideoAssumption DEF Inv, TypeOK
<1>3. Got \subseteq Nat /\ Sending \subseteq Nat
  BY <1>1 DEF Inv, VideoInv, Got, Sending
<1> QED BY <1>2, <1>3, IdsAre

\* The sender's steps keep the order.
LEMMA SendInLine ==
  ASSUME Inv, InLine, ~reorders, UNCHANGED <<reorders, recvVars>>,
         \/ \E u \in Units : Enqueue(u)
         \/ SenderTakes \/ SenderSends \/ StopSender
  PROVE  InLine'
<1> DEFINE L == Order(Ids(fed), Got, Ids(recvQueue), Ids(net), Sending, Ids(sendQueue), last)
<1>1. L /\ Rising(net) /\ Rising(sendQueue) BY DEF InLine
<1>2. sendQueue \in Seq(Units) /\ net \in Seq(Units) /\ SendLimit \in Nat \ {0}
  BY VideoAssumption DEF Inv, TypeOK
<1>3. Got' = Got /\ Ids(fed)' = Ids(fed) /\ Ids(recvQueue)' = Ids(recvQueue)
  BY DEF Got, recvVars, Ids
<1>4. CASE \E u \in Units : Enqueue(u)
  <2>1. PICK u \in Units : Enqueue(u) BY <1>4
  <2>2. /\ u.id = last + 1 /\ last' = last + 1 /\ sendQueue' = Push(sendQueue, SendLimit, u)
        /\ sending' = sending /\ net' = net /\ sendPc' = Woken(sendPc)
    BY <2>1, Zenon DEF Enqueue, Produce, wire
  <2>3. Sending' = Sending BY <2>2 DEF Sending, Woken
  <2>4. /\ Ids(sendQueue') \subseteq Ids(sendQueue) \cup {last + 1}
        /\ Less(Ids(sendQueue), {last + 1}) => Rising(sendQueue')
    BY <1>1, <1>2, <2>2, IdsPush
  <2>5. Less(Ids(sendQueue), {last + 1})
    <3>1. \A x \in Ids(sendQueue) : x <= last /\ x \in Nat /\ last \in Nat
      BY <1>1, LineTypes DEF Order
    <3> QED BY <3>1 DEF Less
  <2>6. Order(Ids(fed), Got, Ids(recvQueue), Ids(net), Sending, Ids(sendQueue'), last + 1)
    BY <1>1, <2>4, LineTypes, OrderGrows
  <2> QED BY <1>1, <1>3, <2>2, <2>3, <2>4, <2>5, <2>6 DEF InLine, Ids
<1>5. CASE SenderTakes
  <2>1. /\ sendQueue # <<>> /\ sending' = Head(sendQueue) /\ sendQueue' = Tail(sendQueue)
        /\ net' = net /\ last' = last /\ sendPc = "check" /\ sendPc' = "send"
    BY <1>5 DEF SenderTakes, SendStep, CanSend, wire
  <2>2. Sending = {} /\ Sending' = {Head(sendQueue).id} BY <2>1 DEF Sending
  <2>3. /\ Ids(sendQueue') \subseteq Ids(sendQueue) /\ Head(sendQueue).id \in Ids(sendQueue)
        /\ Rising(sendQueue') /\ Less({Head(sendQueue).id}, Ids(sendQueue'))
    BY <1>1, <1>2, <2>1, IdsTail
  <2>4. Order(Ids(fed), Got, Ids(recvQueue), Ids(net), {Head(sendQueue).id}, Ids(sendQueue'), last)
    BY <1>1, <2>2, <2>3, OrderMoves
  <2>5. Ids(net)' = Ids(net) /\ Ids(sendQueue)' = Ids(sendQueue') BY <2>1 DEF Ids
  <2> QED BY <1>1, <1>3, <2>1, <2>2, <2>3, <2>4, <2>5, Zenon DEF InLine
<1>6. CASE SenderSends
  <2>1. /\ sendPc = "send" /\ sendPc' = "check" /\ sendQueue' = sendQueue /\ last' = last
        /\ (net' = net \/ net' = Append(net, sending))
    BY <1>6, Zenon DEF SenderSends, SendStep
  <2>2. Sending = {sending.id} /\ Sending' = {} /\ sending \in Units
    BY <2>1 DEF Sending, Inv, VideoInv
  <2>3. Ids(net') \subseteq Ids(net) \cup Sending /\ Rising(net')
    <3>1. Less(Ids(net), {sending.id}) BY <1>1, <2>2 DEF Order, Less
    <3> QED BY <1>1, <1>2, <2>1, <2>2, <3>1, IdsAppend
  <2>4. Order(Ids(fed), Got, Ids(recvQueue), Ids(net) \cup Sending, {}, Ids(sendQueue), last)
    BY <1>1, OrderMoves
  <2>5. Order(Ids(fed), Got, Ids(recvQueue), Ids(net'), {}, Ids(sendQueue), last)
    BY <2>3, <2>4, OrderShrinks
  <2> QED BY <1>1, <1>3, <2>1, <2>2, <2>3, <2>5 DEF InLine, Ids
<1>7. CASE StopSender
  <2>1. /\ sendQueue' = <<>> /\ last' = last /\ net' = net /\ sending' = sending
        /\ sendPc' = Woken(sendPc)
    BY <1>7, Zenon DEF StopSender, Stop, wire
  <2>2. Sending' = Sending BY <2>1 DEF Sending, Woken
  <2>3. Ids(sendQueue') = {} /\ Rising(sendQueue') BY <2>1 DEF Ids, Rising
  <2>4. Order(Ids(fed), Got, Ids(recvQueue), Ids(net), Sending, {}, last)
    BY <1>1, OrderShrinks
  <2>5. Ids(net)' = Ids(net) /\ Ids(sendQueue)' = {} /\ Rising(net)' /\ Rising(sendQueue)'
    BY <1>1, <2>1, <2>3 DEF Ids, Rising
  <2> QED BY <1>3, <2>1, <2>2, <2>4, <2>5, Zenon DEF InLine
<1> QED BY <1>4, <1>5, <1>6, <1>7

\* The network's and the receiver's steps keep it.
LEMMA RecvInLine ==
  ASSUME Inv, InLine, ~reorders, UNCHANGED reorders,
         Lost \/ (\E i \in 1..Len(net) : Deliver(i)) \/ ReceiverTakes \/ Skip \/ Decodes \/ DecodeFails
         \/ ReceiverJoined
  PROVE  InLine'
<1>1. /\ Order(Ids(fed), Got, Ids(recvQueue), Ids(net), Sending, Ids(sendQueue), last)
      /\ Rising(net) /\ Rising(sendQueue)
  BY DEF InLine
<1>2. /\ recvQueue \in Seq(Units) /\ net \in Seq(Units) /\ fed \in Seq(Units)
      /\ RecvLimit \in Nat \ {0}
  BY VideoAssumption DEF Inv, TypeOK
<1>3. /\ Sending' = Sending /\ Ids(sendQueue)' = Ids(sendQueue) /\ last' = last
      /\ Rising(sendQueue)'
  <2>1. UNCHANGED sendVars
    BY Zenon DEF Lost, Deliver, Arrives, ReceiverTakes, Skip, Decodes, DecodeFails, Reset, RecvStep,
                 ReceiverJoined, Clear
  <2> QED BY <1>1, <2>1 DEF sendVars, Sending, Ids, Rising
<1>4. CASE Lost
  <2>1. /\ UNCHANGED recvVars
        /\ (net' = net \/ \E i \in 1..Len(net) : net' = Without(net, i))
    BY <1>4 DEF Lost, wire
  <2>2. Ids(net') \subseteq Ids(net) /\ Rising(net') BY <1>1, <1>2, <2>1, IdsWithout
  <2>3. Order(Ids(fed), Got, Ids(recvQueue), Ids(net'), Sending, Ids(sendQueue), last)
    BY <1>1, <2>2, OrderShrinks
  <2>4. Ids(fed)' = Ids(fed) /\ Got' = Got /\ Ids(recvQueue)' = Ids(recvQueue) /\ Ids(net)' = Ids(net')
    BY <2>1 DEF recvVars, Ids, Got
  <2> QED BY <1>3, <2>2, <2>3, <2>4, Zenon DEF InLine
<1>5. CASE \E i \in 1..Len(net) : Deliver(i)
  <2>1. PICK i \in 1..Len(net) : Deliver(i) BY <1>5
  <2>2. /\ i = 1 /\ net' = Without(net, 1) /\ recvQueue' = Push(recvQueue, RecvLimit, net[1])
        /\ fed' = fed /\ got' = got /\ recvPc' = Woken(recvPc)
    <3>1. i = 1 BY <2>1 DEF Deliver, Arrives
    <3> QED BY <2>1, <3>1, Zenon DEF Deliver, Arrives
  <2>3. net # <<>> /\ net[1] = Head(net) BY <1>2, <2>1, <2>2
  <2>4. net' = Tail(net) BY <1>2, <2>1, <2>2, IdsWithout
  <2>5. /\ Ids(net') \subseteq Ids(net) /\ Head(net) \in Units /\ Head(net).id \in Ids(net)
        /\ Rising(net') /\ Less({Head(net).id}, Ids(net'))
    BY <1>1, <1>2, <2>3, <2>4, IdsTail
  <2>6. Ids(recvQueue') \subseteq Ids(recvQueue) \cup {Head(net).id}
    BY <1>2, <2>2, <2>3, <2>5, IdsPush
  <2>7. Order(Ids(fed), Got, Ids(recvQueue) \cup {Head(net).id}, Ids(net'), Sending, Ids(sendQueue),
              last)
    BY <1>1, <2>5, OrderMoves
  <2>8. Order(Ids(fed), Got, Ids(recvQueue'), Ids(net'), Sending, Ids(sendQueue), last)
    BY <2>6, <2>7, OrderShrinks
  <2>9. Ids(fed)' = Ids(fed) /\ Got' = Got /\ Ids(recvQueue)' = Ids(recvQueue') /\ Ids(net)' = Ids(net')
    BY <2>2 DEF Ids, Got, Woken
  <2> QED BY <1>3, <2>5, <2>8, <2>9, Zenon DEF InLine
<1>6. CASE ReceiverTakes
  <2>1. /\ recvPc = "check" /\ recvPc' = "have" /\ recvQueue # <<>>
        /\ got' = recvQueue[Len(recvQueue)] /\ recvQueue' = <<>> /\ net' = net /\ fed' = fed
    BY <1>6, Zenon DEF ReceiverTakes, RecvStep, wire
  <2>2. Got = {} /\ Got' = {recvQueue[Len(recvQueue)].id} BY <2>1 DEF Got
  <2>3. recvQueue[Len(recvQueue)].id \in Ids(recvQueue)
    <3>1. Len(recvQueue) \in 1..Len(recvQueue) BY <1>2, <2>1
    <3> QED BY <3>1 DEF Ids
  <2>4. Order(Ids(fed), {recvQueue[Len(recvQueue)].id}, {}, Ids(net), Sending, Ids(sendQueue), last)
    BY <1>1, <2>2, <2>3, OrderMoves
  <2>5. Ids(fed)' = Ids(fed) /\ Ids(recvQueue)' = {} /\ Ids(net)' = Ids(net) BY <2>1 DEF Ids
  <2>6. Rising(net)' BY <1>1, <2>1 DEF Rising
  <2> QED BY <1>3, <2>2, <2>4, <2>5, <2>6, Zenon DEF InLine
<1>7. CASE Skip \/ Decodes \/ DecodeFails
  <2>1. /\ recvPc = "have" /\ recvPc' = "check" /\ recvQueue' = recvQueue /\ net' = net
        /\ (fed' = fed \/ fed' = Append(fed, got) \/ fed' = <<>>)
    BY <1>7, Zenon DEF Skip, Decodes, DecodeFails, Reset, RecvStep, wire
  <2>2. Got = {got.id} /\ Got' = {} /\ got \in Units BY <2>1 DEF Got, Inv, VideoInv
  <2>3. Ids(fed') \subseteq Ids(fed) \cup Got
    <3>1. Ids(<<>>) = {} BY DEF Ids
    <3> QED BY <1>2, <2>1, <2>2, <3>1, IdsAppend
  <2>4. Order(Ids(fed) \cup Got, {}, Ids(recvQueue), Ids(net), Sending, Ids(sendQueue), last)
    BY <1>1, OrderMoves
  <2>5. Order(Ids(fed'), {}, Ids(recvQueue), Ids(net), Sending, Ids(sendQueue), last)
    BY <2>3, <2>4, OrderShrinks
  <2>6. Ids(fed)' = Ids(fed') /\ Ids(recvQueue)' = Ids(recvQueue) /\ Ids(net)' = Ids(net)
        /\ Rising(net)'
    BY <1>1, <2>1 DEF Ids, Rising
  <2> QED BY <1>3, <2>2, <2>5, <2>6, Zenon DEF InLine
<1>8. CASE ReceiverJoined
  <2>1. recvQueue' = <<>> /\ UNCHANGED <<fed, got, recvPc, net>>
    BY <1>8, Zenon DEF ReceiverJoined, Clear, wire
  <2>2. Order(Ids(fed), Got, {}, Ids(net), Sending, Ids(sendQueue), last)
    BY <1>1, OrderShrinks
  <2>3. Ids(fed)' = Ids(fed) /\ Ids(recvQueue)' = {} /\ Ids(net)' = Ids(net) /\ Got' = Got
        /\ Rising(net)'
    BY <1>1, <2>1 DEF Ids, Got, Rising
  <2> QED BY <1>3, <2>2, <2>3, Zenon DEF InLine
<1> QED BY <1>4, <1>5, <1>6, <1>7, <1>8

LEMMA LineStep == Inv /\ InLine /\ [Next]_vars => InLine'
<1> SUFFICES ASSUME Inv, InLine, [Next]_vars, ~reorders' PROVE InLine'
  BY DEF InLine
<1>1. reorders' = reorders
  BY Zenon DEF Next, SenderWorker, ReceiveWorker, Enqueue, Produce, IdrDropped, ChannelOpens, ChannelCloses,
     StopSender, Stop, SenderJoined, SenderStops, SenderTakes, SenderWaits, SenderSleeps, SenderSends,
     ReceiverStops, ReceiverTakes, ReceiverWaits, ReceiverSleeps, Skip, Decodes, DecodeFails, Reset,
     SpuriousWake, PliArrives, Lost, Deliver, Arrives, HalfSecond, StopReceiver, ReceiverJoined, Clear,
     ReceiverReleased, SendStep, RecvStep, wire, vars
<1>2. CASE (\E u \in Units : Enqueue(u)) \/ SenderTakes \/ SenderSends \/ StopSender
  <2>1. UNCHANGED recvVars
    BY <1>2, Zenon DEF Enqueue, Produce, SenderTakes, SenderSends, SendStep, StopSender, Stop
  <2> QED BY <1>1, <1>2, <2>1, SendInLine
<1>3. CASE Lost \/ (\E i \in 1..Len(net) : Deliver(i)) \/ ReceiverTakes \/ Skip \/ Decodes
           \/ DecodeFails \/ ReceiverJoined
  BY <1>1, <1>3, RecvInLine
<1>4. CASE IdrDropped \/ ChannelOpens \/ ChannelCloses \/ SenderJoined \/ SenderStops \/ SenderWaits
           \/ SenderSleeps \/ ReceiverStops \/ ReceiverWaits \/ ReceiverSleeps \/ SpuriousWake
           \/ PliArrives \/ HalfSecond \/ StopReceiver \/ ReceiverReleased \/ UNCHANGED vars
  <2>1. UNCHANGED <<fed, got, recvQueue, net, sending, sendQueue, last>>
    BY <1>4, Zenon DEF IdrDropped, ChannelOpens, ChannelCloses, SenderJoined, SenderStops, SenderWaits,
       SenderSleeps, ReceiverStops, ReceiverWaits, ReceiverSleeps, SpuriousWake, PliArrives, HalfSecond,
       StopReceiver, ReceiverReleased, SendStep, RecvStep, sendVars, recvVars, wire, vars
  <2>2. (recvPc' = "have" <=> recvPc = "have") /\ (sendPc' = "send" <=> sendPc = "send")
    BY <1>4 DEF IdrDropped, ChannelOpens, ChannelCloses, SenderJoined, SenderStops, SenderWaits,
       SenderSleeps, ReceiverStops, ReceiverWaits, ReceiverSleeps, SpuriousWake, PliArrives, HalfSecond,
       StopReceiver, ReceiverReleased, SendStep, RecvStep, sendVars, recvVars, wire, vars, Woken
  <2>3. Got' = Got /\ Sending' = Sending BY <2>1, <2>2 DEF Got, Sending
  <2> QED BY <1>1, <2>1, <2>3 DEF InLine, Ids, Rising
<1> QED BY <1>2, <1>3, <1>4, Zenon DEF Next, SenderWorker, ReceiveWorker

\* Over a network that keeps the order the decoder is given no access unit older than one it
\* has been given since its reset.
THEOREM ForwardCorrect == Spec => DecodesForward
<1>1. Init => InLine
  BY DEF Init, InLine, Order, Less, Ids, Got, Sending, Rising
<1>2. Inv /\ InLine /\ [Next]_vars =>
        [\A i \in 1..Len(fed) : ~reorders /\ Len(fed') = Len(fed) + 1
           => fed[i].id < fed'[Len(fed')].id]_vars
  <2> SUFFICES ASSUME Inv, InLine, Next, NEW i \in 1..Len(fed), ~reorders, Len(fed') = Len(fed) + 1
               PROVE  fed[i].id < fed'[Len(fed')].id
    BY Zenon
  <2>1. CASE Decodes
    <3>1. recvPc = "have" /\ fed' = Append(fed, got) BY <2>1 DEF Decodes, RecvStep
    <3>2. fed \in Seq(Units) BY DEF Inv, TypeOK
    <3>3. fed'[Len(fed')] = got BY <3>1, <3>2
    <3>4. Less(Ids(fed), {got.id}) BY <3>1 DEF InLine, Order, Less, Got
    <3>5. fed[i].id \in Ids(fed) BY DEF Ids
    <3> QED BY <3>3, <3>4, <3>5 DEF Less
  <2>2. CASE ~Decodes
    <3>1. fed' = fed \/ fed' = <<>>
      BY <2>2, Zenon DEF Next, SenderWorker, ReceiveWorker, Enqueue, Produce, IdrDropped, ChannelOpens,
         ChannelCloses, StopSender, Stop, SenderJoined, SenderStops, SenderTakes, SenderWaits,
         SenderSleeps, SenderSends, ReceiverStops, ReceiverTakes, ReceiverWaits, ReceiverSleeps, Skip,
         DecodeFails, Reset, SpuriousWake, PliArrives, Lost, Deliver, Arrives, HalfSecond, StopReceiver,
         ReceiverJoined, Clear, ReceiverReleased, SendStep, RecvStep, recvVars, vars
    <3>2. Len(fed) \in Nat BY DEF Inv, TypeOK
    <3> QED BY <3>1, <3>2
  <2> QED BY <2>1, <2>2
<1> QED BY <1>1, <1>2, InitInv, StepInv, LineStep, PTL DEF Spec, DecodesForward
=============================================================================
