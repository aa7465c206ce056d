---------------------------- MODULE EncoderProofs ----------------------------
(***************************************************************************)
(* Proofs about the encoder's two workers (EncoderPipeline), for every     *)
(* number of frames, every queue limit and every number of inputs the      *)
(* transform asks for ahead.                                               *)
(***************************************************************************)
EXTENDS EncoderPipeline, TLAPS

\* Append to a bounded queue keeps it a queue of its elements, within bounds.
LEMMA PushFits ==
  ASSUME NEW S, NEW q \in Seq(S), NEW f \in S, NEW limit \in Nat \ {0},
         Len(q) <= limit
  PROVE  Push(q, limit, f) \in Seq(S) /\ Len(Push(q, limit, f)) <= limit
<1>1. CASE Len(q) >= limit
  <2>1. q # <<>> BY <1>1
  <2>2. Tail(q) \in Seq(S) /\ Len(Tail(q)) = Len(q) - 1 BY <2>1
  <2> QED BY <1>1, <2>2 DEF Push
<1>2. CASE ~(Len(q) >= limit)
  BY <1>2 DEF Push
<1> QED BY <1>1, <1>2

\* The empty queue is a queue of anything.
LEMMA EmptyFits ==
  ASSUME NEW S, NEW q, q = <<>>
  PROVE  q \in Seq(S) /\ Len(q) = 0
OBVIOUS

\* Zero is within every bound of the model.
LEMMA ZeroFits ==
  /\ 0 \in 0..MaxFrames /\ 0 \in 0..MaxWants /\ 0 \in Nat
  /\ 0 <= PendingLimit /\ 0 <= ReadyLimit
BY EncoderAssumption

Inv == TypeOK /\ WorkerInv

\* Initially nothing has been asked for, queued or started.
LEMMA InitInv == Init => Inv
<1> SUFFICES ASSUME Init PROVE Inv
  OBVIOUS
<1>1. pending = <<>> /\ ready = <<>> /\ mft = <<>> /\ taken = <<>>
  BY DEF Init
<1>2. /\ pending \in Seq(Frames) /\ Len(pending) = 0
      /\ ready \in Seq(Frames) /\ Len(ready) = 0
      /\ mft \in Seq(Frames) /\ Len(mft) = 0
      /\ taken \in Seq(Frames)
  BY <1>1, EmptyFits
<1>3. TypeOK
  <2>1. /\ stage = "off" /\ error = FALSE /\ last = 0 /\ credits = 0
        /\ inPc = "off" /\ held = NoFrame /\ outPc = "off" /\ wants = 0
        /\ needEvents = 0 /\ haveEvents = 0 /\ mayRefuse \in BOOLEAN
    BY DEF Init
  <2> QED BY <2>1, <1>2, ZeroFits DEF TypeOK
<1>4. WorkerInv
  BY <1>2 DEF Init, WorkerInv, ReleasedUnused, WorkerStop
<1> QED BY <1>3, <1>4 DEF Inv

\* Every step keeps the types, the credit in hand and the order of the joins.
LEMMA StepInv == Inv /\ [Next]_vars => Inv'
<1> SUFFICES ASSUME Inv, [Next]_vars PROVE Inv'
  OBVIOUS
<1> USE EncoderAssumption
<1>1. CASE Control
  <2>1. CASE Initialize \/ InputStarts \/ Shutdown \/ InputJoined
    BY <2>1 DEF Inv, TypeOK, WorkerInv, ReleasedUnused, WorkerStop, Initialize,
       InputStarts, Shutdown, InputJoined, Notify, streamSide, inputSide,
       mftSide
  <2>2. CASE OutputJoined
    <3>1. pending' = <<>> /\ ready' = <<>> /\ mft' = <<>>
      BY <2>2 DEF OutputJoined, Release
    <3>2. /\ pending' \in Seq(Frames) /\ Len(pending') = 0
          /\ ready' \in Seq(Frames) /\ Len(ready') = 0
          /\ mft' \in Seq(Frames) /\ Len(mft') = 0
      BY <3>1, EmptyFits
    <3>3. /\ stage = "joinOutput" /\ outPc = "stopped"
          /\ stage' = "released" /\ credits' = 0 /\ error' = FALSE
          /\ wants' = 0 /\ needEvents' = 0 /\ haveEvents' = 0
          /\ UNCHANGED <<last, taken, inPc, held, outPc, mayRefuse>>
      BY <2>2 DEF OutputJoined, Release
    <3>4. TypeOK' BY <3>2, <3>3, ZeroFits DEF Inv, TypeOK
    <3>5. WorkerInv'
      BY <3>2, <3>3 DEF Inv, WorkerInv, ReleasedUnused, WorkerStop
    <3> QED BY <3>4, <3>5 DEF Inv
  <2> QED BY <1>1, <2>1, <2>2 DEF Control
<1>2. CASE Stream
  <2>1. CASE Encode
    <3>1. last + 1 \in Frames BY <2>1 DEF Encode, Inv, TypeOK, Frames
    <3>2. pending' \in Seq(Frames) /\ Len(pending') <= PendingLimit
      BY <2>1, <3>1, PushFits DEF Encode, Inv, TypeOK
    <3>3. taken' \in Seq(Frames) /\ ready' = <<>>
      BY <2>1 DEF Encode, TakeReady, Inv, TypeOK
    <3>4. last' \in 0..MaxFrames
      BY <2>1 DEF Encode, Inv, TypeOK
    <3>5. inPc' \in {"off", "check", "asleep", "submit", "settle", "restore",
                     "stopped"}
          /\ (inPc' \in {"submit", "settle", "restore"} => inPc' = inPc)
          /\ (inPc \in {"off", "stopped"} => inPc' = inPc)
      BY <2>1 DEF Encode, Notify, Inv, TypeOK
    <3> QED BY <2>1, <3>2, <3>3, <3>4, <3>5
        DEF Encode, Inv, TypeOK, WorkerInv, ReleasedUnused, WorkerStop, mftSide
  <2>2. CASE Poll
    <3>1. taken' \in Seq(Frames) /\ ready' = <<>>
      BY <2>2 DEF Poll, TakeReady, Inv, TypeOK
    <3> QED BY <2>2, <3>1
        DEF Poll, Inv, TypeOK, WorkerInv, ReleasedUnused, WorkerStop,
        inputSide, mftSide
  <2> QED BY <1>2, <2>1, <2>2 DEF Stream
<1>3. CASE InputWorker \/ SpuriousWake
  <2>1. CASE InputStops \/ InputWaits \/ InputSleeps \/ SpuriousWake
    BY <2>1 DEF Inv, TypeOK, WorkerInv, ReleasedUnused, WorkerStop, InputStop,
       InputStops, InputWaits, InputSleeps, SpuriousWake, Step, streamSide,
       mftSide
  <2>2. CASE InputTakes
    <3>1. held' \in Frames /\ pending' = <<>> /\ credits > 0
      BY <2>2 DEF InputTakes, CanTake, Inv, TypeOK
    <3> QED BY <2>2, <3>1
        DEF InputTakes, CanTake, Step, Inv, TypeOK, WorkerInv, ReleasedUnused,
        WorkerStop, InputStop, streamSide, mftSide
  <2>3. CASE Accepted
    <3>1. mft' \in Seq(Frames) /\ Len(mft') = Len(mft) + 1
      BY <2>3 DEF Accepted, Step, Inv, TypeOK, WorkerInv
    <3> QED BY <2>3, <3>1
        DEF Accepted, Step, Inv, TypeOK, WorkerInv, ReleasedUnused, WorkerStop,
        streamSide
  <2>4. CASE Settle
    BY <2>4 DEF Settle, Step, Inv, TypeOK, WorkerInv, ReleasedUnused,
       WorkerStop, streamSide, mftSide
  <2>5. CASE Refused
    BY <2>5 DEF Refused, Step, Inv, TypeOK, WorkerInv, ReleasedUnused,
       WorkerStop, streamSide
  <2>6. CASE Restore
    <3>1. pending' \in Seq(Frames) /\ Len(pending') <= PendingLimit
      BY <2>6 DEF Restore, Step, Inv, WorkerInv
    <3> QED BY <2>6, <3>1
        DEF Restore, Step, Inv, TypeOK, WorkerInv, ReleasedUnused, WorkerStop,
        streamSide, mftSide
  <2>7. CASE InputFails
    BY <2>7 DEF InputFails, Step, Inv, TypeOK, WorkerInv, ReleasedUnused,
       WorkerStop, streamSide, mftSide
  <2> QED BY <1>3, <2>1, <2>2, <2>3, <2>4, <2>5, <2>6, <2>7
      DEF InputWorker, Submit
<1>4. CASE OutputWorker
  <2>1. CASE OutputNeed
    BY <2>1 DEF OutputNeed, OutputRuns, Notify, Inv, TypeOK, WorkerInv,
       ReleasedUnused, WorkerStop, streamSide
  <2>2. CASE OutputHave
    <3>1. mft # <<>>
      BY <2>2 DEF OutputHave, Drain, Inv, TypeOK, WorkerInv
    <3>2. /\ Head(mft) \in Frames
          /\ mft' \in Seq(Frames) /\ Len(mft') = Len(mft) - 1
      BY <2>2, <3>1 DEF OutputHave, Drain, Inv, TypeOK
    <3>3. ready' \in Seq(Frames) /\ Len(ready') <= ReadyLimit
      BY <2>2, <3>2, PushFits DEF OutputHave, Inv, TypeOK
    <3> QED BY <2>2, <3>2, <3>3
        DEF OutputHave, Drain, OutputRuns, Inv, TypeOK, WorkerInv,
        ReleasedUnused, WorkerStop, inputSide
  <2>3. CASE OutputFails \/ OutputStops
    BY <2>3 DEF OutputFails, OutputStops, OutputRuns, Inv, TypeOK, WorkerInv,
       ReleasedUnused, WorkerStop, streamSide, inputSide, mftSide
  <2> QED BY <1>4, <2>1, <2>2, <2>3 DEF OutputWorker
<1>5. CASE Mft
  <2>1. CASE MftAsks
    BY <2>1 DEF MftAsks, Inv, TypeOK, WorkerInv, ReleasedUnused, WorkerStop,
       streamSide, inputSide
  <2>2. CASE MftProduces
    BY <2>2 DEF MftProduces, Inv, TypeOK, WorkerInv, ReleasedUnused,
       WorkerStop, streamSide, inputSide
  <2> QED BY <1>5, <2>1, <2>2 DEF Mft
<1>6. CASE UNCHANGED vars
  BY <1>6 DEF vars, Inv, TypeOK, WorkerInv, ReleasedUnused, WorkerStop
<1> QED BY <1>1, <1>2, <1>3, <1>4, <1>5, <1>6 DEF Next

\* The queues stay within their limits and every variable keeps its type.
THEOREM TypeCorrect == Spec => []TypeOK
BY InitInv, StepInv, PTL DEF Spec, Inv

\* The transform is released only after both workers have ended.
THEOREM ReleaseCorrect == Spec => []ReleasedUnused
BY InitInv, StepInv, PTL DEF Spec, Inv, WorkerInv

-----------------------------------------------------------------------------
(* A transform that takes every input it has asked for.                    *)

CountInv == Inv /\ RequestsCounted /\ (~mayRefuse => inPc # "restore")

\* The transform does not change its kind.
LEMMA KindKept == [Next]_vars => UNCHANGED mayRefuse
BY DEF Next, Control, Stream, InputWorker, Submit, OutputWorker, Mft,
   Initialize, InputStarts, Shutdown, InputJoined, OutputJoined, Release,
   Encode, Poll, InputStops, InputTakes, InputWaits, InputSleeps, SpuriousWake,
   Accepted, Refused, Settle, Restore, InputFails, OutputNeed, OutputHave,
   Drain, OutputFails, OutputStops, MftAsks, MftProduces, Step, vars, mftSide

\* With a credit in hand and every credit a request, the transform wants the
\* frame: a refusal is impossible, and no credit is ever dropped.
LEMMA CountStepFair ==
  ASSUME ~mayRefuse, CountInv, [Next]_vars
  PROVE  CountInv'
<1>1. Inv' BY StepInv DEF CountInv
<1>2. /\ wants \in Nat /\ wants' \in Nat /\ needEvents \in Nat
      /\ needEvents' \in Nat /\ credits \in Nat /\ credits' \in Nat
  BY <1>1, EncoderAssumption DEF CountInv, Inv, TypeOK
<1>3. stage = "released" => inPc \in {"off", "stopped"}
  BY DEF CountInv, Inv, WorkerInv, ReleasedUnused
<1>4. ~Refused
  <2> SUFFICES ASSUME Refused PROVE FALSE
    OBVIOUS
  <2>1. inPc = "submit" /\ wants = 0 BY DEF Refused, Step
  <2>2. credits > 0 BY <2>1 DEF CountInv, Inv, WorkerInv
  <2>3. needEvents + credits = wants
    BY <1>2, <1>3, <2>1 DEF CountInv, RequestsCounted, InFlight
  <2> QED BY <1>2, <2>1, <2>2, <2>3
<1>5. ~Restore BY DEF CountInv, Restore, Step
<1>6. inPc' # "restore"
  BY <1>4, <1>5 DEF CountInv, Next, Control, Stream, InputWorker, Submit,
     OutputWorker, Mft, Initialize, InputStarts, Shutdown, InputJoined,
     OutputJoined, Release, Encode, Poll, InputStops, InputTakes, InputWaits,
     InputSleeps, SpuriousWake, Accepted, Settle, InputFails, OutputNeed,
     OutputHave, Drain, OutputFails, OutputStops, MftAsks, MftProduces, Step,
     Notify, vars, inputSide
<1>7. RequestsCounted'
  <2> SUFFICES ASSUME stage' # "released"
               PROVE  needEvents' + credits' = wants' + InFlight'
    BY DEF RequestsCounted
  <2>1. CASE Control
    <3>1. stage \in {"off", "starting"} => inPc = "off"
      BY DEF CountInv, Inv, WorkerInv
    <3> QED BY <2>1, <3>1, <1>2
        DEF CountInv, RequestsCounted, InFlight, Control, Initialize,
        InputStarts, Shutdown, InputJoined, OutputJoined, Release, Notify,
        inputSide, mftSide
  <2>2. CASE Stream
    BY <2>2, <1>2 DEF CountInv, RequestsCounted, InFlight, Stream, Encode,
       Poll, Notify, inputSide, mftSide
  <2>3. CASE InputWorker \/ SpuriousWake
    <3>1. stage # "released" BY <2>3, <1>5, <1>4
      DEF InputWorker, SpuriousWake, Submit, InputStops, InputTakes,
      InputWaits, InputSleeps, Accepted, Settle, InputFails, Step
    <3>2. CASE Accepted
      BY <3>1, <3>2, <1>2
      DEF CountInv, RequestsCounted, InFlight, Accepted, Step
    <3>3. CASE Settle
      <4>1. credits > 0 BY <3>3 DEF CountInv, Inv, WorkerInv, Settle, Step
      <4> QED BY <3>1, <3>3, <4>1, <1>2
          DEF CountInv, RequestsCounted, InFlight, Settle, Step, mftSide
    <3>4. CASE InputStops \/ InputTakes \/ InputWaits \/ InputSleeps
               \/ InputFails \/ SpuriousWake
      BY <3>1, <3>4, <1>2
      DEF CountInv, RequestsCounted, InFlight, InputStops, InputTakes,
          InputWaits, InputSleeps, InputFails, SpuriousWake, Step, mftSide
    <3> QED BY <2>3, <3>2, <3>3, <3>4, <1>4, <1>5 DEF InputWorker, Submit
  <2>4. CASE OutputWorker
    BY <2>4, <1>2 DEF CountInv, RequestsCounted, InFlight, OutputWorker,
       OutputNeed, OutputHave, Drain, OutputFails, OutputStops, Notify,
       inputSide, mftSide
  <2>5. CASE Mft
    BY <2>5, <1>2 DEF CountInv, RequestsCounted, InFlight, Mft, MftAsks,
       MftProduces, inputSide
  <2>6. CASE UNCHANGED vars
    BY <2>6 DEF CountInv, RequestsCounted, InFlight, vars
  <2> QED BY <2>1, <2>2, <2>3, <2>4, <2>5, <2>6 DEF Next
<1> QED BY <1>1, <1>6, <1>7 DEF CountInv

\* Of a transform that may refuse anything, nothing is counted.
LEMMA CountStep == CountInv /\ [Next]_vars => CountInv'
<1> SUFFICES ASSUME CountInv, [Next]_vars PROVE CountInv'
  OBVIOUS
<1>1. CASE mayRefuse
  <2>1. Inv' BY StepInv DEF CountInv
  <2>2. mayRefuse' BY <1>1, KindKept
  <2> QED BY <2>1, <2>2 DEF CountInv, RequestsCounted
<1>2. CASE ~mayRefuse
  BY <1>2, CountStepFair
<1> QED BY <1>1, <1>2

LEMMA CountInit == Init => CountInv
<1> SUFFICES ASSUME Init PROVE CountInv
  OBVIOUS
<1>1. RequestsCounted /\ inPc # "restore"
  BY DEF Init, RequestsCounted, InFlight
<1> QED BY <1>1, InitInv DEF CountInv

\* A frame in the input worker's hand is wanted, whenever credits are requests.
LEMMA CountWants == CountInv => RequestsCounted /\ NeverRefused
<1> SUFFICES ASSUME CountInv PROVE NeverRefused
  BY DEF CountInv
<1>1. ASSUME ~mayRefuse, inPc = "submit", stage # "released" PROVE wants > 0
  <2>1. credits > 0 /\ needEvents \in Nat /\ credits \in Nat
        /\ wants \in 0..MaxWants
    BY <1>1 DEF CountInv, Inv, TypeOK, WorkerInv
  <2>2. needEvents + credits = wants + 0
    BY <1>1 DEF CountInv, RequestsCounted, InFlight
  <2> QED BY <2>1, <2>2, EncoderAssumption
<1> QED BY <1>1 DEF NeverRefused, CountInv

\* Credits, unread events and unmet requests agree for as long as the
\* transform is open.
THEOREM CreditsAreRequests == Spec => []RequestsCounted
BY CountStep, CountInit, CountWants, PTL DEF Spec

\* The MF_E_NOTACCEPTING branch is unreachable with such a transform.
THEOREM NoRefusal == Spec => []NeverRefused
BY CountStep, CountInit, CountWants, PTL DEF Spec

\* What waits last in the queue is what encode() was given last.
NewestWaits ==
  ~mayRefuse /\ pending # <<>> => pending[Len(pending)] = last

\* The frame pushed is the last of the queue.
LEMMA PushLast ==
  ASSUME NEW q \in Seq(Frames), NEW f \in Frames,
         NEW p, p = Push(q, PendingLimit, f)
  PROVE  p # <<>> /\ p[Len(p)] = f
<1>1. \E t \in Seq(Frames) : p = Append(t, f)
  <2>1. CASE Len(q) >= PendingLimit
    <3>1. q # <<>> BY <2>1, EncoderAssumption
    <3>2. Tail(q) \in Seq(Frames) BY <3>1
    <3> QED BY <2>1, <3>2 DEF Push
  <2>2. CASE ~(Len(q) >= PendingLimit)
    BY <2>2 DEF Push
  <2> QED BY <2>1, <2>2
<1>2. PICK t \in Seq(Frames) : p = Append(t, f) BY <1>1
<1>3. Len(p) = Len(t) + 1 /\ p[Len(t) + 1] = f /\ p # <<>> BY <1>2
<1> QED BY <1>3

\* Only encode() puts a frame into the queue, as long as none is restored.
LEMMA NewestStep ==
  CountInv /\ NewestWaits /\ [Next]_vars => NewestWaits'
<1> SUFFICES ASSUME CountInv, NewestWaits, [Next]_vars, ~mayRefuse',
                    pending' # <<>>
             PROVE  pending'[Len(pending')] = last'
  BY DEF NewestWaits
<1>1. ~mayRefuse BY KindKept
<1>2. CASE Encode
  <2>1. pending \in Seq(Frames) /\ last + 1 \in Frames
    BY <1>2, EncoderAssumption DEF CountInv, Inv, TypeOK, Encode, Frames
  <2>2. pending' = Push(pending, PendingLimit, last + 1) /\ last' = last + 1
    BY <1>2 DEF Encode
  <2> QED BY <2>1, <2>2, PushLast
<1>3. CASE OutputJoined \/ InputTakes
  BY <1>3 DEF OutputJoined, Release, InputTakes
<1>4. ~Restore
  BY <1>1 DEF CountInv, Restore, Step
<1>5. CASE ~(Encode \/ OutputJoined \/ InputTakes)
  <2>1. UNCHANGED <<pending, last>>
    BY <1>4, <1>5 DEF Next, Control, Stream, InputWorker, Submit,
       OutputWorker, Mft, Initialize, InputStarts, Shutdown, InputJoined, Poll,
       InputStops, InputWaits, InputSleeps, SpuriousWake, Accepted, Refused,
       Settle, InputFails, OutputNeed, OutputHave, Drain, OutputFails,
       OutputStops, MftAsks, MftProduces, streamSide, inputSide, vars
  <2> QED BY <1>1, <2>1 DEF NewestWaits
<1> QED BY <1>2, <1>3, <1>5

\* From "check" only InputTakes goes to "submit", with the last of the queue.
LEMMA TakesLast ==
  NewestWaits /\ [Next]_vars =>
    (~mayRefuse /\ inPc = "check" /\ inPc' = "submit" => held' = last)
<1> SUFFICES ASSUME NewestWaits, [Next]_vars, ~mayRefuse, inPc = "check",
                    inPc' = "submit"
             PROVE  held' = last
  OBVIOUS
<1>1. InputTakes
  BY DEF Next, Control, Stream, InputWorker, Submit, OutputWorker, Mft,
     Initialize, InputStarts, Shutdown, InputJoined, OutputJoined, Release,
     Encode, Poll, InputStops, InputWaits, InputSleeps, SpuriousWake, Accepted,
     Refused, Settle, Restore, InputFails, OutputNeed, OutputHave, Drain,
     OutputFails, OutputStops, MftAsks, MftProduces, Step, Notify, inputSide,
     vars
<1> QED BY <1>1 DEF InputTakes, CanTake, NewestWaits

\* The input worker submits the newest frame encode() was given.
THEOREM NewestSubmitted == Spec => NewestTaken
<1>1. Init => NewestWaits BY DEF Init, NewestWaits
<1>2. NewestWaits /\ [Next]_vars =>
        [~mayRefuse /\ inPc = "check" /\ inPc' = "submit" => held' = last]_vars
  BY TakesLast
<1> QED BY <1>1, <1>2, CountInit, CountStep, NewestStep, PTL
        DEF Spec, NewestTaken

-----------------------------------------------------------------------------
(* The order of the frames.  What is on its way is a line of six parts,    *)
(* the last of them the frame that encode() will be given next: each part  *)
(* rises, and each is below every later one.                               *)

Rising(q) == \A i, j \in 1..Len(q) : i < j => q[i] < q[j]
Below(q, r) == \A i \in 1..Len(q) : \A j \in 1..Len(r) : q[i] < r[j]

\* An element of q \o r is one of q, or one of r.
LEMMA ConcatParts ==
  ASSUME NEW q \in Seq(Nat), NEW r \in Seq(Nat)
  PROVE  /\ q \o r \in Seq(Nat) /\ Len(q) \in Nat /\ Len(r) \in Nat
         /\ Len(q \o r) = Len(q) + Len(r)
         /\ \A i \in 1..Len(q) : i \in 1..Len(q \o r) /\ (q \o r)[i] = q[i]
         /\ \A j \in 1..Len(r) : Len(q) + j \in 1..Len(q \o r) /\ (q \o r)[Len(q) + j] = r[j]
         /\ \A k \in 1..Len(q \o r) :
              \/ k \in 1..Len(q) /\ (q \o r)[k] = q[k]
              \/ \E j \in 1..Len(r) : k = Len(q) + j /\ (q \o r)[k] = r[j]
<1>1. /\ q \o r \in Seq(Nat) /\ Len(q) \in Nat /\ Len(r) \in Nat
      /\ Len(q \o r) = Len(q) + Len(r)
      /\ \A i \in 1..Len(q) : i \in 1..Len(q \o r) /\ (q \o r)[i] = q[i]
      /\ \A j \in 1..Len(r) : Len(q) + j \in 1..Len(q \o r) /\ (q \o r)[Len(q) + j] = r[j]
  OBVIOUS
<1>2. ASSUME NEW k \in 1..Len(q \o r), k \notin 1..Len(q)
      PROVE  \E j \in 1..Len(r) : k = Len(q) + j /\ (q \o r)[k] = r[j]
  <2>1. k - Len(q) \in 1..Len(r) /\ k = Len(q) + (k - Len(q)) BY <1>1, <1>2
  <2> QED BY <1>1, <2>1
<1> QED BY <1>1, <1>2

LEMMA ConcatBelow ==
  ASSUME NEW q \in Seq(Nat), NEW r \in Seq(Nat), NEW s \in Seq(Nat)
  PROVE  /\ Below(q \o r, s) <=> Below(q, s) /\ Below(r, s)
         /\ Below(s, q \o r) <=> Below(s, q) /\ Below(s, r)
<1> DEFINE c == q \o r
<1>1. /\ \A i \in 1..Len(q) : i \in 1..Len(c) /\ c[i] = q[i]
      /\ \A j \in 1..Len(r) : Len(q) + j \in 1..Len(c) /\ c[Len(q) + j] = r[j]
      /\ \A k \in 1..Len(c) : \/ k \in 1..Len(q) /\ c[k] = q[k]
                              \/ \E j \in 1..Len(r) : k = Len(q) + j /\ c[k] = r[j]
  BY ConcatParts
<1> HIDE DEF c
<1>2. /\ Below(c, s) <=> Below(q, s) /\ Below(r, s)
      /\ Below(s, c) <=> Below(s, q) /\ Below(s, r)
  BY <1>1, Zenon DEF Below
<1> QED BY <1>2 DEF c

LEMMA ConcatRising ==
  ASSUME NEW q \in Seq(Nat), NEW r \in Seq(Nat)
  PROVE  Rising(q \o r) <=> Rising(q) /\ Rising(r) /\ Below(q, r)
<1> DEFINE c == q \o r
<1>1. /\ Len(q) \in Nat
      /\ \A i \in 1..Len(q) : i \in 1..Len(c) /\ c[i] = q[i]
      /\ \A j \in 1..Len(r) : Len(q) + j \in 1..Len(c) /\ c[Len(q) + j] = r[j]
      /\ \A k \in 1..Len(c) : \/ k \in 1..Len(q) /\ c[k] = q[k]
                              \/ \E j \in 1..Len(r) : k = Len(q) + j /\ c[k] = r[j]
  BY ConcatParts
<1> HIDE DEF c
<1>2. ASSUME Rising(c) PROVE Rising(q) /\ Rising(r) /\ Below(q, r)
  <2>1. Rising(q) BY <1>1, <1>2 DEF Rising
  <2>2. ASSUME NEW i \in 1..Len(r), NEW j \in 1..Len(r), i < j PROVE r[i] < r[j]
    <3>1. Len(q) + i < Len(q) + j BY <1>1, <2>2
    <3> QED BY <1>1, <1>2, <3>1 DEF Rising
  <2>3. ASSUME NEW i \in 1..Len(q), NEW j \in 1..Len(r) PROVE q[i] < r[j]
    <3>1. i < Len(q) + j BY <1>1
    <3> QED BY <1>1, <1>2, <3>1 DEF Rising
  <2> QED BY <2>1, <2>2, <2>3 DEF Rising, Below
<1>3. ASSUME Rising(q), Rising(r), Below(q, r) PROVE Rising(c)
  <2> SUFFICES ASSUME NEW k \in 1..Len(c), NEW l \in 1..Len(c), k < l PROVE c[k] < c[l]
    BY DEF Rising
  <2>1. CASE l \in 1..Len(q)
    <3>1. k \in 1..Len(q) BY <1>1, <2>1
    <3> QED BY <1>1, <1>3, <2>1, <3>1 DEF Rising
  <2>2. CASE l \notin 1..Len(q)
    <3>1. PICK j \in 1..Len(r) : l = Len(q) + j /\ c[l] = r[j] BY <1>1, <2>2
    <3>2. CASE k \in 1..Len(q) BY <1>1, <1>3, <3>1, <3>2 DEF Below
    <3>3. CASE k \notin 1..Len(q)
      <4>1. PICK i \in 1..Len(r) : k = Len(q) + i /\ c[k] = r[i] BY <1>1, <3>3
      <4>2. i < j BY <1>1, <3>1, <4>1
      <4> QED BY <1>3, <3>1, <4>1, <4>2 DEF Rising
    <3> QED BY <3>2, <3>3
  <2> QED BY <2>1, <2>2
<1> QED BY <1>2, <1>3 DEF c

\* A sequence of none or one frame rises.
LEMMA OneRises ==
  ASSUME NEW x \in Nat
  PROVE  /\ <<x>> \in Seq(Nat) /\ Rising(<<x>>) /\ <<>> \in Seq(Nat) /\ Rising(<<>>)
         /\ \A q : Below(<<>>, q) /\ Below(q, <<>>)
BY DEF Rising, Below

\* The oldest element of a queue, and the newest one.
LEMMA QueueEnds ==
  ASSUME NEW q \in Seq(Nat), q # <<>>
  PROVE  /\ Head(q) \in Nat /\ Tail(q) \in Seq(Nat) /\ q = <<Head(q)>> \o Tail(q)
         /\ q[Len(q)] \in Nat
         /\ \A s : (Below(q, s) => Below(<<q[Len(q)]>>, s)) /\ (Below(s, q) => Below(s, <<q[Len(q)]>>))
<1>1. Head(q) \in Nat /\ Tail(q) \in Seq(Nat) /\ q = <<Head(q)>> \o Tail(q) OBVIOUS
<1>2. Len(q) \in 1..Len(q) /\ q[Len(q)] \in Nat OBVIOUS
<1>3. ASSUME NEW s
      PROVE  (Below(q, s) => Below(<<q[Len(q)]>>, s)) /\ (Below(s, q) => Below(s, <<q[Len(q)]>>))
  BY <1>2 DEF Below
<1> QED BY <1>1, <1>2, <1>3

LEMMA HeadTail ==
  ASSUME NEW q \in Seq(Nat), q # <<>>, Rising(q)
  PROVE  /\ <<Head(q)>> \in Seq(Nat) /\ Tail(q) \in Seq(Nat) /\ Head(q) \in Nat
         /\ Rising(Tail(q)) /\ Below(<<Head(q)>>, Tail(q))
         /\ \A s \in Seq(Nat) : (Below(s, q) => Below(s, <<Head(q)>>) /\ Below(s, Tail(q)))
                             /\ (Below(q, s) => Below(<<Head(q)>>, s) /\ Below(Tail(q), s))
<1>1. PICK h \in Seq(Nat), t \in Seq(Nat) : h = <<Head(q)>> /\ t = Tail(q) /\ q = h \o t
  BY QueueEnds, OneRises
<1>2. Rising(h \o t) => Rising(t) /\ Below(h, t) BY ConcatRising
<1>3. ASSUME NEW s \in Seq(Nat)
      PROVE  /\ Below(s, h \o t) <=> Below(s, h) /\ Below(s, t)
             /\ Below(h \o t, s) <=> Below(h, s) /\ Below(t, s)
  BY ConcatBelow
<1>4. Head(q) \in Nat BY QueueEnds
<1> QED BY <1>1, <1>2, <1>3, <1>4, Zenon

Line(a, b, c, d, e, f) ==
  /\ Rising(a) /\ Rising(b) /\ Rising(c) /\ Rising(d) /\ Rising(e) /\ Rising(f)
  /\ Below(a, b) /\ Below(a, c) /\ Below(a, d) /\ Below(a, e) /\ Below(a, f)
  /\ Below(b, c) /\ Below(b, d) /\ Below(b, e) /\ Below(b, f)
  /\ Below(c, d) /\ Below(c, e) /\ Below(c, f)
  /\ Below(d, e) /\ Below(d, f)
  /\ Below(e, f)

\* Such a line rises from end to end.
LEMMA LineRises ==
  ASSUME NEW a \in Seq(Nat), NEW b \in Seq(Nat), NEW c \in Seq(Nat), NEW d \in Seq(Nat),
         NEW e \in Seq(Nat), NEW f, Line(a, b, c, d, e, f)
  PROVE  Rising(a \o b \o c \o d \o e)
<1>1. a \o b \in Seq(Nat) /\ a \o b \o c \in Seq(Nat) /\ a \o b \o c \o d \in Seq(Nat)
  BY ConcatParts
<1>2. Below(a \o b, c) /\ Below(a \o b, d) /\ Below(a \o b, e) /\ Rising(a \o b)
  BY ConcatBelow, ConcatRising DEF Line
<1>3. Below(a \o b \o c, d) /\ Below(a \o b \o c, e) /\ Rising(a \o b \o c)
  BY <1>1, <1>2, ConcatBelow, ConcatRising DEF Line
<1>4. Below(a \o b \o c \o d, e) /\ Rising(a \o b \o c \o d)
  BY <1>1, <1>3, ConcatBelow, ConcatRising DEF Line
<1> QED BY <1>1, <1>4, ConcatRising DEF Line

\* The stream thread takes what is ready.
LEMMA LineTakes ==
  ASSUME NEW a \in Seq(Nat), NEW b \in Seq(Nat), NEW c \in Seq(Nat), NEW d \in Seq(Nat),
         NEW e \in Seq(Nat), NEW f \in Seq(Nat), Line(a, b, c, d, e, f)
  PROVE  Line(a \o b, <<>>, c, d, e, f)
BY ConcatBelow, ConcatRising, OneRises, Zenon DEF Line

\* A frame joins a bounded queue from the front of what comes after it.
LEMMA PushLine ==
  ASSUME NEW q \in Seq(Nat), NEW x \in Nat, NEW limit \in Nat \ {0}, Rising(q), Below(q, <<x>>)
  PROVE  /\ Push(q, limit, x) \in Seq(Nat) /\ Rising(Push(q, limit, x))
         /\ \A s \in Seq(Nat) :
              /\ Below(s, q) /\ Below(s, <<x>>) => Below(s, Push(q, limit, x))
              /\ Below(q, s) /\ Below(<<x>>, s) => Below(Push(q, limit, x), s)
<1>1. ASSUME NEW p \in Seq(Nat), Rising(p), Below(p, <<x>>),
             \A s \in Seq(Nat) : (Below(s, q) => Below(s, p)) /\ (Below(q, s) => Below(p, s)),
             Push(q, limit, x) = Append(p, x)
      PROVE  /\ Push(q, limit, x) \in Seq(Nat) /\ Rising(Push(q, limit, x))
             /\ \A s \in Seq(Nat) :
                  /\ Below(s, q) /\ Below(s, <<x>>) => Below(s, Push(q, limit, x))
                  /\ Below(q, s) /\ Below(<<x>>, s) => Below(Push(q, limit, x), s)
  <2>1. Append(p, x) = p \o <<x>> /\ <<x>> \in Seq(Nat) /\ Rising(<<x>>) BY OneRises
  <2>2. Push(q, limit, x) \in Seq(Nat) BY <1>1
  <2>3. Rising(Push(q, limit, x)) BY <1>1, <2>1, ConcatRising
  <2>4. ASSUME NEW s \in Seq(Nat)
        PROVE  /\ Below(s, p \o <<x>>) <=> Below(s, p) /\ Below(s, <<x>>)
               /\ Below(p \o <<x>>, s) <=> Below(p, s) /\ Below(<<x>>, s)
    BY <2>1, ConcatBelow
  <2> QED BY <1>1, <2>1, <2>2, <2>3, <2>4, Zenon
<1>2. CASE Len(q) >= limit
  <2>1. q # <<>> BY <1>2
  <2>2. Tail(q) \in Seq(Nat) BY <2>1, HeadTail
  <2>3. /\ Rising(Tail(q))
        /\ \A s \in Seq(Nat) :
             (Below(s, q) => Below(s, Tail(q))) /\ (Below(q, s) => Below(Tail(q), s))
    BY <2>1, HeadTail
  <2>4. Below(Tail(q), <<x>>) BY <2>3, OneRises
  <2>5. Push(q, limit, x) = Append(Tail(q), x) BY <1>2 DEF Push
  <2> QED BY <1>1, <2>2, <2>3, <2>4, <2>5
<1>3. CASE ~(Len(q) >= limit)
  <2>1. Push(q, limit, x) = Append(q, x) BY <1>3 DEF Push
  <2> QED BY <1>1, <2>1
<1> QED BY <1>2, <1>3

\* encode() is given the next frame.
LEMMA LineGrows ==
  ASSUME NEW a \in Seq(Nat), NEW b \in Seq(Nat), NEW c \in Seq(Nat), NEW d \in Seq(Nat),
         NEW e \in Seq(Nat), NEW x \in Nat, NEW limit \in Nat \ {0}, Line(a, b, c, d, e, <<x>>)
  PROVE  Line(a, b, c, d, Push(e, limit, x), <<x + 1>>)
<1>1. <<x>> \in Seq(Nat) /\ <<x + 1>> \in Seq(Nat) /\ Rising(<<x + 1>>) BY OneRises
<1>2. /\ Push(e, limit, x) \in Seq(Nat) /\ Rising(Push(e, limit, x))
      /\ \A s \in Seq(Nat) :
           /\ Below(s, e) /\ Below(s, <<x>>) => Below(s, Push(e, limit, x))
           /\ Below(e, s) /\ Below(<<x>>, s) => Below(Push(e, limit, x), s)
  BY PushLine DEF Line
<1>3. ASSUME NEW s \in Seq(Nat), Below(s, <<x>>) PROVE Below(s, <<x + 1>>)
  BY <1>3 DEF Below
<1>4. Below(<<x>>, <<x + 1>>) BY DEF Below
<1>5. Below(e, <<x + 1>>) /\ Below(Push(e, limit, x), <<x + 1>>)
  BY <1>1, <1>2, <1>3, <1>4 DEF Line
<1> QED BY <1>1, <1>2, <1>3, <1>5 DEF Line

\* The oldest output of the transform is published.
LEMMA LinePublishes ==
  ASSUME NEW a \in Seq(Nat), NEW b \in Seq(Nat), NEW c \in Seq(Nat), NEW d \in Seq(Nat),
         NEW e \in Seq(Nat), NEW f \in Seq(Nat), NEW limit \in Nat \ {0}, c # <<>>,
         Line(a, b, c, d, e, f)
  PROVE  Line(a, Push(b, limit, Head(c)), Tail(c), d, e, f)
<1>0. Rising(c) BY DEF Line
<1>1. Head(c) \in Nat /\ Tail(c) \in Seq(Nat) /\ <<Head(c)>> \in Seq(Nat) BY <1>0, HeadTail
<1>2. /\ \A s \in Seq(Nat) : (Below(s, c) => Below(s, <<Head(c)>>) /\ Below(s, Tail(c)))
                            /\ (Below(c, s) => Below(<<Head(c)>>, s) /\ Below(Tail(c), s))
      /\ Rising(Tail(c)) /\ Below(<<Head(c)>>, Tail(c))
  BY <1>0, HeadTail
<1>3. /\ Push(b, limit, Head(c)) \in Seq(Nat) /\ Rising(Push(b, limit, Head(c)))
      /\ \A s \in Seq(Nat) :
           /\ Below(s, b) /\ Below(s, <<Head(c)>>) => Below(s, Push(b, limit, Head(c)))
           /\ Below(b, s) /\ Below(<<Head(c)>>, s) => Below(Push(b, limit, Head(c)), s)
  BY <1>1, <1>2, PushLine DEF Line
<1> QED BY <1>1, <1>2, <1>3 DEF Line

\* The input worker takes the newest of the queue, or gives it back.
LEMMA LineHolds ==
  ASSUME NEW a \in Seq(Nat), NEW b \in Seq(Nat), NEW c \in Seq(Nat), NEW e \in Seq(Nat),
         NEW f \in Seq(Nat), NEW h \in Nat
  PROVE  /\ e # <<>> /\ Line(a, b, c, <<>>, e, f) => Line(a, b, c, <<e[Len(e)]>>, <<>>, f)
         /\ Line(a, b, c, <<h>>, e, f) =>
              /\ Line(a, b, c, <<>>, <<h>>, f) /\ Line(a, b, c, <<>>, e, f)
              /\ Line(a, b, Append(c, h), <<>>, e, f)
<1>1. ASSUME e # <<>>, Line(a, b, c, <<>>, e, f) PROVE Line(a, b, c, <<e[Len(e)]>>, <<>>, f)
  <2>1. /\ e[Len(e)] \in Nat
        /\ \A s : (Below(e, s) => Below(<<e[Len(e)]>>, s)) /\ (Below(s, e) => Below(s, <<e[Len(e)]>>))
    BY <1>1, QueueEnds
  <2> QED BY <1>1, <2>1, OneRises DEF Line
<1>2. ASSUME Line(a, b, c, <<h>>, e, f)
      PROVE  Line(a, b, c, <<>>, <<h>>, f) /\ Line(a, b, c, <<>>, e, f)
  BY <1>2, OneRises DEF Line
<1>3. ASSUME Line(a, b, c, <<h>>, e, f) PROVE Line(a, b, Append(c, h), <<>>, e, f)
  <2>1. Append(c, h) = c \o <<h>> /\ <<h>> \in Seq(Nat) BY OneRises
  <2>2. ASSUME NEW s \in Seq(Nat)
        PROVE  /\ Below(s, c \o <<h>>) <=> Below(s, c) /\ Below(s, <<h>>)
               /\ Below(c \o <<h>>, s) <=> Below(c, s) /\ Below(<<h>>, s)
    BY <2>1, ConcatBelow
  <2>3. Rising(c \o <<h>>) BY <1>3, <2>1, ConcatRising DEF Line
  <2> QED BY <1>3, <2>1, <2>2, <2>3, OneRises, Zenon DEF Line
<1> QED BY <1>1, <1>2, <1>3

OnItsWay == Line(taken, ready, mft, Held, pending, <<last + 1>>)

LEMMA PartTypes ==
  ASSUME Inv
  PROVE  /\ taken \in Seq(Nat) /\ ready \in Seq(Nat) /\ mft \in Seq(Nat) /\ Held \in Seq(Nat)
         /\ pending \in Seq(Nat) /\ last \in Nat /\ <<last + 1>> \in Seq(Nat)
<1>1. Frames \subseteq Nat BY DEF Frames
<1>2. ASSUME NEW q \in Seq(Frames) PROVE q \in Seq(Nat)
  <2>1. Len(q) \in Nat /\ q \in [1..Len(q) -> Frames] OBVIOUS
  <2>2. q \in [1..Len(q) -> Nat] BY <1>1, <2>1
  <2> QED BY <2>1, <2>2
<1>3. Held \in Seq(Nat)
  <2>1. CASE inPc \in {"submit", "restore"}
    <3>1. held \in Nat BY <1>1, <2>1 DEF Inv, WorkerInv
    <3> QED BY <2>1, <3>1 DEF Held
  <2> QED BY <2>1 DEF Held
<1> QED BY <1>2, <1>3, EncoderAssumption DEF Inv, TypeOK

LEMMA OrderStep == Inv /\ OnItsWay /\ [Next]_vars => OnItsWay'
<1> SUFFICES ASSUME Inv, OnItsWay, [Next]_vars PROVE OnItsWay'
  OBVIOUS
<1>1. /\ taken \in Seq(Nat) /\ ready \in Seq(Nat) /\ mft \in Seq(Nat) /\ Held \in Seq(Nat)
      /\ pending \in Seq(Nat) /\ last \in Nat /\ <<last + 1>> \in Seq(Nat)
  BY PartTypes
<1>2. CASE Encode
  <2>1. /\ taken' = taken \o ready /\ ready' = <<>> /\ last' = last + 1 /\ mft' = mft
        /\ pending' = Push(pending, PendingLimit, last + 1)
    BY <1>2, Zenon DEF Encode, TakeReady, mftSide
  <2>2. Held' = Held
    <3>1. held' = held /\ (inPc' = inPc \/ (inPc = "asleep" /\ inPc' = "check"))
      BY <1>2 DEF Encode, Notify
    <3> QED BY <3>1 DEF Held
  <2>3. Line(taken \o ready, <<>>, mft, Held, pending, <<last + 1>>)
    BY <1>1, LineTakes, Zenon DEF OnItsWay
  <2>4. taken \o ready \in Seq(Nat) /\ <<>> \in Seq(Nat) /\ last + 1 \in Nat
    BY <1>1, ConcatParts
  <2>5. Line(taken \o ready, <<>>, mft, Held, Push(pending, PendingLimit, last + 1),
             <<(last + 1) + 1>>)
    BY <1>1, <2>3, <2>4, LineGrows, EncoderAssumption
  <2> QED BY <2>1, <2>2, <2>5, Zenon DEF OnItsWay
<1>3. CASE Poll
  <2>1. /\ taken' = taken \o ready /\ ready' = <<>>
        /\ UNCHANGED <<last, mft, inPc, held, pending>>
    BY <1>3, Zenon DEF Poll, TakeReady, mftSide, inputSide
  <2>2. Held' = Held BY <2>1 DEF Held
  <2> QED BY <1>1, <2>1, <2>2, LineTakes, Zenon DEF OnItsWay
<1>4. CASE InputTakes
  <2>1. /\ inPc = "check" /\ inPc' = "submit" /\ held' = pending[Len(pending)] /\ pending' = <<>>
        /\ pending # <<>> /\ UNCHANGED <<taken, ready, mft, last>>
    BY <1>4, Zenon DEF InputTakes, Step, CanTake, streamSide, mftSide
  <2>2. Held = <<>> /\ Held' = <<pending[Len(pending)]>> BY <2>1 DEF Held
  <2>3. pending[Len(pending)] \in Nat BY <1>1, <2>1, QueueEnds
  <2> QED BY <1>1, <2>1, <2>2, <2>3, LineHolds DEF OnItsWay
<1>5. CASE Accepted \/ InputFails \/ Restore
  <2>1. inPc \in {"submit", "restore"} /\ inPc' \in {"settle", "stopped", "check"}
        /\ UNCHANGED <<taken, ready, last>>
    BY <1>5 DEF Accepted, InputFails, Restore, Step, streamSide
  <2>2. Held = <<held>> /\ Held' = <<>> /\ held \in Nat
    BY <2>1 DEF Held, Inv, WorkerInv, Frames
  <2>3. \/ mft' = Append(mft, held) /\ pending' = pending
        \/ mft' = mft /\ pending' = pending
        \/ mft' = mft /\ pending' = <<held>>
    BY <1>5, Zenon DEF Accepted, InputFails, Restore, mftSide
  <2>4. Line(taken, ready, mft, <<held>>, pending, <<last + 1>>) BY <2>2, Zenon DEF OnItsWay
  <2>5. /\ Line(taken, ready, mft, <<>>, <<held>>, <<last + 1>>)
        /\ Line(taken, ready, mft, <<>>, pending, <<last + 1>>)
        /\ Line(taken, ready, Append(mft, held), <<>>, pending, <<last + 1>>)
    BY <1>1, <2>2, <2>4, LineHolds
  <2> QED BY <2>1, <2>2, <2>3, <2>5, Zenon DEF OnItsWay
<1>6. CASE OutputHave
  <2>1. /\ ready' = Push(ready, ReadyLimit, Head(mft)) /\ mft' = Tail(mft)
        /\ UNCHANGED <<taken, last, pending, inPc, held>>
    BY <1>6, Zenon DEF OutputHave, Drain, inputSide
  <2>2. mft # <<>>
    <3>1. haveEvents > 0 /\ haveEvents <= Len(mft) BY <1>6 DEF OutputHave, Drain, Inv, WorkerInv
    <3>2. haveEvents \in Nat BY DEF Inv, TypeOK
    <3> QED BY <3>1, <3>2
  <2>3. Held' = Held BY <2>1 DEF Held
  <2> QED BY <1>1, <2>1, <2>2, <2>3, LinePublishes, EncoderAssumption DEF OnItsWay
<1>7. CASE OutputJoined
  <2>1. /\ pending' = <<>> /\ ready' = <<>> /\ mft' = <<>> /\ UNCHANGED <<taken, last, inPc, held>>
    BY <1>7, Zenon DEF OutputJoined, Release
  <2>2. Held' = Held BY <2>1 DEF Held
  <2> QED BY <2>1, <2>2, OneRises DEF OnItsWay, Line
<1>8. CASE ~(Encode \/ Poll \/ InputTakes \/ Accepted \/ InputFails \/ Restore \/ OutputHave
             \/ OutputJoined)
  <2>1. /\ UNCHANGED <<taken, ready, mft, pending, last>>
        /\ \/ UNCHANGED <<inPc, held>>
           \/ inPc = "submit" /\ inPc' = "restore" /\ UNCHANGED held
           \/ inPc \notin {"submit", "restore"} /\ inPc' \notin {"submit", "restore"}
    <3>1. CASE Control
      BY <1>8, <3>1 DEF Control, Initialize, InputStarts, Shutdown, InputJoined, Notify, streamSide,
         inputSide, mftSide, Inv, WorkerInv
    <3>2. CASE InputWorker \/ SpuriousWake
      BY <1>8, <3>2 DEF InputWorker, SpuriousWake, Submit, InputStops, InputWaits, InputSleeps, Refused,
         Settle, Step, streamSide, mftSide
    <3>3. CASE OutputWorker \/ Mft
      BY <1>8, <3>3 DEF OutputWorker, Mft, OutputNeed, OutputFails, OutputStops, MftAsks, MftProduces,
         Notify, streamSide, inputSide, mftSide
    <3>4. CASE UNCHANGED vars BY <3>4 DEF vars
    <3> QED BY <1>8, <3>1, <3>2, <3>3, <3>4, Zenon DEF Next, Stream
  <2>2. Held' = Held BY <2>1 DEF Held
  <2> QED BY <2>1, <2>2, Zenon DEF OnItsWay
<1> QED BY <1>2, <1>3, <1>4, <1>5, <1>6, <1>7, <1>8

\* Frames reach the stream thread in the order they were given to encode(), each at most once,
\* whatever the two queues and a transform that refuses drop on the way.
THEOREM FramesInOrder == Spec => []InOrder
<1>1. Init => OnItsWay
  <2> SUFFICES ASSUME Init PROVE OnItsWay
    OBVIOUS
  <2>1. taken = <<>> /\ ready = <<>> /\ mft = <<>> /\ pending = <<>> /\ Held = <<>> /\ last = 0
    BY DEF Init, Held
  <2> QED BY <2>1, OneRises DEF OnItsWay, Line
<1>2. Inv /\ OnItsWay => InOrder
  <2> SUFFICES ASSUME Inv, OnItsWay PROVE InOrder
    OBVIOUS
  <2>1. Rising(Flow) BY PartTypes, LineRises DEF OnItsWay, Flow
  <2> QED BY <2>1 DEF Rising, InOrder
<1> QED BY <1>1, <1>2, InitInv, StepInv, OrderStep, PTL DEF Spec
=============================================================================
