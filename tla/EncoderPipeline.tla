--------------------------- MODULE EncoderPipeline ---------------------------
(***************************************************************************)
(* The sender's asynchronous H.264 encoder                                 *)
(* (src/native/src/encode/encoder.cpp, H264HardwareEncoder::State): two    *)
(* worker threads between the stream thread, which hands over textures and *)
(* polls for access units, and a Media Foundation transform (MFT), which   *)
(* asks for each input with a METransformNeedInput event.                  *)
(*                                                                         *)
(* The input worker waits on a condition variable.  Its wait() is three    *)
(* steps: with the mutex held it evaluates the predicate ("check"), it is  *)
(* about to block ("toSleep"), and it blocks, which releases the mutex     *)
(* ("asleep").  A notify reaches it only in the last of them, and encode() *)
(* cannot take the mutex in the second.  A frame is named by its position  *)
(* among the frames given to encode().                                     *)
(***************************************************************************)
EXTENDS Naturals, Sequences

CONSTANTS MaxFrames,     \* bound: frames given to encode()
          MaxWants,      \* bound: inputs the MFT asks for ahead
          PendingLimit,  \* kPendingInputLimit
          ReadyLimit     \* kReadyFrameLimit

ASSUME EncoderAssumption ==
  /\ MaxFrames \in Nat /\ MaxWants \in Nat \ {0}
  /\ PendingLimit \in Nat \ {0} /\ ReadyLimit \in Nat \ {0}

VARIABLES
  stage,       \* how far initialize() and shutdown() have come
  last,        \* the newest frame given to encode()
  pending,     \* pending_inputs
  credits,     \* input_requests
  ready,       \* ready_frames
  error,       \* FAILED(worker_error)
  inPc, held,  \* the input worker, and the frame it has taken
  outPc,       \* the output worker
  wants,       \* external: inputs the MFT asked for and was not given yet
  needEvents,  \* external: METransformNeedInput events not read yet
  mft,         \* external: frames the MFT accepted, not yet read back
  haveEvents,  \* external: METransformHaveOutput events not read yet
  mayRefuse,   \* external: this MFT may say MF_E_NOTACCEPTING to an input it
               \* had asked for
  taken        \* history: frames the stream thread has received

vars == <<stage, last, pending, credits, ready, error, inPc, held, outPc,
          wants, needEvents, mft, haveEvents, mayRefuse, taken>>

NoFrame == 0
Frames == 1..MaxFrames
InputStop == stage \in {"joinInput", "joinOutput", "released"}
WorkerStop == stage \in {"joinOutput", "released"}

TypeOK ==
  /\ stage \in {"off", "starting", "on", "joinInput", "joinOutput", "released"}
  /\ last \in 0..MaxFrames
  /\ pending \in Seq(Frames) /\ Len(pending) <= PendingLimit
  /\ credits \in Nat
  /\ ready \in Seq(Frames) /\ Len(ready) <= ReadyLimit
  /\ error \in BOOLEAN
  /\ inPc \in {"off", "check", "toSleep", "asleep", "submit", "settle",
               "restore", "stopped"}
  /\ held \in Frames \cup {NoFrame}
  /\ outPc \in {"off", "run", "stopped"}
  /\ wants \in 0..MaxWants
  /\ needEvents \in Nat
  /\ mft \in Seq(Frames)
  /\ haveEvents \in Nat
  /\ mayRefuse \in BOOLEAN
  /\ taken \in Seq(Frames)

Init ==
  /\ stage = "off" /\ error = FALSE
  /\ last = 0 /\ pending = <<>> /\ credits = 0 /\ ready = <<>> /\ taken = <<>>
  /\ inPc = "off" /\ held = NoFrame /\ outPc = "off"
  /\ wants = 0 /\ needEvents = 0 /\ mft = <<>> /\ haveEvents = 0
  /\ mayRefuse \in BOOLEAN

\* What an action leaves alone, by owner.
streamSide == <<last, taken, ready>>
inputSide == <<pending, inPc, held>>
mftSide == <<wants, needEvents, mft, haveEvents, mayRefuse>>

Notify == inPc' = IF inPc = "asleep" THEN "check" ELSE inPc

\* Append to a bounded queue that makes room by dropping its oldest element.
Push(queue, limit, f) ==
  IF Len(queue) >= limit THEN Append(Tail(queue), f) ELSE Append(queue, f)

-----------------------------------------------------------------------------
(* initialize() and shutdown(), called by the thread that owns the stream. *)

Initialize ==
  /\ stage = "off"
  /\ stage' = "starting"
  /\ outPc' = "run"
  /\ UNCHANGED <<streamSide, inputSide, mftSide, credits, error>>

\* The first credit has arrived, or 100 ms have gone by without one.
InputStarts ==
  /\ stage = "starting" /\ ~error
  /\ stage' = "on"
  /\ inPc' = "check"
  /\ UNCHANGED <<streamSide, pending, held, mftSide, credits, error, outPc>>

\* input_stop is stored, then every waiter notified: one step, since a store
\* before the predicate is read is seen by it.
Shutdown ==
  /\ stage = "on" \/ (stage = "starting" /\ error)
  /\ stage' = "joinInput"
  /\ Notify
  /\ UNCHANGED <<streamSide, pending, held, mftSide, credits, error, outPc>>

InputJoined ==
  /\ stage = "joinInput"
  /\ inPc \in {"off", "stopped"}
  /\ stage' = "joinOutput"
  /\ UNCHANGED <<streamSide, inputSide, mftSide, credits, error, outPc>>

\* Flush, clear the queues, release the transform.
Release ==
  /\ stage' = "released"
  /\ pending' = <<>> /\ ready' = <<>> /\ credits' = 0 /\ error' = FALSE
  /\ wants' = 0 /\ needEvents' = 0 /\ mft' = <<>> /\ haveEvents' = 0
  /\ UNCHANGED <<last, taken, inPc, held, outPc, mayRefuse>>

OutputJoined == stage = "joinOutput" /\ outPc = "stopped" /\ Release

-----------------------------------------------------------------------------
(* The stream thread: encode() and poll().                                 *)

TakeReady == taken' = taken \o ready /\ ready' = <<>>

\* encode() before a worker has failed; last < MaxFrames is the model's bound.
Encode ==
  /\ stage = "on" /\ ~error
  /\ last < MaxFrames
  /\ inPc # "toSleep"
  /\ TakeReady
  /\ last' = last + 1
  /\ pending' = Push(pending, PendingLimit, last + 1)
  /\ Notify
  /\ UNCHANGED <<stage, held, mftSide, credits, error, outPc>>

\* poll(), and encode() after a worker has failed.
Poll ==
  /\ stage = "on" /\ ready # <<>>
  /\ TakeReady
  /\ UNCHANGED <<stage, last, inputSide, mftSide, credits, error, outPc>>

-----------------------------------------------------------------------------
(* The input worker.                                                       *)

Step(from, to) ==
  /\ inPc = from
  /\ inPc' = to
  /\ UNCHANGED <<stage, outPc>>

\* Mutation: the worker stops only when nothing is pending any more.
InputStopsDrained ==
  /\ Step("check", "stopped")
  /\ InputStop /\ pending = <<>>
  /\ UNCHANGED <<streamSide, pending, held, mftSide, credits, error>>

InputStops ==
  /\ Step("check", "stopped")
  /\ InputStop
  /\ UNCHANGED <<streamSide, pending, held, mftSide, credits, error>>

CanTake == ~InputStop /\ pending # <<>> /\ credits # 0

\* The newest pending frame is taken and the stale ones are cleared.
InputTakes ==
  /\ Step("check", "submit")
  /\ CanTake
  /\ held' = pending[Len(pending)] /\ pending' = <<>>
  /\ UNCHANGED <<streamSide, mftSide, credits, error>>

InputWaits ==
  /\ Step("check", "toSleep")
  /\ ~InputStop /\ ~CanTake
  /\ UNCHANGED <<streamSide, pending, held, mftSide, credits, error>>

InputSleeps ==
  /\ Step("toSleep", "asleep")
  /\ UNCHANGED <<streamSide, pending, held, mftSide, credits, error>>

\* wait() may return without a notify; nothing says it will.
SpuriousWake ==
  /\ Step("asleep", "check")
  /\ UNCHANGED <<streamSide, pending, held, mftSide, credits, error>>

\* ProcessInput accepts the frame: one request of the MFT is met.
Accepted ==
  /\ Step("submit", "settle")
  /\ wants > 0
  /\ wants' = wants - 1
  /\ mft' = Append(mft, held)
  /\ UNCHANGED <<streamSide, pending, held, needEvents, haveEvents, mayRefuse,
                 credits, error>>

\* Mutation: the credit of an accepted frame is not taken back.
SettleForgets ==
  /\ Step("settle", "check")
  /\ held' = NoFrame
  /\ UNCHANGED <<streamSide, pending, mftSide, credits, error>>

\* input_requests.fetch_sub(1), after ProcessInput has returned.
Settle ==
  /\ Step("settle", "check")
  /\ credits' = credits - 1
  /\ held' = NoFrame
  /\ UNCHANGED <<streamSide, pending, mftSide, error>>

\* MF_E_NOTACCEPTING: nothing was asked for, or the MFT has changed its mind.
Refused ==
  /\ Step("submit", "restore")
  /\ wants = 0 \/ mayRefuse
  /\ wants' = 0
  /\ UNCHANGED <<streamSide, pending, held, needEvents, mft, haveEvents,
                 mayRefuse, credits, error>>

\* The refused frame replaces the queue, and every credit is dropped.
Restore ==
  /\ Step("restore", "check")
  /\ pending' = <<held>>
  /\ credits' = 0
  /\ held' = NoFrame
  /\ UNCHANGED <<streamSide, mftSide, error>>

InputFails ==
  /\ Step("submit", "stopped")
  /\ error' = TRUE
  /\ held' = NoFrame
  /\ UNCHANGED <<streamSide, pending, mftSide, credits>>

-----------------------------------------------------------------------------
(* The output worker: one MFT event in each turn of its loop.  The order   *)
(* between events of the two kinds is left open.                           *)

OutputRuns == outPc = "run" /\ ~WorkerStop

\* METransformNeedInput: one more credit, and a notify without the mutex.
OutputNeed ==
  /\ OutputRuns
  /\ needEvents > 0
  /\ needEvents' = needEvents - 1
  /\ credits' = credits + 1
  /\ Notify
  /\ UNCHANGED <<stage, streamSide, pending, held, wants, mft, haveEvents,
                 mayRefuse, error, outPc>>

\* drain(): the access unit of the oldest frame the MFT holds is read.
Drain ==
  /\ OutputRuns
  /\ haveEvents > 0
  /\ haveEvents' = haveEvents - 1
  /\ mft' = Tail(mft)
  /\ UNCHANGED <<stage, last, taken, inputSide, wants, needEvents, mayRefuse,
                 credits, error, outPc>>

\* Mutation: publish() puts the access unit at the front of ready_frames.
OutputHaveSwaps ==
  /\ Drain
  /\ ready' = <<Head(mft)>> \o (IF Len(ready) >= ReadyLimit THEN Tail(ready)
                                                           ELSE ready)

\* METransformHaveOutput: drain() and publish().
OutputHave == Drain /\ ready' = Push(ready, ReadyLimit, Head(mft))

OutputFails ==
  /\ OutputRuns
  /\ error' = TRUE
  /\ outPc' = "stopped"
  /\ UNCHANGED <<stage, streamSide, inputSide, mftSide, credits>>

OutputStops ==
  /\ outPc = "run" /\ WorkerStop
  /\ outPc' = "stopped"
  /\ UNCHANGED <<stage, streamSide, inputSide, mftSide, credits, error>>

-----------------------------------------------------------------------------
(* The transform, as the code uses it; MaxWants also bounds its events.    *)

MftAsks ==
  /\ stage \notin {"off", "released"}
  /\ wants < MaxWants /\ needEvents < MaxWants
  /\ wants' = wants + 1
  /\ needEvents' = needEvents + 1
  /\ UNCHANGED <<stage, streamSide, inputSide, mft, haveEvents, mayRefuse,
                 credits, error, outPc>>

MftProduces ==
  /\ haveEvents < Len(mft)
  /\ haveEvents' = haveEvents + 1
  /\ UNCHANGED <<stage, streamSide, inputSide, wants, needEvents, mft,
                 mayRefuse, credits, error, outPc>>

Control == Initialize \/ InputStarts \/ Shutdown \/ InputJoined \/ OutputJoined
Stream == Encode \/ Poll
Submit == Accepted \/ Refused \/ InputFails
InputWorker == InputStops \/ InputTakes \/ InputWaits \/ InputSleeps \/ Submit
               \/ Settle \/ Restore
OutputWorker == OutputNeed \/ OutputHave \/ OutputFails \/ OutputStops
Mft == MftAsks \/ MftProduces

Next == Control \/ Stream \/ InputWorker \/ SpuriousWake \/ OutputWorker \/ Mft

Spec == Init /\ [][Next]_vars

\* The threads run, ProcessInput returns, and a join that can end does end.
\* Nothing is owed by the MFT, by the desktop, or by a spurious wakeup.
Fairness ==
  /\ WF_vars(InputWorker)
  /\ WF_vars(OutputNeed) /\ WF_vars(OutputHave) /\ WF_vars(OutputStops)
  /\ WF_vars(InputJoined) /\ WF_vars(OutputJoined)

FairSpec == Spec /\ Fairness

-----------------------------------------------------------------------------
(* Safety.  (1) marks what holds of a transform that takes what it asked   *)
(* for (~mayRefuse).                                                *)

InFlight == IF inPc = "settle" THEN 1 ELSE 0

\* (1) Every input the MFT has asked for is an unread event or a credit, and
\* there is no other credit: between ProcessInput and fetch_sub one more.
RequestsCounted ==
  ~mayRefuse /\ stage # "released" => needEvents + credits = wants + InFlight

\* (1) ProcessInput is called only for an input the MFT asked for, so the
\* MF_E_NOTACCEPTING path is not taken, and the encoder never stops on it.
NeverRefused ==
  ~mayRefuse =>
    /\ inPc = "submit" /\ stage # "released" => wants > 0
    /\ inPc # "restore"

\* (1) The input worker submits the newest frame the stream thread has given:
\* "two-texture newest-frame queue" (native-engine-architecture.md:18).
NewestTaken ==
  [][~mayRefuse /\ inPc = "check" /\ inPc' = "submit" => held' = last]_vars

\* Frames reach the stream thread in the order they were given to encode(),
\* each at most once, whatever the queues drop on the way.
Held == IF inPc \in {"submit", "restore"} THEN <<held>> ELSE <<>>
Flow == taken \o ready \o mft \o Held \o pending
InOrder == \A i, j \in 1..Len(Flow) : i < j => Flow[i] < Flow[j]

\* The transform is released only when neither worker can use it any more.
ReleasedUnused ==
  stage = "released" => inPc \in {"off", "stopped"} /\ outPc = "stopped"

\* The inductive strengthening of TypeOK and ReleasedUnused: a frame is in the
\* input worker's hand with a credit for it, every announced output exists,
\* the input worker is started last, and it is joined first.
WorkerInv ==
  /\ inPc \in {"submit", "settle"} => credits > 0
  /\ inPc \in {"submit", "restore"} => held \in Frames
  /\ haveEvents <= Len(mft)
  /\ stage \in {"off", "starting"} => inPc = "off"
  /\ WorkerStop => inPc \in {"off", "stopped"}
  /\ ReleasedUnused

-----------------------------------------------------------------------------
(* Liveness, under Fairness.                                               *)

\* shutdown() comes back from both joins, whatever the transform does, when
\* its notify did not fall between the predicate and the blocking of wait().
ShutdownReturnsIfHeard ==
  (stage = "joinInput" /\ inPc \notin {"toSleep", "asleep"})
    ~> (stage = "released")

-----------------------------------------------------------------------------
(* Claims of the source that the code does not keep (see README).          *)

\* "wait for the next credit" (encoder.cpp:301): whatever the MFT has asked
\* for is still known to the workers.
RequestHeard ==
  stage = "on" /\ ~error => wants <= needEvents + credits

\* "Encoder backpressure drops the newest submit"
\* (native-engine-architecture.md:105): a full queue keeps what it holds.
BackpressureDropsNewest ==
  [][Len(pending) = PendingLimit /\ last' = last + 1 => pending' = pending]_vars
=============================================================================
