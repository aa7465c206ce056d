-------------------------- MODULE ExperimentsProofs --------------------------
(***************************************************************************)
(* Proofs about the programs and parts of module Experiments: of each its  *)
(* inductive invariant, its start and its steps, and at the end the        *)
(* theorems, for every behaviour in which one of the programs runs.  They  *)
(* hold for every number of receivers and clients, every capacity of the   *)
(* ring that is a multiple of the chunk, every size of frame, every number *)
(* of sessions, signals that wait, devices and entries of the history, and *)
(* however long a program runs.                                            *)
(***************************************************************************)
EXTENDS Experiments, FiniteSetTheorems, SequenceTheorems, TLAPS

-----------------------------------------------------------------------------
(* Signaling of the RTC experiments (ExperimentLink).                      *)

\* The strengthening of OneReceiver: whoever reads its offer holds the lock of
\* a server that is not busy, and a server that answers or has answered is busy.
LockInv ==
  \A r \in Receivers :
    /\ request[r] = "reading" => lock = r /\ ~busy
    /\ request[r] \in {"handling", "answered"} => busy /\ pc = r

LinkInv == LinkTypeOK /\ LockInv

LEMMA LinkStart == LinkInit => LinkInv
BY LinkAssumption DEF LinkInit, LinkInv, LinkTypeOK, LockInv

\* The steps of the receivers and of the network do not touch the server.
LEMMA OutsideStep ==
  ASSUME LinkInv, NEW r \in Receivers, ReceiverSteps(r) \/ Network(r)
  PROVE  LinkInv'
<1> USE DEF ReceiverSteps, Network, Offers, AnswerApplied, NotAnswered,
    IceConnected, FirstFrame, NoMedia, MediaEnds, MediaFails, ReceiverCloses,
    Connects, Breaks, ReceiverGoes, Ends, Silent, Stays, Closes
<1>1. LinkTypeOK' BY DEF LinkInv, LinkTypeOK, server
<1>2. UNCHANGED <<request, lock, busy, pc>> BY DEF server
<1> QED BY <1>1, <1>2 DEF LinkInv, LockInv

\* Neither do the steps of run_sender, but for closing the server.
LEMMA SenderStep == LinkInv /\ SenderSteps => LinkInv'
<1> SUFFICES ASSUME LinkInv, SenderSteps PROVE LinkInv'
  OBVIOUS
<1> USE DEF SenderSteps, SenderListens, ReceiverCame, NobodyCame,
    SenderConnects, SenderGivesUp, StreamingEnds, StatsCancelled, PeerCloses,
    ServerDown, SenderGoes, Unwind, Closes
<1>1. LinkTypeOK' BY DEF LinkInv, LinkTypeOK, server
<1>2. UNCHANGED <<request, lock, busy, pc>> BY DEF server
<1> QED BY <1>1, <1>2 DEF LinkInv, LockInv

\* The lock is taken by one request at a time, and given back with busy set.
LEMMA HandlerStep ==
  ASSUME LinkInv, NEW r \in Receivers, Handler(r) \/ RequestCancelled(r)
  PROVE  LinkInv'
<1> USE DEF LinkInv
<1>1. CASE OfferArrives(r)
  <2>1. LinkTypeOK' BY <1>1 DEF OfferArrives, Answers, LinkTypeOK, server
  <2> QED BY <1>1, <2>1 DEF OfferArrives, Answers, LinkTypeOK, LockInv, server
<1>2. CASE TakeLock(r)
  <2>1. LinkTypeOK' BY <1>2 DEF TakeLock, Answers, LinkTypeOK
  <2> QED BY <1>2, <2>1, LinkAssumption
      DEF TakeLock, Answers, LinkTypeOK, LockInv
<1>3. CASE ReadFails(r)
  <2>1. LinkTypeOK' BY <1>3 DEF ReadFails, Answers, LinkTypeOK
  <2> QED BY <1>3, <2>1 DEF ReadFails, Answers, LinkTypeOK, LockInv
<1>4. CASE OfferRead(r)
  <2>1. LinkTypeOK' BY <1>4 DEF OfferRead, Answers, LinkTypeOK
  <2> QED BY <1>4, <2>1 DEF OfferRead, Answers, LinkTypeOK, LockInv
<1>5. CASE HandlingFails(r)
  <2>1. LinkTypeOK' BY <1>5 DEF HandlingFails, Answers, LinkTypeOK
  <2> QED BY <1>5, <2>1 DEF HandlingFails, Answers, LinkTypeOK, LockInv
<1>6. CASE HandlingDone(r)
  <2>1. LinkTypeOK' BY <1>6 DEF HandlingDone, Answers, LinkTypeOK, server
  <2> QED BY <1>6, <2>1 DEF HandlingDone, Answers, LinkTypeOK, LockInv, server
<1>7. CASE RequestCancelled(r)
  <2>1. LinkTypeOK' BY <1>7 DEF RequestCancelled, LinkTypeOK
  <2> QED BY <1>7, <2>1, LinkAssumption
      DEF RequestCancelled, Busies, LinkTypeOK, LockInv
<1> QED BY <1>1, <1>2, <1>3, <1>4, <1>5, <1>6, <1>7 DEF Handler

LEMMA LinkStep == LinkInv /\ [LinkNext]_linkVars => LinkInv'
<1> SUFFICES ASSUME LinkInv, [LinkNext]_linkVars PROVE LinkInv'
  OBVIOUS
<1>1. CASE UNCHANGED linkVars
  BY <1>1 DEF linkVars, server, LinkInv, LinkTypeOK, LockInv
<1>2. CASE LinkNext
  BY <1>2, SenderStep, HandlerStep, OutsideStep DEF LinkNext
<1> QED BY <1>1, <1>2


-----------------------------------------------------------------------------
(* The audio ring buffer (AudioRing).                                      *)

\* The positions, and what lies between them.
RingInv == RingTypeOK /\ Contents /\ Conserved

\* A sum of a position and at most the capacity wraps to a position.
LEMMA WrapPosition ==
  ASSUME NEW p \in Positions, NEW n \in 0..Capacity
  PROVE  Wrap(p + n) \in Positions
BY RingAssumption DEF Wrap, Positions

LEMMA RingStart == RingInit => RingInv
<1> SUFFICES ASSUME RingInit PROVE RingInv
  OBVIOUS
<1>1. out \in Seq(Int) BY DEF RingInit
<1>2. RingTypeOK
  BY <1>1, RingAssumption DEF RingInit, RingTypeOK, Positions
<1>3. Contents /\ Conserved
  BY RingAssumption DEF RingInit, Contents, Conserved, Wrap
<1> QED BY <1>2, <1>3 DEF RingInv

\* A write of a whole buffer or more leaves its newest frames.
LEMMA WriteAllKeeps ==
  ASSUME RingInv, NEW n \in Nat, n >= Capacity, Write(n)
  PROVE  RingInv'
<1> USE RingAssumption
<1>1. /\ buf' = [p \in Positions |-> written + n - Capacity + p]
      /\ writePos' = 0 /\ readPos' = 0 /\ fill' = Capacity
      /\ dropped' = dropped + fill + (n - Capacity)
      /\ written' = written + n
      /\ UNCHANGED <<ringClosed, taken, out>>
  BY DEF Write, WriteAll
<1>2. fill \in 0..Capacity /\ written \in Nat /\ dropped \in Nat /\ taken \in Nat
      /\ written = taken + dropped + fill
  BY DEF RingInv, RingTypeOK, Conserved
<1>3. RingTypeOK'
  BY <1>1, <1>2 DEF RingInv, RingTypeOK, Positions
<1>4. Contents'
  <2>1. writePos' = Wrap(readPos' + fill') BY <1>1 DEF Wrap
  <2>2. ASSUME NEW i \in 0..(fill' - 1)
        PROVE  buf'[Wrap(readPos' + i)] = written' - fill' + i
    <3>1. Wrap(readPos' + i) = i /\ i \in Positions
      BY <1>1 DEF Wrap, Positions
    <3> QED BY <1>1, <1>2, <3>1
  <2> QED BY <2>1, <2>2 DEF Contents
<1>5. Conserved' BY <1>1, <1>2 DEF Conserved
<1> QED BY <1>3, <1>4, <1>5 DEF RingInv

\* A shorter write puts its frames after the ones that wait, of which as many
\* of the oldest as are in its way go.
LEMMA WriteSomeKeeps ==
  ASSUME RingInv, NEW n \in Nat, n < Capacity, Write(n)
  PROVE  RingInv'
<1> USE RingAssumption
<1> DEFINE over == IF fill + n > Capacity THEN fill + n - Capacity ELSE 0
<1>1. /\ buf' = [p \in Positions |->
                   IF Ahead(p) < n THEN written + Ahead(p) ELSE buf[p]]
      /\ readPos' = Wrap(readPos + over) /\ writePos' = Wrap(writePos + n)
      /\ fill' = fill - over + n /\ dropped' = dropped + over
      /\ written' = written + n
      /\ UNCHANGED <<ringClosed, taken, out>>
  BY DEF Write, WriteSome
<1>2. /\ fill \in 0..Capacity /\ written \in Nat /\ dropped \in Nat
      /\ taken \in Nat /\ written = taken + dropped + fill
      /\ readPos \in Positions /\ writePos \in Positions
      /\ buf \in [Positions -> Int]
      /\ writePos = Wrap(readPos + fill)
      /\ \A i \in 0..(fill - 1) : buf[Wrap(readPos + i)] = written - fill + i
  BY DEF RingInv, RingTypeOK, Conserved, Contents
<1>3. /\ over \in 0..fill /\ over <= n /\ fill' \in 0..Capacity
      /\ fill - over + n <= Capacity
  BY <1>1, <1>2
<1>4. \A p \in Positions : Ahead(p) \in Int
  BY <1>2 DEF Ahead, Positions
<1>5. readPos' \in Positions /\ writePos' \in Positions
  BY <1>1, <1>2, <1>3 DEF Wrap, Positions
<1>6. RingTypeOK'
  <2>1. buf' \in [Positions -> Int] BY <1>1, <1>2, <1>4
  <2>2. written' \in Nat /\ dropped' \in Nat BY <1>1, <1>2, <1>3
  <2> QED BY <1>1, <1>2, <1>3, <1>5, <2>1, <2>2 DEF RingInv, RingTypeOK
<1> HIDE DEF over
<1>7. Contents'
  <2>1. writePos' = Wrap(readPos' + fill')
    BY <1>1, <1>2, <1>3 DEF Wrap, Positions
  <2>2. ASSUME NEW i \in 0..(fill' - 1)
        PROVE  buf'[Wrap(readPos' + i)] = written' - fill' + i
    <3> DEFINE p == Wrap(readPos' + i)
    <3>1. p \in Positions
      BY <1>1, <1>2, <1>3, <1>5 DEF Wrap, Positions
    <3>2. CASE i < fill - over
      <4>1. over + i \in 0..(fill - 1) BY <1>2, <1>3, <3>2
      <4>2. p = Wrap(readPos + (over + i))
        BY <1>1, <1>2, <1>3, <3>2 DEF Wrap, Positions
      <4>3. Ahead(p) >= n
        BY <1>1, <1>2, <1>3, <3>2, <4>2 DEF Ahead, Wrap, Positions
      <4>4. buf'[p] = buf[p] BY <1>1, <1>4, <3>1, <4>3
      <4>5. buf[p] = written - fill + (over + i) BY <1>2, <4>1, <4>2
      <4> QED BY <1>1, <1>2, <1>3, <4>4, <4>5
    <3>3. CASE ~(i < fill - over)
      <4>1. Ahead(p) = i - (fill - over)
        BY <1>1, <1>2, <1>3, <3>3 DEF Ahead, Wrap, Positions
      <4>2. Ahead(p) < n BY <1>1, <1>2, <1>3, <4>1
      <4>3. buf'[p] = written + Ahead(p) BY <1>1, <3>1, <4>2
      <4> QED BY <1>1, <1>2, <1>3, <4>1, <4>3
    <3> QED BY <3>2, <3>3
  <2> QED BY <2>1, <2>2 DEF Contents
<1>8. Conserved' BY <1>1, <1>2, <1>3 DEF Conserved
<1> QED BY <1>6, <1>7, <1>8 DEF RingInv

LEMMA GotBound ==
  ASSUME RingTypeOK, NEW n \in Nat
  PROVE  Got(n) \in 0..fill
BY RingAssumption DEF Got, RingTypeOK

\* A read takes the oldest frames.
LEMMA ReadKeeps ==
  ASSUME RingInv, NEW n \in Nat, Read(n)
  PROVE  /\ RingInv'
         /\ out' = [i \in 1..Got(n) |-> written - fill + i - 1]
<1> USE RingAssumption
<1> DEFINE got == Got(n)
<1>1. /\ out' = [i \in 1..got |-> buf[Wrap(readPos + i - 1)]]
      /\ readPos' = Wrap(readPos + got)
      /\ fill' = fill - got /\ taken' = taken + got
      /\ UNCHANGED <<buf, writePos, ringClosed, written, dropped>>
  BY DEF Read
<1>2. got \in 0..fill BY GotBound DEF RingInv
<1>3. /\ fill \in 0..Capacity /\ written \in Nat /\ dropped \in Nat
      /\ taken \in Nat /\ written = taken + dropped + fill
      /\ readPos \in Positions /\ writePos \in Positions
      /\ buf \in [Positions -> Int]
      /\ writePos = Wrap(readPos + fill)
      /\ \A i \in 0..(fill - 1) : buf[Wrap(readPos + i)] = written - fill + i
  BY DEF RingInv, RingTypeOK, Conserved, Contents
<1> HIDE DEF got
<1>4. ASSUME NEW i \in 1..got
      PROVE  buf[Wrap(readPos + i - 1)] = written - fill + i - 1
  <2>1. i - 1 \in 0..(fill - 1) BY <1>2, <1>3
  <2>2. readPos + i - 1 = readPos + (i - 1) BY <1>2, <1>3 DEF Positions
  <2>3. written - fill + (i - 1) = written - fill + i - 1 BY <1>2, <1>3
  <2> QED BY <1>3, <2>1, <2>2, <2>3
<1>5. out' = [i \in 1..got |-> written - fill + i - 1]
  BY <1>1, <1>4
<1>6. out' \in Seq(Int)
  <2>1. \A i \in 1..got : written - fill + i - 1 \in Int BY <1>2, <1>3
  <2>2. got \in Nat BY <1>2, <1>3
  <2> QED BY <1>5, <2>1, <2>2
<1>7. readPos' \in Positions
  BY <1>1, <1>2, <1>3 DEF Wrap, Positions
<1>8. RingTypeOK'
  BY <1>1, <1>2, <1>3, <1>6, <1>7 DEF RingInv, RingTypeOK
<1>9. Contents'
  <2>1. writePos' = Wrap(readPos' + fill')
    BY <1>1, <1>2, <1>3 DEF Wrap, Positions
  <2>2. ASSUME NEW i \in 0..(fill' - 1)
        PROVE  buf'[Wrap(readPos' + i)] = written' - fill' + i
    <3>1. got + i \in 0..(fill - 1) BY <1>1, <1>2, <1>3
    <3>2. Wrap(readPos' + i) = Wrap(readPos + (got + i))
      BY <1>1, <1>2, <1>3 DEF Wrap, Positions
    <3>3. buf[Wrap(readPos + (got + i))] = written - fill + (got + i)
      BY <1>3, <3>1
    <3> QED BY <1>1, <1>2, <1>3, <3>2, <3>3
  <2> QED BY <2>1, <2>2 DEF Contents
<1>10. Conserved' BY <1>1, <1>2, <1>3 DEF Conserved
<1> QED BY <1>5, <1>8, <1>9, <1>10 DEF RingInv, got

LEMMA RingStep == RingInv /\ [RingNext]_ring => RingInv'
<1> SUFFICES ASSUME RingInv, [RingNext]_ring PROVE RingInv'
  OBVIOUS
<1>1. ASSUME NEW n \in 1..MaxWritten, Write(n) PROVE RingInv'
  BY <1>1, WriteAllKeeps, WriteSomeKeeps, RingAssumption
<1>2. ASSUME NEW n \in 1..MaxWritten, Read(n) PROVE RingInv'
  BY <1>2, ReadKeeps, RingAssumption
<1>3. CASE Close
  BY <1>3 DEF Close, RingInv, RingTypeOK, Contents, Conserved, Wrap
<1>4. CASE UNCHANGED ring
  BY <1>4 DEF ring, RingInv, RingTypeOK, Contents, Conserved, Wrap
<1> QED BY <1>1, <1>2, <1>3, <1>4 DEF RingNext

\* The positions stay in the array and the fill within the capacity.
THEOREM RingTypeCorrect == RingSpec => []RingTypeOK
<1>1. RingInv => RingTypeOK BY DEF RingInv
<1> QED BY <1>1, RingStart, RingStep, PTL DEF RingSpec

\* Between the positions are the newest frames, in the order they were written.
THEOREM ContentsCorrect == RingSpec => []Contents
<1>1. RingInv => Contents BY DEF RingInv
<1> QED BY <1>1, RingStart, RingStep, PTL DEF RingSpec

\* The counters account for every frame.
THEOREM CountersCorrect == RingSpec => []Conserved
<1>1. RingInv => Conserved BY DEF RingInv
<1> QED BY <1>1, RingStart, RingStep, PTL DEF RingSpec

\* A write or a read of the ring is one of the stream.
LEMMA WriteStreams ==
  ASSUME RingInv, NEW n \in 1..MaxWritten, Write(n)
  PROVE  Stream!Next
<1>1. fill \in 0..Capacity /\ written \in Nat /\ Capacity \in Nat \ {0}
      /\ MaxWritten \in Nat
  BY RingAssumption DEF RingInv, RingTypeOK
<1>2. Stream!Write(n)
  <2>1. CASE n >= Capacity
    BY <1>1, <2>1 DEF Write, WriteAll, Stream!Write
  <2>2. CASE ~(n >= Capacity)
    BY <1>1, <2>2 DEF Write, WriteSome, Stream!Write
  <2> QED BY <2>1, <2>2
<1> QED BY <1>2 DEF Stream!Next

LEMMA ReadStreams ==
  ASSUME RingInv, NEW n \in 1..MaxWritten, Read(n)
  PROVE  Stream!Next
<1>1. fill \in 0..Capacity /\ written \in Nat /\ Capacity \in Nat \ {0}
      /\ MaxWritten \in Nat
  BY RingAssumption DEF RingInv, RingTypeOK
<1>2. out' = [i \in 1..Got(n) |-> written - fill + i - 1]
  BY <1>1, ReadKeeps
<1>3. /\ fill' = fill - Got(n) /\ UNCHANGED written
      /\ Got(n) = IF fill >= n THEN n ELSE fill
  BY DEF Read, Got
<1>4. written - (written - fill) = fill BY <1>1
<1>5. Got(n) = IF written - (written - fill) >= n
               THEN n ELSE written - (written - fill)
  BY <1>3, <1>4
<1>6. written' - fill' = (written - fill) + Got(n) BY <1>1, <1>3
<1>7. Stream!Read(n) BY <1>2, <1>3, <1>5, <1>6 DEF Stream!Read
<1> QED BY <1>7 DEF Stream!Next

LEMMA RingStepsStream ==
  RingInv /\ [RingNext]_ring =>
    [Stream!Next]_<<written - fill, written, out>>
<1> SUFFICES ASSUME RingInv, [RingNext]_ring
             PROVE  Stream!Next \/ UNCHANGED <<written - fill, written, out>>
  BY DEF Stream!Next
<1>1. CASE Close BY <1>1 DEF Close
<1>2. CASE UNCHANGED ring BY <1>2 DEF ring
<1> QED BY <1>1, <1>2, WriteStreams, ReadStreams DEF RingNext

\* The ring buffer is a bounded stream that drops its oldest frames.
THEOREM RingImplementsStream == RingSpec => StreamSpec
<1>1. RingInit => Stream!Init BY DEF RingInit, Stream!Init
<1> QED BY <1>1, RingStart, RingStep, RingStepsStream, PTL
        DEF RingSpec, StreamSpec, Stream!Spec

-----------------------------------------------------------------------------
(* Screen capture (ScreenCapture).                                         *)

\* The strengthening of Scheduled: a frame that is fetched is due.
FrameDue == taker = "fetch" => nextIndex <= time
ScheduleInv == ScreenTypeOK /\ FrameDue /\ Scheduled

LEMMA SomePictures == 0 \in Pictures /\ 1 \in Pictures
BY CaptureAssumption DEF Pictures

LEMMA ScheduleStart == ScreenInit => ScheduleInv
<1> SUFFICES ASSUME ScreenInit PROVE ScheduleInv
  OBVIOUS
<1>1. taker \in {"warm", "rest", "delay", "fetch", "ended"} BY DEF ScreenInit
<1>2. time \in 0..MaxTime BY CaptureAssumption DEF ScreenInit
<1>3. ScreenTypeOK BY <1>1, <1>2, SomePictures DEF ScreenInit, ScreenTypeOK
<1>4. FrameDue /\ Scheduled BY DEF ScreenInit, FrameDue, Scheduled
<1> QED BY <1>3, <1>4 DEF ScheduleInv

\* Only recv() writes the counts of the track, and only time and recv() what they are
\* measured against.
LEMMA ScheduleElsewhere ==
  ASSUME ScheduleInv, UNCHANGED <<schedule, time>>, taker' = "fetch" => taker = "fetch"
  PROVE  FrameDue' /\ Scheduled'
BY DEF ScheduleInv, FrameDue, Scheduled, schedule

LEMMA ScheduleStep == ScheduleInv /\ [ScreenNext]_captureVars => ScheduleInv'
<1> SUFFICES ASSUME ScheduleInv, [ScreenNext]_captureVars PROVE ScheduleInv'
  OBVIOUS
<1> USE DEF schedule, capturing
<1>0. /\ nextIndex \in Nat /\ skipped \in Nat /\ generated \in Nat /\ time \in Nat /\ ScreenTypeOK /\ desktop \in Pictures
      /\ \A i \in Nat : Due(i) \in Nat
  BY CaptureAssumption DEF ScheduleInv, ScreenTypeOK, Due
<1>1. CASE CaptureWorker
  <2> USE <1>1 DEF CaptureWorker, WorkerGoesOn, Grab, GrabNothing, GrabFails, Publish,
      WorkerLeaves, Elsewhere, SlotPublish
  <2>0. /\ worker' \in {"none", "loop", "grab", "publish", "done"}
        /\ grabbed' \in Pictures /\ item' \in Pictures
        /\ workerError' \in BOOLEAN /\ slotClosed' = slotClosed
        /\ UNCHANGED <<user, desktop, camera, captureOver, taker, shown, schedule,
                      trackStopped, owner, report, time>>
    BY <1>0 DEF ScreenTypeOK
  <2> HIDE <1>1 DEF CaptureWorker
  <2>1. ScreenTypeOK' BY <1>0, <2>0 DEF ScreenTypeOK
  <2> QED BY <2>0, <2>1, ScheduleElsewhere DEF ScheduleInv
<1>2. CASE RecvEnds \/ Delayed
  <2> USE <1>2 DEF RecvEnds, Delayed, CaptureOn, Sending
  <2>1. ScreenTypeOK' BY <1>0 DEF ScreenTypeOK
  <2> QED BY <2>1 DEF ScheduleInv, FrameDue, Scheduled
<1>3. CASE RecvFrame
  <2>1. ScreenTypeOK' BY <1>0, <1>3 DEF RecvFrame, CaptureOn, ScreenTypeOK
  <2> QED BY <1>0, <1>3, <2>1 DEF RecvFrame, CaptureOn, ScheduleInv, FrameDue, Scheduled
<1>4. CASE Stamp
  <2>1. ScreenTypeOK' BY <1>0, <1>4, SomePictures DEF Stamp, CaptureOn, SlotTake, ScreenTypeOK
  <2> QED BY <1>0, <1>4, <2>1 DEF Stamp, CaptureOn, ScheduleInv, FrameDue, Scheduled, Due
<1>5. CASE Warm \/ Preview
  <2> USE <1>5 DEF Warm, Preview, CaptureOn, SlotTake
  <2>1. ScreenTypeOK' BY <1>0, SomePictures DEF ScreenTypeOK
  <2> QED BY <2>1, ScheduleElsewhere DEF ScheduleInv
<1>6. CASE CaptureStarts \/ CameraFails \/ RequestStop \/ JoinWorker
  <2> USE <1>6 DEF CaptureStarts, CameraFails, RequestStop, JoinWorker, AtStart, SlotClose
  <2>1. ScreenTypeOK' BY <1>0, SomePictures DEF ScreenTypeOK
  <2> QED BY <2>1, ScheduleElsewhere DEF ScheduleInv
<1>7. CASE ShareClosesPeer \/ WarmFails \/ PreviewEnds
  <2> USE <1>7 DEF ShareClosesPeer, WarmFails, PreviewEnds, Owns
  <2>1. ScreenTypeOK' BY <1>0 DEF ScreenTypeOK
  <2> QED BY <2>1, ScheduleElsewhere DEF ScheduleInv
<1>11. CASE AnswerComes \/ Streams \/ ShareStops \/ ShareFails \/ ShareFindsError
  <2>1. PICK from \in {"waiting", "connecting", "on"},
             to \in {"connecting", "on", "stopping"} : Owns(from, to)
    BY <1>11 DEF AnswerComes, Streams, ShareStops, ShareFails, ShareFindsError
  <2>2. taker' = taker /\ trackStopped' \in BOOLEAN
        /\ report' \in {"none", "success", "stopped", "failure"}
    BY <1>0, <1>11
       DEF AnswerComes, Streams, ShareStops, ShareFails, ShareFindsError, ScreenTypeOK
  <2>3. ScreenTypeOK' BY <1>0, <2>1, <2>2 DEF Owns, ScreenTypeOK
  <2> QED BY <2>1, <2>2, <2>3, ScheduleElsewhere DEF Owns, ScheduleInv
<1>8. CASE DesktopChanges
  <2>1. ScreenTypeOK' BY <1>0, <1>8, CaptureAssumption DEF DesktopChanges, ScreenTypeOK, Pictures
  <2> QED BY <1>8, <2>1, ScheduleElsewhere DEF DesktopChanges, ScheduleInv
<1>9. CASE TimePasses
  <2>1. ScreenTypeOK' BY <1>0, <1>9, CaptureAssumption DEF TimePasses, ScreenTypeOK
  <2> QED BY <1>0, <1>9, <2>1 DEF TimePasses, ScheduleInv, FrameDue, Scheduled
<1>10. CASE UNCHANGED captureVars
  BY <1>10 DEF captureVars, ScheduleInv, ScreenTypeOK, FrameDue, Scheduled
<1> QED
  BY <1>1, <1>2, <1>3, <1>4, <1>5, <1>6, <1>7, <1>8, <1>9, <1>10, <1>11
     DEF ScreenNext, Taker, SessionOwner, Connection

-----------------------------------------------------------------------------
(* The TCP echo (TcpEcho).                                                 *)

\* What a client has done, whatever the server does: nothing of the echo is read before
\* it is sent, nor sent before its block has come, and only the whole of it is a success.
ClientOrder(c) ==
  /\ download[c] <= echo[c] /\ echo[c] <= upload[c]
  /\ client[c] = "new" => socket[c] = "none"
  /\ half[c] => client[c] \notin {"new", "sending"} /\ (upload[c] = Blocks \/ verdict[c] = "failure")
  /\ verdict[c] = "success" => download[c] = Blocks
\* What the server has done for it: no echo before the connection was accepted, and the
\* whole of it only if the server logs the client, or is about to.
ServerOrder(c) ==
  /\ socket[c] \in {"none", "backlog"} => echo[c] = 0
  /\ echo[c] = Blocks => c \in logged \/ (serving = c /\ service = "echoing")
  /\ c \in logged => socket[c] = "closed" /\ half[c]
ServingOrder ==
  service \in {"reading", "echoing"} =>
    /\ serving \in Clients /\ socket[serving] = "open" /\ handled < MaxClients
    /\ service = "reading" => echo[serving] = 0
    /\ service = "echoing" => half[serving]
LogCounted == IsFiniteSet(logged) /\ Cardinality(logged) = handled

EchoInv ==
  /\ EchoTypeOK /\ (\A c \in Clients : ClientOrder(c) /\ ServerOrder(c))
  /\ ServingOrder /\ LogCounted

LEMMA EchoStart == EchoInit => EchoInv
<1> SUFFICES ASSUME EchoInit PROVE EchoInv
  OBVIOUS
<1>1. EchoTypeOK BY EchoAssumption DEF EchoInit, EchoTypeOK
<1>2. LogCounted BY FS_EmptySet DEF EchoInit, LogCounted
<1> QED BY <1>1, <1>2, EchoAssumption DEF EchoInit, EchoInv, ClientOrder, ServerOrder, ServingOrder

\* A server that closes leaves the counts as they are.
LEMMA ClosesServerKeeps ==
  ASSUME EchoInv, NEW how \in {"success", "failure", "crashed"}, ClosesServer(how),
         service = "echoing" => echo[serving] < upload[serving],
         UNCHANGED <<handled, logged, echo, clientSide>>
  PROVE  EchoInv'
<1> USE DEF EchoInv, ClosesServer, clientSide
<1>1. EchoTypeOK' BY DEF EchoTypeOK
<1>2. \A c \in Clients : ClientOrder(c)' BY DEF ClientOrder
<1>3. \A c \in Clients : ServerOrder(c)'
  BY EchoAssumption DEF ServerOrder, ClientOrder, EchoTypeOK
<1>4. ServingOrder' BY DEF ServingOrder
<1>5. LogCounted' BY DEF LogCounted
<1> QED BY <1>1, <1>2, <1>3, <1>4, <1>5

LEMMA EchoServerKeeps == EchoInv /\ (EchoServer \/ Served) => EchoInv'
<1> SUFFICES ASSUME EchoInv, EchoServer \/ Served PROVE EchoInv'
  OBVIOUS
<1> USE EchoAssumption DEF EchoInv, clientSide
<1>1. CASE Listens
  <2> USE <1>1 DEF Listens
  <2>1. EchoTypeOK' BY DEF EchoTypeOK
  <2>2. \A c \in Clients : ClientOrder(c)' /\ ServerOrder(c)' BY DEF ClientOrder, ServerOrder
  <2> QED BY <2>1, <2>2 DEF ServingOrder, LogCounted
<1>2. CASE Served \/ AcceptFails \/ ReadEnds \/ ConnectionBreaks
  BY <1>2, ClosesServerKeeps DEF Served, AcceptFails, ReadEnds, ConnectionBreaks
<1>3. ASSUME NEW c \in Clients, Accepts(c) PROVE EchoInv'
  <2> USE <1>3 DEF Accepts
  <2>1. EchoTypeOK' BY DEF EchoTypeOK
  <2>2. \A d \in Clients : ClientOrder(d)' BY DEF ClientOrder, EchoTypeOK
  <2>3. \A d \in Clients : ServerOrder(d)' BY DEF ServerOrder, EchoTypeOK
  <2>4. ServingOrder' BY DEF ServingOrder, ServerOrder, EchoTypeOK
  <2> QED BY <2>1, <2>2, <2>3, <2>4 DEF LogCounted
<1>4. CASE ReadsAll
  <2> USE <1>4 DEF ReadsAll
  <2>1. EchoTypeOK' BY DEF EchoTypeOK
  <2>2. \A c \in Clients : ClientOrder(c)' /\ ServerOrder(c)' BY DEF ClientOrder, ServerOrder
  <2> QED BY <2>1, <2>2 DEF ServingOrder, LogCounted
<1>5. CASE Echoes
  <2> USE <1>5 DEF Echoes
  <2>0. serving \in Clients BY DEF ServingOrder
  <2>1. EchoTypeOK' BY <2>0 DEF EchoTypeOK
  <2>2. ASSUME NEW c \in Clients PROVE ClientOrder(c)'
    <3>1. echo[c] \in 0..Blocks /\ upload[c] \in 0..Blocks /\ download[c] \in 0..Blocks /\ ClientOrder(c)
      BY DEF EchoTypeOK
    <3>2. echo'[c] = (IF c = serving THEN echo[c] + 1 ELSE echo[c]) BY <2>0 DEF EchoTypeOK
    <3> QED BY <3>1, <3>2 DEF ClientOrder
  <2>3. \A c \in Clients : ServerOrder(c)' BY <2>0 DEF ServerOrder, ServingOrder, EchoTypeOK
  <2> QED BY <2>0, <2>1, <2>2, <2>3 DEF ServingOrder, LogCounted
<1>6. CASE Logs
  <2> USE <1>6 DEF Logs
  <2>0. serving \in Clients /\ serving \notin logged BY DEF ServingOrder, ServerOrder
  <2>1. EchoTypeOK' BY <2>0 DEF EchoTypeOK, ServingOrder
  <2>2. \A c \in Clients : ClientOrder(c)' BY <2>0 DEF ClientOrder, ServingOrder, EchoTypeOK
  <2>3. \A c \in Clients : ServerOrder(c)' BY <2>0 DEF ServerOrder, ServingOrder, EchoTypeOK
  <2>4. LogCounted' BY <2>0, FS_AddElement DEF LogCounted, EchoTypeOK
  <2> QED BY <2>1, <2>2, <2>3, <2>4 DEF ServingOrder
<1> QED BY <1>1, <1>2, <1>3, <1>4, <1>5, <1>6 DEF EchoServer

LEMMA EchoClientKeeps == ASSUME EchoInv, NEW c \in Clients, EchoClient(c) PROVE EchoInv'
<1> USE EchoAssumption DEF EchoInv, Idle, serverSide
<1>1. EchoTypeOK'
  <2>1. CASE CannotConnect(c) \/ Connected(c) BY <2>1 DEF CannotConnect, Connected, EchoTypeOK
  <2>2. CASE Sends(c)
    <3>1. CASE upload[c] < Blocks BY <2>2, <3>1 DEF Sends, EchoTypeOK
    <3>2. CASE ~(upload[c] < Blocks) BY <2>2, <3>2 DEF Sends, EchoTypeOK
    <3> QED BY <3>1, <3>2
  <2>3. CASE Receives(c) BY <2>3 DEF Receives, EchoTypeOK
  <2>4. CASE ReceivedAll(c) \/ ClientFails(c) BY <2>4 DEF ReceivedAll, ClientFails, EchoTypeOK
  <2> QED BY <2>1, <2>2, <2>3, <2>4 DEF EchoClient
<1>2. LogCounted' BY DEF LogCounted, EchoClient, CannotConnect, Connected, Sends, Receives, ReceivedAll, ClientFails
<1>3. CASE CannotConnect(c)
  <2>1. \A d \in Clients : ClientOrder(d)' /\ ServerOrder(d)'
    BY <1>3 DEF CannotConnect, ClientOrder, ServerOrder, EchoTypeOK
  <2> QED BY <1>1, <1>2, <1>3, <2>1 DEF CannotConnect, ServingOrder
<1>4. CASE Connected(c)
  <2>1. \A d \in Clients : ClientOrder(d)' /\ ServerOrder(d)'
    BY <1>4 DEF Connected, ClientOrder, ServerOrder, EchoTypeOK
  <2> QED BY <1>1, <1>2, <1>4, <2>1 DEF Connected, ServingOrder, ClientOrder, EchoTypeOK
<1>5. CASE Sends(c)
  <2>1. \A d \in Clients : ClientOrder(d)' /\ ServerOrder(d)'
    BY <1>5 DEF Sends, ClientOrder, ServerOrder, EchoTypeOK
  <2> QED BY <1>1, <1>2, <1>5, <2>1 DEF Sends, ServingOrder, EchoTypeOK
<1>6. CASE Receives(c)
  <2>1. \A d \in Clients : ClientOrder(d)' /\ ServerOrder(d)'
    BY <1>6 DEF Receives, ClientOrder, ServerOrder, EchoTypeOK
  <2> QED BY <1>1, <1>2, <1>6, <2>1 DEF Receives, ServingOrder
<1>7. CASE ReceivedAll(c)
  <2>1. \A d \in Clients : ClientOrder(d)' /\ ServerOrder(d)'
    BY <1>7 DEF ReceivedAll, ClientOrder, ServerOrder, EchoTypeOK
  <2> QED BY <1>1, <1>2, <1>7, <2>1 DEF ReceivedAll, ServingOrder
<1>8. CASE ClientFails(c)
  <2>1. \A d \in Clients : ClientOrder(d)' /\ ServerOrder(d)'
    BY <1>8 DEF ClientFails, ClientOrder, ServerOrder, EchoTypeOK
  <2> QED BY <1>1, <1>2, <1>8, <2>1 DEF ClientFails, ServingOrder, EchoTypeOK
<1> QED BY <1>3, <1>4, <1>5, <1>6, <1>7, <1>8 DEF EchoClient

LEMMA EchoStep == EchoInv /\ [EchoNext]_echoVars => EchoInv'
<1>1. EchoInv /\ UNCHANGED echoVars => EchoInv'
  BY DEF EchoInv, echoVars, serverSide, clientSide, EchoTypeOK, ClientOrder, ServerOrder,
         ServingOrder, LogCounted
<1> QED BY <1>1, EchoServerKeeps, EchoClientKeeps DEF EchoNext

LEMMA EchoInvAgrees == EchoInv => EchoAgrees
BY EchoAssumption
   DEF EchoInv, EchoAgrees, ClientOrder, ServerOrder, LogCounted, EchoTypeOK

-----------------------------------------------------------------------------
(* The connectivity checklist (Checklist).                                 *)

\* The strengthening of PortReturned: the two steps between which the probe has the port,
\* and the two between which the server has it, alone.
PortHeld ==
  /\ "probe" \in port => checking = "unbind"
  /\ "server" \in port <=> checking \in {"hello", "close"}
  /\ "server" \in port => "share" \notin port
PortInv ==
  /\ PortHeld /\ (button => checking = "none")
  /\ \A h \in port : h \in {"probe", "server", "share"}

LEMMA PortStart == ChecklistInit => PortInv
BY DEF ChecklistInit, PortInv, PortHeld

LEMMA PortStep == PortInv /\ [ChecklistNext]_checkVars => PortInv'
<1> SUFFICES ASSUME PortInv, [ChecklistNext]_checkVars PROVE PortInv'
  OBVIOUS
<1> USE DEF PortInv, PortHeld
<1>1. CASE ClickRun \/ Reported \/ ThreadDeleted BY <1>1 DEF ClickRun, Reported, ThreadDeleted
<1>2. CASE CheckIp \/ RemoteProbe \/ Handshake \/ Remaining
  BY <1>2 DEF CheckIp, RemoteProbe, Handshake, Remaining, Checks
<1>3. CASE BindProbe BY <1>3 DEF BindProbe, Checks
<1>4. CASE BindEnds BY <1>4 DEF BindEnds, Checks
<1>5. CASE LocalServer
  <2>1. CASE port = {} /\ Checks("shake", "hello", {{}}) /\ port' = {"server"}
    BY <2>1 DEF Checks
  <2>2. CASE Checks("shake", "rest", One({"fail"})) /\ UNCHANGED port
    BY <2>2 DEF Checks
  <2> QED BY <1>5, <2>1, <2>2 DEF LocalServer
<1>6. CASE CloseServer BY <1>6 DEF CloseServer, Checks
<1>7. CASE ShareTakesPort \/ ShareFreesPort BY <1>7 DEF ShareTakesPort, ShareFreesPort
<1>8. CASE UNCHANGED checkVars BY <1>8 DEF checkVars
<1> QED BY <1>1, <1>2, <1>3, <1>4, <1>5, <1>6, <1>7, <1>8 DEF ChecklistNext, Worker

LEMMA PortInvReturned == PortInv => PortReturned
BY DEF PortInv, PortHeld, PortReturned

-----------------------------------------------------------------------------
(* The audio pipeline (AudioPipeline).                                     *)

\* What shutdown() has taken down at each of its calls.
TakenDown ==
  /\ run \in {"stopPlayer", "close"} => device # "active"
  /\ run \in {"closePlayer", "join", "terminate", "result", "over"} => device = "none"
  /\ run \in {"join", "terminate", "result", "over"} => player = "none"
  /\ run \in {"result", "over"} => pipePa # "open"
  /\ run \in {"terminate", "result", "over"} => converter \in {"none", "done"}
\* A callback runs only on an active stream, and a failure of one is an error of the run.
CallbackHeard == (callback = "in" => device = "active") /\ (fatal => pipeErrors)
ResultTrue == run = "over" => outcome = (IF pipeErrors THEN "failure" ELSE "success")
PipeInv ==
  /\ callback \in {"idle", "in"} /\ fatal \in BOOLEAN /\ pipeErrors \in BOOLEAN
  /\ TakenDown /\ CallbackHeard /\ ResultTrue

LEMMA PipeStart == CaptureInit /\ PipeInit => PipeInv
BY DEF CaptureInit, PipeInit, PipeInv, TakenDown, CallbackHeard, ResultTrue

LEMMA PipeStep == PipeInv /\ [PipeNext]_pipeVars => PipeInv'
<1> SUFFICES ASSUME PipeInv, [PipeNext]_pipeVars PROVE PipeInv'
  OBVIOUS
<1> USE DEF PipeInv, TakenDown, CallbackHeard, ResultTrue, RunGoes, NoSound, capture
<1>1. CASE PipeOpens \/ PipeWorks BY <1>1 DEF PipeOpens, PipeWorks
<1>9. CASE PipeStartFails
  <2>1. pipeErrors' /\ run' = "stop" /\ UNCHANGED <<callback, device, fatal>>
    BY <1>9, Zenon DEF PipeStartFails
  <2> QED BY <2>1
<1>10. CASE PipeOver BY <1>10 DEF PipeOver
<1>2. CASE PipeCaptures \/ PipePlays BY <1>2 DEF PipeCaptures, OpenStream, StartStream, PipePlays
<1>3. CASE PipeRaisesStop \/ PipeStops \/ PipeCloses
  BY <1>3 DEF PipeRaisesStop, PipeStops, PipeCloses, RaiseStop, StopStream, CloseStream
<1>4. CASE PipeJoins \/ PipeTerminates \/ PipeResult
  BY <1>4 DEF PipeJoins, PipeTerminates, PipeResult
<1>5. CASE ConverterLoop
  <2> USE DEF WorkerAt
  <2>1. CASE LoopTests
    <3>1. CASE ~stopPipe /\ fatal BY <2>1, <3>1 DEF LoopTests
    <3>2. CASE ~(~stopPipe /\ fatal)
      <4>1. pipeErrors' = pipeErrors BY <2>1, <3>2, Zenon DEF LoopTests, PipeInv
      <4> QED BY <2>1, <4>1 DEF LoopTests
    <3> QED BY <3>1, <3>2
  <2>2. CASE LoopReads BY <2>2 DEF LoopReads
  <2>3. CASE LoopWrites BY <2>3 DEF LoopWrites
  <2>4. CASE ConversionFails BY <2>4 DEF ConversionFails
  <2>5. CASE WriteFails BY <2>5 DEF WriteFails
  <2> QED BY <1>5, <2>1, <2>2, <2>3, <2>4, <2>5 DEF ConverterLoop
<1>6. CASE CaptureLost BY <1>6 DEF CaptureLost, CallbackFails
<1>7. CASE Captured
  BY <1>7 DEF Captured, Callback, CallbackEnters, CallbackWrites, pipe
<1>8. CASE UNCHANGED pipeVars BY <1>8 DEF pipeVars, pipe
<1> QED BY <1>1, <1>2, <1>3, <1>4, <1>5, <1>6, <1>7, <1>8, <1>9, <1>10 DEF PipeNext, PipeRun, PipeSeesError

LEMMA PipeInvReported == PipeInv => PipelineReported
BY DEF PipeInv, TakenDown, CallbackHeard, ResultTrue, PipelineReported

-----------------------------------------------------------------------------
(* Arithmetic.                                                             *)

LEMMA Multiples ==
  ASSUME NEW q \in Nat, NEW s \in Nat, NEW b \in Nat
  PROVE  (q + s) * b = q * b + s * b /\ q * b \in Nat /\ s * b \in Nat
OBVIOUS

LEMMA MultiplesGrow ==
  ASSUME NEW q \in Nat, NEW s \in Nat, NEW b \in Nat \ {0}, q <= s
  PROVE  q * b <= s * b /\ s <= s * b
OBVIOUS

LEMMA Division ==
  ASSUME NEW a \in Nat, NEW b \in Nat \ {0}
  PROVE  \E q \in Nat, r \in 0..(b - 1) : a = q * b + r /\ q = a \div b /\ r = a % b
<1>1. a % b \in 0..(b - 1) OBVIOUS
<1>2. (a \div b) \in Nat OBVIOUS
<1>3. a = (a \div b) * b + (a % b) OBVIOUS
<1> QED BY <1>1, <1>2, <1>3, Zenon

LEMMA Remainder ==
  ASSUME NEW q \in Nat, NEW b \in Nat \ {0}, NEW r \in 0..(b - 1)
  PROVE  (q * b + r) % b = r
OBVIOUS

\* A remainder goes on as the number it is the remainder of.
LEMMA RemainderGoesOn ==
  ASSUME NEW a \in Nat, NEW c \in Nat, NEW b \in Nat \ {0}
  PROVE  ((a % b) + c) % b = (a + c) % b
<1>1. PICK q \in Nat, r \in 0..(b - 1) : a = q * b + r /\ r = a % b
  BY Division, Zenon
<1>2. PICK s \in Nat, t \in 0..(b - 1) : r + c = s * b + t /\ t = (r + c) % b
  <2>1. r + c \in Nat OBVIOUS
  <2> QED BY <2>1, Division, Zenon
<1>3. a = q * b + r /\ r + c = s * b + t BY <1>1, <1>2, Zenon
<1>4. a + c = (q + s) * b + t BY <1>3, Multiples
<1>5. q + s \in Nat OBVIOUS
<1>6. ((q + s) * b + t) % b = t BY <1>5, Remainder, Zenon
<1>7. (a + c) % b = t BY <1>4, <1>6, Zenon
<1> QED BY <1>1, <1>2, <1>7, Zenon

-----------------------------------------------------------------------------
(* The sound of a share (LoopbackAudio).                                   *)

Stamps == 0..(PtsCycle - 1)
Frame == [samples : Seq(Nat), pts : Stamps]
FrameTypes == given \in Frame /\ frames \in Seq(Frame)

\* Frames that were given but not yet sent.
Giving == IF pull = "give" THEN 1 ELSE 0
\* The time stamps from the one of the last frame sent to the converter's clock: of the frame
\* that is given, of the frames that wait, of the next one.
Stamped ==
  /\ pull = "give" => given.pts = (lastPts + 1) % PtsCycle
  /\ \A k \in 1..Len(frames) : frames[k].pts = (lastPts + Giving + k) % PtsCycle
  /\ clock = (lastPts + 1 + Giving + Len(frames)) % PtsCycle
\* A frame is whole, or it is silence; the sender pulls when no frame waits.
Whole ==
  /\ pull \in {"drain", "wait"} => frames = <<>>
  /\ pull = "give" => Len(given.samples) \in {0, FrameSize}
  /\ \A k \in 1..Len(frames) : Len(frames[k].samples) = FrameSize
\* The ring holds whole chunks.
ChunksWait == \E k \in 0..Capacity : fill = k * Chunk

Waiting == Len(frames) * FrameSize + IF pull = "give" THEN Len(given.samples) ELSE 0
SoundSum == written = dropped + sent + Waiting + Len(held) + fill

SoundInv == TypeOK /\ RingInv /\ FrameTypes /\ Stamped /\ Whole /\ ChunksWait /\ SoundSum

LEMMA WriteKeepsChunks ==
  ASSUME RingInv, ChunksWait, Write(Chunk)
  PROVE  /\ RingInv' /\ ChunksWait'
         /\ \E over \in Nat : written' = written + Chunk /\ dropped' = dropped + over
                            /\ fill' = fill - over + Chunk
<1> USE RingAssumption, ChunkAssumption
<1>1. Chunk \in Nat /\ Chunk < Capacity OBVIOUS
<1>2. RingInv' BY <1>1, WriteSomeKeeps
<1> DEFINE over == IF fill + Chunk > Capacity THEN fill + Chunk - Capacity ELSE 0
<1>3. /\ fill' = fill - over + Chunk /\ dropped' = dropped + over /\ written' = written + Chunk
      /\ fill \in 0..Capacity /\ dropped \in Nat /\ written \in Nat
  BY <1>1 DEF Write, WriteSome, RingInv, RingTypeOK
<1>4. PICK k \in 0..Capacity : fill = k * Chunk BY DEF ChunksWait
<1>5. ChunksWait'
  <2>1. CASE fill + Chunk > Capacity
    <3>1. fill' = Capacity BY <1>3, <2>1
    <3> QED BY <3>1, WholeChunks DEF ChunksWait
  <2>2. CASE ~(fill + Chunk > Capacity)
    <3>1. fill' = fill + Chunk BY <1>3, <2>2
    <3>2. fill' = (k + 1) * Chunk BY <3>1, <1>4, Multiples
    <3>3. k + 1 <= (k + 1) * Chunk BY <3>2, MultiplesGrow
    <3>4. k + 1 \in 0..Capacity BY <3>1, <3>2, <3>3, <2>2, <1>3
    <3> QED BY <3>2, <3>4 DEF ChunksWait
  <2> QED BY <2>1, <2>2
<1>6. over \in Nat BY <1>1, <1>3
<1> HIDE DEF over
<1> QED BY <1>2, <1>3, <1>5, <1>6

\* A read gets a chunk, or finds the ring empty.
LEMMA ReadKeepsChunks ==
  ASSUME RingInv, ChunksWait, Read(Chunk)
  PROVE  /\ RingInv' /\ ChunksWait' /\ UNCHANGED <<written, dropped>>
         /\ fill >= Chunk => fill' = fill - Chunk /\ out' \in Seq(Nat) /\ Len(out') = Chunk
         /\ fill < Chunk => fill' = 0 /\ fill = 0
<1> USE RingAssumption, ChunkAssumption
<1>1. RingInv' /\ out' = [i \in 1..Got(Chunk) |-> written - fill + i - 1] BY ReadKeeps
<1>2. /\ fill' = fill - Got(Chunk) /\ UNCHANGED <<written, dropped>>
      /\ fill \in 0..Capacity /\ written \in Nat /\ fill <= written
  BY DEF Read, RingInv, RingTypeOK, Conserved
<1>3. PICK k \in 0..Capacity : fill = k * Chunk BY DEF ChunksWait
<1>4. CASE fill >= Chunk
  <2>1. Got(Chunk) = Chunk BY <1>4 DEF Got
  <2>2. fill' = fill - Chunk BY <1>2, <2>1
  <2>3. out' \in Seq(Nat) /\ Len(out') = Chunk
    <3>1. \A i \in 1..Chunk : written - fill + i - 1 \in Nat BY <1>2
    <3>2. Chunk \in Nat OBVIOUS
    <3>3. out' = [i \in 1..Chunk |-> written - fill + i - 1] BY <1>1, <2>1
    <3> QED BY <3>1, <3>2, <3>3
  <2>4. ChunksWait'
    <3>1. k # 0 BY <1>3, <1>4
    <3>2. fill = (k - 1) * Chunk + Chunk
      <4>1. k - 1 \in Nat /\ k = (k - 1) + 1 BY <3>1
      <4>2. ((k - 1) + 1) * Chunk = (k - 1) * Chunk + 1 * Chunk BY <4>1, Multiples
      <4> QED BY <1>3, <4>1, <4>2
    <3>3. fill' = (k - 1) * Chunk BY <3>1, <3>2, <2>2, Multiples
    <3>4. k - 1 \in 0..Capacity BY <3>1
    <3> QED BY <3>3, <3>4 DEF ChunksWait
  <2>5. ~(fill < Chunk) BY <1>2, <1>4
  <2> QED BY <1>1, <1>2, <2>2, <2>3, <2>4, <2>5
<1>5. CASE fill < Chunk
  <2>1. k = 0
    <3> SUFFICES ASSUME k >= 1 PROVE FALSE OBVIOUS
    <3> QED BY <1>3, <1>5, MultiplesGrow
  <2>2. fill = 0 BY <1>3, <2>1
  <2>7. Got(Chunk) = 0 BY <2>2 DEF Got
  <2>3. fill' = 0 BY <1>2, <2>2, <2>7
  <2>4. ChunksWait' BY <2>3 DEF ChunksWait
  <2>6. ~(fill >= Chunk) BY <1>2, <1>5
  <2> QED BY <1>1, <1>2, <2>2, <2>3, <2>4, <2>6
<1> QED BY <1>2, <1>4, <1>5

\* What pushing a chunk does: the samples go into whole frames and a rest, and the frames
\* get the next time stamps.
LEMMA PacketsFollow ==
  ASSUME SoundInv, pull \in {"drain", "wait"}, NEW samples \in Seq(Nat), NEW kept \in {0, 1},
         Len(samples) >= 1, NEW n \in Int, n = Full(samples, kept)
  PROVE  /\ n \in Nat
         /\ SubSeq(samples, n * FrameSize + 1, Len(samples)) \in Seq(Nat)
         /\ Len(SubSeq(samples, n * FrameSize + 1, Len(samples))) + n * FrameSize = Len(samples)
         /\ Packed(samples, n) \in Seq(Frame) /\ Len(Packed(samples, n)) = n
         /\ \A k \in 1..n : /\ Len(Packed(samples, n)[k].samples) = FrameSize
                            /\ Packed(samples, n)[k].pts = (lastPts + k) % PtsCycle
         /\ (clock + n) % PtsCycle = (lastPts + 1 + n) % PtsCycle
<1> USE FrameAssumption
<1>1. Len(samples) - kept \in Nat /\ Len(samples) \in Nat OBVIOUS
<1>2. PICK q \in Nat, r \in 0..(FrameSize - 1) :
        Len(samples) - kept = q * FrameSize + r /\ q = (Len(samples) - kept) \div FrameSize
  BY <1>1, Division, Zenon
<1>3. n = q /\ n \in Nat BY <1>2 DEF Full
<1>4. n * FrameSize \in Nat /\ n * FrameSize <= Len(samples)
  <2>1. n * FrameSize \in Nat BY <1>3, Multiples
  <2>2. Len(samples) - kept = n * FrameSize + r BY <1>2, <1>3, Zenon
  <2> QED BY <1>1, <2>1, <2>2
<1>5. /\ SubSeq(samples, n * FrameSize + 1, Len(samples)) \in Seq(Nat)
      /\ Len(SubSeq(samples, n * FrameSize + 1, Len(samples))) + n * FrameSize = Len(samples)
  <2>1. \A i \in (n * FrameSize + 1)..Len(samples) : samples[i] \in Nat BY <1>1, <1>4
  <2> QED BY <1>1, <1>4, <2>1, SubSeqProperties
<1>6. frames = <<>> /\ lastPts \in Stamps /\ clock \in Stamps /\ clock = (lastPts + 1) % PtsCycle
  BY DEF SoundInv, Whole, Stamped, TypeOK, Giving, Stamps
<1>7. lastPts + 1 \in Nat /\ PtsCycle \in Nat \ {0} BY <1>6 DEF Stamps
<1>8. (clock + n) % PtsCycle = (lastPts + 1 + n) % PtsCycle
  BY <1>3, <1>6, <1>7, RemainderGoesOn, Zenon
<1>9. ASSUME NEW k \in 1..n
      PROVE  /\ SubSeq(samples, (k - 1) * FrameSize + 1, k * FrameSize) \in Seq(Nat)
             /\ Len(SubSeq(samples, (k - 1) * FrameSize + 1, k * FrameSize)) = FrameSize
             /\ (clock + k - 1) % PtsCycle = (lastPts + k) % PtsCycle
             /\ (lastPts + k) % PtsCycle \in Stamps
  <2>1. k - 1 \in Nat /\ k \in Nat /\ k <= n BY <1>3
  <2>2. k * FrameSize = (k - 1) * FrameSize + FrameSize /\ (k - 1) * FrameSize \in Nat
    <3>1. ((k - 1) + 1) * FrameSize = (k - 1) * FrameSize + 1 * FrameSize
          /\ (k - 1) * FrameSize \in Nat
      BY <2>1, Multiples
    <3> QED BY <2>1, <3>1
  <2>3. k * FrameSize <= n * FrameSize BY <1>3, <2>1, MultiplesGrow
  <2>4. k * FrameSize <= Len(samples) BY <1>1, <1>4, <2>2, <2>3
  <2>5. \A i \in ((k - 1) * FrameSize + 1)..(k * FrameSize) : samples[i] \in Nat
    BY <2>2, <2>4
  <2>6. /\ SubSeq(samples, (k - 1) * FrameSize + 1, k * FrameSize) \in Seq(Nat)
        /\ Len(SubSeq(samples, (k - 1) * FrameSize + 1, k * FrameSize)) = FrameSize
    BY <2>2, <2>5, SubSeqProperties
  <2>7. (clock + (k - 1)) % PtsCycle = (lastPts + 1 + (k - 1)) % PtsCycle
    BY <1>6, <1>7, <2>1, RemainderGoesOn, Zenon
  <2>8. clock + (k - 1) = clock + k - 1 /\ lastPts + 1 + (k - 1) = lastPts + k
    BY <1>6, <2>1 DEF Stamps
  <2>9. (lastPts + k) % PtsCycle \in Stamps
    <3>1. lastPts + k \in Nat BY <1>6, <2>1 DEF Stamps
    <3> HIDE DEF Stamps
    <3> QED BY <3>1, <1>7 DEF Stamps
  <2> QED BY <2>6, <2>7, <2>8, <2>9
<1>10. /\ Packed(samples, n) \in Seq(Frame) /\ Len(Packed(samples, n)) = n
       /\ \A k \in 1..n : /\ Len(Packed(samples, n)[k].samples) = FrameSize
                          /\ Packed(samples, n)[k].pts = (lastPts + k) % PtsCycle
  <2>1. \A k \in 1..n :
          [samples |-> SubSeq(samples, (k - 1) * FrameSize + 1, k * FrameSize),
           pts |-> (clock + k - 1) % PtsCycle] \in Frame
    BY <1>9 DEF Frame
  <2>2. Packed(samples, n) \in Seq(Frame) /\ Len(Packed(samples, n)) = n
    BY <1>3, <2>1 DEF Packed
  <2> QED BY <1>9, <2>2 DEF Packed
<1> QED BY <1>3, <1>5, <1>8, <1>10

LEMMA SoundStart == Init => SoundInv
<1> SUFFICES ASSUME Init PROVE SoundInv
  OBVIOUS
<1> USE FrameAssumption DEF Init
<1>1. RingInv BY RingStart
<1>2. PtsCycle - 1 \in Stamps /\ 0 \in Stamps BY DEF Stamps
<1>8. CaptureTypeOK BY DEF CaptureInit, CaptureTypeOK
<1>9. held \in Seq(Nat) /\ clock \in 0..(PtsCycle - 1) /\ lastPts \in 0..(PtsCycle - 1)
      /\ sent \in Nat
  BY <1>2 DEF Stamps
<1>3. TypeOK BY <1>1, <1>8, <1>9 DEF TypeOK, RingInv, Shares
<1>4. FrameTypes /\ Whole BY <1>2 DEF FrameTypes, Frame, Silence, Whole
<1>5. Stamped
  <2>1. (1 * PtsCycle + 0) % PtsCycle = 0 BY Remainder
  <2>2. 1 * PtsCycle + 0 = PtsCycle - 1 + 1 + 0 + 0 OBVIOUS
  <2> QED BY <2>1, <2>2 DEF Stamped, Giving
<1>6. ChunksWait BY RingAssumption, ChunkAssumption DEF RingInit, ChunksWait
<1>7. SoundSum BY DEF SoundSum, Waiting, RingInit
<1> QED BY <1>1, <1>3, <1>4, <1>5, <1>6, <1>7 DEF SoundInv

\* The samples that are accounted for stay accounted for: when some come and some are
\* dropped, and when a chunk is put into frames and a rest.
LEMMA SamplesCome ==
  ASSUME NEW w \in Int, NEW d \in Int, NEW s \in Int, NEW l \in Int, NEW h \in Int, NEW f \in Int,
         NEW more \in Int, NEW over \in Int, w = d + s + l + h + f
  PROVE  w + more = (d + over) + s + l + h + (f - over + more)
OBVIOUS

LEMMA SamplesMove ==
  ASSUME NEW w \in Int, NEW d \in Int, NEW s \in Int, NEW h \in Int, NEW f \in Int,
         NEW c \in Int, NEW p \in Int, NEW r \in Int, w = d + s + 0 + h + f, r + p = h + c
  PROVE  w = d + s + p + r + (f - c)
OBVIOUS

LEMMA SoundNumbers ==
  ASSUME SoundInv
  PROVE  /\ written \in Int /\ dropped \in Int /\ fill \in Int /\ sent \in Int /\ Len(held) \in Int
         /\ Waiting \in Int
<1>1. /\ written \in Int /\ dropped \in Int /\ fill \in Int /\ sent \in Int /\ Len(held) \in Int
  BY RingAssumption DEF SoundInv, RingInv, RingTypeOK, TypeOK
<1>2. Waiting \in Int
  <2>1. Len(frames) * FrameSize \in Int BY FrameAssumption DEF SoundInv, FrameTypes
  <2>2. Len(given.samples) \in Int BY DEF SoundInv, FrameTypes, Frame
  <2> QED BY <2>1, <2>2 DEF Waiting
<1> QED BY <1>1, <1>2

\* The threads beside the sender's only add chunks to those that wait, and drop some.
LEMMA BesideSender ==
  ASSUME SoundInv, UNCHANGED <<pull, held, frames, given, clock, lastPts, sent>>,
         TypeOK', RingInv', ChunksWait', NEW more \in Nat, NEW over \in Nat,
         written' = written + more, dropped' = dropped + over, fill' = fill - over + more
  PROVE  SoundInv'
<1>1. FrameTypes' /\ Stamped' /\ Whole'
  BY DEF SoundInv, FrameTypes, Stamped, Whole, Giving
<1>2. Waiting' = Waiting /\ Len(held') = Len(held) BY DEF Waiting
<1>5. SoundSum'
  <2>1. written = dropped + sent + Waiting + Len(held) + fill BY DEF SoundInv, SoundSum
  <2>2. written + more = (dropped + over) + sent + Waiting + Len(held) + (fill - over + more)
    <3>1. /\ written \in Int /\ dropped \in Int /\ fill \in Int /\ sent \in Int /\ Len(held) \in Int
          /\ Waiting \in Int /\ more \in Int /\ over \in Int
      BY SoundNumbers
    <3> QED BY <2>1, <3>1, SamplesCome
  <2> QED BY <1>2, <2>2, Zenon DEF SoundSum
<1> QED BY <1>1, <1>5 DEF SoundInv

LEMMA BesideRing ==
  ASSUME SoundInv, UNCHANGED <<pull, held, frames, given, clock, lastPts, sent>>,
         TypeOK', RingInv', ChunksWait', UNCHANGED <<written, dropped, fill>>
  PROVE  SoundInv'
<1>1. written' = written + 0 /\ dropped' = dropped + 0 /\ fill' = fill - 0 + 0 /\ 0 \in Nat
  BY SoundNumbers
<1> QED BY <1>1, BesideSender, Zenon

LEMMA OwnerKeepsSound == SoundInv /\ (Owner \/ StopTrack) => SoundInv'
<1> SUFFICES ASSUME SoundInv, Owner \/ StopTrack PROVE SoundInv'
  OBVIOUS
<1> USE DEF Goes, capture, track
<1>1. CASE StopTrack
  <2> USE <1>1 DEF StopTrack, ring
  <2>1. TypeOK' BY DEF SoundInv, TypeOK, RingTypeOK, CaptureTypeOK
  <2>2. RingInv' BY DEF SoundInv, RingInv, RingTypeOK, Contents, Conserved, Wrap
  <2> QED BY <2>1, <2>2, BesideRing DEF SoundInv, ChunksWait
<1>2. CASE Owner /\ ~ShutsDown
  <2>1. UNCHANGED <<ring, track>> /\ share' \in Shares /\ pa' \in {"none", "open", "terminated"}
        /\ CaptureTypeOK'
    BY <1>2 DEF Owner, Opens, Opened, Starts, StartFails, Shutdown, Stops, OpenStream, StartStream,
                RaiseStop, StopStream, Shares, SoundInv, TypeOK, CaptureTypeOK
  <2> USE DEF ring
  <2>2. TypeOK' BY <2>1 DEF SoundInv, TypeOK, RingTypeOK
  <2>3. RingInv' BY <2>1 DEF SoundInv, RingInv, RingTypeOK, Contents, Conserved, Wrap
  <2> QED BY <2>1, <2>2, <2>3, BesideRing DEF SoundInv, ChunksWait
<1>3. CASE ShutsDown
  <2> USE <1>3 DEF ShutsDown, CloseStream, Close
  <2>1. TypeOK' BY DEF SoundInv, TypeOK, RingTypeOK, CaptureTypeOK, Shares
  <2>2. RingInv' BY DEF SoundInv, RingInv, RingTypeOK, Contents, Conserved, Wrap
  <2> QED BY <2>1, <2>2, BesideRing DEF SoundInv, ChunksWait
<1> QED BY <1>1, <1>2, <1>3

LEMMA PortAudioKeepsSound == SoundInv /\ PortAudio => SoundInv'
<1> SUFFICES ASSUME SoundInv, PortAudio PROVE SoundInv'
  OBVIOUS
<1> USE DEF PortAudio, track
<1>1. CASE Callback /\ callback = "in" /\ callback' = "idle" /\ ~ringClosed
  <2>1. Write(Chunk) /\ UNCHANGED <<device, captureStop, fatal>>
    BY <1>1 DEF Callback, CallbackEnters, CallbackWrites
  <2>2. /\ RingInv' /\ ChunksWait'
    BY <2>1, WriteKeepsChunks DEF SoundInv
  <2>3. TypeOK' BY <1>1, <2>1, <2>2 DEF SoundInv, TypeOK, CaptureTypeOK, RingInv
  <2>4. PICK over \in Nat : written' = written + Chunk /\ dropped' = dropped + over
                            /\ fill' = fill - over + Chunk
    BY <2>1, WriteKeepsChunks DEF SoundInv
  <2>5. Chunk \in Nat BY ChunkAssumption
  <2> QED BY <2>2, <2>3, <2>4, <2>5, BesideSender
<1>2. CASE ~(Callback /\ callback = "in" /\ callback' = "idle" /\ ~ringClosed)
  <2>1. UNCHANGED ring /\ CaptureTypeOK'
    BY <1>2 DEF Callback, CallbackEnters, CallbackWrites, CallbackFails, SoundInv, TypeOK,
                CaptureTypeOK
  <2> USE DEF ring
  <2>2. TypeOK' BY <2>1 DEF SoundInv, TypeOK, RingTypeOK
  <2>3. RingInv' BY <2>1 DEF SoundInv, RingInv, RingTypeOK, Contents, Conserved, Wrap
  <2> QED BY <2>1, <2>2, <2>3, BesideRing DEF SoundInv, ChunksWait
<1> QED BY <1>1, <1>2

-----------------------------------------------------------------------------
(* The sender of the sound.                                                *)

\* A chunk is taken from the ring ...
Pulled ==
  /\ RingInv' /\ ChunksWait' /\ TypeOK' /\ UNCHANGED <<written, dropped, lastPts, sent>>
  /\ fill >= Chunk /\ fill' = fill - Chunk /\ out' \in Seq(Nat) /\ Len(out') = Chunk

\* ... and its samples fill frames, of which the first is given.
Packs(samples, n) ==
  /\ held' = SubSeq(samples, n * FrameSize + 1, Len(samples))
  /\ pull' = "give" /\ clock' = (clock + n) % PtsCycle
  /\ given' = Head(Packed(samples, n)) /\ frames' = Tail(Packed(samples, n))

LEMMA PacksKeepsSound ==
  ASSUME SoundInv, pull \in {"drain", "wait"}, Pulled, NEW samples \in Seq(Nat),
         samples = held \o out', NEW kept \in {0, 1}, NEW n \in Int, n = Full(samples, kept), n # 0,
         Packs(samples, n)
  PROVE  SoundInv'
<1> DEFINE packed == Packed(samples, n)
<1>1. Len(samples) = Len(held) + Chunk /\ Len(held) \in Nat
  BY DEF SoundInv, TypeOK, Pulled
<1>2. Len(samples) >= 1 BY <1>1, ChunkAssumption
<1>3. /\ n \in Nat
      /\ Len(held') + n * FrameSize = Len(samples)
      /\ packed \in Seq(Frame) /\ Len(packed) = n
      /\ \A k \in 1..n : /\ Len(packed[k].samples) = FrameSize
                         /\ packed[k].pts = (lastPts + k) % PtsCycle
      /\ clock' = (lastPts + 1 + n) % PtsCycle
  BY <1>2, PacketsFollow, Zenon DEF Packs
<1>4. given' = Head(packed) /\ frames' = Tail(packed) /\ pull' = "give" BY DEF Packs
<1> HIDE DEF packed
<1>5. /\ given' = packed[1] /\ Len(frames') = n - 1 /\ frames' \in Seq(Frame) /\ given' \in Frame
      /\ \A k \in 1..(n - 1) : frames'[k] = packed[k + 1]
  <2>1. packed # <<>> /\ n \in Nat \ {0} BY <1>3
  <2> QED BY <1>3, <1>4, <2>1
<1>6. frames = <<>> /\ lastPts \in Nat /\ lastPts' = lastPts
  BY FrameAssumption DEF SoundInv, Whole, TypeOK, Pulled
<1>7. FrameTypes' BY <1>5 DEF FrameTypes
<1>8. Whole' BY <1>3, <1>4, <1>5 DEF Whole
<1>9. Stamped'
  <2>1. Giving' = 1 BY <1>4 DEF Giving
  <2>2. given'.pts = (lastPts' + 1) % PtsCycle BY <1>3, <1>5, <1>6
  <2>3. ASSUME NEW k \in 1..Len(frames') PROVE frames'[k].pts = (lastPts' + Giving' + k) % PtsCycle
    <3>1. k + 1 \in 1..n /\ frames'[k] = packed[k + 1] BY <1>3, <1>5
    <3>2. frames'[k].pts = (lastPts + (k + 1)) % PtsCycle BY <1>3, <3>1
    <3>3. lastPts' + Giving' + k = lastPts + (k + 1) BY <1>6, <2>1
    <3> QED BY <3>2, <3>3, Zenon
  <2>4. lastPts' + 1 + Giving' + Len(frames') = lastPts + 1 + n
    BY <1>3, <1>5, <1>6, <2>1
  <2>5. clock' = (lastPts' + 1 + Giving' + Len(frames')) % PtsCycle BY <1>3, <2>4, Zenon
  <2> QED BY <2>2, <2>3, <2>5 DEF Stamped
<1>10. SoundSum'
  <2>1. Waiting = 0
    <3>1. Len(frames) = 0 /\ pull # "give" BY <1>6
    <3> QED BY <3>1, FrameAssumption DEF Waiting
  <2>2. Waiting' = n * FrameSize /\ n * FrameSize \in Nat
    <3>1. n - 1 \in Nat /\ n = (n - 1) + 1 BY <1>3
    <3>2. ((n - 1) + 1) * FrameSize = (n - 1) * FrameSize + 1 * FrameSize
      BY <3>1, FrameAssumption, Multiples
    <3>3. Len(given'.samples) = FrameSize BY <1>3, <1>5
    <3>4. Waiting' = (n - 1) * FrameSize + FrameSize BY <1>4, <1>5, <3>3 DEF Waiting
    <3>5. n * FrameSize \in Nat BY <1>3, FrameAssumption
    <3>6. 1 * FrameSize = FrameSize BY FrameAssumption
    <3> QED BY <3>1, <3>2, <3>4, <3>5, <3>6, Zenon
  <2>3. PICK rest \in Int : rest = Len(held')
    BY DEF Pulled, TypeOK
  <2>4. rest + n * FrameSize = Len(held) + Chunk BY <1>1, <1>3, <2>3
  <2>5. written = dropped + sent + 0 + Len(held) + fill BY <2>1 DEF SoundInv, SoundSum
  <2>6. written = dropped + sent + n * FrameSize + rest + (fill - Chunk)
    <3>1. /\ written \in Int /\ dropped \in Int /\ fill \in Int /\ sent \in Int /\ Len(held) \in Int
          /\ n * FrameSize \in Int /\ Chunk \in Int /\ rest \in Int
      BY <2>2, ChunkAssumption, SoundNumbers
    <3> QED BY <2>4, <2>5, <3>1, SamplesMove
  <2>7. written' = written /\ dropped' = dropped /\ sent' = sent /\ fill' = fill - Chunk
    BY DEF Pulled
  <2> QED BY <2>2, <2>3, <2>6, <2>7, Zenon DEF SoundSum
<1> QED BY <1>7, <1>8, <1>9, <1>10 DEF SoundInv, Pulled

\* Where there is no frame to give, the sender goes on pulling or gives silence.
LEMMA NoFrameFollows ==
  ASSUME SoundInv, pull \in {"drain", "wait"}, UNCHANGED <<frames, lastPts>>,
         (pull' \in {"drain", "wait"} /\ UNCHANGED <<given, clock>>) \/ GiveSilence
  PROVE  FrameTypes' /\ Whole' /\ Stamped' /\ Waiting = 0 /\ Waiting' = 0
<1> USE FrameAssumption
<1>1. /\ frames = <<>> /\ pull # "give" /\ frames' = <<>> /\ lastPts \in Nat /\ lastPts' = lastPts
      /\ clock = (lastPts + 1) % PtsCycle /\ clock \in Stamps
  BY DEF SoundInv, Whole, TypeOK, Stamped, Giving, Stamps
<1>2. Waiting = 0 BY <1>1 DEF Waiting
<1>3. CASE pull' \in {"drain", "wait"} /\ UNCHANGED <<given, clock>>
  BY <1>1, <1>2, <1>3 DEF SoundInv, FrameTypes, Whole, Stamped, Giving, Waiting
<1>4. CASE GiveSilence
  <2>1. pull' = "give" /\ given' = [samples |-> <<>>, pts |-> clock] /\ clock' = (clock + 1) % PtsCycle
    BY <1>4 DEF GiveSilence, Silence
  <2>2. FrameTypes' /\ Whole' /\ Waiting' = 0
    BY <1>1, <2>1 DEF FrameTypes, Frame, Whole, Waiting
  <2>3. clock' = (lastPts + 1 + 1) % PtsCycle
    <3>1. lastPts + 1 \in Nat /\ 1 \in Nat /\ PtsCycle \in Nat \ {0} BY <1>1
    <3> QED BY <1>1, <2>1, <3>1, RemainderGoesOn, Zenon
  <2>4. lastPts' + 1 + Giving' + Len(frames') = lastPts + 1 + 1
    BY <1>1, <2>1 DEF Giving
  <2>5. Stamped'
    <3>1. clock' = (lastPts' + 1 + Giving' + Len(frames')) % PtsCycle BY <2>3, <2>4, Zenon
    <3>2. given'.pts = (lastPts' + 1) % PtsCycle BY <1>1, <2>1
    <3> QED BY <1>1, <3>1, <3>2 DEF Stamped
  <2> QED BY <1>2, <2>2, <2>5
<1> QED BY <1>3, <1>4

LEMMA RestKeepsSound ==
  ASSUME SoundInv, pull \in {"drain", "wait"}, Pulled, UNCHANGED <<frames, lastPts>>,
         held' = SubSeq(held \o out', 1, Len(held \o out')),
         (pull' \in {"drain", "wait"} /\ UNCHANGED <<given, clock>>) \/ GiveSilence
  PROVE  SoundInv'
<1>1. FrameTypes' /\ Whole' /\ Stamped' /\ Waiting = 0 /\ Waiting' = 0
  BY NoFrameFollows, Zenon
<1>2. Len(held') = Len(held) + Chunk
  <2>1. /\ held \in Seq(Nat) /\ out' \in Seq(Nat) /\ Len(out') = Chunk BY DEF Pulled, SoundInv, TypeOK
  <2>2. held \o out' \in Seq(Nat) /\ Len(held \o out') = Len(held) + Chunk
    <3>1. held \o out' \in Seq(Nat) BY <2>1
    <3>2. PICK came \in Seq(Nat) : came = out' BY <2>1
    <3>3. Len(came) = Chunk /\ Len(held \o came) = Len(held) + Len(came) BY <2>1, <3>2
    <3> QED BY <3>1, <3>2, <3>3
  <2> DEFINE samples == held \o out'
  <2>3. SubSeq(samples, 1, Len(samples)) = samples
    <3>1. samples \in Seq(Nat) BY <2>2
    <3> HIDE DEF samples
    <3> QED BY <3>1
  <2> QED BY <2>2, <2>3
<1>3. SoundSum'
  <2>1. PICK rest \in Int : rest = Len(held') BY DEF Pulled, TypeOK
  <2>2. rest + 0 = Len(held) + Chunk BY <1>2, <2>1
  <2>3. written = dropped + sent + 0 + Len(held) + fill BY <1>1 DEF SoundInv, SoundSum
  <2>4. written = dropped + sent + 0 + rest + (fill - Chunk)
    <3>1. /\ written \in Int /\ dropped \in Int /\ fill \in Int /\ sent \in Int /\ Len(held) \in Int
          /\ Chunk \in Int /\ rest \in Int /\ 0 \in Int
      BY ChunkAssumption, SoundNumbers
    <3> QED BY <2>2, <2>3, <3>1, SamplesMove
  <2>5. written' = written /\ dropped' = dropped /\ sent' = sent /\ fill' = fill - Chunk
    BY DEF Pulled
  <2> QED BY <1>1, <2>1, <2>4, <2>5, Zenon DEF SoundSum
<1> QED BY <1>1, <1>3 DEF SoundInv, Pulled

\* A pull: of a chunk that fills a frame or does not, or of nothing.
LEMMA PullKeepsSound == SoundInv /\ (Drain \/ Wait) => SoundInv'
<1> SUFFICES ASSUME SoundInv, Drain \/ Wait PROVE SoundInv'
  OBVIOUS
<1> DEFINE Otherwise == (pull' \in {"drain", "wait"} /\ UNCHANGED <<given, clock>>) \/ GiveSilence
<1>1. pull \in {"drain", "wait"} /\ Read(Chunk) /\ UNCHANGED <<capture, share, pa, stopTrack, lastPts, sent>>
  BY DEF Drain, Wait
<1>2. /\ RingInv' /\ ChunksWait' /\ UNCHANGED <<written, dropped>>
      /\ fill >= Chunk => fill' = fill - Chunk /\ out' \in Seq(Nat) /\ Len(out') = Chunk
      /\ fill < Chunk => fill' = 0 /\ fill = 0
  BY <1>1, ReadKeepsChunks DEF SoundInv
<1>3. fill \in Int /\ Chunk \in Int BY SoundNumbers, ChunkAssumption
<1>4. CASE fill >= Chunk
  <2>1. PICK kept \in {0, 1} :
          LET n == Full(held \o out', kept)
          IN /\ held' = SubSeq(held \o out', n * FrameSize + 1, Len(held \o out'))
             /\ IF n = 0 THEN Otherwise /\ UNCHANGED frames
                         ELSE Packs(held \o out', n)
    BY <1>1, <1>4 DEF Drain, Wait, Push, Packs
  <2> DEFINE samples == held \o out' n == Full(samples, kept)
  <2>2. samples \in Seq(Nat) /\ Len(samples) - kept \in Nat
    BY <1>2, <1>4, ChunkAssumption DEF SoundInv, TypeOK
  <2>3. /\ n \in Nat /\ held' \in Seq(Nat)
        /\ (clock + n) % PtsCycle \in 0..(PtsCycle - 1)
    <3>1. Len(samples) >= 1
      BY <1>2, <1>4, ChunkAssumption DEF SoundInv, TypeOK
    <3>2. n \in Int BY <2>2, FrameAssumption DEF Full
    <3>3. held' = SubSeq(samples, n * FrameSize + 1, Len(samples)) BY <2>1
    <3> HIDE DEF samples
    <3> HIDE DEF n
    <3>4. n \in Nat /\ held' \in Seq(Nat)
      <4>1. n = Full(samples, kept) BY DEF n
      <4> QED BY <1>1, <2>2, <3>1, <3>2, <3>3, <4>1, PacketsFollow
    <3> QED BY <3>4, FrameAssumption DEF SoundInv, TypeOK
  <2>4. TypeOK'
    <3>1. pull' \in {"rest", "drain", "wait", "give", "ended"} /\ clock' \in 0..(PtsCycle - 1)
      <4>1. CASE n = 0
        <5>1. Otherwise BY <2>1, <4>1
        <5> QED BY <5>1, FrameAssumption DEF GiveSilence, SoundInv, TypeOK
      <4>2. CASE n # 0
        <5>1. pull' = "give" /\ clock' = (clock + n) % PtsCycle BY <2>1, <4>2 DEF Packs
        <5> QED BY <2>3, <5>1
      <4> QED BY <4>1, <4>2
    <3> QED BY <1>1, <1>2, <2>3, <3>1 DEF SoundInv, TypeOK, RingInv, CaptureTypeOK, capture
  <2>5. Pulled BY <1>1, <1>2, <1>4, <2>4 DEF Pulled
  <2>6. CASE n = 0
    <3>1. held' = SubSeq(samples, 1, Len(samples)) /\ Otherwise /\ UNCHANGED frames
      BY <2>1, <2>6, FrameAssumption
    <3> QED BY <1>1, <2>5, <3>1, RestKeepsSound
  <2>7. CASE n # 0
    <3>1. Packs(samples, n) BY <2>1, <2>7
    <3> HIDE DEF n
    <3>2. n \in Int /\ n = Full(samples, kept) BY <2>3 DEF n
    <3> QED BY <1>1, <2>2, <2>5, <2>7, <3>1, <3>2, PacksKeepsSound
  <2> QED BY <2>6, <2>7
<1>5. CASE fill < Chunk
  <2>1. Otherwise /\ UNCHANGED <<held, frames>>
    <3>1. ~(fill >= Chunk) BY <1>3, <1>5
    <3> QED BY <1>1, <3>1, Zenon DEF Drain, Wait
  <2>2. TypeOK'
    <3>1. pull' \in {"rest", "drain", "wait", "give", "ended"} /\ clock' \in 0..(PtsCycle - 1)
      BY <2>1, FrameAssumption DEF GiveSilence, SoundInv, TypeOK
    <3> QED BY <1>1, <1>2, <2>1, <3>1 DEF SoundInv, TypeOK, RingInv, CaptureTypeOK, capture
  <2>3. FrameTypes' /\ Whole' /\ Stamped' /\ Waiting = 0 /\ Waiting' = 0
    BY <1>1, <2>1, NoFrameFollows
  <2>4. UNCHANGED <<written, dropped, sent, fill, held>> BY <1>1, <1>2, <1>5, <2>1
  <2>5. SoundSum' BY <2>3, <2>4, Zenon DEF SoundInv, SoundSum
  <2> QED BY <1>2, <2>2, <2>3, <2>5 DEF SoundInv
<1> QED BY <1>3, <1>4, <1>5

LEMMA RecvKeepsSound == SoundInv /\ Recv => SoundInv'
<1> SUFFICES ASSUME SoundInv, Recv PROVE SoundInv'
  OBVIOUS
<1> USE FrameAssumption
<1>1. /\ pull = "rest"
      /\ UNCHANGED <<ring, capture, share, pa, stopTrack, held, clock, lastPts, sent>>
  BY DEF Recv
<1>2. RingInv' /\ ChunksWait'
  BY <1>1 DEF SoundInv, RingInv, RingTypeOK, Contents, Conserved, Wrap, ring, ChunksWait
<1>3. TypeOK'
  BY <1>1, <1>2 DEF Recv, SoundInv, TypeOK, RingInv, CaptureTypeOK, capture
<1>4. UNCHANGED <<written, dropped, fill, sent, held>> BY <1>1 DEF ring
<1>5. CASE frames # <<>> /\ ~stopTrack /\ ~ringClosed
  <2>1. pull' = "give" /\ given' = Head(frames) /\ frames' = Tail(frames) /\ lastPts' = lastPts
    BY <1>5 DEF Recv
  <2>2. /\ frames \in Seq(Frame) /\ Len(frames) \in Nat \ {0} /\ given' = frames[1]
        /\ frames' \in Seq(Frame) /\ Len(frames') = Len(frames) - 1
        /\ \A k \in 1..(Len(frames) - 1) : frames'[k] = frames[k + 1]
    BY <1>5, <2>1 DEF SoundInv, FrameTypes
  <2>3. FrameTypes' /\ Whole'
    BY <2>1, <2>2 DEF SoundInv, FrameTypes, Whole
  <2>4. Giving = 0 /\ Giving' = 1 /\ lastPts \in Nat BY <1>1, <2>1 DEF Giving, SoundInv, TypeOK
  <2>5. Stamped'
    <3>1. ASSUME NEW k \in 1..Len(frames)
          PROVE  frames[k].pts = (lastPts + k) % PtsCycle
      <4>1. lastPts + Giving + k = lastPts + k BY <2>4
      <4> QED BY <4>1 DEF SoundInv, Stamped
    <3>2. given'.pts = (lastPts' + 1) % PtsCycle BY <2>1, <2>2, <3>1
    <3>3. ASSUME NEW k \in 1..Len(frames') PROVE frames'[k].pts = (lastPts' + Giving' + k) % PtsCycle
      <4>1. k + 1 \in 1..Len(frames) /\ frames'[k] = frames[k + 1] BY <2>2
      <4>2. frames'[k].pts = (lastPts + (k + 1)) % PtsCycle BY <3>1, <4>1, Zenon
      <4>3. lastPts' + Giving' + k = lastPts + (k + 1) BY <2>1, <2>4
      <4> QED BY <4>2, <4>3, Zenon
    <3>4. lastPts' + 1 + Giving' + Len(frames') = lastPts + 1 + Giving + Len(frames)
      BY <2>1, <2>2, <2>4
    <3>5. clock' = (lastPts' + 1 + Giving' + Len(frames')) % PtsCycle
      BY <1>1, <3>4, Zenon DEF SoundInv, Stamped
    <3> QED BY <3>2, <3>3, <3>5 DEF Stamped
  <2>6. Waiting' = Waiting
    <3>1. Len(given'.samples) = FrameSize BY <2>2 DEF SoundInv, Whole
    <3>2. Len(frames) - 1 \in Nat /\ Len(frames) = (Len(frames) - 1) + 1 BY <2>2
    <3>3. ((Len(frames) - 1) + 1) * FrameSize = (Len(frames) - 1) * FrameSize + 1 * FrameSize
      BY <3>2, Multiples
    <3>4. Waiting' = (Len(frames) - 1) * FrameSize + FrameSize BY <2>1, <2>2, <3>1 DEF Waiting
    <3>5. Waiting = Len(frames) * FrameSize
      <4>1. Len(frames) * FrameSize \in Int BY <2>2
      <4> QED BY <1>1, <4>1 DEF Waiting
    <3> QED BY <3>2, <3>3, <3>4, <3>5
  <2>7. SoundSum' BY <1>4, <2>6, Zenon DEF SoundInv, SoundSum
  <2> QED BY <1>2, <1>3, <2>3, <2>5, <2>7 DEF SoundInv
<1>6. CASE frames = <<>> \/ stopTrack \/ ringClosed
  <2>1. pull' \in {"ended", "drain"} /\ UNCHANGED <<given, frames>> /\ lastPts' = lastPts
        /\ (pull' = "drain" => frames = <<>>)
    BY <1>1, <1>6 DEF Recv
  <2>2. FrameTypes' /\ Whole' /\ Stamped'
    BY <1>1, <2>1 DEF SoundInv, FrameTypes, Whole, Stamped, Giving
  <2>4. Waiting' = Waiting
    <3>1. pull' # "give" /\ pull # "give" BY <1>1, <2>1
    <3> QED BY <2>1, <3>1, Zenon DEF Waiting
  <2>3. SoundSum' BY <1>4, <2>4, Zenon DEF SoundInv, SoundSum
  <2> QED BY <1>2, <1>3, <2>2, <2>3 DEF SoundInv
<1> QED BY <1>5, <1>6

LEMMA FrameSent ==
  ASSUME NEW w \in Int, NEW d \in Int, NEW s \in Int, NEW p \in Int, NEW g \in Int, NEW h \in Int,
         NEW f \in Int, w = d + s + (p + g) + h + f
  PROVE  w = d + (s + g) + p + h + f
OBVIOUS

LEMMA GiveKeepsSound == SoundInv /\ Give => SoundInv'
<1> SUFFICES ASSUME SoundInv, Give PROVE SoundInv'
  OBVIOUS
<1> USE FrameAssumption
<1>1. /\ pull = "give" /\ pull' = "rest" /\ lastPts' = given.pts
      /\ UNCHANGED <<ring, capture, share, pa, stopTrack, held, frames, given, clock>>
  BY DEF Give
<1>2. sent' = sent + Len(given.samples) /\ Len(given.samples) \in Nat /\ given.pts \in Stamps
  BY DEF Give, SoundInv, FrameTypes, Frame
<1>3. RingInv' /\ ChunksWait'
  BY <1>1 DEF SoundInv, RingInv, RingTypeOK, Contents, Conserved, Wrap, ring, ChunksWait
<1>4. TypeOK'
  BY <1>1, <1>2, <1>3 DEF SoundInv, TypeOK, RingInv, CaptureTypeOK, capture, Stamps
<1>5. FrameTypes' /\ Whole' BY <1>1 DEF SoundInv, FrameTypes, Whole
<1>6. Stamped'
  <2>1. lastPts \in Nat /\ Giving = 1 /\ Giving' = 0 /\ lastPts' = (lastPts + 1) % PtsCycle
    BY <1>1 DEF SoundInv, TypeOK, Giving, Stamped
  <2>2. lastPts + 1 \in Nat /\ PtsCycle \in Nat \ {0} /\ Len(frames) \in Nat
    BY <2>1 DEF SoundInv, FrameTypes
  <2>3. ASSUME NEW k \in 1..Len(frames) PROVE frames[k].pts = (lastPts' + Giving' + k) % PtsCycle
    <3>1. frames[k].pts = (lastPts + Giving + k) % PtsCycle BY DEF SoundInv, Stamped
    <3>2. lastPts + Giving + k = (lastPts + 1) + k BY <2>1
    <3>3. k \in Nat BY <2>2
    <3>4. (((lastPts + 1) % PtsCycle) + k) % PtsCycle = ((lastPts + 1) + k) % PtsCycle
      BY <2>2, <3>3, RemainderGoesOn, Zenon
    <3>5. lastPts' \in Nat BY <1>4 DEF TypeOK
    <3>6. lastPts' + Giving' + k = lastPts' + k BY <2>1, <3>3, <3>5
    <3> QED BY <2>1, <3>1, <3>2, <3>4, <3>6, Zenon
  <2>4. clock' = (lastPts' + 1 + Giving' + Len(frames')) % PtsCycle
    <3>1. clock = (lastPts + 1 + Giving + Len(frames)) % PtsCycle BY DEF SoundInv, Stamped
    <3>2. lastPts + 1 + Giving + Len(frames) = (lastPts + 1) + (1 + Len(frames)) BY <2>1, <2>2
    <3>3. 1 + Len(frames) \in Nat BY <2>2
    <3>4. (((lastPts + 1) % PtsCycle) + (1 + Len(frames))) % PtsCycle
            = ((lastPts + 1) + (1 + Len(frames))) % PtsCycle
      BY <2>2, <3>3, RemainderGoesOn, Zenon
    <3>5. lastPts' \in Nat BY <1>4 DEF TypeOK
    <3>6. lastPts' + 1 + Giving' + Len(frames') = lastPts' + (1 + Len(frames))
      BY <1>1, <2>1, <2>2, <3>5
    <3> QED BY <1>1, <2>1, <3>1, <3>2, <3>4, <3>6, Zenon
  <2> QED BY <1>1, <2>3, <2>4 DEF Stamped
<1>7. SoundSum'
  <2>1. PICK packed \in Int : packed = Len(frames) * FrameSize
    BY DEF SoundInv, FrameTypes
  <2>2. Waiting = packed + Len(given.samples) /\ Waiting' = packed
    BY <1>1, <2>1 DEF Waiting
  <2>3. written = dropped + (sent + Len(given.samples)) + packed + Len(held) + fill
    <3>1. /\ written \in Int /\ dropped \in Int /\ fill \in Int /\ sent \in Int /\ Len(held) \in Int
          /\ packed \in Int /\ Len(given.samples) \in Int
      BY <1>2, SoundNumbers
    <3>2. written = dropped + sent + (packed + Len(given.samples)) + Len(held) + fill
      BY <2>2, Zenon DEF SoundInv, SoundSum
    <3>3. PICK samples \in Int, rest \in Int : samples = Len(given.samples) /\ rest = Len(held)
      BY <3>1
    <3>4. written = dropped + sent + (packed + samples) + rest + fill BY <3>2, <3>3, Zenon
    <3>5. written = dropped + (sent + samples) + packed + rest + fill BY <3>1, <3>4, FrameSent
    <3> QED BY <3>3, <3>5, Zenon
  <2>4. UNCHANGED <<written, dropped, fill, held>> BY <1>1 DEF ring
  <2> QED BY <1>2, <2>2, <2>3, <2>4, Zenon DEF SoundSum
<1> QED BY <1>3, <1>4, <1>5, <1>6, <1>7 DEF SoundInv

LEMMA SoundStep == SoundInv /\ [Next]_vars => SoundInv'
<1> SUFFICES ASSUME SoundInv, [Next]_vars PROVE SoundInv'
  OBVIOUS
<1>1. CASE Owner \/ StopTrack BY <1>1, OwnerKeepsSound
<1>2. CASE Sender
  BY <1>2, RecvKeepsSound, PullKeepsSound, GiveKeepsSound DEF Sender
<1>3. CASE PortAudio BY <1>3, PortAudioKeepsSound
<1>4. CASE UNCHANGED vars
  <2> USE <1>4 DEF vars, ring, capture, track
  <2>1. RingInv' /\ ChunksWait'
    BY DEF SoundInv, RingInv, RingTypeOK, Contents, Conserved, Wrap, ChunksWait
  <2>2. TypeOK' BY <2>1 DEF SoundInv, TypeOK, RingInv, CaptureTypeOK
  <2> QED BY <2>1, <2>2, BesideRing
<1> QED BY <1>1, <1>2, <1>3, <1>4 DEF Next

LEMMA SoundInvAccounts == SoundInv => Accounted /\ PtsContinue
<1> SUFFICES ASSUME SoundInv PROVE Accounted /\ PtsContinue
  OBVIOUS
<1>1. PtsContinue BY DEF SoundInv, Stamped, PtsContinue
<1>2. written = dropped + sent + Waiting + Len(held) + fill BY DEF SoundInv, SoundSum
<1>3. Accounted BY <1>2, Zenon DEF Accounted, Waiting
<1> QED BY <1>1, <1>3

-----------------------------------------------------------------------------
(* The copies of the preferences (Preferences).                            *)

\* The strengthening of SavedSurvives: the file and, while the program runs, the window's
\* copy are as Settings last saved them, but for the port after Reconnect.
PrefInv ==
  PrefTypeOK /\ AsSaved(stored) /\ (app = "open" => AsSaved(prefs))

LEMMA PrefStart == PrefInit => PrefInv
<1> SUFFICES ASSUME PrefInit PROVE PrefInv
  OBVIOUS
<1>1. Defaults \in Preference BY DEF Defaults, Preference, Picks, Ports
<1> QED BY <1>1 DEF PrefInit, PrefInv, PrefTypeOK, AsSaved

LEMMA FilledPreference ==
  ASSUME NEW p \in Preference, NEW found \in Listed, NEW f \in Filled(p, found)
  PROVE  f \in Preference
BY DEF Filled, Selected, Listed, Preference, Picks

LEMMA PrefStep == PrefInv /\ [PrefNext]_prefVars => PrefInv'
<1> SUFFICES ASSUME PrefInv, [PrefNext]_prefVars PROVE PrefInv'
  OBVIOUS
<1> USE DEF PrefInv, PrefTypeOK, AsSaved
<1>1. CASE Launch BY <1>1, FilledPreference DEF Launch, NotSharing
<1>2. CASE Edit BY <1>2 DEF Edit, Preference, Picks
<1>3. CASE Refresh BY <1>3 DEF Refresh, Preference
<1>4. CASE Reload BY <1>4, FilledPreference DEF Reload
<1>5. CASE Save BY <1>5 DEF Save, Written
<1>6. CASE SaveFails BY <1>6 DEF SaveFails
<1>7. CASE Reconnect
  <2>1. PICK p \in Ports : Assign([prefs EXCEPT !.port = p]) BY <1>7 DEF Reconnect
  <2>2. prefs' \in Preference /\ prefs'.pick = prefs.pick /\ own' \in Preference
    BY <2>1 DEF Assign, Preference
  <2> QED BY <1>7, <2>2 DEF Reconnect
<1>8. CASE StartShare \/ ShareReports \/ ShareOver
  BY <1>8 DEF StartShare, ShareReports, ShareOver, NotSharing
<1>9. CASE Exit \/ Crash BY <1>9 DEF Exit, Crash
<1>10. CASE UNCHANGED prefVars BY <1>10 DEF prefVars
<1> QED BY <1>1, <1>2, <1>3, <1>4, <1>5, <1>6, <1>7, <1>8, <1>9, <1>10 DEF PrefNext

\* What a step of SavedSurvives may do.
Survives ==
  /\ app = "closed" /\ app' = "open" => AsSaved(prefs')
  /\ listening = NotSharing /\ listening' # NotSharing => AsSaved(listening')

LEMMA PrefSurvives == PrefInv /\ PrefNext => Survives
<1> SUFFICES ASSUME PrefInv, PrefNext PROVE Survives
  OBVIOUS
<1> USE DEF PrefInv, AsSaved, Survives
<1>1. CASE Launch BY <1>1 DEF Launch
<1>2. CASE StartShare BY <1>2 DEF StartShare
<1>3. CASE Edit \/ Refresh \/ Reload \/ Save \/ SaveFails \/ Reconnect \/ ShareReports
  BY <1>3 DEF Edit, Refresh, Reload, Save, Written, SaveFails, Reconnect, ShareReports
<1>4. CASE ShareOver \/ Exit \/ Crash BY <1>4 DEF ShareOver, Exit, Crash
<1> QED BY <1>1, <1>2, <1>3, <1>4 DEF PrefNext

-----------------------------------------------------------------------------
(* Sound devices (AudioEndpoints).                                         *)

DeviceInv == DeviceTypeOK /\ RecordsLoopback

LEMMA DeviceStart == DeviceInit => DeviceInv
<1> SUFFICES ASSUME DeviceInit PROVE DeviceInv
  OBVIOUS
<1>1. devices \in Seq(Device) BY DEF DeviceInit
<1> QED BY <1>1 DEF DeviceInit, DeviceInv, DeviceTypeOK, RecordsLoopback, NoDevice

LEMMA DeviceStep == DeviceInv /\ [DeviceNext]_deviceVars => DeviceInv'
<1> SUFFICES ASSUME DeviceInv, [DeviceNext]_deviceVars PROVE DeviceInv'
  OBVIOUS
<1> USE DEF DeviceInv, DeviceTypeOK, RecordsLoopback
<1>1. CASE DevicesChange
  <2>1. devices' \in Seq(Device)
    <3>1. CASE devices # <<>> /\ devices' = Tail(devices) BY <3>1
    <3>2. CASE \E d \in Device : Len(devices) < MaxDevices /\ devices' = <<d>> \o devices
      BY <3>2
    <3> QED BY <1>1, <3>1, <3>2 DEF DevicesChange
  <2>2. usual' \in Nat BY <1>1, <2>1 DEF DevicesChange
  <2> QED BY <1>1, <2>1, <2>2 DEF DevicesChange
<1>2. CASE Select BY <1>2 DEF Select, Loopbacks
<1>3. CASE StartRecording
  <2>1. PICK i \in Loopbacks : recording' = devices[i]
    BY <1>3 DEF StartRecording, Recorded
  <2>2. recording' \in Device /\ recording'.kind = "loopback" BY <2>1 DEF Loopbacks
  <2> QED BY <1>3, <2>2 DEF StartRecording
<1>4. CASE RecordEnds BY <1>4 DEF RecordEnds
<1>5. CASE FindOutput
  <2>1. Outputs \subseteq Nat BY DEF Outputs
  <2>2. FoundOutputs \subseteq Nat BY <2>1 DEF FoundOutputs
  <2> QED BY <1>5, <2>2 DEF FindOutput
<1>6. CASE OpenOutput
  <2>1. output \in Outputs => devices[output] \in Device
                              /\ devices[output].kind \in {"speaker", "duplex"}
    BY DEF Outputs
  <2> QED BY <1>6, <2>1 DEF OpenOutput
<1>7. CASE OutputCloses BY <1>7 DEF OutputCloses
<1>8. CASE UNCHANGED deviceVars BY <1>8 DEF deviceVars
<1> QED BY <1>1, <1>2, <1>3, <1>4, <1>5, <1>6, <1>7, <1>8 DEF DeviceNext

-----------------------------------------------------------------------------
(* The address of a share (AdapterSelection).                              *)

\* The category of an adapter is the first of its names', and its type's only without one.
LEMMA CategoryOfNames ==
  ASSUME NEW a \in Adapter, Category(a) \in Physical
  PROVE  ~LoopsBack(a) /\ a.names = {} /\ a.type \in Physical /\ Category(a) = a.type
<1>1. ~LoopsBack(a) BY DEF Category, Physical
<1>2. Names(a) \subseteq Patterns BY DEF Names, Adapter, Patterns
<1>3. Names(a) = {}
  <2> SUFFICES ASSUME Names(a) # {} PROVE FALSE
    OBVIOUS
  <2>1. \E n \in Names(a) : \A m \in Names(a) : Order[n] <= Order[m]
    <3>1. CASE "mesh" \in Names(a) BY <1>2, <3>1 DEF Order, Patterns
    <3>2. CASE "mesh" \notin Names(a) /\ "container" \in Names(a)
      BY <1>2, <3>2 DEF Order, Patterns
    <3>3. CASE "mesh" \notin Names(a) /\ "container" \notin Names(a) /\ "hypervisor" \in Names(a)
      BY <1>2, <3>3 DEF Order, Patterns
    <3>4. CASE Names(a) = {"vpn"} BY <3>4 DEF Order
    <3> QED BY <1>2, <3>1, <3>2, <3>3, <3>4 DEF Patterns
  <2>2. Category(a) \in Names(a) BY <1>1, <2>1 DEF Category
  <2> QED BY <1>2, <2>2 DEF Patterns, Physical
<1>4. a.names = {} BY <1>3 DEF Names
<1>5. a.type \in Physical BY <1>1, <1>3 DEF Category, Physical
<1> QED BY <1>1, <1>3, <1>4, <1>5 DEF Category

LEMMA PreferredOnLan ==
  ASSUME NEW a \in Adapter
  PROVE  Preferred(a) <=> OnLan(a)
<1>1. Preferred(a) => OnLan(a) BY CategoryOfNames DEF Preferred, OnLan
<1>2. ASSUME OnLan(a) PROVE Category(a) = a.type
  <2>1. Names(a) = {} BY <1>2 DEF OnLan, Names, Physical
  <2> QED BY <1>2, <2>1 DEF OnLan, Category
<1> QED BY <1>1, <1>2 DEF Preferred, OnLan

\* A wired adapter of known speed scores above every Wi-Fi.
LEMMA WiredScores ==
  ASSUME NEW a \in Adapter, NEW b \in Adapter, OnLan(a), a.type = "wifi", Wired(b)
  PROVE  AdapterScore(b) > AdapterScore(a)
<1>1. OnLan(b) /\ b.type = "ethernet" /\ b.speed > 0 BY DEF Wired
<1>2. Category(a) = "wifi" /\ Category(b) = "ethernet"
  BY <1>1, PreferredOnLan, CategoryOfNames DEF Preferred
<1>3. a.speed \in Nat /\ b.speed \in Nat BY DEF Adapter
<1>4. Speed(a) \in 0..100 /\ Speed(b) \in 1..100 BY <1>1, <1>2, <1>3 DEF Speed, Physical
<1>5. AdapterScore(a) = 900 + 50 + Speed(a) + 100
  BY <1>2, <1>4 DEF AdapterScore, Base, OnLan
<1>6. AdapterScore(b) = 1000 + 50 + Speed(b) + 100
  BY <1>1, <1>2, <1>4 DEF AdapterScore, Base, OnLan
<1> QED BY <1>4, <1>5, <1>6

LEMMA BestOnLan ==
  ASSUME AdapterTypeOK, NEW i \in Best, NEW h \in FirstLan(nics[i])
  PROVE  RightAddress(h)
<1>1. \A k \in DOMAIN nics : nics[k] \in Adapter BY DEF AdapterTypeOK
<1>2. i \in DOMAIN nics /\ Preferred(nics[i]) BY DEF Best, Candidates
<1>3. OnLan(nics[i]) BY <1>1, <1>2, PreferredOnLan
<1>4. h \in LanHosts(nics[i]) BY DEF FirstLan, LanHosts, Hosts
<1>5. ASSUME nics[i].type = "wifi", NEW j \in DOMAIN nics, Wired(nics[j])
      PROVE  FALSE
  <2>1. j \in Candidates BY <1>1, <1>5, PreferredOnLan DEF Candidates, Wired
  <2>2. ScoreOf(i) > ScoreOf(j) \/ ScoreOf(i) = ScoreOf(j) BY <2>1 DEF Best, Before
  <2>3. ScoreOf(j) > ScoreOf(i) BY <1>1, <1>2, <1>3, <1>5, WiredScores DEF ScoreOf
  <2>4. ScoreOf(i) \in Int /\ ScoreOf(j) \in Int
    <3>1. \A a \in Adapter : Speed(a) \in Int BY DEF Speed, Adapter
    <3>2. Category(nics[i]) \in Physical /\ Category(nics[j]) \in Physical
      BY <1>2, <2>1 DEF Candidates, Preferred
    <3> HIDE DEF Speed
    <3> QED BY <1>1, <1>2, <1>5, <3>1, <3>2 DEF ScoreOf, AdapterScore, Base, Physical
  <2> QED BY <2>2, <2>3, <2>4
<1> QED BY <1>2, <1>3, <1>4, <1>5 DEF RightAddress

LEMMA AdapterRight == AdapterTypeOK /\ AdapterNext => AddressRight
<1> SUFFICES ASSUME AdapterTypeOK, AdapterNext PROVE AddressRight
  OBVIOUS
<1>1. CASE Resolve
  <2>1. chosen = "auto" => RightAddress(address') BY <1>1, BestOnLan DEF Resolve
  <2> QED BY <1>1, <2>1 DEF Resolve, AddressRight
<1>2. CASE Validate BY <1>2 DEF Validate, AddressRight
<1>3. CASE AdaptersChange \/ AddressGone \/ ShareLeaves
  BY <1>3 DEF AdaptersChange, AddressGone, ShareLeaves, AddressRight
<1> QED BY <1>1, <1>2, <1>3 DEF AdapterNext

LEMMA UsualAdapter ==
  ASSUME NEW type \in {"wifi", "ethernet"}, NEW speed \in Nat
  PROVE  Usual(type, speed) \in Adapter
<1>1. <<"lan">> \in Seq(Addresses) BY DEF Addresses, Private
<1> QED BY <1>1 DEF Usual, Adapter, Types, Patterns

LEMMA SomeAdapters == Some \subseteq Adapter
<1> SUFFICES ASSUME NEW a \in Some PROVE a \in Adapter
  OBVIOUS
<1>1. a.names \in {{}, {"mesh"}, {"vpn"}, {"container", "hypervisor"}} BY DEF Some
<1>2. a.names \in SUBSET Patterns BY <1>1 DEF Patterns
<1>3. a.hosts \in {<<>>, <<"public", "lan2">>, <<"mesh">>, <<"loopback">>} BY DEF Some
<1>4. a.hosts \in Seq(Addresses)
  <2>1. <<>> \in Seq(Addresses) /\ <<"public", "lan2">> \in Seq(Addresses)
    BY DEF Addresses, Private
  <2>2. <<"mesh">> \in Seq(Addresses) /\ <<"loopback">> \in Seq(Addresses)
    BY DEF Addresses, Private
  <2> QED BY <1>3, <2>1, <2>2
<1>5. a.type \in Types /\ a.up \in BOOLEAN /\ a.speed \in Nat BY DEF Some
<1>6. a = [type |-> a.type, names |-> a.names, up |-> a.up, speed |-> a.speed, hosts |-> a.hosts]
  BY DEF Some
<1> QED BY <1>2, <1>4, <1>5, <1>6 DEF Adapter

LEMMA AdapterStart == AdapterInit => AdapterTypeOK
<1> SUFFICES ASSUME AdapterInit PROVE AdapterTypeOK
  OBVIOUS
<1>1. nics \in Seq(Adapter)
  <2>1. \A speed \in Nat : Usual("wifi", speed) \in Adapter /\ Usual("ethernet", speed) \in Adapter
    BY UsualAdapter
  <2>2. CASE nics \in {<<Usual("wifi", 300), Usual("ethernet", speed)>> : speed \in {0, 50}}
    <3>1. PICK speed \in {0, 50} : nics = <<Usual("wifi", 300), Usual("ethernet", speed)>>
      BY <2>2
    <3>2. Usual("wifi", 300) \in Adapter /\ Usual("ethernet", speed) \in Adapter BY <2>1
    <3> QED BY <3>1, <3>2
  <2>3. CASE \E a \in Some : nics \in {<<a>>, <<a, Usual("wifi", 300)>>, <<Usual("ethernet", 1000), a>>}
    BY <2>1, <2>3, SomeAdapters
  <2> QED BY <2>2, <2>3 DEF AdapterInit, Machines
<1>2. chosen \in Addresses \cup {"auto"} BY DEF AdapterInit, Addresses, Private
<1> QED BY <1>1, <1>2 DEF AdapterInit, AdapterTypeOK

LEMMA AdapterStep == AdapterTypeOK /\ [AdapterNext]_adapterVars => AdapterTypeOK'
<1> SUFFICES ASSUME AdapterTypeOK, [AdapterNext]_adapterVars PROVE AdapterTypeOK'
  OBVIOUS
<1> USE DEF AdapterTypeOK
<1>1. CASE AdaptersChange
  <2>1. \A i \in DOMAIN nics : nics[i] \in Adapter /\ i \in 1..Len(nics)
    OBVIOUS
  <2>2. ASSUME NEW i \in DOMAIN nics, NEW a \in Adapter
        PROVE  [nics EXCEPT ![i] = a] \in Seq(Adapter)
    BY <2>1, <2>2, ExceptSeq
  <2>3. <<>> \in Seq(Addresses) /\ <<"lan2">> \in Seq(Addresses) BY DEF Addresses, Private
  <2>4. \A a \in Adapter : /\ [a EXCEPT !.up = ~@] \in Adapter
                           /\ \A h \in Seq(Addresses) : [a EXCEPT !.hosts = h] \in Adapter
    BY DEF Adapter
  <2>5. PICK i \in DOMAIN nics :
          \/ nics' = [nics EXCEPT ![i].up = ~@]
          \/ \E h \in {<<>>, <<"lan2">>} : nics' = [nics EXCEPT ![i].hosts = h]
    BY <1>1 DEF AdaptersChange
  <2>6. \E a \in Adapter : nics' = [nics EXCEPT ![i] = a]
    <3>1. CASE nics' = [nics EXCEPT ![i].up = ~@]
      <4>1. nics' = [nics EXCEPT ![i] = [nics[i] EXCEPT !.up = ~@]] BY <3>1
      <4> QED BY <2>1, <2>4, <4>1
    <3>2. CASE \E h \in {<<>>, <<"lan2">>} : nics' = [nics EXCEPT ![i].hosts = h]
      <4>1. PICK h \in {<<>>, <<"lan2">>} : nics' = [nics EXCEPT ![i].hosts = h] BY <3>2
      <4>2. h \in Seq(Addresses) BY <2>3
      <4>3. nics' = [nics EXCEPT ![i] = [nics[i] EXCEPT !.hosts = h]] BY <4>1
      <4> QED BY <2>1, <2>4, <4>2, <4>3
    <3> QED BY <2>5, <3>1, <3>2
  <2>7. nics' \in Seq(Adapter) BY <2>2, <2>6
  <2> QED BY <1>1, <2>7 DEF AdaptersChange
<1>2. CASE Resolve
  <2>1. \A i \in Best : FirstLan(nics[i]) \subseteq Addresses BY DEF FirstLan, Addresses
  <2> QED BY <1>2, <2>1 DEF Resolve
<1>3. CASE Validate \/ AddressGone \/ ShareLeaves
  BY <1>3 DEF Validate, AddressGone, ShareLeaves
<1>4. CASE UNCHANGED adapterVars BY <1>4 DEF adapterVars
<1> QED BY <1>1, <1>2, <1>3, <1>4 DEF AdapterNext

-----------------------------------------------------------------------------
(* The main window and its history (AppShell).                             *)

Signals(s) == {i \in DOMAIN queue : queue[i].of = s}
Past(s) == life[s] = "done" /\ Signals(s) = {}

\* A session has a role from its start to the end of the program, and a fate from its end.
Lives ==
  \A s \in Sessions :
    /\ life[s] = "none" <=> role[s] = "none"
    /\ life[s] \in {"none", "on"} <=> fate[s] = "none"

\* The last signals of a session: failed, if it has failed, and finished.
Tells(i, s) ==
  /\ life[s] # "none"
  /\ queue[i].kind = "frame" => role[s] = "view"
  /\ queue[i].kind = "failed" => fate[s] = "failed"
  /\ queue[i].kind = "finished" => life[s] = "done" /\ \A j \in Signals(s) : j <= i
  /\ queue[i].kind # "finished" /\ life[s] = "done"
       => \E j \in Signals(s) : j > i /\ queue[j].kind = "finished"
  /\ queue[i].kind \in {"state", "frame"} /\ fate[s] = "failed"
       => \E j \in Signals(s) : j > i /\ queue[j].kind = "failed"
Told == \A i \in DOMAIN queue, s \in Sessions : queue[i].of = s => Tells(i, s)

\* The strengthening of WindowsFollow needs nothing of the history ...
Follows ==
  /\ \A r \in Roles : r \in windows => (r = "view" /\ stray) \/ ~Quiet(r)
  /\ ~offers => ~Quiet("share")

\* ... and that of HistoryTrue nothing of the windows: of the roles whose sessions have not
\* overlapped, one session is there at a time,
Single ==
  \A r \in Roles \ mixed : \A s, t \in Sessions :
    role[s] = r /\ role[t] = r /\ s # t => Past(s) \/ Past(t)

\* the entry that is followed is that of the session whose end is not yet handled,
Followed ==
  \A r \in Roles : active[r] # NoEntry =>
    /\ active[r].outcome = "connected" /\ role[active[r].of] = r
    /\ r \notin mixed =>
         /\ ~Past(active[r].of)
         /\ fate[active[r].of] = "failed"
              => \E i \in Signals(active[r].of) : queue[i].kind = "failed"

\* and an entry that is ended is that of a session whose fate is known.
Fate(s) == IF fate[s] = "failed" THEN "failed" ELSE Outcome(s)
Entered ==
  /\ history # <<>> /\ history[1].outcome = "connected" =>
       history[1].of \in earlier \/ \E r \in Roles : active[r] = history[1]
  /\ \A i \in DOMAIN history : LET s == history[i].of IN
       /\ role[s] # "none"
       /\ history[i].outcome # "connected" /\ role[s] \notin mixed =>
            fate[s] # "none" /\ history[i].outcome = Fate(s)

ShellInv == ShellTypeOK /\ Lives /\ Told /\ Follows /\ Single /\ Followed /\ Entered

LEMMA ShellStart == ShellInit => ShellInv
<1> SUFFICES ASSUME ShellInit PROVE ShellInv
  OBVIOUS
<1> USE DEF ShellInit
<1>1. ShellTypeOK
  <2>1. active \in [Roles -> Entry \cup {NoEntry}]
    OBVIOUS
  <2>2. queue \in Seq(Signal) /\ history \in Seq(Entry)
    OBVIOUS
  <2> QED BY <2>1, <2>2 DEF ShellTypeOK
<1>2. Lives /\ Told /\ Follows /\ Single BY DEF Lives, Told, Follows, Single, Roles, Sessions
<1>3. Followed /\ Entered BY DEF Followed, Entered
<1> QED BY <1>1, <1>2, <1>3 DEF ShellInv

LEMMA ShellInvShows == ShellInv => WindowsFollow /\ HistoryTrue
<1> SUFFICES ASSUME ShellInv PROVE WindowsFollow /\ HistoryTrue
  OBVIOUS
<1>1. WindowsFollow
  BY DEF ShellInv, Follows, WindowsFollow, Roles
<1>2. HistoryTrue BY DEF ShellInv, Entered, HistoryTrue, Fate
<1> QED BY <1>1, <1>2

-----------------------------------------------------------------------------
(* What the actions do to the queue.                                       *)

Kind == {"state", "frame", "failed", "finished"}

LEMMA QueueGrows ==
  ASSUME ShellTypeOK, NEW s \in Sessions, NEW k \in Kind, Emit(s, <<k>>)
  PROVE  /\ queue' \in Seq(Signal) /\ Len(queue') = Len(queue) + 1
         /\ \A i \in 1..Len(queue) : queue'[i] = queue[i]
         /\ queue'[Len(queue) + 1] = [of |-> s, kind |-> k]
<1> DEFINE new == [i \in DOMAIN <<k>> |-> [of |-> s, kind |-> <<k>>[i]]]
<1>1. new \in Seq(Signal) /\ Len(new) = 1 /\ new[1] = [of |-> s, kind |-> k]
  BY DEF Signal, Kind
<1>2. queue' = queue \o new BY DEF Emit
<1>3. queue \in Seq(Signal) BY DEF ShellTypeOK
<1> HIDE DEF new
<1>5. Len(queue) \in Nat BY <1>3
<1>0. /\ Len(queue \o new) = Len(queue) + Len(new)
      /\ \A i \in 1..(Len(queue) + Len(new)) :
           (queue \o new)[i] = IF i <= Len(queue) THEN queue[i] ELSE new[i - Len(queue)]
  BY <1>1, <1>3, ConcatProperties, Zenon
<1>4. /\ Len(queue') = Len(queue) + 1
      /\ \A i \in 1..(Len(queue) + 1) : queue'[i] = IF i <= Len(queue) THEN queue[i]
                                                      ELSE new[i - Len(queue)]
  BY <1>0, <1>1, <1>2
<1>6. \A i \in 1..Len(queue) : queue'[i] = queue[i] BY <1>4, <1>5
<1>7. queue'[Len(queue) + 1] = new[1] BY <1>4, <1>5
<1>8. queue' \in Seq(Signal) BY <1>1, <1>2, <1>3, ConcatProperties
<1> QED BY <1>1, <1>4, <1>6, <1>7, <1>8

LEMMA QueueStays ==
  ASSUME ShellTypeOK, NEW s \in Sessions, Emit(s, <<>>)
  PROVE  queue' = queue
<1> DEFINE new == [i \in DOMAIN <<>> |-> [of |-> s, kind |-> <<>>[i]]]
<1>1. new = <<>>
  OBVIOUS
<1>2. queue' = queue \o new BY DEF Emit
<1>3. queue \in Seq(Signal) BY DEF ShellTypeOK
<1> HIDE DEF new
<1> QED BY <1>1, <1>2, <1>3

LEMMA QueueMoves ==
  ASSUME ShellTypeOK, Handle
  PROVE  /\ queue' \in Seq(Signal) /\ queue \in Seq(Signal)
         /\ Len(queue) > 0 /\ Len(queue') = Len(queue) - 1
         /\ \A i \in 1..Len(queue') : queue'[i] = queue[i + 1]
         /\ \A i \in 2..Len(queue) : i - 1 \in 1..Len(queue') /\ queue'[i - 1] = queue[i]
         /\ Head(queue) = queue[1]
<1>1. queue \in Seq(Signal) /\ queue # <<>> /\ queue' = Tail(queue) BY DEF ShellTypeOK, Handle
<1>2. Len(queue) > 0 /\ Len(queue') = Len(queue) - 1 /\ queue' \in Seq(Signal) BY <1>1
<1>3. \A i \in 1..Len(queue') : queue'[i] = queue[i + 1] BY <1>1
<1>4. ASSUME NEW i \in 2..Len(queue)
      PROVE  i - 1 \in 1..Len(queue') /\ queue'[i - 1] = queue[i]
  <2>1. i - 1 \in 1..Len(queue') BY <1>1, <1>2
  <2>2. queue'[i - 1] = queue[(i - 1) + 1] BY <1>3, <2>1
  <2> QED BY <2>1, <2>2
<1>5. Head(queue) = queue[1] BY <1>1
<1> QED BY <1>1, <1>2, <1>3, <1>4, <1>5

\* What a session's thread does when it emits a signal.
Emits(s, k) ==
  /\ Emit(s, <<k>>) /\ life[s] \in {"on", "over"}
  /\ life' \in [Sessions -> {"none", "on", "over", "done"}]
  /\ fate' \in [Sessions -> {"none", "ended", "erred", "failed"}]
  /\ \A t \in Sessions \ {s} : life'[t] = life[t] /\ fate'[t] = fate[t]
  /\ life'[s] # "none" /\ (life'[s] = "on" <=> fate'[s] = "none")
  /\ k = "finished" <=> life'[s] = "done"
  /\ k = "frame" => role[s] = "view"
  /\ k = "failed" => fate'[s] = "failed"
  /\ k \in {"state", "frame"} => fate'[s] # "failed"
  /\ fate'[s] = "failed" => k = "failed" \/ fate[s] = "failed"
  /\ fate[s] # "none" => fate'[s] = fate[s]

\* And when it ends without one.
EndsWell(s) ==
  /\ queue' = queue /\ life[s] = "on" /\ life' = [life EXCEPT ![s] = "over"]
  /\ \E f \in {"ended", "erred"} : fate' = [fate EXCEPT ![s] = f]
  /\ UNCHANGED <<shell, earlier, role, windows, active, history, offers, stray, mixed>>

LEMMA ThreadActs ==
  ASSUME ShellTypeOK, Lives, NEW s \in Sessions, SessionThread(s)
  PROVE  (\E k \in Kind : Emits(s, k)) \/ EndsWell(s)
<1> USE DEF ShellTypeOK, Kind
<1>0. life[s] \in {"none", "on"} <=> fate[s] = "none" BY DEF Lives
<1>1. CASE ShowsPhase(s)
  <2>1. Emits(s, "state") BY <1>0, <1>1 DEF ShowsPhase, Emits
  <2> QED BY <2>1
<1>2. CASE ShowsFrame(s)
  <2>1. Emits(s, "frame") BY <1>0, <1>2 DEF ShowsFrame, Emits
  <2> QED BY <2>1
<1>3. CASE SessionEnds(s)
  <2>1. life[s] = "on" /\ life' = [life EXCEPT ![s] = "over"] BY <1>3 DEF SessionEnds
  <2>2. CASE fate' = [fate EXCEPT ![s] = "failed"] /\ Emit(s, <<"failed">>)
    <3>1. Emits(s, "failed") BY <1>0, <2>1, <2>2 DEF Emits
    <3> QED BY <3>1
  <2>3. CASE (\E f \in {"ended", "erred"} : fate' = [fate EXCEPT ![s] = f]) /\ Emit(s, <<>>)
    <3>1. queue' = queue BY <2>3, QueueStays
    <3>2. UNCHANGED <<shell, earlier, role, windows, active, history, offers, stray, mixed>>
      BY <2>3 DEF Emit
    <3> QED BY <2>1, <2>3, <3>1, <3>2 DEF EndsWell
  <2> QED BY <1>3, <2>2, <2>3 DEF SessionEnds
<1>4. CASE Finishes(s)
  <2>1. Emits(s, "finished") BY <1>0, <1>4 DEF Finishes, Emits
  <2> QED BY <2>1
<1> QED BY <1>1, <1>2, <1>3, <1>4 DEF SessionThread

-----------------------------------------------------------------------------
(* The session's thread keeps the invariant.                               *)

LEMMA EmitsKeepTold ==
  ASSUME ShellTypeOK, Told, NEW s \in Sessions, NEW k \in Kind, Emits(s, k)
  PROVE  Told'
<1> USE DEF Kind
<1>0. queue \in Seq(Signal) BY DEF ShellTypeOK
<1>n. PICK n \in Nat : n = Len(queue) BY <1>0
<1>1. n \in Nat /\ DOMAIN queue = 1..n BY <1>0, <1>n
<1>2. /\ queue' \in Seq(Signal) /\ DOMAIN queue' = 1..(n + 1)
      /\ \A i \in 1..n : queue'[i] = queue[i]
      /\ queue'[n + 1] = [of |-> s, kind |-> k]
  <2>1. Emit(s, <<k>>) BY DEF Emits
  <2>2. /\ queue' \in Seq(Signal) /\ Len(queue') = n + 1
        /\ \A i \in 1..n : queue'[i] = queue[i]
        /\ queue'[n + 1] = [of |-> s, kind |-> k]
    BY <1>n, <2>1, QueueGrows
  <2> QED BY <2>2
<1>3. UNCHANGED role BY DEF Emits, Emit
<1>4. ASSUME NEW i \in 1..n, NEW t \in Sessions, t = queue[i].of
      PROVE  Tells(i, t)'
  <2>1. queue'[i] = queue[i] BY <1>2
  <2>2. Signals(t) \subseteq Signals(t)' /\ \A j \in Signals(t) : queue'[j] = queue[j]
    BY <1>1, <1>2 DEF Signals
  <2>3. Tells(i, t) BY <1>1, <1>4 DEF Told
  <2>4. CASE t # s
    <3>1. life'[t] = life[t] /\ fate'[t] = fate[t] BY <2>4 DEF Emits
    <3>2. Signals(t)' = Signals(t) BY <1>1, <1>2, <2>4 DEF Signals
    <3> QED BY <1>3, <2>1, <2>2, <2>3, <3>1, <3>2 DEF Tells
  <2>5. CASE t = s
    <3>1. life[s] # "done" /\ life'[s] # "none" BY DEF Emits
    <3>2. life'[s] = "done" => k = "finished" BY DEF Emits
    <3>3. fate'[s] = "failed" => k = "failed" \/ fate[s] = "failed" BY DEF Emits
    <3>4. fate[s] = "failed" => fate'[s] = "failed" BY DEF Emits
    <3>5. queue[i].kind # "finished" BY <2>3, <2>5, <3>1 DEF Tells
    <3>6. n + 1 \in Signals(s)' /\ n + 1 > i /\ queue'[n + 1].kind = k
      BY <1>1, <1>2 DEF Signals
    <3> QED BY <1>3, <2>1, <2>2, <2>3, <2>5, <3>1, <3>2, <3>3, <3>4, <3>5, <3>6 DEF Tells
  <2> QED BY <2>4, <2>5
<1>5. Tells(n + 1, s)'
  <2>1. queue'[n + 1].kind = k BY <1>2
  <2>2. \A j \in Signals(s)' : j <= n + 1 BY <1>1, <1>2 DEF Signals
  <2>3. /\ life'[s] # "none" /\ (k = "finished" <=> life'[s] = "done")
        /\ k = "frame" => role[s] = "view"
        /\ k = "failed" => fate'[s] = "failed"
        /\ k \in {"state", "frame"} => fate'[s] # "failed"
    BY DEF Emits
  <2> QED BY <1>3, <2>1, <2>2, <2>3 DEF Tells
<1>6. ASSUME NEW i \in DOMAIN queue', NEW t \in Sessions, queue'[i].of = t PROVE Tells(i, t)'
  <2>1. CASE i \in 1..n BY <1>2, <1>4, <1>6, <2>1
  <2>2. CASE i = n + 1 BY <1>2, <1>5, <1>6, <2>2
  <2> QED BY <1>1, <1>2, <2>1, <2>2
<1> QED BY <1>6 DEF Told

LEMMA EmitsKeepRest ==
  ASSUME ShellTypeOK, Lives, Told, Follows, Single, Followed, Entered,
         NEW s \in Sessions, NEW k \in Kind, Emits(s, k)
  PROVE  ShellTypeOK' /\ Lives' /\ Follows' /\ Single' /\ Followed' /\ Entered'
<1> USE DEF Kind
<1>0. queue \in Seq(Signal) BY DEF ShellTypeOK
<1>n. PICK n \in Nat : n = Len(queue) BY <1>0
<1>1. n \in Nat /\ DOMAIN queue = 1..n BY <1>0, <1>n
<1>2. /\ queue' \in Seq(Signal) /\ DOMAIN queue' = 1..(n + 1)
      /\ \A i \in 1..n : queue'[i] = queue[i]
      /\ queue'[n + 1] = [of |-> s, kind |-> k]
  <2>1. Emit(s, <<k>>) BY DEF Emits
  <2>2. /\ queue' \in Seq(Signal) /\ Len(queue') = n + 1
        /\ \A i \in 1..n : queue'[i] = queue[i]
        /\ queue'[n + 1] = [of |-> s, kind |-> k]
    BY <1>n, <2>1, QueueGrows
  <2> QED BY <2>2
<1>3. UNCHANGED <<shell, earlier, role, windows, active, history, offers, stray, mixed>>
  BY DEF Emits, Emit
<1>4. ShellTypeOK' BY <1>2, <1>3 DEF ShellTypeOK, Emits
<1>5. Lives'
  <2> SUFFICES ASSUME NEW t \in Sessions
               PROVE  /\ life'[t] = "none" <=> role'[t] = "none"
                      /\ life'[t] \in {"none", "on"} <=> fate'[t] = "none"
    BY DEF Lives
  <2>1. CASE t = s BY <1>3, <2>1 DEF Lives, Emits
  <2>2. CASE t # s BY <1>3, <2>2 DEF Lives, Emits
  <2> QED BY <2>1, <2>2
<1>6. \A t \in Sessions :
        /\ Signals(t) \subseteq Signals(t)' /\ \A j \in Signals(t) : queue'[j] = queue[j]
        /\ t # s => Signals(t)' = Signals(t)
  BY <1>1, <1>2 DEF Signals
<1>7. n + 1 \in Signals(s)' BY <1>1, <1>2 DEF Signals
<1>8. \A t \in Sessions : Past(t) => Past(t)' BY <1>6 DEF Past, Emits
<1>9. \A t \in Sessions : Past(t)' => Past(t) BY <1>6, <1>7 DEF Past, Emits
<1>10. \A r \in Roles : Quiet(r)' => Quiet(r)
  <2> SUFFICES ASSUME NEW r \in Roles, ~Quiet(r), Quiet(r)' PROVE FALSE
    OBVIOUS
  <2>1. ~Queued(r) BY <1>1, <1>2, <1>3 DEF Quiet, Queued
  <2>2. PICK t \in Sessions : role[t] = r /\ life[t] # "done" BY <2>1 DEF Quiet
  <2>3. life'[t] = "done" BY <1>3, <2>2 DEF Quiet
  <2>4. t = s BY <2>2, <2>3 DEF Emits
  <2>5. Queued(r)' BY <1>2, <1>3, <1>1, <2>2, <2>4 DEF Queued
  <2> QED BY <2>5 DEF Quiet
<1>11. Follows' BY <1>3, <1>10 DEF Follows, Roles
<1>12. Single' BY <1>3, <1>8 DEF Single
<1>13. Followed'
  <2> SUFFICES ASSUME NEW r \in Roles, active[r] # NoEntry, r \notin mixed
               PROVE  /\ ~Past(active[r].of)'
                      /\ fate'[active[r].of] = "failed"
                           => \E i \in Signals(active[r].of)' : queue'[i].kind = "failed"
    BY <1>3 DEF Followed
  <2>0. active[r].of \in Sessions BY DEF ShellTypeOK, Entry
  <2>1. PICK t \in Sessions : t = active[r].of BY <2>0
  <2>2. /\ ~Past(t)
        /\ fate[t] = "failed" => \E i \in Signals(t) : queue[i].kind = "failed"
    BY <2>1 DEF Followed
  <2>3. ~Past(t)' BY <1>9, <2>1, <2>2
  <2>4. fate'[t] = "failed" => fate[t] = "failed" \/ (t = s /\ k = "failed")
    BY <2>1 DEF Emits
  <2>5. fate'[t] = "failed" => \E i \in Signals(t)' : queue'[i].kind = "failed"
    BY <1>2, <1>6, <1>7, <2>1, <2>2, <2>4
  <2> QED BY <1>3, <2>1, <2>3, <2>5
<1>14. Entered'
  <2> SUFFICES ASSUME NEW i \in DOMAIN history, NEW t \in Sessions,
                      t = history[i].of
               PROVE  /\ role[t] # "none"
                      /\ history[i].outcome # "connected" /\ role[t] \notin mixed =>
                           fate'[t] # "none" /\ history[i].outcome = Fate(t)'
    <3>1. history \in Seq(Entry) BY DEF ShellTypeOK
    <3>2. \A j \in DOMAIN history : history[j] \in Entry BY <3>1
    <3>3. \A j \in DOMAIN history : history[j].of \in Sessions BY <3>2 DEF Entry
    <3> QED BY <1>3, <3>3 DEF Entered
  <2>1. \A u \in Sessions : fate[u] # "none" => fate'[u] = fate[u] BY DEF Emits
  <2>2. \A u \in Sessions : fate[u] # "none" => Fate(u)' = Fate(u)
    BY <1>3, <2>1 DEF Fate, Outcome
  <2>3. /\ role[t] # "none"
        /\ history[i].outcome # "connected" /\ role[t] \notin mixed =>
             fate[t] # "none" /\ history[i].outcome = Fate(t)
    BY DEF Entered
  <2> QED BY <2>1, <2>2, <2>3
<1> QED BY <1>4, <1>5, <1>11, <1>12, <1>13, <1>14

LEMMA EndsWellKeeps == ASSUME ShellInv, NEW s \in Sessions, EndsWell(s) PROVE ShellInv'
<1> USE DEF ShellInv
<1>1. /\ queue' = queue /\ life[s] = "on"
      /\ UNCHANGED <<shell, earlier, role, windows, active, history, offers, stray, mixed>>
  BY DEF EndsWell
<1>2. /\ life' \in [Sessions -> {"none", "on", "over", "done"}]
      /\ fate' \in [Sessions -> {"none", "ended", "erred", "failed"}]
      /\ life'[s] = "over" /\ fate'[s] \notin {"none", "failed"} /\ fate[s] = "none"
      /\ \A t \in Sessions \ {s} : life'[t] = life[t] /\ fate'[t] = fate[t]
  BY DEF EndsWell, ShellTypeOK, Lives
<1>3. ShellTypeOK' BY <1>1, <1>2 DEF ShellTypeOK
<1>4. Lives' BY <1>1, <1>2 DEF Lives
<1>5. \A t \in Sessions : Signals(t)' = Signals(t) /\ Past(t)' = Past(t)
  BY <1>1, <1>2 DEF Signals, Past
<1>7. Told' BY <1>1, <1>2, <1>5 DEF Told, Tells
<1>8. \A r \in Roles : Quiet(r)' = Quiet(r) BY <1>1, <1>2 DEF Quiet, Queued
<1>9. Follows' BY <1>1, <1>8 DEF Follows, Roles
<1>10. Single' BY <1>1, <1>5 DEF Single
<1>11. \A r \in Roles : active[r] # NoEntry => active[r].of \in Sessions
  BY DEF ShellTypeOK, Entry
<1>12. Followed' BY <1>1, <1>2, <1>5, <1>11 DEF Followed
<1>13. \A i \in DOMAIN history : history[i].of \in Sessions
  <2>1. history \in Seq(Entry) BY DEF ShellTypeOK
  <2>2. \A i \in DOMAIN history : history[i] \in Entry BY <2>1
  <2> QED BY <2>2 DEF Entry
<1>14. \A t \in Sessions : fate[t] # "none" => fate'[t] = fate[t] /\ Fate(t)' = Fate(t)
  BY <1>1, <1>2 DEF Fate, Outcome
<1>15. Entered' BY <1>1, <1>13, <1>14 DEF Entered
<1> QED BY <1>3, <1>4, <1>7, <1>9, <1>10, <1>12, <1>15

-----------------------------------------------------------------------------
(* The user keeps it.                                                      *)

\* A session that begins, whatever becomes of the windows and of Home.
Began(r, s) ==
  /\ life[s] = "none" /\ role' = [role EXCEPT ![s] = r] /\ life' = [life EXCEPT ![s] = "on"]
  /\ mixed' = (IF Quiet(r) THEN mixed ELSE mixed \cup {r})
  /\ UNCHANGED <<shell, earlier, fate, queue, active, history>>

LEMMA BeginKeeps ==
  ASSUME ShellInv, NEW r \in Roles, NEW s \in Sessions, Began(r, s)
  PROVE  /\ Lives' /\ Told' /\ Single' /\ Followed' /\ Entered' /\ ~Quiet(r)'
         /\ \A q \in Roles \ {r} : Quiet(q)' => Quiet(q)
         /\ role' \in [Sessions -> Roles \cup {"none"}] /\ mixed' \subseteq Roles
         /\ life' \in [Sessions -> {"none", "on", "over", "done"}]
<1> USE DEF ShellInv
<1>1. /\ life[s] = "none" /\ role[s] = "none" /\ fate[s] = "none"
      /\ UNCHANGED <<shell, earlier, fate, queue, active, history>>
      /\ mixed \subseteq mixed' /\ mixed' \subseteq Roles
      /\ r \notin mixed' => Quiet(r)
  BY DEF Began, Lives, ShellTypeOK
<1>2. /\ role' \in [Sessions -> Roles \cup {"none"}]
      /\ life' \in [Sessions -> {"none", "on", "over", "done"}]
      /\ role'[s] = r /\ life'[s] = "on"
      /\ \A t \in Sessions \ {s} : role'[t] = role[t] /\ life'[t] = life[t]
  BY DEF Began, ShellTypeOK
<1>3. Lives' BY <1>1, <1>2 DEF Lives, Roles
<1>4. \A t \in Sessions : Signals(t)' = Signals(t) BY <1>1 DEF Signals
<1>5. \A i \in DOMAIN queue : queue[i].of \in Sessions /\ queue[i].of # s
  <2>1. queue \in Seq(Signal) BY DEF ShellTypeOK
  <2>2. \A i \in DOMAIN queue : queue[i] \in Signal BY <2>1
  <2>3. \A i \in DOMAIN queue : queue[i].of \in Sessions BY <2>2 DEF Signal
  <2> QED BY <1>1, <2>3 DEF Told, Tells
<1>6. Told'
  <2> SUFFICES ASSUME NEW i \in DOMAIN queue, NEW t \in Sessions, queue[i].of = t
               PROVE  Tells(i, t)'
    BY <1>1 DEF Told
  <2>1. t # s /\ Tells(i, t) BY <1>5 DEF Told
  <2> QED BY <1>1, <1>2, <1>4, <2>1 DEF Tells
<1>7. \A t \in Sessions \ {s} : Past(t)' = Past(t) BY <1>2, <1>4 DEF Past
<1>8. r \notin mixed' => \A t \in Sessions : role[t] = r => Past(t)
  BY <1>1 DEF Quiet, Queued, Past, Signals
<1>9. Single'
  <2> SUFFICES ASSUME NEW q \in Roles \ mixed', NEW t \in Sessions, NEW u \in Sessions,
                      role'[t] = q, role'[u] = q, t # u
               PROVE  Past(t)' \/ Past(u)'
    BY DEF Single
  <2>1. CASE t = s BY <1>2, <1>7, <1>8, <2>1
  <2>2. CASE u = s BY <1>2, <1>7, <1>8, <2>2
  <2>3. CASE t # s /\ u # s BY <1>1, <1>2, <1>7, <2>3 DEF Single
  <2> QED BY <2>1, <2>2, <2>3
<1>10. Followed'
  <2> SUFFICES ASSUME NEW q \in Roles, active[q] # NoEntry, NEW t \in Sessions, t = active[q].of
               PROVE  /\ active[q].outcome = "connected" /\ role'[t] = q
                      /\ q \notin mixed' =>
                           /\ ~Past(t)'
                           /\ fate[t] = "failed" => \E i \in Signals(t)' : queue[i].kind = "failed"
    <3>1. \A q \in Roles : active[q] # NoEntry => active[q].of \in Sessions
      BY DEF ShellTypeOK, Entry
    <3> QED BY <1>1, <3>1 DEF Followed
  <2>1. role[t] = q BY DEF Followed
  <2>2. t # s BY <1>1, <2>1 DEF Roles
  <2> QED BY <1>1, <1>2, <1>4, <1>7, <2>1, <2>2 DEF Followed
<1>11. Entered'
  <2> SUFFICES ASSUME NEW i \in DOMAIN history, NEW t \in Sessions,
                      t = history[i].of
               PROVE  /\ role'[t] # "none"
                      /\ history[i].outcome # "connected" /\ role'[t] \notin mixed' =>
                           fate[t] # "none" /\ history[i].outcome = Fate(t)'
    <3>1. history \in Seq(Entry) BY DEF ShellTypeOK
    <3>2. \A j \in DOMAIN history : history[j] \in Entry BY <3>1
    <3>3. \A j \in DOMAIN history : history[j].of \in Sessions BY <3>2 DEF Entry
    <3> QED BY <1>1, <3>3 DEF Entered
  <2>1. role[t] # "none" BY DEF Entered
  <2>2. role'[t] = role[t] BY <1>1, <1>2, <2>1
  <2>3. Fate(t)' = Fate(t) BY <1>1, <2>2 DEF Fate, Outcome
  <2>4. history[i].outcome # "connected" /\ role[t] \notin mixed =>
          fate[t] # "none" /\ history[i].outcome = Fate(t)
    BY DEF Entered
  <2> QED BY <1>1, <2>1, <2>2, <2>3, <2>4
<1>12. ~Quiet(r)' BY <1>2 DEF Quiet
<1>13. \A q \in Roles \ {r} : Quiet(q)' => Quiet(q)
  <2> SUFFICES ASSUME NEW q \in Roles \ {r}, Quiet(q)' PROVE Quiet(q)
    OBVIOUS
  <2>1. ~Queued(q) BY <1>1, <1>2, <1>5 DEF Quiet, Queued
  <2>2. \A t \in Sessions : role[t] = q => life[t] = "done" BY <1>1, <1>2 DEF Quiet, Roles
  <2> QED BY <2>1, <2>2 DEF Quiet
<1> QED BY <1>1, <1>2, <1>3, <1>6, <1>9, <1>10, <1>11, <1>12, <1>13

LEMMA StartKeeps == ShellInv /\ (StartSharing \/ Connect) => ShellInv'
<1> SUFFICES ASSUME ShellInv, StartSharing \/ Connect PROVE ShellInv'
  OBVIOUS
<1>1. CASE StartSharing
  <2>1. PICK s \in Sessions : Began("share", s)
    BY <1>1 DEF StartSharing, Begins, Began
  <2>2. "share" \in Roles BY DEF Roles
  <2>3. offers' = FALSE /\ UNCHANGED <<shell, earlier, fate, queue, windows, active, history, stray>>
    BY <1>1 DEF StartSharing
  <2>4. Follows' BY <2>1, <2>2, <2>3, BeginKeeps DEF ShellInv, Follows
  <2>5. ShellTypeOK' BY <2>1, <2>2, <2>3, BeginKeeps DEF ShellInv, ShellTypeOK
  <2> QED BY <2>1, <2>2, <2>4, <2>5, BeginKeeps DEF ShellInv
<1>2. CASE Connect
  <2>1. PICK s \in Sessions : Began("view", s)
    BY <1>2 DEF Connect, Begins, Began
  <2>2. "view" \in Roles /\ "share" \in Roles BY DEF Roles
  <2>3. /\ windows' \subseteq windows \cup {"view"} /\ stray' = FALSE
        /\ UNCHANGED <<shell, earlier, fate, queue, active, history, offers>>
    BY <1>2 DEF Connect
  <2>4. Follows' BY <2>1, <2>2, <2>3, BeginKeeps DEF ShellInv, Follows
  <2>5. ShellTypeOK' BY <2>1, <2>2, <2>3, BeginKeeps DEF ShellInv, ShellTypeOK
  <2> QED BY <2>1, <2>2, <2>4, <2>5, BeginKeeps DEF ShellInv
<1> QED BY <1>1, <1>2

\* What leaves the sessions alone.
LEMMA SessionsRest ==
  ASSUME ShellInv, UNCHANGED <<role, life, fate, queue, mixed>>
  PROVE  /\ Lives' /\ Told' /\ Single' /\ \A r \in Roles : Quiet(r)' = Quiet(r)
         /\ active' = active => Followed'
         /\ UNCHANGED <<earlier, active, history>> => Entered'
         /\ \A s \in Sessions : Fate(s)' = Fate(s) /\ Past(s)' = Past(s)
<1> USE DEF ShellInv
<1>1. \A s \in Sessions : Signals(s)' = Signals(s) BY DEF Signals
<1>2. \A s \in Sessions : Fate(s)' = Fate(s) /\ Past(s)' = Past(s)
  BY <1>1 DEF Fate, Outcome, Past
<1>3. Lives' /\ Single' BY <1>2 DEF Lives, Single
<1>4. Told' BY <1>1 DEF Told, Tells
<1>5. \A r \in Roles : Quiet(r)' = Quiet(r) BY DEF Quiet, Queued
<1>6. \A r \in Roles : active[r] # NoEntry => active[r].of \in Sessions
  BY DEF ShellTypeOK, Entry
<1>7. active' = active => Followed' BY <1>1, <1>2, <1>6 DEF Followed
<1>8. \A i \in DOMAIN history : history[i].of \in Sessions
  <2>1. history \in Seq(Entry) BY DEF ShellTypeOK
  <2>2. \A i \in DOMAIN history : history[i] \in Entry BY <2>1
  <2> QED BY <2>2 DEF Entry
<1>9. UNCHANGED <<earlier, active, history>> => Entered' BY <1>2, <1>8 DEF Entered
<1> QED BY <1>2, <1>3, <1>4, <1>5, <1>7, <1>9

LEMMA UserKeeps == ShellInv /\ (User \/ UNCHANGED shellVars) => ShellInv'
<1> SUFFICES ASSUME ShellInv, User \/ UNCHANGED shellVars PROVE ShellInv'
  OBVIOUS
<1>1. CASE StartSharing \/ Connect BY <1>1, StartKeeps
<1>2. CASE SharingRefused
  <2> USE <1>2 DEF SharingRefused
  <2>1. Follows' BY SessionsRest DEF ShellInv, Follows, Roles
  <2>2. ShellTypeOK' BY DEF ShellInv, ShellTypeOK
  <2> QED BY <2>1, <2>2, SessionsRest DEF ShellInv
<1>3. CASE ConnectRefused
  <2> USE <1>3 DEF ConnectRefused
  <2>1. Follows' BY SessionsRest DEF ShellInv, Follows, Roles
  <2>2. ShellTypeOK' BY DEF ShellInv, ShellTypeOK, Roles
  <2> QED BY <2>1, <2>2, SessionsRest DEF ShellInv
<1>4. CASE \E r \in Roles : CloseWindow(r)
  <2> USE <1>4 DEF CloseWindow
  <2>1. Follows' BY SessionsRest DEF ShellInv, Follows, Roles
  <2>2. ShellTypeOK' BY DEF ShellInv, ShellTypeOK
  <2> QED BY <2>1, <2>2, SessionsRest DEF ShellInv
<1>5. CASE ClearHistory
  <2> USE <1>5 DEF ClearHistory
  <2>1. Follows' BY SessionsRest DEF ShellInv, Follows, Roles
  <2>2. ShellTypeOK' BY DEF ShellInv, ShellTypeOK
  <2>3. Entered' BY DEF Entered
  <2> QED BY <2>1, <2>2, <2>3, SessionsRest DEF ShellInv
<1>6. CASE Quit
  <2> USE <1>6 DEF Quit
  <2>1. ShellTypeOK'
    <3>1. queue' \in Seq(Signal)
      OBVIOUS
    <3> QED BY <3>1 DEF ShellInv, ShellTypeOK
  <2>2. /\ role \in [Sessions -> Roles \cup {"none"}]
        /\ life \in [Sessions -> {"none", "on", "over", "done"}]
        /\ fate \in [Sessions -> {"none", "ended", "erred", "failed"}]
        /\ history \in Seq(Entry)
    BY DEF ShellInv, ShellTypeOK
  <2>3. ASSUME NEW s \in Sessions
        PROVE  /\ role[s] # "none" => s \in earlier' /\ life'[s] = "done"
               /\ life'[s] \in {"none", "done"}
               /\ life'[s] = "none" <=> role[s] = "none"
               /\ fate'[s] = "none" <=> life'[s] = "none"
               /\ fate[s] # "none" => fate'[s] = fate[s]
    <3>1. /\ life[s] = "none" <=> role[s] = "none"
          /\ life[s] \in {"none", "on"} <=> fate[s] = "none"
      BY DEF ShellInv, Lives
    <3>2. /\ life'[s] = (IF life[s] = "none" THEN "none" ELSE "done")
          /\ fate'[s] = (IF life[s] = "on" THEN "ended" ELSE fate[s])
          /\ life[s] # "none" => s \in earlier'
      BY <2>2
    <3> QED BY <2>2, <3>1, <3>2
  <2>4. Lives' BY <2>3 DEF Lives
  <2>5. Told' /\ Follows' /\ Followed' BY DEF Told, Follows, Followed, Roles
  <2>6. \A s \in Sessions : role[s] # "none" => Past(s)' BY <2>3 DEF Past, Signals
  <2>7. Single' BY <2>6 DEF Single, Roles
  <2>8. \A s \in Sessions : fate[s] # "none" => Fate(s)' = Fate(s) BY <2>3 DEF Fate, Outcome
  <2>9. \A i \in DOMAIN history : history[i].of \in Sessions
    <3>1. \A i \in DOMAIN history : history[i] \in Entry BY <2>2
    <3> QED BY <3>1 DEF Entry
  <2>10. ASSUME NEW i \in DOMAIN history, NEW s \in Sessions, s = history[i].of
         PROVE  /\ role[s] # "none" /\ s \in earlier'
                /\ history[i].outcome # "connected" /\ role[s] \notin mixed =>
                     fate'[s] # "none" /\ history[i].outcome = Fate(s)'
    BY <2>3, <2>8, <2>10 DEF ShellInv, Entered
  <2>11. history # <<>> => 1 \in DOMAIN history BY <2>2
  <2>12. Entered' BY <2>9, <2>10, <2>11 DEF Entered
  <2> QED BY <2>1, <2>4, <2>5, <2>7, <2>12 DEF ShellInv
<1>8. CASE Relaunch
  <2> USE <1>8 DEF Relaunch
  <2>1. Follows' BY SessionsRest DEF ShellInv, Follows, Roles
  <2>2. ShellTypeOK' BY DEF ShellInv, ShellTypeOK
  <2> QED BY <2>1, <2>2, SessionsRest DEF ShellInv
<1>7. CASE UNCHANGED shellVars
  <2> USE <1>7 DEF shellVars
  <2>1. Follows' BY SessionsRest DEF ShellInv, Follows, Roles
  <2>2. ShellTypeOK' BY DEF ShellInv, ShellTypeOK
  <2> QED BY <2>1, <2>2, SessionsRest DEF ShellInv
<1> QED BY <1>1, <1>2, <1>3, <1>4, <1>5, <1>6, <1>7, <1>8 DEF User

-----------------------------------------------------------------------------
(* The handlers keep it.                                                   *)

\* What is left when the first signal, of session s, is taken from the queue.
Moved(s) ==
  /\ Lives' /\ Told' /\ Single'
  /\ \A q \in Roles \ {role[s]} : Quiet(q)' => Quiet(q)
  /\ \A t \in Sessions \ {s} : Past(t)' => Past(t)
  /\ queue[1].kind # "finished" => ~Quiet(role[s])' /\ ~Past(s)'
  /\ \A t \in Sessions : \A i \in Signals(t) :
       i # 1 => i - 1 \in Signals(t)' /\ queue'[i - 1] = queue[i]

LEMMA HeadMoves ==
  ASSUME ShellInv, Handle, NEW s \in Sessions, s = queue[1].of
  PROVE  /\ Moved(s) /\ 1 \in Signals(s) /\ Tells(1, s) /\ role[s] \in Roles
         /\ UNCHANGED <<shell, earlier, role, life, fate, stray, mixed>>
<1> USE DEF ShellInv
<1>1. UNCHANGED <<shell, earlier, role, life, fate, stray, mixed>> BY DEF Handle
<1>0. /\ queue' \in Seq(Signal) /\ queue \in Seq(Signal)
      /\ Len(queue) > 0 /\ Len(queue') = Len(queue) - 1
      /\ \A i \in 1..Len(queue') : queue'[i] = queue[i + 1]
      /\ \A i \in 2..Len(queue) : i - 1 \in 1..Len(queue') /\ queue'[i - 1] = queue[i]
  BY QueueMoves
<1>n. PICK n \in Nat : n = Len(queue) BY <1>0
<1>2. /\ n > 0 /\ DOMAIN queue = 1..n /\ DOMAIN queue' = 1..(n - 1)
      /\ \A i \in 1..(n - 1) : queue'[i] = queue[i + 1]
      /\ \A i \in 2..n : i - 1 \in 1..(n - 1) /\ queue'[i - 1] = queue[i]
  BY <1>0, <1>n
<1>3. 1 \in Signals(s) /\ 1 \in DOMAIN queue BY <1>2 DEF Signals
<1>4. Tells(1, s) BY <1>3 DEF Told
<1>5. role[s] \in Roles BY <1>4 DEF Tells, Lives, ShellTypeOK
<1>6. \A t \in Sessions : \A i \in Signals(t) :
        i # 1 => i - 1 \in Signals(t)' /\ queue'[i - 1] = queue[i]
  <2> SUFFICES ASSUME NEW t \in Sessions, NEW i \in Signals(t), i # 1
               PROVE  i - 1 \in Signals(t)' /\ queue'[i - 1] = queue[i]
    OBVIOUS
  <2>1. i \in 2..n /\ queue[i].of = t BY <1>2 DEF Signals
  <2>2. i - 1 \in 1..(n - 1) /\ queue'[i - 1] = queue[i] BY <1>2, <2>1
  <2> QED BY <1>2, <2>1, <2>2 DEF Signals
<1>7. \A t \in Sessions : \A i \in Signals(t)' : i \in 1..(n - 1) /\ i + 1 \in Signals(t)
  <2> SUFFICES ASSUME NEW t \in Sessions, NEW i \in Signals(t)'
               PROVE  i \in 1..(n - 1) /\ i + 1 \in Signals(t)
    OBVIOUS
  <2>1. i \in 1..(n - 1) /\ queue'[i].of = t BY <1>2 DEF Signals
  <2>2. queue[i + 1].of = t /\ i + 1 \in 1..n BY <1>2, <2>1
  <2> QED BY <1>2, <2>1, <2>2 DEF Signals
<1>8. Lives' BY <1>1 DEF Lives
<1>9. Told'
  <2> SUFFICES ASSUME NEW i \in DOMAIN queue', NEW t \in Sessions, queue'[i].of = t
               PROVE  Tells(i, t)'
    BY DEF Told
  <2>1. i \in 1..(n - 1) /\ queue'[i] = queue[i + 1] /\ i + 1 \in DOMAIN queue BY <1>2
  <2>2. Tells(i + 1, t) BY <2>1 DEF Told
  <2>3. /\ life'[t] # "none"
        /\ queue'[i].kind = "frame" => role'[t] = "view"
        /\ queue'[i].kind = "failed" => fate'[t] = "failed"
    BY <1>1, <2>1, <2>2 DEF Tells
  <2>4. queue'[i].kind = "finished" => life'[t] = "done" /\ \A j \in Signals(t)' : j <= i
    <3> SUFFICES ASSUME queue[i + 1].kind = "finished", NEW j \in Signals(t)' PROVE j <= i
      BY <1>1, <2>1, <2>2 DEF Tells
    <3>1. j + 1 <= i + 1 /\ j \in Nat BY <1>7, <2>2 DEF Tells
    <3> QED BY <2>1, <3>1
  <2>5. ASSUME NEW k, NEW j \in Signals(t), j > i + 1, queue[j].kind = k
        PROVE  \E m \in Signals(t)' : m > i /\ queue'[m].kind = k
    <3>1. j \in 1..n BY <1>2 DEF Signals
    <3>2. j # 1 /\ j - 1 > i BY <2>1, <2>5, <3>1
    <3>3. j - 1 \in Signals(t)' /\ queue'[j - 1].kind = k BY <1>6, <2>5, <3>2
    <3> QED BY <3>2, <3>3
  <2>6. queue'[i].kind # "finished" /\ life'[t] = "done"
          => \E j \in Signals(t)' : j > i /\ queue'[j].kind = "finished"
    BY <1>1, <2>1, <2>2, <2>5 DEF Tells
  <2>7. queue'[i].kind \in {"state", "frame"} /\ fate'[t] = "failed"
          => \E j \in Signals(t)' : j > i /\ queue'[j].kind = "failed"
    BY <1>1, <2>1, <2>2, <2>5 DEF Tells
  <2> QED BY <2>3, <2>4, <2>6, <2>7 DEF Tells
<1>10. \A t \in Sessions : Past(t) => Past(t)' BY <1>1, <1>7 DEF Past
<1>11. Single' BY <1>1, <1>10 DEF Single
<1>12. \A t \in Sessions \ {s} : Past(t)' => Past(t)
  <2> SUFFICES ASSUME NEW t \in Sessions \ {s}, Past(t)', NEW i \in Signals(t) PROVE FALSE
    BY <1>1 DEF Past
  <2>1. i # 1 BY DEF Signals
  <2> QED BY <1>6, <2>1 DEF Past
<1>13. \A q \in Roles \ {role[s]} : Quiet(q)' => Quiet(q)
  <2> SUFFICES ASSUME NEW q \in Roles \ {role[s]}, Quiet(q)', Queued(q) PROVE FALSE
    BY <1>1 DEF Quiet
  <2>1. PICK i \in DOMAIN queue : role[queue[i].of] = q BY DEF Queued
  <2>2. i \in 2..n BY <1>2, <2>1
  <2>3. i - 1 \in DOMAIN queue' /\ queue'[i - 1] = queue[i] BY <1>2, <2>2
  <2>4. Queued(q)' BY <1>1, <2>1, <2>3 DEF Queued
  <2> QED BY <2>4 DEF Quiet
<1>14. ASSUME queue[1].kind # "finished", life[s] = "done"
       PROVE  \E i \in Signals(s)' : TRUE
  <2>1. PICK j \in Signals(s) : j > 1 BY <1>4, <1>14 DEF Tells
  <2>2. j # 1 BY <1>2, <2>1 DEF Signals
  <2> QED BY <1>6, <2>2
<1>15. queue[1].kind # "finished" => ~Past(s)' BY <1>1, <1>14 DEF Past
<1>16. queue[1].kind # "finished" => ~Quiet(role[s])'
  BY <1>1, <1>14 DEF Quiet, Queued, Signals
<1> QED BY <1>1, <1>3, <1>4, <1>5, <1>6, <1>8, <1>9, <1>11, <1>12, <1>13, <1>15, <1>16
    DEF Moved

\* The history with a new entry, and with its newest one ended.
LEMMA KeptFirst ==
  ASSUME NEW e \in Entry, NEW h \in Seq(Entry)
  PROVE  /\ Kept(<<e>> \o h) \in Seq(Entry) /\ Kept(<<e>> \o h)[1] = e
         /\ \A i \in DOMAIN Kept(<<e>> \o h) :
              Kept(<<e>> \o h)[i] = e
              \/ \E j \in DOMAIN h : Kept(<<e>> \o h)[i] = h[j]
<1> DEFINE g == <<e>> \o h
<1>1. g \in Seq(Entry) /\ Len(g) = Len(h) + 1 /\ Len(h) \in Nat
  OBVIOUS
<1>2. g[1] = e
  OBVIOUS
<1>3. \A i \in 1..Len(g) : g[i] = e \/ \E j \in DOMAIN h : g[i] = h[j]
  <2> SUFFICES ASSUME NEW i \in 1..Len(g), i # 1 PROVE \E j \in DOMAIN h : g[i] = h[j]
    BY <1>2
  <2>1. i - 1 \in DOMAIN h /\ g[i] = h[i - 1]
    OBVIOUS
  <2> QED BY <2>1
<1> HIDE DEF g
<1>4. CASE Len(g) > MaxHistory
  <2>1. MaxHistory \in 1..Len(g) BY <1>1, <1>4, ShellAssumption
  <2>2. /\ SubSeq(g, 1, MaxHistory) \in Seq(Entry) /\ Len(SubSeq(g, 1, MaxHistory)) = MaxHistory
        /\ \A i \in 1..MaxHistory : SubSeq(g, 1, MaxHistory)[i] = g[i]
    BY <1>1, <2>1
  <2>3. Kept(g) = SubSeq(g, 1, MaxHistory) BY <1>4 DEF Kept
  <2>4. Kept(g) \in Seq(Entry) /\ DOMAIN Kept(g) = 1..MaxHistory
        /\ \A i \in 1..MaxHistory : Kept(g)[i] = g[i] /\ i \in 1..Len(g)
    BY <1>1, <2>1, <2>2, <2>3
  <2>5. 1 \in 1..MaxHistory BY <2>1
  <2> QED BY <1>2, <1>3, <2>4, <2>5 DEF g
<1>5. CASE ~(Len(g) > MaxHistory)
  <2>1. Kept(g) = g BY <1>5 DEF Kept
  <2>2. DOMAIN g = 1..Len(g) BY <1>1
  <2> QED BY <1>1, <1>2, <1>3, <2>1, <2>2 DEF g
<1> QED BY <1>4, <1>5

LEMMA RecordKeeps ==
  ASSUME ShellInv, NEW r \in Roles, NEW s \in Sessions, Record(r, s),
         UNCHANGED <<shell, earlier, role, fate, mixed>>, role[s] = r
  PROVE  /\ active' \in [Roles -> Entry \cup {NoEntry}] /\ history' \in Seq(Entry) /\ Entered'
         /\ \A q \in Roles : active'[q] # active[q] =>
              q = r /\ active'[q].outcome = "connected" /\ active'[q].of = s
<1> USE DEF ShellInv
<1>1. active \in [Roles -> Entry \cup {NoEntry}] /\ history \in Seq(Entry) BY DEF ShellTypeOK
<1>h. \A i \in DOMAIN history : history[i] \in Entry BY <1>1
<1>f. \A t \in Sessions : Fate(t)' = Fate(t) BY DEF Fate, Outcome
<1>o. \A i \in DOMAIN history : history[i].of \in Sessions BY <1>h DEF Entry
<1>2. CASE UNCHANGED <<active, history>>
  <2>1. Entered' BY <1>2, <1>f, <1>o DEF Entered
  <2> QED BY <1>1, <1>2, <2>1
<1>3. CASE ~UNCHANGED <<active, history>>
  <2>1. PICK t \in Seconds(s) :
          /\ active' = [active EXCEPT ![r] = [of |-> s, start |-> t, outcome |-> "connected"]]
          /\ history' = Kept(<<[of |-> s, start |-> t, outcome |-> "connected"]>> \o history)
    BY <1>3 DEF Record
  <2>2. t \in Sessions BY <1>1, <1>h, <2>1 DEF Seconds, Entry
  <2>3. PICK e \in Entry : e = [of |-> s, start |-> t, outcome |-> "connected"]
    BY <2>2 DEF Entry
  <2>4. active' = [active EXCEPT ![r] = e] /\ history' = Kept(<<e>> \o history) BY <2>1, <2>3
  <2>5. /\ history' \in Seq(Entry) /\ history'[1] = e
        /\ \A i \in DOMAIN history' :
             history'[i] = e \/ \E j \in DOMAIN history : history'[i] = history[j]
    BY <1>1, <2>4, KeptFirst
  <2>6. active' \in [Roles -> Entry \cup {NoEntry}] /\ active'[r] = e
        /\ \A q \in Roles \ {r} : active'[q] = active[q]
    BY <1>1, <2>4
  <2>7. e.of = s /\ e.outcome = "connected" BY <2>3
  <2>8. ASSUME NEW i \in DOMAIN history', NEW u \in Sessions,
               u = history'[i].of
        PROVE  /\ role[u] # "none"
               /\ history'[i].outcome # "connected" /\ role[u] \notin mixed =>
                    fate[u] # "none" /\ history'[i].outcome = Fate(u)
    <3>1. CASE history'[i] = e BY <2>7, <2>8, <3>1 DEF Roles
    <3>2. CASE \E j \in DOMAIN history : history'[i] = history[j] BY <2>8, <3>2 DEF Entered
    <3> QED BY <2>5, <3>1, <3>2
  <2>9. \A i \in DOMAIN history' : history'[i].of \in Sessions
    <3>1. \A i \in DOMAIN history' : history'[i] \in Entry BY <2>5
    <3> QED BY <3>1 DEF Entry
  <2>10. Entered' BY <1>f, <2>5, <2>6, <2>8, <2>9 DEF Entered
  <2> QED BY <2>5, <2>6, <2>7, <2>10
<1> QED BY <1>2, <1>3

LEMMA StateKeeps ==
  ASSUME ShellInv, Handle, queue[1].kind = "state" PROVE ShellInv'
<1> USE DEF ShellInv
<1>0. queue \in Seq(Signal) /\ Len(queue) > 0 /\ Head(queue) = queue[1] /\ queue' \in Seq(Signal)
  BY QueueMoves
<1>1. queue[1] \in Signal BY <1>0
<1>s. PICK s \in Sessions : s = queue[1].of BY <1>1 DEF Signal
<1>r. PICK r \in Roles : r = role[s] BY <1>s, HeadMoves
<1>2. /\ Moved(s) /\ 1 \in Signals(s) /\ Tells(1, s)
      /\ UNCHANGED <<shell, earlier, role, life, fate, stray, mixed>>
  BY <1>s, HeadMoves
<1>3. StateHandled(r, s) BY <1>0, <1>s, <1>r DEF Handle
<1>4. /\ Record(r, s) \/ UNCHANGED <<active, history>>
      /\ windows' \subseteq windows \cup {r}
      /\ offers' \in BOOLEAN
      /\ r # "share" => offers' = offers
  BY <1>3 DEF StateHandled, ShellTypeOK
<1>5. /\ active' \in [Roles -> Entry \cup {NoEntry}] /\ history' \in Seq(Entry) /\ Entered'
      /\ \A q \in Roles : active'[q] # active[q] =>
           q = r /\ active'[q].outcome = "connected" /\ active'[q].of = s
  <2>1. CASE Record(r, s) BY <1>2, <1>r, <2>1, RecordKeeps
  <2>2. CASE UNCHANGED <<active, history>>
    <3>1. \A t \in Sessions : Fate(t)' = Fate(t) BY <1>2 DEF Fate, Outcome
    <3>2. \A i \in DOMAIN history : history[i].of \in Sessions
      <4>1. history \in Seq(Entry) BY DEF ShellTypeOK
      <4>2. \A i \in DOMAIN history : history[i] \in Entry BY <4>1
      <4> QED BY <4>2 DEF Entry
    <3>3. Entered' BY <1>2, <2>2, <3>1, <3>2 DEF Entered
    <3> QED BY <2>2, <3>3 DEF ShellTypeOK
  <2> QED BY <1>4, <2>1, <2>2
<1>6. ShellTypeOK'
  <2>1. windows' \subseteq Roles BY <1>4 DEF ShellTypeOK
  <2>2. active' \in [Roles -> Entry \cup {NoEntry}] /\ history' \in Seq(Entry) BY <1>5
  <2>3. offers' \in BOOLEAN /\ queue' \in Seq(Signal) BY <1>0, <1>4
  <2> QED BY <1>2, <2>1, <2>2, <2>3 DEF ShellTypeOK
<1>7. Follows'
  <2>1. ~Quiet(r)' /\ \A q \in Roles \ {r} : Quiet(q)' => Quiet(q) BY <1>2, <1>r DEF Moved
  <2>2. "share" \in Roles BY DEF Roles
  <2>3. ASSUME NEW q \in Roles, q \in windows' PROVE (q = "view" /\ stray) \/ ~Quiet(q)'
    BY <1>4, <2>1, <2>3 DEF Follows
  <2>4. ~offers' => ~Quiet("share")'
    <3>1. CASE r = "share" BY <2>1, <3>1
    <3>2. CASE r # "share" BY <1>4, <2>1, <2>2, <3>2 DEF Follows
    <3> QED BY <3>1, <3>2
  <2> QED BY <1>2, <2>3, <2>4 DEF Follows
<1>8. \A t \in Sessions : ~Past(t) => ~Past(t)' BY <1>2 DEF Moved
<1>9. \A t \in Sessions : (\E i \in Signals(t) : queue[i].kind = "failed")
        => \E i \in Signals(t)' : queue'[i].kind = "failed"
  BY <1>2 DEF Moved
<1>10. fate[s] = "failed" => \E i \in Signals(s) : queue[i].kind = "failed"
  BY <1>2 DEF Tells
<1>11. Followed'
  <2> SUFFICES ASSUME NEW q \in Roles, active'[q] # NoEntry, NEW t \in Sessions,
                      t = active'[q].of
               PROVE  /\ active'[q].outcome = "connected" /\ role[t] = q
                      /\ q \notin mixed =>
                           /\ ~Past(t)'
                           /\ fate[t] = "failed"
                                => \E i \in Signals(t)' : queue'[i].kind = "failed"
    <3>1. \A q \in Roles : active'[q] # NoEntry => active'[q].of \in Sessions
      BY <1>5 DEF Entry
    <3> QED BY <1>2, <3>1 DEF Followed
  <2>1. CASE active'[q] = active[q] BY <1>2, <1>8, <1>9, <2>1 DEF Followed
  <2>2. CASE q = r /\ active'[q].outcome = "connected" /\ active'[q].of = s
    <3>1. ~Past(s)' BY <1>2 DEF Moved
    <3> QED BY <1>9, <1>10, <1>r, <2>2, <3>1
  <2> QED BY <1>5, <2>1, <2>2
<1> QED BY <1>2, <1>5, <1>6, <1>7, <1>11 DEF Moved

LEMMA FrameKeeps ==
  ASSUME ShellInv, Handle, queue[1].kind = "frame" PROVE ShellInv'
<1> USE DEF ShellInv
<1>0. queue \in Seq(Signal) /\ Len(queue) > 0 /\ Head(queue) = queue[1] /\ queue' \in Seq(Signal)
  BY QueueMoves
<1>1. queue[1] \in Signal BY <1>0
<1>s. PICK s \in Sessions : s = queue[1].of BY <1>1 DEF Signal
<1>2. /\ Moved(s) /\ 1 \in Signals(s) /\ Tells(1, s)
      /\ UNCHANGED <<shell, earlier, role, life, fate, stray, mixed>>
  BY <1>s, HeadMoves
<1>3. FrameHandled BY <1>0 DEF Handle
<1>4. windows' = windows \cup {"view"} /\ UNCHANGED <<active, history, offers>>
  BY <1>3 DEF FrameHandled
<1>5. role[s] = "view" BY <1>2 DEF Tells
<1>6. ShellTypeOK' BY <1>0, <1>2, <1>4 DEF ShellTypeOK, Roles
<1>7. Follows' BY <1>2, <1>4, <1>5 DEF Follows, Moved, Roles
<1>8. \A t \in Sessions : ~Past(t) => ~Past(t)' BY <1>2 DEF Moved
<1>9. \A t \in Sessions : (\E i \in Signals(t) : queue[i].kind = "failed")
        => \E i \in Signals(t)' : queue'[i].kind = "failed"
  BY <1>2 DEF Moved
<1>10. \A q \in Roles : active[q] # NoEntry => active[q].of \in Sessions
  BY DEF ShellTypeOK, Entry
<1>11. Followed' BY <1>2, <1>4, <1>8, <1>9, <1>10 DEF Followed
<1>12. \A t \in Sessions : Fate(t)' = Fate(t) BY <1>2 DEF Fate, Outcome
<1>13. \A i \in DOMAIN history : history[i].of \in Sessions
  <2>1. history \in Seq(Entry) BY DEF ShellTypeOK
  <2>2. \A i \in DOMAIN history : history[i] \in Entry BY <2>1
  <2> QED BY <2>2 DEF Entry
<1>14. Entered' BY <1>2, <1>4, <1>12, <1>13 DEF Entered
<1> QED BY <1>2, <1>6, <1>7, <1>11, <1>14 DEF Moved

\* The end of a session: what is written of it, and whose entry it is.
LEMMA RewrittenKeeps ==
  ASSUME ShellInv, NEW r \in Roles, NEW end \in {"ended", "failed"}, active[r] # NoEntry,
         history # <<>>, history[1].start = active[r].start
  PROVE  /\ Rewritten(r, end) \in Seq(Entry)
         /\ DOMAIN Rewritten(r, end) = DOMAIN history
         /\ 1 \in DOMAIN history /\ Rewritten(r, end)[1].of = active[r].of
         /\ Rewritten(r, end)[1].outcome = end
         /\ \A i \in DOMAIN history \ {1} : Rewritten(r, end)[i] = history[i]
<1>1. active[r] \in Entry /\ history \in Seq(Entry) BY DEF ShellInv, ShellTypeOK
<1>2. PICK e \in Entry : e = [active[r] EXCEPT !.outcome = end]
  BY <1>1 DEF Entry
<1>3. e.of = active[r].of /\ e.outcome = end BY <1>1, <1>2 DEF Entry
<1>4. Rewritten(r, end) = [history EXCEPT ![1] = e] BY <1>2 DEF Rewritten
<1>5. 1 \in DOMAIN history BY <1>1
<1> QED BY <1>1, <1>3, <1>4, <1>5

LEMMA OverKeeps ==
  ASSUME ShellInv, Handle, queue[1].kind \in {"failed", "finished"} PROVE ShellInv'
<1> USE DEF ShellInv
<1>0. queue \in Seq(Signal) /\ Len(queue) > 0 /\ Head(queue) = queue[1] /\ queue' \in Seq(Signal)
  BY QueueMoves
<1>1. queue[1] \in Signal BY <1>0
<1>s. PICK s \in Sessions : s = queue[1].of BY <1>1 DEF Signal
<1>r. PICK r \in Roles : r = role[s] BY <1>s, HeadMoves
<1>2. /\ Moved(s) /\ 1 \in Signals(s) /\ Tells(1, s)
      /\ UNCHANGED <<shell, earlier, role, life, fate, stray, mixed>>
  BY <1>s, HeadMoves
<1>3. PICK end \in {"ended", "failed"} :
        /\ Over(r, end)
        /\ queue[1].kind = "failed" => end = "failed"
        /\ queue[1].kind = "finished" => end = Outcome(s)
  <2>1. CASE queue[1].kind = "failed"
    <3>1. Over(r, "failed") BY <1>0, <1>s, <1>r, <2>1 DEF Handle
    <3> QED BY <2>1, <3>1
  <2>2. CASE queue[1].kind = "finished"
    <3>1. Over(r, Outcome(s)) BY <1>0, <1>s, <1>r, <2>2 DEF Handle
    <3>2. Outcome(s) \in {"ended", "failed"} BY DEF Outcome
    <3> QED BY <2>2, <3>1, <3>2
  <2> QED BY <2>1, <2>2
<1>4. /\ active' = [active EXCEPT ![r] = NoEntry] /\ history' = Rewritten(r, end)
      /\ windows' = windows \ {r} /\ offers' = (offers \/ r = "share")
  BY <1>3 DEF Over, Finalize
<1>5. /\ active' \in [Roles -> Entry \cup {NoEntry}] /\ active'[r] = NoEntry
      /\ \A q \in Roles \ {r} : active'[q] = active[q]
  BY <1>4 DEF ShellTypeOK
<1>6. Follows'
  <2>1. \A q \in Roles \ {r} : Quiet(q)' => Quiet(q) BY <1>2, <1>r DEF Moved
  <2>2. ASSUME NEW q \in Roles, q \in windows' PROVE (q = "view" /\ stray) \/ ~Quiet(q)'
    BY <1>4, <2>1, <2>2 DEF Follows
  <2>3. ~offers' => ~offers /\ r # "share" /\ "share" \in Roles BY <1>4 DEF Roles
  <2>4. ~offers' => ~Quiet("share")' BY <2>1, <2>3 DEF Follows
  <2> QED BY <1>2, <2>2, <2>4 DEF Follows
<1>7. Followed'
  <2> SUFFICES ASSUME NEW q \in Roles, active'[q] # NoEntry, NEW t \in Sessions,
                      t = active'[q].of
               PROVE  /\ active'[q].outcome = "connected" /\ role[t] = q
                      /\ q \notin mixed =>
                           /\ ~Past(t)'
                           /\ fate[t] = "failed"
                                => \E i \in Signals(t)' : queue'[i].kind = "failed"
    <3>1. \A q \in Roles : active'[q] # NoEntry => active'[q].of \in Sessions
      BY <1>5 DEF Entry
    <3> QED BY <1>2, <3>1 DEF Followed
  <2>1. q # r /\ active'[q] = active[q] BY <1>5
  <2>2. t = active[q].of BY <2>1
  <2>3. /\ active[q].outcome = "connected" /\ role[t] = q
        /\ q \notin mixed =>
             /\ ~Past(t)
             /\ fate[t] = "failed" => \E i \in Signals(t) : queue[i].kind = "failed"
    BY <2>1, <2>2 DEF Followed
  <2>4. t # s BY <1>r, <2>1, <2>3
  <2>5. Past(t)' => Past(t) BY <1>2, <2>4 DEF Moved
  <2>6. (\E i \in Signals(t) : queue[i].kind = "failed")
          => \E i \in Signals(t)' : queue'[i].kind = "failed"
    <3> SUFFICES ASSUME NEW i \in Signals(t), queue[i].kind = "failed"
                 PROVE  \E j \in Signals(t)' : queue'[j].kind = "failed"
      OBVIOUS
    <3>1. i # 1 BY <1>s, <2>4 DEF Signals
    <3>2. i - 1 \in Signals(t)' /\ queue'[i - 1] = queue[i] BY <1>2, <3>1 DEF Moved
    <3> QED BY <3>2
  <2> QED BY <2>1, <2>2, <2>3, <2>5, <2>6
<1>8. \A t \in Sessions : Fate(t)' = Fate(t) BY <1>2 DEF Fate, Outcome
<1>9. history \in Seq(Entry) /\ \A i \in DOMAIN history : history[i].of \in Sessions
  <2>1. history \in Seq(Entry) BY DEF ShellTypeOK
  <2>2. \A i \in DOMAIN history : history[i] \in Entry BY <2>1
  <2> QED BY <2>1, <2>2 DEF Entry
<1>10. history' \in Seq(Entry) /\ Entered'
  <2>1. CASE active[r] # NoEntry /\ history # <<>> /\ history[1].start = active[r].start
    <3>1. /\ history' \in Seq(Entry) /\ DOMAIN history' = DOMAIN history
          /\ 1 \in DOMAIN history /\ history'[1].of = active[r].of /\ history'[1].outcome = end
          /\ \A i \in DOMAIN history \ {1} : history'[i] = history[i]
      BY <1>4, <2>1, RewrittenKeeps
    <3>2. PICK t \in Sessions : t = active[r].of BY <2>1 DEF ShellTypeOK, Entry
    <3>3. /\ role[t] = r
          /\ r \notin mixed =>
               /\ ~Past(t)
               /\ fate[t] = "failed" => \E i \in Signals(t) : queue[i].kind = "failed"
      BY <2>1, <3>2 DEF Followed
    <3>4. ~Past(s) BY <1>2 DEF Past
    <3>5. r \notin mixed => t = s BY <1>r, <3>3, <3>4 DEF Single
    <3>6. r \notin mixed => fate[s] # "none" /\ end = Fate(s)
      <4>1. CASE queue[1].kind = "failed"
        <5>1. fate[s] = "failed" BY <1>2, <4>1 DEF Tells
        <5> QED BY <1>3, <4>1, <5>1 DEF Fate
      <4>2. CASE queue[1].kind = "finished"
        <5>1. life[s] = "done" /\ \A j \in Signals(s) : j <= 1 BY <1>2, <4>2 DEF Tells
        <5>2. fate[s] # "none" BY <5>1 DEF Lives
        <5>3. ASSUME r \notin mixed, fate[s] = "failed" PROVE FALSE
          <6>1. PICK i \in Signals(s) : queue[i].kind = "failed" BY <3>3, <3>5, <5>3
          <6>2. i = 1 BY <1>0, <5>1, <6>1 DEF Signals
          <6> QED BY <4>2, <6>1, <6>2
        <5> QED BY <1>3, <4>2, <5>2, <5>3 DEF Fate
      <4> QED BY <4>1, <4>2
    <3>7. ASSUME NEW i \in DOMAIN history', NEW u \in Sessions,
                 u = history'[i].of
          PROVE  /\ role[u] # "none"
                 /\ history'[i].outcome # "connected" /\ role[u] \notin mixed =>
                      fate[u] # "none" /\ history'[i].outcome = Fate(u)
      <4>1. CASE i = 1
        <5>1. u = t BY <3>1, <3>2, <3>7, <4>1
        <5>2. role[u] = r /\ r # "none" BY <3>3, <5>1 DEF Roles
        <5> QED BY <3>1, <3>5, <3>6, <4>1, <5>1, <5>2
      <4>2. CASE i # 1 BY <3>1, <3>7, <4>2 DEF Entered
      <4> QED BY <4>1, <4>2
    <3>8. \A i \in DOMAIN history' : history'[i].of \in Sessions
      <4>1. \A i \in DOMAIN history' : history'[i] \in Entry BY <3>1
      <4> QED BY <4>1 DEF Entry
    <3>9. history'[1].outcome # "connected" BY <3>1
    <3> QED BY <1>2, <1>8, <3>1, <3>7, <3>8, <3>9 DEF Entered
  <2>2. CASE ~(active[r] # NoEntry /\ history # <<>> /\ history[1].start = active[r].start)
    <3>1. history' = history BY <1>4, <2>2 DEF Rewritten
    <3>2. ASSUME history # <<>>, history[1].outcome = "connected"
          PROVE  history[1].of \in earlier \/ \E q \in Roles : active'[q] = history[1]
      <4> SUFFICES ASSUME history[1].of \notin earlier
                   PROVE  \E q \in Roles : active'[q] = history[1]
        OBVIOUS
      <4>1. PICK q \in Roles : active[q] = history[1] BY <3>2 DEF Entered
      <4>2. active[q] # NoEntry BY <3>2, <4>1 DEF NoEntry
      <4>3. q # r BY <2>2, <3>2, <4>1, <4>2
      <4> QED BY <1>5, <4>1, <4>3
    <3>3. Entered' BY <1>2, <1>8, <1>9, <3>1, <3>2 DEF Entered
    <3> QED BY <1>9, <3>1, <3>3
  <2> QED BY <2>1, <2>2
<1>11. ShellTypeOK'
  <2>1. windows' \subseteq Roles /\ offers' \in BOOLEAN BY <1>4 DEF ShellTypeOK
  <2>2. history' \in Seq(Entry) /\ queue' \in Seq(Signal) BY <1>0, <1>10
  <2> QED BY <1>2, <1>5, <2>1, <2>2 DEF ShellTypeOK
<1> QED BY <1>2, <1>6, <1>7, <1>10, <1>11 DEF Moved

LEMMA ShellStep == ShellInv /\ [ShellNext]_shellVars => ShellInv'
<1> SUFFICES ASSUME ShellInv, [ShellNext]_shellVars PROVE ShellInv'
  OBVIOUS
<1>1. CASE User \/ UNCHANGED shellVars BY <1>1, UserKeeps
<1>2. CASE \E s \in Sessions : SessionThread(s)
  <2>1. PICK s \in Sessions : SessionThread(s) BY <1>2
  <2>2. (\E k \in Kind : Emits(s, k)) \/ EndsWell(s) BY <2>1, ThreadActs DEF ShellInv
  <2>3. CASE \E k \in Kind : Emits(s, k)
    <3>1. PICK k \in Kind : Emits(s, k) BY <2>3
    <3>2. Told' BY <3>1, EmitsKeepTold DEF ShellInv
    <3>3. ShellTypeOK' /\ Lives' /\ Follows' /\ Single' /\ Followed' /\ Entered'
      BY <3>1, EmitsKeepRest DEF ShellInv
    <3> QED BY <3>2, <3>3 DEF ShellInv
  <2>4. CASE EndsWell(s) BY <2>4, EndsWellKeeps
  <2> QED BY <2>2, <2>3, <2>4
<1>3. CASE Handle
  <2>1. queue \in Seq(Signal) /\ Len(queue) > 0 BY <1>3, QueueMoves DEF ShellInv
  <2>2. queue[1] \in Signal BY <2>1
  <2>3. queue[1].kind \in {"state", "frame", "failed", "finished"} BY <2>2 DEF Signal
  <2> QED BY <1>3, <2>3, StateKeeps, FrameKeeps, OverKeeps
<1> QED BY <1>1, <1>2, <1>3 DEF ShellNext

-----------------------------------------------------------------------------
(* The parts of the desktop program (Desktop).                             *)

DeskInv == PrefInv /\ DeviceInv /\ AdapterTypeOK /\ ShellInv

LEMMA DeskStart == DeskInit => DeskInv
BY PrefStart, DeviceStart, AdapterStart, ShellStart DEF DeskInit, DeskInv

\* What a step may do, of the preferences and of the address.
DeskSteps ==
  /\ UNCHANGED prefVars \/ Survives
  /\ UNCHANGED adapterVars \/ AddressRight

LEMMA DeskStep == DeskInv /\ [DeskNext]_deskVars => DeskInv' /\ DeskSteps
<1> SUFFICES ASSUME DeskInv, [DeskNext]_deskVars PROVE DeskInv' /\ DeskSteps
  OBVIOUS
<1>1. /\ [PrefNext]_prefVars /\ [AdapterNext]_adapterVars
      /\ [DeviceNext]_deviceVars /\ [ShellNext]_shellVars
  BY DEF DeskNext, deskVars
<1>2. DeskInv' BY <1>1, PrefStep, DeviceStep, AdapterStep, ShellStep DEF DeskInv
<1>3. DeskSteps BY <1>1, PrefSurvives, AdapterRight DEF DeskInv, DeskSteps
<1> QED BY <1>2, <1>3

-----------------------------------------------------------------------------
(* The programs side by side.                                              *)

\* All that the programs that capture sound do to the ring.
RingMoves == Write(Chunk) \/ Read(Chunk) \/ Close \/ UNCHANGED ring

LEMMA RingMovesKeep ==
  RingInv /\ RingMoves => RingInv' /\ [Stream!Next]_<<written - fill, written, out>>
<1> SUFFICES ASSUME RingInv, RingMoves
             PROVE  RingInv' /\ (Stream!Next \/ UNCHANGED <<written - fill, written, out>>)
  BY DEF Stream!Next
<1>1. Chunk \in 1..MaxWritten BY RingAssumption, ChunkAssumption
<1>2. CASE Write(Chunk)
  <2>1. Chunk \in Nat /\ (Chunk >= Capacity \/ Chunk < Capacity)
    BY <1>1, RingAssumption
  <2>2. RingInv' BY <1>2, <2>1, WriteAllKeeps, WriteSomeKeeps
  <2> QED BY <1>1, <1>2, <2>2, WriteStreams
<1>3. CASE Read(Chunk) BY <1>1, <1>3, ReadKeeps, ReadStreams
<1>4. CASE Close
  BY <1>4 DEF Close, RingInv, RingTypeOK, Contents, Conserved, Wrap
<1>5. CASE UNCHANGED ring
  BY <1>5 DEF ring, RingInv, RingTypeOK, Contents, Conserved, Wrap
<1> QED BY <1>2, <1>3, <1>4, <1>5 DEF RingMoves

LEMMA SoundMovesRing == Next => RingMoves
<1> USE DEF RingMoves
<1>1. Owner => RingMoves
  BY DEF Owner, Opens, Opened, Starts, StartFails, Shutdown, Stops, ShutsDown
<1>2. Sender => RingMoves BY DEF Sender, Recv, Drain, Wait, Give
<1>3. PortAudio => RingMoves
  BY DEF PortAudio, Callback, CallbackEnters, CallbackWrites, CallbackFails
<1> QED BY <1>1, <1>2, <1>3 DEF Next, StopTrack

LEMMA PipeMovesRing == PipeNext => RingMoves
<1> USE DEF RingMoves, NoSound
<1>1. PipeRun \/ PipeOver => RingMoves
  BY DEF PipeRun, PipeOver, PipeOpens, PipeCaptures, PipePlays, PipeWorks, PipeStartFails,
         PipeStops, PipeRaisesStop, PipeCloses, PipeJoins, PipeTerminates, PipeResult, PipeSeesError
<1>2. ConverterLoop => RingMoves
  BY DEF ConverterLoop, LoopTests, LoopReads, ConversionFails, LoopWrites, WriteFails
<1>3. CaptureLost \/ Captured => RingMoves
  BY DEF CaptureLost, Captured, Callback, CallbackEnters, CallbackWrites, CallbackFails
<1> QED BY <1>1, <1>2, <1>3 DEF PipeNext

\* What the sound and the pipeline share is the one's or the other's.
SoundOrPipe ==
  /\ Is("sound") => SoundInv
  /\ ~Is("sound") => share = "new" /\ pull = "rest"
  /\ Is("pipeline") => PipeInv
  /\ ~Is("pipeline") => run = "new"

ProgramInv ==
  /\ LinkInv /\ ScheduleInv /\ EchoInv /\ PortInv /\ RingInv /\ SoundOrPipe /\ DeskInv

LEMMA ProgramStart == ProgramInit => ProgramInv
<1> SUFFICES ASSUME ProgramInit PROVE ProgramInv
  OBVIOUS
<1>1. LinkInit /\ ScreenInit /\ Init /\ PipeInit /\ EchoInit /\ ChecklistInit /\ DeskInit
  BY DEF ProgramInit
<1>2. LinkInv /\ ScheduleInv /\ EchoInv /\ PortInv /\ DeskInv
  BY <1>1, LinkStart, ScheduleStart, EchoStart, PortStart, DeskStart
<1>3. RingInit /\ CaptureInit BY <1>1 DEF Init
<1>4. RingInv /\ SoundInv /\ PipeInv BY <1>1, <1>3, RingStart, SoundStart, PipeStart
<1>5. share = "new" /\ pull = "rest" /\ run = "new" BY <1>1 DEF Init, PipeInit
<1> QED BY <1>2, <1>4, <1>5 DEF ProgramInv, SoundOrPipe

\* What does not move keeps its invariant.
LEMMA SoundOrPipeRests ==
  ASSUME ProgramInv, UNCHANGED <<program, soundVars>>
  PROVE  RingInv' /\ SoundOrPipe'
<1>1. UNCHANGED <<vars, ring, share, pull, run, pipeVars, program>>
  BY DEF soundVars, ownVars, vars, pipeVars, pipe, track
<1>2. RingInv' BY <1>1, RingMovesKeep DEF ProgramInv, RingMoves
<1>3. SoundInv => SoundInv' BY <1>1, SoundStep
<1>4. PipeInv => PipeInv' BY <1>1, PipeStep
<1> QED BY <1>1, <1>2, <1>3, <1>4 DEF ProgramInv, SoundOrPipe, Is

LEMMA ProgramStep ==
  ProgramInv /\ [ProgramNext]_programVars
    => ProgramInv' /\ [Stream!Next]_<<written - fill, written, out>> /\ DeskSteps
<1> SUFFICES ASSUME ProgramInv, [ProgramNext]_programVars
             PROVE  /\ ProgramInv' /\ DeskSteps
                    /\ [Stream!Next]_<<written - fill, written, out>>
  OBVIOUS
<1>1. LinkInv' BY LinkStep DEF ProgramInv, ProgramNext, programVars
<1>2. ScheduleInv' BY ScheduleStep DEF ProgramInv, ProgramNext, programVars
<1>3. EchoInv' BY EchoStep DEF ProgramInv, ProgramNext, programVars
<1>4. PortInv' BY PortStep DEF ProgramInv, ProgramNext, programVars
<1>d. DeskInv' /\ DeskSteps BY DeskStep DEF ProgramInv, ProgramNext, programVars
<1>5. CASE UNCHANGED <<program, soundVars>>
  <2>1. UNCHANGED ring BY <1>5 DEF soundVars
  <2>2. RingMoves BY <2>1 DEF RingMoves
  <2> QED BY <1>1, <1>2, <1>3, <1>4, <1>d, <1>5, <2>2, SoundOrPipeRests, RingMovesKeep DEF ProgramInv
<1>6. CASE Is("sound") /\ Next /\ UNCHANGED <<program, pipe>>
  <2>1. SoundInv' BY <1>6, SoundStep DEF ProgramInv, SoundOrPipe
  <2>2. SoundOrPipe' BY <1>6, <2>1 DEF ProgramInv, SoundOrPipe, Is, pipe
  <2>3. RingMoves BY <1>6, SoundMovesRing
  <2> QED BY <1>1, <1>2, <1>3, <1>4, <1>d, <2>2, <2>3, RingMovesKeep DEF ProgramInv
<1>7. CASE Is("pipeline") /\ PipeNext /\ UNCHANGED <<program, ownVars>>
  <2>1. PipeInv' BY <1>7, PipeStep DEF ProgramInv, SoundOrPipe
  <2>2. SoundOrPipe' BY <1>7, <2>1 DEF ProgramInv, SoundOrPipe, Is, ownVars, track
  <2>3. RingMoves BY <1>7, PipeMovesRing
  <2> QED BY <1>1, <1>2, <1>3, <1>4, <1>d, <2>2, <2>3, RingMovesKeep DEF ProgramInv
<1> QED BY <1>5, <1>6, <1>7 DEF ProgramNext, programVars

LEMMA ProgramsKeep == ProgramSpec => []ProgramInv
BY ProgramStart, ProgramStep, PTL DEF ProgramSpec

\* Experiments E and F: the sender's peer connection is the one of the receiver it answers
\* or has answered, for any number of receivers whose offers race.
THEOREM OneReceiverServed == ProgramSpec => []OneReceiver
<1>1. ProgramInv => OneReceiver BY DEF ProgramInv, LinkInv, LockInv, OneReceiver
<1> QED BY <1>1, ProgramsKeep, PTL

\* What a program reports: the clients of Experiment B that are told of a success are the
\* ones the server logs, in every order of the connections; the checklist gives the
\* port back, and its server never listens where a share does; and the result of Experiment D says what the pipeline has met, after all
\* of it was taken down.
THEOREM ReportsAreTrue == ProgramSpec => []ReportsTrue
<1>1. ProgramInv => EchoAgrees BY EchoInvAgrees DEF ProgramInv
<1>2. ProgramInv => PortReturned BY PortInvReturned DEF ProgramInv
<1>3. ProgramInv => PipelineReported
  BY PipeInvReported DEF ProgramInv, SoundOrPipe, PipelineReported
<1>4. ProgramInv => ReportsTrue BY <1>1, <1>2, <1>3 DEF ReportsTrue
<1> QED BY <1>4, ProgramsKeep, PTL

\* The tracks of a share: the pictures that were sent and skipped are those whose time has
\* come, every sample is accounted for, and the time stamps of the sound go on frame by frame.
THEOREM TracksAreExact == ProgramSpec => []TracksExact
<1>1. ProgramInv => Scheduled BY DEF ProgramInv, ScheduleInv
<1>2. ProgramInv => Accounted
  BY SoundInvAccounts DEF ProgramInv, SoundOrPipe, Accounted
<1>3. ProgramInv => PtsContinue
  BY SoundInvAccounts DEF ProgramInv, SoundOrPipe, PtsContinue
<1>4. ProgramInv => TracksExact BY <1>1, <1>2, <1>3 DEF TracksExact
<1> QED BY <1>4, ProgramsKeep, PTL

\* The main window: when nothing of a share or of a view runs or waits to be handled, its
\* window is gone and Home offers to start, for any number of sessions that overlap.
THEOREM WindowsGo == ProgramSpec => []WindowsFollow
<1>1. ProgramInv => WindowsFollow BY ShellInvShows DEF ProgramInv, DeskInv
<1> QED BY <1>1, ProgramsKeep, PTL

\* The history says of the sessions of a role that have not overlapped how they ended.
THEOREM HistoryToldTrue == ProgramSpec => []HistoryTrue
<1>1. ProgramInv => HistoryTrue BY ShellInvShows DEF ProgramInv, DeskInv
<1> QED BY <1>1, ProgramsKeep, PTL

\* The preferences: what Settings has said it saved is what the next launch and the next
\* share go by, whatever the other copies hold.
THEOREM SavedIsKept == ProgramSpec => SavedSurvives
<1>1. ProgramInv /\ [ProgramNext]_programVars => [Survives]_prefVars
  BY ProgramStep DEF DeskSteps
<1> QED BY <1>1, ProgramsKeep, PTL DEF ProgramSpec, SavedSurvives, Survives

\* A share listens on an address of the adapters of that moment, and records a loopback, and
\* a view plays on an output, whatever has become of the lists they were chosen from.
THEOREM EndpointsAreRight == ProgramSpec => EndpointsRight
<1>1. ProgramInv /\ ProgramInv' /\ [ProgramNext]_programVars
        => [AddressRight /\ RecordsLoopback']_<<adapterVars, deviceVars>>
  <2> SUFFICES ASSUME ProgramInv, ProgramInv', [ProgramNext]_programVars,
                      ~UNCHANGED <<adapterVars, deviceVars>>
               PROVE  AddressRight /\ RecordsLoopback'
    OBVIOUS
  <2>1. RecordsLoopback' BY DEF ProgramInv, DeskInv, DeviceInv
  <2>2. UNCHANGED adapterVars => AddressRight BY DEF AddressRight, adapterVars
  <2>3. UNCHANGED adapterVars \/ AddressRight BY ProgramStep DEF DeskSteps
  <2> QED BY <2>1, <2>2, <2>3
<1> QED BY <1>1, ProgramsKeep, PTL DEF ProgramSpec, EndpointsRight

\* The ring of every program that captures sound is a bounded stream that drops its oldest
\* frames.
THEOREM ProgramsStream == ProgramSpec => StreamSpec
<1>1. ProgramInit => Stream!Init BY DEF ProgramInit, Init, RingInit, Stream!Init
<1> QED BY <1>1, ProgramStart, ProgramStep, PTL DEF ProgramSpec, StreamSpec, Stream!Spec
=============================================================================
