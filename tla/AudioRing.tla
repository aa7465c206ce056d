------------------------------ MODULE AudioRing ------------------------------
(***************************************************************************)
(* AudioRingBuffer (src/src/snowlink/media/audio_ring_buffer.py): an array *)
(* of frames with two positions and a fill, that drops the oldest frames   *)
(* when it overflows.  Each method holds the lock from its first to its    *)
(* last access; a read that waits lets writes through until its timeout    *)
(* or its frames have come, so a read is one step that finds enough        *)
(* frames, or fewer.  A frame is its position in what was written.         *)
(***************************************************************************)
EXTENDS Integers, Sequences

CONSTANTS Capacity,   \* capacity_frames
          MaxWritten  \* bound: frames written

ASSUME RingAssumption == Capacity \in Nat \ {0} /\ MaxWritten \in Nat

VARIABLES
  buf,                \* _buf
  readPos, writePos,  \* _read_pos, _write_pos
  fill,               \* _fill
  ringClosed,         \* _closed
  written, dropped, taken,  \* _written_samples, _dropped_samples, _read_samples
  out                 \* what the last read has returned, without the padding

ring == <<buf, readPos, writePos, fill, ringClosed, written, dropped, taken, out>>

Positions == 0..(Capacity - 1)

RingTypeOK ==
  /\ buf \in [Positions -> Int]
  /\ readPos \in Positions /\ writePos \in Positions /\ fill \in 0..Capacity
  /\ ringClosed \in BOOLEAN
  /\ written \in Nat /\ dropped \in Nat /\ taken \in Nat
  /\ out \in Seq(Int)

RingInit ==
  /\ buf = [p \in Positions |-> -1]
  /\ readPos = 0 /\ writePos = 0 /\ fill = 0 /\ ringClosed = FALSE
  /\ written = 0 /\ dropped = 0 /\ taken = 0 /\ out = <<>>

\* x % _capacity, of the sum of a position and at most _capacity.
Wrap(x) == IF x >= Capacity THEN x - Capacity ELSE x

\* write() of as much as the buffer holds: only the newest frames are kept.
WriteAll(n) ==
  /\ buf' = [p \in Positions |-> written + n - Capacity + p]
  /\ writePos' = 0 /\ readPos' = 0 /\ fill' = Capacity
  /\ dropped' = dropped + fill + (n - Capacity)

\* How far position p is ahead of the next frame to be written.
Ahead(p) == IF p >= writePos THEN p - writePos ELSE p + Capacity - writePos

\* Mutation: the oldest frames are overwritten and the read position stays.
WriteOver(n) ==
  LET overflow == IF fill + n > Capacity THEN fill + n - Capacity ELSE 0
  IN /\ buf' = [p \in Positions |-> IF Ahead(p) < n THEN written + Ahead(p) ELSE buf[p]]
     /\ readPos' = readPos
     /\ writePos' = Wrap(writePos + n)
     /\ fill' = fill - overflow + n
     /\ dropped' = dropped + overflow

\* write() of less: _drop_oldest_unlocked, then the frames in one or two parts.
WriteSome(n) ==
  LET overflow == IF fill + n > Capacity THEN fill + n - Capacity ELSE 0
  IN /\ buf' = [p \in Positions |-> IF Ahead(p) < n THEN written + Ahead(p) ELSE buf[p]]
     /\ readPos' = Wrap(readPos + overflow)
     /\ writePos' = Wrap(writePos + n)
     /\ fill' = fill - overflow + n
     /\ dropped' = dropped + overflow

Write(n) ==
  /\ ~ringClosed
  /\ IF n >= Capacity THEN WriteAll(n) ELSE WriteSome(n)
  /\ written' = written + n
  /\ UNCHANGED <<ringClosed, taken, out>>

Got(n) == IF fill >= n THEN n ELSE fill

\* read() and _read_unlocked; read_exact() pads, and tells it did.
Read(n) ==
  /\ out' = [i \in 1..Got(n) |-> buf[Wrap(readPos + i - 1)]]
  /\ readPos' = Wrap(readPos + Got(n))
  /\ fill' = fill - Got(n) /\ taken' = taken + Got(n)
  /\ UNCHANGED <<buf, writePos, ringClosed, written, dropped>>

Close ==
  /\ ringClosed' = TRUE
  /\ UNCHANGED <<buf, readPos, writePos, fill, written, dropped, taken, out>>

-----------------------------------------------------------------------------

\* The frames between the two positions are the newest ones written, in their
\* order, whatever was dropped, wrapped around or read before.
Contents ==
  /\ writePos = Wrap(readPos + fill)
  /\ \A i \in 0..(fill - 1) : buf[Wrap(readPos + i)] = written - fill + i

\* Every frame written was read, was counted as dropped, or waits.
Conserved == written = taken + dropped + fill

Stream == INSTANCE AudioStream WITH head <- written - fill, tail <- written

RingNext ==
  \/ \E n \in 1..MaxWritten : (written + n <= MaxWritten /\ Write(n)) \/ Read(n)
  \/ Close

RingSpec == RingInit /\ [][RingNext]_ring

\* The ring buffer implements the stream of module AudioStream.
StreamSpec == Stream!Spec
=============================================================================
