----------------------------- MODULE AudioStream -----------------------------
(***************************************************************************)
(* What a bounded audio buffer promises: of everything written, in order,  *)
(* the reader gets each sample once or not at all, never one before an     *)
(* older one, and at most Capacity samples wait.  A sample is its position *)
(* in what was written; the ones that wait are head .. tail - 1.           *)
(***************************************************************************)
EXTENDS Integers, Sequences

CONSTANTS Capacity, MaxWritten

VARIABLES head, tail, \* the samples that wait
          out         \* what the last read has returned

Init == head = 0 /\ tail = 0 /\ out = <<>>

Write(n) ==
  /\ tail' = tail + n
  /\ head' = IF tail + n - Capacity > head THEN tail + n - Capacity ELSE head
  /\ UNCHANGED out

Read(n) ==
  LET got == IF tail - head >= n THEN n ELSE tail - head
  IN /\ head' = head + got
     /\ out' = [i \in 1..got |-> head + i - 1]
     /\ UNCHANGED tail

Next == \E n \in 1..MaxWritten : Write(n) \/ Read(n)

Spec == Init /\ [][Next]_<<head, tail, out>>
=============================================================================
