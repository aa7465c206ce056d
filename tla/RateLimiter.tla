----------------------------- MODULE RateLimiter -----------------------------
(***************************************************************************)
(* The sliding window of wrong pairing codes of each source address        *)
(* (src/src/snowlink/security/pairing.py, RateLimiter), as                 *)
(* validate_response uses it: is_limited, and record_failure when the      *)
(* guess was compared and found wrong.  Each reads the monotonic clock     *)
(* for itself, so time may go by between the two; no other guess can.      *)
(***************************************************************************)
EXTENDS Naturals, Sequences, FiniteSets

CONSTANTS Keys,         \* source addresses
          MaxFailures,  \* max_failures
          Window,       \* window_s
          MaxTime,      \* bound: the last instant of a behaviour
          NoKey

ASSUME LimiterAssumption ==
  /\ MaxFailures \in Nat \ {0} /\ Window \in Nat /\ MaxTime \in Nat
  /\ NoKey \notin Keys

VARIABLES
  now,        \* time.monotonic()
  bucket,     \* _failures: the failures of each address still remembered
  guessing,   \* the address whose guess has passed is_limited
  refused,    \* history: the address refused at this instant
  compared    \* history: when each wrong guess of an address was recorded

vars == <<now, bucket, guessing, refused, compared>>

Times == Seq(Nat)

TypeOK ==
  /\ now \in Nat
  /\ bucket \in [Keys -> Times]
  /\ \A k \in Keys : Len(bucket[k]) <= MaxFailures
  /\ guessing \in Keys \cup {NoKey}
  /\ refused \in Keys \cup {NoKey}
  /\ compared \in [Keys -> Times]

Init ==
  /\ now = 0
  /\ bucket = [k \in Keys |-> <<>>] /\ compared = [k \in Keys |-> <<>>]
  /\ guessing = NoKey /\ refused = NoKey

\* Mutation: a failure is forgotten at the end of its window, not after it.
StaleAtEdge(t) == t + Window <= now

\* The failure at t is older than cutoff = now - window_s.
Stale(t) == t + Window < now

\* _prune pops the stale failures at the front; there is one such remainder.
Pruned(q) ==
  {SubSeq(q, n + 1, Len(q)) :
     n \in {i \in 0..Len(q) : /\ \A j \in 1..i : Stale(q[j])
                              /\ i < Len(q) => ~Stale(q[i + 1])}}

Keep(k, q) == bucket' = [bucket EXCEPT ![k] = q]

\* Mutation: the limit is compared with > instead of >=.
IsFullLate(q) == Len(q) > MaxFailures

IsFull(q) == Len(q) >= MaxFailures

\* is_limited says yes: validate_response returns RATE_LIMITED.
Refuse(k) ==
  /\ guessing = NoKey
  /\ \E q \in Pruned(bucket[k]) : IsFull(q) /\ Keep(k, q)
  /\ refused' = k
  /\ UNCHANGED <<now, guessing, compared>>

\* is_limited says no.
Pass(k) ==
  /\ guessing = NoKey
  /\ \E q \in Pruned(bucket[k]) : ~IsFull(q) /\ Keep(k, q)
  /\ guessing' = k
  /\ UNCHANGED <<now, refused, compared>>

\* The guess is right, or the code has expired: nothing is recorded.
Leave ==
  /\ guessing # NoKey
  /\ guessing' = NoKey
  /\ UNCHANGED <<now, bucket, refused, compared>>

\* record_failure: the failure is appended, then the bucket is pruned.
Record ==
  /\ guessing # NoKey
  /\ \E q \in Pruned(Append(bucket[guessing], now)) : Keep(guessing, q)
  /\ compared' = [compared EXCEPT ![guessing] = Append(@, now)]
  /\ guessing' = NoKey
  /\ UNCHANGED <<now, refused>>

Tick ==
  /\ now < MaxTime
  /\ now' = now + 1
  /\ refused' = NoKey
  /\ UNCHANGED <<bucket, guessing, compared>>

Next == Tick \/ Leave \/ Record \/ \E k \in Keys : Refuse(k) \/ Pass(k)

Spec == Init /\ [][Next]_vars

-----------------------------------------------------------------------------

\* No stretch of time of length Window, its two ends included, holds more than
\* MaxFailures compared guesses of one address, wherever the stretch starts.
WindowLimit ==
  \A k \in Keys : \A i, j \in 1..Len(compared[k]) :
    j = i + MaxFailures => compared[k][i] + Window < compared[k][j]

\* Who is refused has really had MaxFailures wrong guesses in the last Window.
Recent(k) == {i \in 1..Len(compared[k]) : compared[k][i] + Window >= now}
RefusalEarned == refused # NoKey => Cardinality(Recent(refused)) >= MaxFailures

\* The inductive strengthening of WindowLimit: a bucket is what remains of the
\* history when some of its oldest, stale entries are dropped.
Remembers(q, c, d) ==
  /\ Len(c) = d + Len(q)
  /\ \A i \in 1..Len(q) : q[i] = c[d + i]
  /\ \A i \in 1..d : Stale(c[i])
LimiterInv ==
  /\ \A k \in Keys :
       /\ \A i, j \in 1..Len(compared[k]) :
            i <= j => compared[k][i] <= compared[k][j]
       /\ \A i \in 1..Len(compared[k]) : compared[k][i] <= now
       /\ \E d \in 0..Len(compared[k]) : Remembers(bucket[k], compared[k], d)
  /\ guessing # NoKey => Len(bucket[guessing]) < MaxFailures
  /\ WindowLimit

\* The number of failures PairingAuthority reasons with.
Live(k) == {i \in 1..Len(bucket[k]) : ~Stale(bucket[k][i])}
Counter == INSTANCE FailureCounter
             WITH count <- [k \in Keys |-> Cardinality(Live(k))]
CounterSpec == Counter!CounterSpec
=============================================================================
