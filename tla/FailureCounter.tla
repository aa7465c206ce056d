---------------------------- MODULE FailureCounter ----------------------------
(***************************************************************************)
(* What the rate limiter promises its caller: a number of failures for     *)
(* each address that a wrong guess raises by one, that only time lowers,   *)
(* and that never passes the limit.  PairingAuthority keeps such a number  *)
(* in place of the limiter's timestamps; RateLimiter implements it.        *)
(***************************************************************************)
EXTENDS Naturals

CONSTANTS Keys, MaxFailures

VARIABLE count

CounterInit == count = [k \in Keys |-> 0]

Fail(k) ==
  /\ count[k] < MaxFailures
  /\ count' = [count EXCEPT ![k] = @ + 1]

Age ==
  /\ count' \in [Keys -> 0..MaxFailures]
  /\ \A k \in Keys : count'[k] <= count[k]

CounterNext == Age \/ \E k \in Keys : Fail(k)

CounterSpec == CounterInit /\ [][CounterNext]_count
=============================================================================
