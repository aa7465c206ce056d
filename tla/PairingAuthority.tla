-------------------------- MODULE PairingAuthority --------------------------
(***************************************************************************)
(* The pairing code of one share session: its single challenge nonce, its  *)
(* time to live, its one use, and the per-address limit on wrong guesses   *)
(* (src/src/snowlink/security/pairing.py, PairingAuthority).               *)
(*                                                                         *)
(* The module has no Next of its own: SignalingServer calls these          *)
(* operators from the connection handler, and adds the two steps time      *)
(* takes, TtlElapses and FailureAges.  Instants are abstracted to what     *)
(* validate_response can tell apart: whether the code has expired, and     *)
(* how many failures of an address are still inside the window.  The       *)
(* window itself, with its clock and its deque, is module RateLimiter.     *)
(***************************************************************************)
EXTENDS Naturals

CONSTANTS Conns,        \* connection attempts; one handler runs for each
          Addrs,        \* source addresses the limiter is keyed by
          AddrOf,       \* the address a connection comes from
          NoConn,       \* stands for "no nonce" and "no connection"
          MaxFailures   \* PAIRING_RATE_LIMIT_FAILURES

ASSUME PairingAssumption ==
  /\ NoConn \notin Conns
  /\ AddrOf \in [Conns -> Addrs]
  /\ MaxFailures \in Nat \ {0}

VARIABLES consumed,     \* _consumed: the code has admitted a viewer
          nonce,        \* _nonce, as the connection it was issued to
          expired,      \* is_expired(): ttl_s has gone by since created_at
          failures      \* wrong guesses of an address inside the window

authorityVars == <<consumed, nonce, expired, failures>>

AuthorityTypeOK ==
  /\ consumed \in BOOLEAN
  /\ nonce \in Conns \cup {NoConn}
  /\ expired \in BOOLEAN
  /\ failures \in [Addrs -> 0..MaxFailures]

AuthorityInit ==
  /\ consumed = FALSE
  /\ nonce = NoConn
  /\ expired = FALSE
  /\ failures = [a \in Addrs |-> 0]

(***************************************************************************)
(* issue_challenge: a fresh nonce REPLACES the previous one.  Nonces are   *)
(* random and each connection asks for one at most, so a nonce is named by *)
(* its connection.  The caller has seen that the code is not expired.      *)
(***************************************************************************)
IssueChallenge(c) ==
  /\ ~expired
  /\ nonce' = c
  /\ UNCHANGED <<consumed, expired, failures>>

IsLimited(a) == failures[a] >= MaxFailures

NonceMatches(n) == nonce # NoConn /\ nonce = n

\* A failure is recorded only when a guess was really compared.
GuessFails(a, codeOk, n) ==
  ~consumed /\ ~IsLimited(a) /\ ~expired /\ ~(NonceMatches(n) /\ codeOk)

\* The status validate_response returns, in the order it tests.
Status(a, codeOk, n) ==
  CASE consumed                             -> "invalid"
    [] ~consumed /\ IsLimited(a)            -> "rate_limited"
    [] ~consumed /\ ~IsLimited(a) /\ expired -> "expired"
    [] GuessFails(a, codeOk, n)             -> "invalid"
    [] OTHER                                -> "ok"

RecordFailure(a) == failures' = [failures EXCEPT ![a] = @ + 1]

\* validate_response as a step: only a failed guess changes anything.
ValidateResponse(a, codeOk, n) ==
  /\ IF GuessFails(a, codeOk, n) THEN RecordFailure(a) ELSE UNCHANGED failures
  /\ UNCHANGED <<consumed, nonce, expired>>

MarkConsumed ==
  /\ consumed' = TRUE
  /\ nonce' = NoConn
  /\ UNCHANGED <<expired, failures>>

\* remaining_ttl_s reaches zero.
TtlElapses ==
  /\ ~expired
  /\ expired' = TRUE
  /\ UNCHANGED <<consumed, nonce, failures>>

\* The oldest failure of a leaves the sliding window (_prune).
FailureAges(a) ==
  /\ failures[a] > 0
  /\ failures' = [failures EXCEPT ![a] = @ - 1]
  /\ UNCHANGED <<consumed, nonce, expired>>
=============================================================================
