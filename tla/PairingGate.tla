----------------------------- MODULE PairingGate -----------------------------
(***************************************************************************)
(* What the pairing gate of a share session promises, independently of     *)
(* messages, awaits and timers: one viewer at a time is let into the       *)
(* handshake, and the code admits at most one viewer in the life of the    *)
(* session - the one that held the slot when the code was spent.  The code *)
(* may be spent without admitting anybody (the viewer left meanwhile).     *)
(* SignalingServer is shown to implement this specification.               *)
(***************************************************************************)
CONSTANTS Conns, NoConn

VARIABLES holder,     \* the connection inside the handshake, or NoConn
          admitted,   \* the connection that was let in, or NoConn
          spent       \* the code can admit nobody any more

gateVars == <<holder, admitted, spent>>

GateInit ==
  /\ holder = NoConn
  /\ admitted = NoConn
  /\ spent = FALSE

\* The free slot is given to c.
Claim(c) ==
  /\ holder = NoConn
  /\ admitted = NoConn
  /\ holder' = c
  /\ UNCHANGED <<admitted, spent>>

\* c leaves the handshake, or the media phase, without changing the verdict.
Release(c) ==
  /\ holder = c
  /\ holder' = NoConn
  /\ UNCHANGED <<admitted, spent>>

\* The code is spent on c, which then stays connected or is gone at once.
Admit(c) ==
  /\ holder = c
  /\ ~spent
  /\ spent' = TRUE
  /\ admitted' = c
  /\ holder' \in {c, NoConn}

\* The code is spent on c, but c could not be told.
Waste(c) ==
  /\ holder = c
  /\ ~spent
  /\ spent' = TRUE
  /\ holder' = NoConn
  /\ UNCHANGED admitted

GateNext == \E c \in Conns : Claim(c) \/ Release(c) \/ Admit(c) \/ Waste(c)

GateSpec == GateInit /\ [][GateNext]_gateVars
=============================================================================
