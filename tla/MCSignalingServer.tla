-------------------------- MODULE MCSignalingServer --------------------------
(* Instances of SignalingServer for TLC.                                   *)
EXTENDS SignalingServer
CONSTANTS c1, c2, c3, lan, vpn

\* Two connections share an address, so one viewer's failures limit a retry.
MCAddrOf == [c \in Conns |-> IF c = c3 THEN vpn ELSE lan]
=============================================================================
