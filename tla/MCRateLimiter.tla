---------------------------- MODULE MCRateLimiter ----------------------------
(***************************************************************************)
(* Instances of RateLimiter for TLC: two addresses, at most two failures   *)
(* in a window of two ticks, and three windows of time.  Six is long       *)
(* enough for a window to fill, empty and fill again at every offset.      *)
(***************************************************************************)
EXTENDS RateLimiter
CONSTANTS lan, vpn
=============================================================================
