---------------------------- MODULE MCProxyFetch ----------------------------
(* Two terminals: the run of one has two lanes, that of the other has one. *)
EXTENDS ProxyFetch, TLC

CONSTANTS r1, r2, w1, w2, w3

LaneOf == (w1 :> r1) @@ (w2 :> r1) @@ (w3 :> r2)
=============================================================================
