-------------------------- MODULE MCServiceDeletion -------------------------
(* Two services for TLC: s1 has a VDU v of two machines (in the larger run *)
(* of one) and a VDU w of one machine, s2 a VDU x of one machine.          *)
EXTENDS ServiceDeletion, TLC

CONSTANTS s1, s2, v, w, x, v1, v2, w1, x1, r1, r2

TwoVdus == (s1 :> <<v, w>>) @@ (s2 :> <<x>>)
OneEachVduOf == (v1 :> v) @@ (w1 :> w) @@ (x1 :> x)
TwoVduOf == (v1 :> v) @@ (v2 :> v) @@ (w1 :> w) @@ (x1 :> x)
=============================================================================
