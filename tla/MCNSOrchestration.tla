------------------------- MODULE MCNSOrchestration --------------------------
(* Small services for TLC.                                                 *)
EXTENDS NSOrchestrationInv, TLC

CONSTANTS a, b, c, d, a1, a2, b1, c1, d1

(* Every VDU but a, which has two instances, has one.                      *)
DiamondVduOf == (a1 :> a) @@ (a2 :> a) @@ (b1 :> b) @@ (c1 :> c) @@ (d1 :> d)

(* b and c depend on a, d on both of them.                                 *)
DiamondDeps == (a :> {}) @@ (b :> {a}) @@ (c :> {a}) @@ (d :> {b, c})

AllFaults == Fault
AnswerFaults == {"boot", "driver", "api"}
=============================================================================
