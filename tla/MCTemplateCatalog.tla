------------------------- MODULE MCTemplateCatalog --------------------------
(* Uploads for TLC: u1 describes a service of two VNFDs, u2 another one of *)
(* one VNFD, and u3 the first one again.                                   *)
EXTENDS TemplateCatalog, TLC

CONSTANTS u1, u2, u3, m, n, f, g, h, fi, ff, gf, gg, hi, hf

TwoNames == [u \in Upload |-> IF u = u2 THEN n ELSE m]
ThreeVnfds ==
  [u \in Upload |-> CASE u = u1 -> <<f, g>> [] u = u2 -> <<h>> [] OTHER -> <<g, f>>]
NsdPlaces == [u \in Upload |-> CASE u = u1 -> 1 [] u = u2 -> 0 [] OTHER -> 2]

(* VNFD f has a VDU with an image and a flavor, g two VDUs whose images    *)
(* exist and are named by their ids.                                       *)
SixParts == (f :> <<fi, ff>>) @@ (g :> <<gf, gg>>) @@ (h :> <<hi, hf>>)
=============================================================================
