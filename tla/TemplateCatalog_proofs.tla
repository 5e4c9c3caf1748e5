----------------------- MODULE TemplateCatalog_proofs -----------------------
(***************************************************************************)
(* Proofs about TemplateCatalog, for every set of uploads and whatever     *)
(* VNFDs and parts they have, and whichever requests fail.                 *)
(***************************************************************************)
EXTENDS TemplateCatalog, FiniteSetTheorems, TLAPS

(* The parts of the first n VNFDs of an upload, and the first m of the     *)
(* next one.                                                               *)
Through(u, n) == PartsIn(u, {VnfdsOf[u][i] : i \in 1 .. n})
Begun(u, n, m) == {<<u, PartsOf[VnfdsOf[u][n + 1]][i]>> : i \in 1 .. m}

-----------------------------------------------------------------------------
(* The parts of an upload *)

(* An upload has VNFDs, and every VNFD has parts.                          *)
LEMMA VnfdsAre ==
  ASSUME NEW u \in Upload
  PROVE  /\ Len(VnfdsOf[u]) \in Nat /\ DOMAIN VnfdsOf[u] = 1 .. Len(VnfdsOf[u])
         /\ \A i \in 1 .. Len(VnfdsOf[u]) : VnfdsOf[u][i] \in Vnfd
         /\ Range(VnfdsOf[u]) = {VnfdsOf[u][i] : i \in 1 .. Len(VnfdsOf[u])}
         /\ Len(VnfdsOf[u]) > 0
<1>1. VnfdsOf[u] \in Seq(Vnfd) /\ VnfdsOf[u] # << >>
  BY CatalogAssumption
<1> QED
  BY <1>1 DEF Range

LEMMA PartsAre ==
  ASSUME NEW f \in Vnfd
  PROVE  /\ Len(PartsOf[f]) \in Nat /\ DOMAIN PartsOf[f] = 1 .. Len(PartsOf[f])
         /\ \A i \in 1 .. Len(PartsOf[f]) : PartsOf[f][i] \in Part
         /\ Range(PartsOf[f]) = {PartsOf[f][i] : i \in 1 .. Len(PartsOf[f])}
         /\ Len(PartsOf[f]) > 0
<1>1. PartsOf[f] \in Seq(Part) /\ PartsOf[f] # << >>
  BY CatalogAssumption
<1> QED
  BY <1>1 DEF Range

(* With all its parts, a VNFD is one the upload is through with,           *)
LEMMA ThroughGrows ==
  ASSUME NEW u \in Upload, NEW n \in Nat, n < Len(VnfdsOf[u])
  PROVE  Through(u, n + 1) =
           Through(u, n) \cup Begun(u, n, Len(PartsOf[VnfdsOf[u][n + 1]]))
<1> DEFINE f == VnfdsOf[u][n + 1]
<1>1. f \in Vnfd
  BY VnfdsAre
<1>2. {VnfdsOf[u][i] : i \in 1 .. n + 1} = {VnfdsOf[u][i] : i \in 1 .. n} \cup {f}
  <2>1. 1 .. n + 1 = 1 .. n \cup {n + 1}
    OBVIOUS
  <2> QED
    BY <2>1
<1>3. Begun(u, n, Len(PartsOf[f])) = {<<u, p>> : p \in Range(PartsOf[f])}
  BY <1>1, PartsAre DEF Begun
<1> HIDE DEF f
<1>4. PartsIn(u, {VnfdsOf[u][i] : i \in 1 .. n} \cup {f}) =
        PartsIn(u, {VnfdsOf[u][i] : i \in 1 .. n}) \cup {<<u, p>> : p \in Range(PartsOf[f])}
  BY DEF PartsIn
<1> QED
  BY <1>2, <1>3, <1>4 DEF Through, f

(* with all its VNFDs, all parts are made.                                 *)
LEMMA ThroughAll ==
  ASSUME NEW u \in Upload
  PROVE  Through(u, Len(VnfdsOf[u])) = AllParts(u)
BY VnfdsAre DEF Through, AllParts

LEMMA BegunGrows ==
  ASSUME NEW u \in Upload, NEW n \in Nat, NEW m \in Nat
  PROVE  /\ Begun(u, n, m + 1) =
              Begun(u, n, m) \cup {<<u, PartsOf[VnfdsOf[u][n + 1]][m + 1]>>}
         /\ Begun(u, n, 0) = {}
<1>1. 1 .. m + 1 = 1 .. m \cup {m + 1} /\ 1 .. 0 = {}
  OBVIOUS
<1> QED
  BY <1>1 DEF Begun

(* No part is made twice: neither the next one nor those of its VNFD are   *)
(* of a VNFD the upload is through with.                                   *)
LEMMA PartsApart ==
  ASSUME NEW u \in Upload, NEW n \in Nat, n < Len(VnfdsOf[u]),
         NEW m \in Nat, m < Len(PartsOf[VnfdsOf[u][n + 1]])
  PROVE  LET p == <<u, PartsOf[VnfdsOf[u][n + 1]][m + 1]>>
         IN  /\ p \notin Through(u, n) /\ p \notin Begun(u, n, m)
             /\ Begun(u, n, m) \cap Through(u, n) = {}
<1> DEFINE f == VnfdsOf[u][n + 1]
<1>1. f \in Vnfd /\ n + 1 \in 1 .. Len(VnfdsOf[u])
  BY VnfdsAre
<1>2. \A i \in 1 .. n : VnfdsOf[u][i] \in Vnfd /\ VnfdsOf[u][i] # f
  <2>1. IsInjective(VnfdsOf[u])
    BY CatalogAssumption
  <2>2. \A i \in 1 .. n : i \in 1 .. Len(VnfdsOf[u]) /\ i # n + 1
    BY VnfdsAre
  <2> QED
    BY <1>1, <2>1, <2>2, VnfdsAre DEF IsInjective
<1> HIDE DEF f
<1>3. ASSUME NEW j \in 1 .. Len(PartsOf[f]) PROVE <<u, PartsOf[f][j]>> \notin Through(u, n)
  <2>1. PartsOf[f][j] \in Range(PartsOf[f])
    BY <1>1, PartsAre
  <2>2. \A i \in 1 .. n : PartsOf[f][j] \notin Range(PartsOf[VnfdsOf[u][i]])
    BY <1>1, <1>2, <2>1, CatalogAssumption
  <2> QED
    BY <2>2 DEF Through, PartsIn
<1>4. \A i \in 1 .. m : PartsOf[f][i] # PartsOf[f][m + 1]
  <2>1. IsInjective(PartsOf[f])
    BY <1>1, CatalogAssumption
  <2>2. m + 1 \in 1 .. Len(PartsOf[f]) /\ \A i \in 1 .. m : i \in 1 .. Len(PartsOf[f]) /\ i # m + 1
    BY <1>1, PartsAre DEF f
  <2> QED
    BY <1>1, <2>1, <2>2, PartsAre DEF IsInjective
<1>5. m + 1 \in 1 .. Len(PartsOf[f]) /\ \A i \in 1 .. m : i \in 1 .. Len(PartsOf[f])
  BY <1>1, PartsAre DEF f
<1>6. /\ <<u, PartsOf[f][m + 1]>> \notin Through(u, n)
      /\ <<u, PartsOf[f][m + 1]>> \notin Begun(u, n, m)
  BY <1>3, <1>4, <1>5 DEF Begun, f
<1>7. Begun(u, n, m) \cap Through(u, n) = {}
  BY <1>3, <1>5 DEF Begun, f
<1> QED
  BY <1>6, <1>7 DEF f

(* The parts of an upload are pairs of it and a part.                      *)
LEMMA PartsOwn ==
  ASSUME NEW u \in Upload
  PROVE  /\ \A p \in AllParts(u) : p \in Upload \X Part /\ p[1] = u
         /\ \A n \in Nat, m \in Nat : n < Len(VnfdsOf[u]) =>
              /\ \A p \in Begun(u, n, m) : p[1] = u
              /\ m <= Len(PartsOf[VnfdsOf[u][n + 1]]) => Begun(u, n, m) \subseteq Upload \X Part
<1>1. \A p \in AllParts(u) : p \in Upload \X Part /\ p[1] = u
  <2>1. \A f \in Range(VnfdsOf[u]) : f \in Vnfd /\ Range(PartsOf[f]) \subseteq Part
    <3>1. \A f \in Range(VnfdsOf[u]) : f \in Vnfd
      BY VnfdsAre
    <3>2. ASSUME NEW f \in Vnfd PROVE Range(PartsOf[f]) \subseteq Part
      <4>1. /\ Range(PartsOf[f]) = {PartsOf[f][i] : i \in 1 .. Len(PartsOf[f])}
            /\ \A i \in 1 .. Len(PartsOf[f]) : PartsOf[f][i] \in Part
        BY PartsAre
      <4> QED
        BY <4>1
    <3> QED
      BY <3>1, <3>2
  <2> QED
    <3>1. UNION {Range(PartsOf[f]) : f \in Range(VnfdsOf[u])} \subseteq Part
      BY <2>1
    <3> QED
      BY <3>1 DEF AllParts, PartsIn
<1>2. ASSUME NEW n \in Nat, NEW m \in Nat, n < Len(VnfdsOf[u])
      PROVE  /\ \A p \in Begun(u, n, m) : p[1] = u
             /\ m <= Len(PartsOf[VnfdsOf[u][n + 1]]) => Begun(u, n, m) \subseteq Upload \X Part
  <2>1. VnfdsOf[u][n + 1] \in Vnfd
    BY <1>2, VnfdsAre
  <2>2. m <= Len(PartsOf[VnfdsOf[u][n + 1]]) =>
          \A i \in 1 .. m : PartsOf[VnfdsOf[u][n + 1]][i] \in Part
    BY <2>1, PartsAre
  <2> QED
    BY <2>2 DEF Begun
<1> QED
  BY <1>1, <1>2

(* What an upload is through with and what it has noted, and that it has   *)
(* not the next part among them.                                           *)
LEMMA PlaceIs ==
  ASSUME TypeOK, NEW u \in Upload, nth[u] < Len(VnfdsOf[u]), made[u] < Len(PartsOf[At(u)])
  PROVE  /\ nth[u] \in Nat /\ made[u] \in Nat /\ At(u) \in Vnfd /\ NextPart(u) \in Part
         /\ Finished(u) = Through(u, nth[u]) /\ Noted(u) = Begun(u, nth[u], made[u])
         /\ <<u, NextPart(u)>> \notin Finished(u) /\ <<u, NextPart(u)>> \notin Noted(u)
         /\ Noted(u) \cap Finished(u) = {}
         /\ Noted(u) \subseteq Upload \X Part /\ \A p \in Noted(u) : p[1] = u
<1>1. nth[u] \in Nat /\ made[u] \in Nat
  BY DEF TypeOK
<1>2. At(u) \in Vnfd /\ At(u) = VnfdsOf[u][nth[u] + 1]
  BY <1>1, VnfdsAre DEF At
<1>3. NextPart(u) \in Part
  BY <1>1, <1>2, PartsAre DEF NextPart
<1>4. Finished(u) = Through(u, nth[u]) /\ Noted(u) = Begun(u, nth[u], made[u])
  BY DEF Finished, Noted, Through, Begun, At
<1>5. NextPart(u) = PartsOf[VnfdsOf[u][nth[u] + 1]][made[u] + 1]
  BY DEF NextPart, At
<1>6. /\ <<u, NextPart(u)>> \notin Through(u, nth[u])
      /\ <<u, NextPart(u)>> \notin Begun(u, nth[u], made[u])
      /\ Begun(u, nth[u], made[u]) \cap Through(u, nth[u]) = {}
  BY <1>1, <1>2, <1>5, PartsApart
<1>7. /\ \A p \in Begun(u, nth[u], made[u]) : p[1] = u
      /\ Begun(u, nth[u], made[u]) \subseteq Upload \X Part
  <2>1. Len(PartsOf[At(u)]) \in Nat
    BY <1>2, PartsAre
  <2> QED
    BY <1>1, <1>2, <2>1, PartsOwn
<1> QED
  BY <1>1, <1>2, <1>3, <1>4, <1>6, <1>7

-----------------------------------------------------------------------------
(* Noting a part *)

(* A part that is noted is of the VNFD the upload is at, or the last one   *)
(* of it: then the upload is through with this VNFD, and after the last    *)
(* all its parts are made.                                                 *)
LEMMA Noting ==
  ASSUME TypeOK, NEW u \in Upload, nth[u] < Len(VnfdsOf[u]), made[u] < Len(PartsOf[At(u)]),
         NotePart(u)
  PROVE  /\ nth' \in [Upload -> Nat] /\ made' \in [Upload -> Nat]
         /\ \A w \in Upload : w # u => nth'[w] = nth[w] /\ made'[w] = made[w]
         /\ LET all == Finished(u) \cup Noted(u) \cup {<<u, NextPart(u)>>}
            IN  \/ /\ pc' = [pc EXCEPT ![u] = "parts"] /\ rows' = rows
                   /\ nth'[u] < Len(VnfdsOf[u]) /\ made'[u] < Len(PartsOf[At(u)'])
                   /\ Finished(u)' \cup Noted(u)' = all
                   /\ json' = json \/ json' = CopyOf(u, snap[u], nth[u] + 1)
                \/ /\ pc' = [pc EXCEPT ![u] = "over"] /\ rows' = rows \cup {u}
                   /\ nth'[u] = Len(VnfdsOf[u]) /\ all = AllParts(u)
                   /\ json' = CopyOf(u, snap[u], Len(VnfdsOf[u]))
<1> DEFINE all == Finished(u) \cup Noted(u) \cup {<<u, NextPart(u)>>}
<1> USE DEF Goto
<1>t. nth \in [Upload -> Nat] /\ made \in [Upload -> Nat] /\ nth[u] \in Nat /\ made[u] \in Nat
  BY DEF TypeOK
<1>f. At(u) \in Vnfd /\ Len(PartsOf[At(u)]) \in Nat /\ Len(VnfdsOf[u]) \in Nat
  BY PlaceIs, PartsAre, VnfdsAre
<1>n. all = Through(u, nth[u]) \cup Begun(u, nth[u], made[u] + 1)
  <2>1. NextPart(u) = PartsOf[VnfdsOf[u][nth[u] + 1]][made[u] + 1]
    BY DEF NextPart, At
  <2> QED
    <3>1. Finished(u) = Through(u, nth[u]) /\ Noted(u) = Begun(u, nth[u], made[u])
      BY PlaceIs
    <3>2. Begun(u, nth[u], made[u] + 1) = Begun(u, nth[u], made[u]) \cup {<<u, NextPart(u)>>}
      <4>1. nth[u] \in Nat /\ made[u] \in Nat
        BY <1>t
      <4> HIDE <1>t
      <4>2. Begun(u, nth[u], made[u] + 1) = Begun(u, nth[u], made[u])
              \cup {<<u, PartsOf[VnfdsOf[u][nth[u] + 1]][made[u] + 1]>>}
        BY <4>1, BegunGrows
      <4> QED
        BY <2>1, <4>2
    <3> QED
      BY <3>1, <3>2
<1>p. Finished(u)' = Through(u, nth'[u]) /\ Noted(u)' = Begun(u, nth'[u], made'[u])
  BY DEF Finished, Noted, Through, Begun, At
<1> HIDE DEF all
<1>1. CASE made[u] + 1 < Len(PartsOf[At(u)])
  <2>1. /\ made' = [made EXCEPT ![u] = made[u] + 1] /\ nth' = nth /\ rows' = rows /\ json' = json
        /\ pc' = [pc EXCEPT ![u] = "parts"]
    BY <1>1 DEF NotePart
  <2>2. made'[u] = made[u] + 1 /\ At(u)' = At(u)
    BY <1>t, <2>1 DEF At
  <2>3. Finished(u)' \cup Noted(u)' = all
    BY <1>n, <1>p, <2>1, <2>2
  <2> QED
    <3>1. nth'[u] < Len(VnfdsOf[u]) /\ made'[u] < Len(PartsOf[At(u)'])
      BY <1>1, <2>1, <2>2
    <3>2. nth' \in [Upload -> Nat] /\ made' \in [Upload -> Nat]
      BY <1>t, <2>1
    <3>3. \A w \in Upload : w # u => nth'[w] = nth[w] /\ made'[w] = made[w]
      BY <1>t, <2>1
    <3> QED
      BY <2>1, <2>3, <3>1, <3>2, <3>3 DEF all
<1>2. CASE ~(made[u] + 1 < Len(PartsOf[At(u)]))
  <2>1. /\ made' = [made EXCEPT ![u] = 0] /\ nth' = [nth EXCEPT ![u] = nth[u] + 1]
        /\ json' = CopyOf(u, snap[u], nth[u] + 1)
        /\ IF nth[u] + 1 = Len(VnfdsOf[u])
           THEN rows' = rows \cup {u} /\ pc' = [pc EXCEPT ![u] = "over"]
           ELSE pc' = [pc EXCEPT ![u] = "parts"] /\ rows' = rows
    BY <1>2 DEF NotePart
  <2>2. made'[u] = 0 /\ nth'[u] = nth[u] + 1
    BY <1>t, <2>1
  <2>3. made[u] + 1 = Len(PartsOf[At(u)])
    BY <1>t, <1>f, <1>2
  <2>4. all = Through(u, nth[u] + 1)
    BY <1>t, <1>n, <2>3, ThroughGrows DEF At
  <2>5. \A w \in Upload : w # u => nth'[w] = nth[w] /\ made'[w] = made[w]
    BY <1>t, <2>1
  <2>6. nth' \in [Upload -> Nat] /\ made' \in [Upload -> Nat]
    BY <1>t, <2>1
  <2>7. CASE nth[u] + 1 = Len(VnfdsOf[u])
    BY <2>1, <2>2, <2>4, <2>5, <2>6, <2>7, ThroughAll DEF all
  <2>8. CASE nth[u] + 1 # Len(VnfdsOf[u])
    <3>1. nth'[u] < Len(VnfdsOf[u])
      BY <1>t, <1>f, <2>2, <2>8
    <3>2. made'[u] < Len(PartsOf[At(u)'])
      <4>1. At(u)' = VnfdsOf[u][nth'[u] + 1]
        BY DEF At
      <4>2. At(u)' \in Vnfd
        BY <1>t, <2>2, <3>1, <4>1, VnfdsAre
      <4> QED
        BY <2>2, <4>2, PartsAre
    <3>3. Finished(u)' \cup Noted(u)' = all
      BY <1>t, <1>p, <2>2, <2>4, BegunGrows
    <3> QED
      BY <2>1, <2>5, <2>6, <2>8, <3>1, <3>2, <3>3 DEF all
  <2> QED
    BY <2>7, <2>8
<1> QED
  BY <1>1, <1>2

-----------------------------------------------------------------------------
(* Types *)

(* templates.json keeps naming uploads,                                    *)
LEMMA CopyTypes ==
  ASSUME NEW u \in Upload, NEW loaded \in [Key -> Upload \cup {NoFile}], NEW n
  PROVE  CopyOf(u, loaded, n) \in [Key -> Upload \cup {NoFile}]
BY DEF CopyOf

(* what an upload makes and notes has the types,                           *)
LEMMA UploadTypes ==
  ASSUME TypeOK, NEW u \in Upload, UploadSound(u), overlapped' \in BOOLEAN,
         \/ CreateTemplate(u) \/ CreateFlavor(u) \/ CreateImage(u) \/ ImageActive(u)
         \/ UploadFails(u) \/ CleanupEnds(u) \/ \E p \in undo[u] : TemplateCleanup(u, p)
  PROVE  TypeOK'
<1> USE DEF Goto, delVars
<1>p. /\ pc \in [Upload -> {"idle", "parts", "polling", "cleanup", "over", "failed", "refused"}]
      /\ json \in [Key -> Upload \cup {NoFile}]
      /\ snap \in [Upload -> [Key -> Upload \cup {NoFile}]]
      /\ undo \in [Upload -> SUBSET (Upload \X Part)] /\ rows \subseteq Upload
  BY DEF TypeOK
<1>1. CASE CreateTemplate(u)
  <2>1. json' = json \/ json' = CopyOf(u, json, 0)
    BY <1>1 DEF CreateTemplate
  <2>2. json' \in [Key -> Upload \cup {NoFile}]
    BY <1>p, <2>1, CopyTypes
  <2>3. /\ snap' = [snap EXCEPT ![u] = json]
        /\ pc' = [pc EXCEPT ![u] = "refused"] \/ pc' = [pc EXCEPT ![u] = "parts"]
        /\ UNCHANGED <<rows, status, store, nth, made, undo, del, todo>>
    BY <1>1 DEF CreateTemplate
  <2>4. /\ snap' \in [Upload -> [Key -> Upload \cup {NoFile}]]
        /\ pc' \in [Upload -> {"idle", "parts", "polling", "cleanup", "over", "failed", "refused"}]
    BY <1>p, <2>3
  <2> QED
    BY <2>2, <2>3, <2>4 DEF TypeOK
<1>n. ASSUME pc[u] # "over" PROVE nth[u] < Len(VnfdsOf[u]) /\ made[u] < Len(PartsOf[At(u)])
  BY <1>n DEF UploadSound
<1>2. ASSUME NotePart(u), pc[u] # "over"
      PROVE  /\ json' \in [Key -> Upload \cup {NoFile}] /\ rows' \subseteq Upload
             /\ nth' \in [Upload -> Nat] /\ made' \in [Upload -> Nat]
             /\ pc' \in [Upload -> {"idle", "parts", "polling", "cleanup", "over", "failed",
                                    "refused"}]
  <2>1. /\ json' = json \/ \E n \in Nat \cup {Len(VnfdsOf[u])} : json' = CopyOf(u, snap[u], n)
        /\ rows' = rows \/ rows' = rows \cup {u}
        /\ pc' = [pc EXCEPT ![u] = "parts"] \/ pc' = [pc EXCEPT ![u] = "over"]
        /\ nth' \in [Upload -> Nat] /\ made' \in [Upload -> Nat]
    <3>1. nth[u] + 1 \in Nat
      BY DEF TypeOK
    <3> QED
      BY <1>n, <1>2, <3>1, Noting
  <2>2. json' \in [Key -> Upload \cup {NoFile}]
    <3>1. snap[u] \in [Key -> Upload \cup {NoFile}]
      BY <1>p
    <3>2. \A n : CopyOf(u, snap[u], n) \in [Key -> Upload \cup {NoFile}]
      BY <3>1, CopyTypes
    <3>3. json \in [Key -> Upload \cup {NoFile}]
      BY <1>p
    <3> QED
      BY <2>1, <3>2, <3>3
  <2> QED
    BY <1>p, <2>1, <2>2
<1>s. ASSUME pc[u] # "over" PROVE store \cup {<<u, NextPart(u)>>} \subseteq Upload \X Part
  BY <1>n, <1>s, PlaceIs DEF TypeOK
<1>3. CASE CreateFlavor(u)
  <2>1. pc[u] # "over" /\ NotePart(u) /\ store' = store \cup {<<u, NextPart(u)>>}
    BY <1>3 DEF CreateFlavor
  <2> QED
    BY <1>2, <1>3, <1>s, <2>1 DEF CreateFlavor, TypeOK
<1>4. CASE CreateImage(u)
  <2>1. pc[u] # "over" /\ store' = store \cup {<<u, NextPart(u)>>}
    BY <1>4 DEF CreateImage
  <2> QED
    BY <1>4, <1>s, <2>1 DEF CreateImage, TypeOK
<1>5. CASE ImageActive(u)
  <2>1. pc[u] # "over" /\ NotePart(u)
    BY <1>5 DEF ImageActive
  <2> QED
    BY <1>2, <1>5, <2>1 DEF ImageActive, TypeOK
<1>6. CASE UploadFails(u)
  <2>1. pc[u] # "over"
    BY <1>6 DEF UploadFails
  <2>2. undo' \in [Upload -> SUBSET (Upload \X Part)]
    BY <1>n, <1>p, <1>6, <2>1, PlaceIs DEF UploadFails
  <2> QED
    BY <1>6, <2>2 DEF UploadFails, TypeOK
<1>7. CASE CleanupEnds(u)
  BY <1>7 DEF CleanupEnds, TypeOK
<1>8. CASE \E p \in undo[u] : TemplateCleanup(u, p)
  BY <1>8 DEF TemplateCleanup, TypeOK
<1> QED
  BY <1>1, <1>3, <1>4, <1>5, <1>6, <1>7, <1>8

(* and so has what a deletion removes.                                     *)
LEMMA DeleteTypes ==
  ASSUME TypeOK, NEW u \in Upload, overlapped' \in BOOLEAN,
         DeleteTemplate(u) \/ Deleting(u) \/ Activate(u)
  PROVE  TypeOK'
<1> USE DEF upVars, delVars
<1>1. CASE DeleteTemplate(u)
  <2>1. Flavors(u) \subseteq Upload \X Part
    BY PartsOwn DEF Flavors
  <2> QED
    BY <1>1, <2>1 DEF DeleteTemplate, TypeOK
<1>2. CASE DeleteTemplateInfo(u)
  BY <1>2 DEF DeleteTemplateInfo, TypeOK
<1>a. CASE Activate(u)
  BY <1>a DEF Activate, TypeOK
<1>3. ASSUME NEW p \in todo[u], DeleteFlavor(u, p) PROVE TypeOK'
  BY <1>3 DEF DeleteFlavor, TypeOK
<1>4. ASSUME NEW p \in todo[u], DeleteFails(u, p) PROVE TypeOK'
  BY <1>4 DEF DeleteFails, TypeOK
<1> QED
  BY <1>1, <1>2, <1>a, <1>3, <1>4 DEF Deleting

-----------------------------------------------------------------------------
(* The parts of an upload are its own *)

(* What a request does to what another upload has made: nothing, since the *)
(* parts it makes or removes are its own.                                  *)
LEMMA OthersStand ==
  ASSUME TypeOK, NEW u \in Upload, UploadSound(u), Request(u), NEW w \in Upload, w # u
  PROVE  /\ pc'[w] = pc[w] /\ nth'[w] = nth[w] /\ made'[w] = made[w] /\ undo'[w] = undo[w]
         /\ del'[w] = del[w] /\ todo'[w] = todo[w]
         /\ Stored(w)' = Stored(w) /\ (w \in rows' <=> w \in rows)
<1> USE DEF Goto, upVars, delVars
<1>t. /\ DOMAIN pc = Upload /\ DOMAIN nth = Upload /\ DOMAIN made = Upload
      /\ DOMAIN undo = Upload /\ DOMAIN del = Upload /\ DOMAIN todo = Upload
  BY DEF TypeOK
<1>n. ASSUME pc[u] # "over" PROVE nth[u] < Len(VnfdsOf[u]) /\ made[u] < Len(PartsOf[At(u)])
  BY <1>n DEF UploadSound
<1>o. ASSUME NEW p, p[1] = u, store' = store \cup {p} \/ store' = store \ {p}
      PROVE  Stored(w)' = Stored(w)
  BY <1>o DEF Stored
<1>s. ASSUME store' = store PROVE Stored(w)' = Stored(w)
  BY <1>s DEF Stored
<1>1. CASE CreateTemplate(u)
  <2>1. pc' = [pc EXCEPT ![u] = "refused"] \/ pc' = [pc EXCEPT ![u] = "parts"]
    BY <1>1 DEF CreateTemplate
  <2> QED
    BY <1>1, <1>t, <1>s, <2>1 DEF CreateTemplate
<1>2. ASSUME NotePart(u), pc[u] # "over"
      PROVE  /\ pc'[w] = pc[w] /\ nth'[w] = nth[w] /\ made'[w] = made[w]
             /\ w \in rows' <=> w \in rows
  <2>1. /\ \A x \in Upload : x # u => nth'[x] = nth[x] /\ made'[x] = made[x]
        /\ pc' = [pc EXCEPT ![u] = "parts"] \/ pc' = [pc EXCEPT ![u] = "over"]
        /\ rows' = rows \/ rows' = rows \cup {u}
    BY <1>n, <1>2, Noting
  <2> QED
    BY <1>t, <2>1
<1>3. CASE CreateFlavor(u)
  <2>1. /\ pc[u] # "over" /\ NotePart(u) /\ store' = store \cup {<<u, NextPart(u)>>}
        /\ UNCHANGED <<undo, del, todo>>
    BY <1>3 DEF CreateFlavor
  <2>2. Stored(w)' = Stored(w)
    <3> DEFINE p == <<u, NextPart(u)>>
    <3>1. p[1] = u /\ store' = store \cup {p}
      BY <2>1
    <3> HIDE DEF p
    <3> QED
      BY <1>o, <3>1
  <2> QED
    BY <1>2, <2>1, <2>2
<1>4. CASE CreateImage(u)
  <2>1. /\ store' = store \cup {<<u, NextPart(u)>>} /\ pc' = [pc EXCEPT ![u] = "polling"]
        /\ UNCHANGED <<rows, nth, made, undo, del, todo>>
    BY <1>4 DEF CreateImage
  <2>2. Stored(w)' = Stored(w)
    <3> DEFINE p == <<u, NextPart(u)>>
    <3>1. p[1] = u /\ store' = store \cup {p}
      BY <2>1
    <3> HIDE DEF p
    <3> QED
      BY <1>o, <3>1
  <2> QED
    BY <1>t, <2>1, <2>2
<1>5. CASE ImageActive(u)
  <2>1. /\ pc[u] # "over" /\ NotePart(u) /\ UNCHANGED <<store, undo, del, todo>>
    BY <1>5 DEF ImageActive
  <2> QED
    BY <1>2, <1>s, <2>1
<1>6. CASE UploadFails(u) \/ CleanupEnds(u)
  BY <1>6, <1>t, <1>s DEF UploadFails, CleanupEnds
<1>7. ASSUME NEW p \in undo[u], TemplateCleanup(u, p)
      PROVE  undo'[w] = undo[w] /\ Stored(w)' = Stored(w)
  <2>1. p \in Noted(u) /\ store' = store \ {p} /\ undo' = [undo EXCEPT ![u] = undo[u] \ {p}]
    BY <1>7 DEF TemplateCleanup, UploadSound
  <2>2. p[1] = u
    BY <2>1 DEF Noted
  <2> QED
    BY <1>t, <1>o, <2>1, <2>2
<1>8. CASE DeleteTemplate(u) \/ DeleteTemplateInfo(u) \/ Activate(u)
  BY <1>8, <1>t, <1>s DEF DeleteTemplate, DeleteTemplateInfo, Activate
<1>9. ASSUME NEW p \in todo[u], DeleteFlavor(u, p)
      PROVE  todo'[w] = todo[w] /\ Stored(w)' = Stored(w)
  <2>1. p \in AllParts(u) /\ store' = store \ {p} /\ todo' = [todo EXCEPT ![u] = todo[u] \ {p}]
    BY <1>9 DEF DeleteFlavor, UploadSound, Flavors
  <2>2. p[1] = u
    BY <2>1, PartsOwn
  <2> QED
    BY <1>t, <1>o, <2>1, <2>2
<1>10. CASE \E p \in todo[u] : DeleteFails(u, p)
  BY <1>10, <1>t, <1>s DEF DeleteFails
<1>11. CASE \E p \in undo[u] : TemplateCleanup(u, p)
  BY <1>7, <1>11 DEF TemplateCleanup
<1>12. CASE \E p \in todo[u] : DeleteFlavor(u, p)
  BY <1>9, <1>12 DEF DeleteFlavor
<1> QED
  BY <1>1, <1>3, <1>4, <1>5, <1>6, <1>8, <1>10, <1>11, <1>12 DEF Request, Uploading, Deleting

(* So what is so of another upload stays so.                               *)
LEMMA OthersSound ==
  ASSUME NEW w \in Upload, UploadSound(w),
         pc'[w] = pc[w] /\ nth'[w] = nth[w] /\ made'[w] = made[w] /\ undo'[w] = undo[w],
         del'[w] = del[w] /\ todo'[w] = todo[w],
         Stored(w)' = Stored(w), w \in rows' <=> w \in rows
  PROVE  UploadSound(w)'
<1>1. Flavors(w) \cap store = Flavors(w) \cap Stored(w)
  BY PartsOwn DEF Flavors, Stored
<1>2. Flavors(w) \cap store' = Flavors(w) \cap Stored(w)'
  BY PartsOwn DEF Flavors, Stored
<1>3. /\ At(w)' = At(w) /\ NextPart(w)' = NextPart(w)
      /\ Finished(w)' = Finished(w) /\ Noted(w)' = Noted(w)
  BY DEF At, Finished, Noted, NextPart
<1>4. Flavors(w)' = Flavors(w) /\ AllParts(w)' = AllParts(w)
  BY DEF Flavors, AllParts, PartsIn
<1> QED
  BY <1>1, <1>2, <1>3, <1>4 DEF UploadSound

-----------------------------------------------------------------------------
(* What a request says of its own upload *)

(* What a step does to what there is of an upload on OpenStack.            *)
LEMMA StoredBy ==
  ASSUME NEW u \in Upload
  PROVE  /\ \A p : p[1] = u /\ store' = store \cup {p} => Stored(u)' = Stored(u) \cup {p}
         /\ \A p : store' = store \ {p} => Stored(u)' = Stored(u) \ {p}
         /\ store' = store => Stored(u)' = Stored(u)
         /\ Flavors(u)' = Flavors(u) /\ AllParts(u)' = AllParts(u)
         /\ Flavors(u) \cap store' = Flavors(u) \cap Stored(u)'
         /\ Flavors(u) \cap store = Flavors(u) \cap Stored(u)
<1>1. \A p \in Flavors(u) : p[1] = u
  BY PartsOwn DEF Flavors
<1>2. Flavors(u)' = Flavors(u) /\ AllParts(u)' = AllParts(u)
  BY DEF Flavors, AllParts, PartsIn
<1> QED
  BY <1>1, <1>2 DEF Stored

(* An upload that goes on tells what there is of it,                       *)
LEMMA UploadKeeps ==
  ASSUME TypeOK, NEW u \in Upload, UploadSound(u),
         CreateFlavor(u) \/ CreateImage(u) \/ ImageActive(u)
  PROVE  UploadSound(u)'
<1> DEFINE p == <<u, NextPart(u)>>
           all == Finished(u) \cup Noted(u) \cup {p}
<1>1. /\ pc[u] \in {"parts", "polling"} /\ nth[u] < Len(VnfdsOf[u]) /\ made[u] < Len(PartsOf[At(u)])
      /\ del[u] = "idle" /\ u \notin rows
  <2>1. pc[u] \in {"parts", "polling"}
    BY DEF CreateFlavor, CreateImage, ImageActive
  <2> QED
    BY <2>1 DEF UploadSound
<1>2. DOMAIN pc = Upload /\ u \in DOMAIN pc
  BY DEF TypeOK
<1>3. del' = del /\ todo' = todo
  BY DEF CreateFlavor, CreateImage, ImageActive, delVars
<1>4. ASSUME NotePart(u), Stored(u)' = all PROVE UploadSound(u)'
  <2> HIDE DEF p, all
  <2>1. CASE /\ pc' = [pc EXCEPT ![u] = "parts"] /\ rows' = rows
             /\ nth'[u] < Len(VnfdsOf[u]) /\ made'[u] < Len(PartsOf[At(u)'])
             /\ Finished(u)' \cup Noted(u)' = all
    <3>1. pc'[u] = "parts"
      BY <1>2, <2>1
    <3> QED
      BY <1>1, <1>3, <1>4, <2>1, <3>1, StoredBy DEF UploadSound
  <2>2. CASE /\ pc' = [pc EXCEPT ![u] = "over"] /\ rows' = rows \cup {u}
             /\ nth'[u] = Len(VnfdsOf[u]) /\ all = AllParts(u)
    <3>1. pc'[u] = "over"
      BY <1>2, <2>2
    <3> QED
      BY <1>1, <1>3, <1>4, <2>2, <3>1, StoredBy DEF UploadSound
  <2> QED
    BY <1>1, <1>4, <2>1, <2>2, Noting DEF p, all
<1>5. CASE CreateFlavor(u)
  <2>1. pc[u] = "parts" /\ NotePart(u) /\ store' = store \cup {p} /\ p[1] = u
    BY <1>5 DEF CreateFlavor
  <2>2. Stored(u)' = Stored(u) \cup {p} /\ Stored(u) = Finished(u) \cup Noted(u)
    BY <2>1, StoredBy DEF UploadSound
  <2> QED
    BY <1>4, <2>1, <2>2
<1>6. CASE CreateImage(u)
  <2>1. /\ pc[u] = "parts" /\ store' = store \cup {p} /\ p[1] = u /\ NextPart(u) \in Image
        /\ pc' = [pc EXCEPT ![u] = "polling"] /\ UNCHANGED <<rows, nth, made, undo>>
    BY <1>6 DEF CreateImage, Goto
  <2>2. Stored(u)' = Stored(u) \cup {p} /\ Stored(u) = Finished(u) \cup Noted(u)
    BY <2>1, StoredBy DEF UploadSound
  <2>3. pc'[u] = "polling"
    BY <1>2, <2>1
  <2>4. /\ Finished(u)' = Finished(u) /\ Noted(u)' = Noted(u) /\ NextPart(u)' = NextPart(u)
        /\ At(u)' = At(u)
    BY <2>1 DEF Finished, Noted, NextPart, At
  <2> QED
    BY <1>1, <1>3, <2>1, <2>2, <2>3, <2>4, StoredBy DEF UploadSound
<1>7. CASE ImageActive(u)
  <2>1. pc[u] = "polling" /\ NotePart(u) /\ store' = store
    BY <1>7 DEF ImageActive
  <2>2. Stored(u)' = all
    BY <2>1, StoredBy DEF UploadSound
  <2> QED
    BY <1>4, <2>1, <2>2
<1> QED
  BY <1>5, <1>6, <1>7

(* and so does one that is refused, fails or cleans up.                    *)
LEMMA CleanupKeeps ==
  ASSUME TypeOK, NEW u \in Upload, UploadSound(u),
         \/ CreateTemplate(u) \/ UploadFails(u) \/ CleanupEnds(u)
         \/ \E q \in undo[u] : TemplateCleanup(u, q)
  PROVE  UploadSound(u)'
<1> DEFINE p == <<u, NextPart(u)>>
<1>1. /\ pc[u] \in {"idle", "parts", "polling", "cleanup"}
      /\ nth[u] < Len(VnfdsOf[u]) /\ made[u] < Len(PartsOf[At(u)])
      /\ del[u] = "idle" /\ u \notin rows
  <2>1. pc[u] \in {"idle", "parts", "polling", "cleanup"}
    BY DEF CreateTemplate, UploadFails, CleanupEnds, TemplateCleanup
  <2> QED
    BY <2>1 DEF UploadSound
<1>2. DOMAIN pc = Upload /\ DOMAIN undo = Upload
  BY DEF TypeOK
<1>3. UNCHANGED <<del, todo, rows, nth, made>>
  BY DEF CreateTemplate, UploadFails, CleanupEnds, TemplateCleanup, delVars
<1>4. /\ Finished(u)' = Finished(u) /\ Noted(u)' = Noted(u) /\ NextPart(u)' = NextPart(u)
      /\ At(u)' = At(u)
  BY <1>3 DEF Finished, Noted, NextPart, At
<1>5. /\ p \notin Finished(u) /\ p \notin Noted(u) /\ Noted(u) \cap Finished(u) = {}
  BY <1>1, PlaceIs
<1> HIDE DEF p
<1>6. ASSUME pc'[u] = "refused" \/ pc'[u] = "parts", Stored(u)' = Finished(u) \cup Noted(u)
      PROVE  UploadSound(u)'
  BY <1>1, <1>3, <1>4, <1>6, StoredBy DEF UploadSound
<1>7. ASSUME pc'[u] \in {"cleanup", "failed"}, undo'[u] \subseteq Noted(u),
             Stored(u)' \ {p} = Finished(u) \cup undo'[u]
      PROVE  UploadSound(u)'
  BY <1>1, <1>3, <1>4, <1>7, StoredBy DEF UploadSound, p
<1>8. CASE CreateTemplate(u)
  <2>1. /\ pc[u] = "idle" /\ store' = store
        /\ pc' = [pc EXCEPT ![u] = "refused"] \/ pc' = [pc EXCEPT ![u] = "parts"]
    BY <1>8 DEF CreateTemplate, Goto
  <2>2. pc'[u] = "refused" \/ pc'[u] = "parts"
    BY <1>2, <2>1
  <2>3. Stored(u)' = Finished(u) \cup Noted(u)
    BY <2>1, StoredBy DEF UploadSound
  <2> QED
    BY <1>6, <2>2, <2>3
<1>9. CASE UploadFails(u)
  <2>1. /\ pc[u] \in {"parts", "polling"} /\ store' = store
        /\ undo' = [undo EXCEPT ![u] = Noted(u)] /\ pc' = [pc EXCEPT ![u] = "cleanup"]
    BY <1>9 DEF UploadFails, Goto
  <2>2. pc'[u] = "cleanup" /\ undo'[u] = Noted(u)
    BY <1>2, <2>1
  <2>3. \/ Stored(u) = Finished(u) \cup Noted(u) \/ Stored(u) = Finished(u) \cup Noted(u) \cup {p}
    BY <2>1 DEF UploadSound, p
  <2>4. Stored(u)' \ {p} = Finished(u) \cup Noted(u)
    BY <1>5, <2>1, <2>3, StoredBy
  <2> QED
    BY <1>7, <2>2, <2>4
<1>10. CASE CleanupEnds(u)
  <2>1. /\ pc[u] = "cleanup" /\ store' = store /\ undo' = undo
        /\ pc' = [pc EXCEPT ![u] = "failed"]
    BY <1>10 DEF CleanupEnds, Goto
  <2>2. pc'[u] = "failed"
    BY <1>2, <2>1
  <2>3. undo[u] \subseteq Noted(u) /\ Stored(u) \ {p} = Finished(u) \cup undo[u]
    BY <2>1 DEF UploadSound, p
  <2> QED
    BY <1>7, <2>1, <2>2, <2>3, StoredBy
<1>11. ASSUME NEW q \in undo[u], TemplateCleanup(u, q) PROVE UploadSound(u)'
  <2>1. /\ pc[u] = "cleanup" /\ store' = store \ {q} /\ pc' = pc
        /\ undo' = [undo EXCEPT ![u] = undo[u] \ {q}]
    BY <1>11 DEF TemplateCleanup
  <2>2. undo'[u] = undo[u] \ {q} /\ Stored(u)' = Stored(u) \ {q}
    BY <1>2, <2>1, StoredBy
  <2>3. undo[u] \subseteq Noted(u) /\ Stored(u) \ {p} = Finished(u) \cup undo[u]
    BY <2>1 DEF UploadSound, p
  <2>4. q \notin Finished(u) /\ q # p
    BY <1>5, <2>3
  <2>5. Stored(u)' \ {p} = Finished(u) \cup undo'[u]
    BY <2>2, <2>3, <2>4
  <2> QED
    BY <1>7, <2>1, <2>2, <2>3, <2>5
<1> QED
  BY <1>8, <1>9, <1>10, <1>11

(* A deletion knows of all flavors that are left.                          *)
LEMMA DeleteKeeps ==
  ASSUME TypeOK, NEW u \in Upload, UploadSound(u),
         DeleteTemplate(u) \/ Deleting(u) \/ Activate(u)
  PROVE  UploadSound(u)'
<1>2. DOMAIN del = Upload /\ DOMAIN todo = Upload
  BY DEF TypeOK
<1>3. UNCHANGED <<pc, nth, made, undo>>
  BY DEF DeleteTemplate, Deleting, DeleteTemplateInfo, DeleteFlavor, DeleteFails, Activate, upVars
<1>4. /\ Finished(u)' = Finished(u) /\ Noted(u)' = Noted(u) /\ NextPart(u)' = NextPart(u)
      /\ At(u)' = At(u)
  BY <1>3 DEF Finished, Noted, NextPart, At
<1>5. CASE Activate(u)
  BY <1>3, <1>4, <1>5, StoredBy DEF Activate, UploadSound, delVars
<1>6. ASSUME pc[u] = "over", todo'[u] \subseteq Flavors(u), del'[u] # "idle",
             u \in rows' <=> del'[u] # "over",
             del'[u] = "flavors" => Flavors(u) \cap store' \subseteq todo'[u],
             del'[u] = "over" => Flavors(u) \cap store' = {}
      PROVE  UploadSound(u)'
  BY <1>3, <1>4, <1>6, StoredBy DEF UploadSound
<1>7. CASE DeleteTemplate(u)
  <2>1. /\ pc[u] = "over" /\ del[u] \in {"idle", "failed"} /\ UNCHANGED <<rows, store>>
        /\ del' = [del EXCEPT ![u] = "flavors"]
        /\ todo' = [todo EXCEPT ![u] = IF u \in rows THEN Flavors(u) ELSE {}]
    BY <1>7 DEF DeleteTemplate
  <2>2. u \in rows
    BY <2>1 DEF UploadSound
  <2>3. del'[u] = "flavors" /\ todo'[u] = Flavors(u)
    BY <1>2, <2>1, <2>2
  <2> QED
    BY <1>6, <2>1, <2>2, <2>3
<1>8. CASE DeleteTemplateInfo(u)
  <2>1. /\ del[u] = "flavors" /\ todo[u] = {} /\ rows' = rows \ {u}
        /\ del' = [del EXCEPT ![u] = "over"] /\ UNCHANGED <<store, todo>>
    BY <1>8 DEF DeleteTemplateInfo
  <2>2. del'[u] = "over" /\ pc[u] = "over" /\ Flavors(u) \cap store = {}
    BY <1>2, <2>1 DEF UploadSound
  <2> QED
    BY <1>6, <2>1, <2>2
<1>9. ASSUME NEW p \in todo[u], DeleteFlavor(u, p) PROVE UploadSound(u)'
  <2>1. /\ del[u] = "flavors" /\ store' = store \ {p} /\ UNCHANGED <<rows, del>>
        /\ todo' = [todo EXCEPT ![u] = todo[u] \ {p}]
    BY <1>9 DEF DeleteFlavor
  <2>2. todo'[u] = todo[u] \ {p}
    BY <1>2, <2>1
  <2>3. /\ pc[u] = "over" /\ todo[u] \subseteq Flavors(u) /\ u \in rows
        /\ Flavors(u) \cap store \subseteq todo[u]
    BY <2>1 DEF UploadSound
  <2> QED
    BY <1>6, <2>1, <2>2, <2>3
<1>10. ASSUME NEW p \in todo[u], DeleteFails(u, p) PROVE UploadSound(u)'
  <2>1. /\ del[u] = "flavors" /\ UNCHANGED <<rows, store, todo>>
        /\ del' = [del EXCEPT ![u] = "failed"]
    BY <1>10 DEF DeleteFails
  <2>2. /\ pc[u] = "over" /\ todo[u] \subseteq Flavors(u) /\ u \in rows /\ del'[u] = "failed"
    BY <1>2, <2>1 DEF UploadSound
  <2> QED
    BY <1>6, <2>1, <2>2
<1> QED
  BY <1>5, <1>7, <1>8, <1>9, <1>10 DEF Deleting

-----------------------------------------------------------------------------
(* Requests one at a time *)

(* By a request no other becomes busy.                                     *)
LEMMA BusyBy ==
  ASSUME TypeOK, NEW u \in Upload, UploadSound(u), Request(u)
  PROVE  Busy' \subseteq Busy \cup {u}
BY OthersStand DEF Busy

(* So, unless two were busy at once, one is.                               *)
LEMMA AloneKept ==
  ASSUME TypeOK, LoneRequest, NEW u \in Upload, UploadSound(u), Request(u),
         overlapped' = (overlapped \/ Cardinality(Busy') > 1)
  PROVE  /\ IsFiniteSet(Busy')
         /\ ~overlapped' => ~overlapped /\ \A q, r \in Busy' : q = r
<1>1. IsFiniteSet(Busy')
  <2>1. IsFiniteSet(Busy \cup {u})
    BY FS_AddElement DEF LoneRequest
  <2>2. Busy' \in SUBSET (Busy \cup {u})
    BY BusyBy
  <2> QED
    BY <2>1, <2>2, FS_Subset
<1>2. ASSUME ~overlapped', NEW q \in Busy', NEW r \in Busy', q # r PROVE FALSE
  <2> DEFINE one == {q}
  <2>1. IsFiniteSet(one) /\ Cardinality(one) = 1 /\ r \notin one
    BY <1>2, FS_Singleton
  <2>2. one \cup {r} \in SUBSET Busy'
    OBVIOUS
  <2> HIDE DEF one
  <2>3. IsFiniteSet(one \cup {r}) /\ Cardinality(one \cup {r}) = Cardinality(one) + 1
    BY <2>1, FS_AddElement
  <2>4. Cardinality(one \cup {r}) <= Cardinality(Busy') /\ Cardinality(Busy') \in Nat
    BY <1>1, <2>2, FS_Subset, FS_CardinalityType
  <2>5. ~(Cardinality(Busy') > 1)
    BY <1>2
  <2> QED
    BY <2>1, <2>3, <2>4, <2>5
<1> QED
  BY <1>1, <1>2

(* What a request does to templates.json, to the copy an upload has loaded *)
(* and to the rows: nothing, but when an upload begins or notes a part.    *)
LEMMA FilesBy ==
  ASSUME TypeOK, NEW u \in Upload, UploadSound(u), Request(u)
  PROVE  \/ /\ UNCHANGED <<json, snap>> /\ Listed' \subseteq Listed /\ rows' \subseteq rows
            /\ pc'[u] \in {"parts", "polling"} => pc[u] \in {"parts", "polling"}
         \/ /\ UNCHANGED <<json, rows>> /\ Listed' = Listed
            /\ snap' = [snap EXCEPT ![u] = json] /\ pc'[u] = "refused"
         \/ /\ UNCHANGED rows /\ Listed' = Listed
            /\ snap' = [snap EXCEPT ![u] = json] /\ json' = CopyOf(u, json, 0)
            /\ pc'[u] = "parts" /\ \A w \in rows : NameOf[w] # NameOf[u]
         \/ /\ UNCHANGED <<rows, snap>> /\ Listed' = Listed
            /\ pc[u] \in {"parts", "polling"} /\ pc'[u] = "parts"
            /\ nth[u] + 1 \in 0 .. Len(VnfdsOf[u]) /\ json' = CopyOf(u, snap[u], nth[u] + 1)
         \/ /\ UNCHANGED snap /\ rows' = rows \cup {u} /\ Listed' \subseteq Listed \cup {u}
            /\ pc[u] \in {"parts", "polling"} /\ pc'[u] = "over"
            /\ json' = CopyOf(u, snap[u], Len(VnfdsOf[u]))
<1> USE DEF Goto, upVars, delVars
<1>t. DOMAIN pc = Upload /\ DOMAIN del = Upload
  BY DEF TypeOK
<1>1. CASE CreateTemplate(u)
  <2>1. /\ UNCHANGED <<rows, del>> /\ snap' = [snap EXCEPT ![u] = json]
        /\ \/ pc' = [pc EXCEPT ![u] = "refused"] /\ json' = json
           \/ /\ pc' = [pc EXCEPT ![u] = "parts"] /\ json' = CopyOf(u, json, 0)
              /\ \A w \in rows : NameOf[w] # NameOf[u]
    BY <1>1 DEF CreateTemplate
  <2>2. Listed' = Listed
    BY <2>1 DEF Listed
  <2>3. \/ pc'[u] = "refused" /\ json' = json
        \/ /\ pc'[u] = "parts" /\ json' = CopyOf(u, json, 0)
           /\ \A w \in rows : NameOf[w] # NameOf[u]
    BY <1>t, <2>1
  <2> QED
    BY <2>1, <2>2, <2>3
<1>2. CASE CreateFlavor(u) \/ ImageActive(u)
  <2>1. pc[u] \in {"parts", "polling"} /\ NotePart(u) /\ UNCHANGED <<snap, del>>
    BY <1>2 DEF CreateFlavor, ImageActive
  <2>2. nth[u] < Len(VnfdsOf[u]) /\ made[u] < Len(PartsOf[At(u)]) /\ nth[u] \in Nat
    BY <2>1 DEF UploadSound, TypeOK
  <2>3. nth[u] + 1 \in 0 .. Len(VnfdsOf[u])
    BY <2>2, VnfdsAre
  <2>4. CASE /\ pc' = [pc EXCEPT ![u] = "parts"] /\ rows' = rows
             /\ json' = json \/ json' = CopyOf(u, snap[u], nth[u] + 1)
    <3>1. Listed' = Listed /\ pc'[u] = "parts"
      BY <1>t, <2>1, <2>4 DEF Listed
    <3> QED
      BY <2>1, <2>3, <2>4, <3>1
  <2>5. CASE /\ pc' = [pc EXCEPT ![u] = "over"] /\ rows' = rows \cup {u}
             /\ json' = CopyOf(u, snap[u], Len(VnfdsOf[u]))
    <3>1. Listed' \subseteq Listed \cup {u} /\ pc'[u] = "over"
      BY <1>t, <2>1, <2>5 DEF Listed
    <3> QED
      BY <2>1, <2>5, <3>1
  <2> QED
    BY <2>1, <2>2, <2>4, <2>5, Noting
<1>3. CASE \/ CreateImage(u) \/ UploadFails(u) \/ CleanupEnds(u)
           \/ \E p \in undo[u] : TemplateCleanup(u, p)
  <2>1. UNCHANGED <<json, snap, rows, del>>
    BY <1>3 DEF CreateImage, UploadFails, CleanupEnds, TemplateCleanup
  <2>2. Listed' = Listed
    BY <2>1 DEF Listed
  <2>3. pc'[u] \in {"parts", "polling"} => pc[u] \in {"parts", "polling"}
    BY <1>3, <1>t DEF CreateImage, UploadFails, CleanupEnds, TemplateCleanup
  <2> QED
    BY <2>1, <2>2, <2>3
<1>4. CASE DeleteTemplate(u) \/ Deleting(u) \/ Activate(u)
  <2>1. /\ UNCHANGED <<json, snap, pc>> /\ rows' \subseteq rows
        /\ del' = del \/ \E l \in {"flavors", "failed", "over"} : del' = [del EXCEPT ![u] = l]
    BY <1>4 DEF DeleteTemplate, Deleting, DeleteTemplateInfo, DeleteFlavor, DeleteFails, Activate
  <2>2. Listed' \subseteq Listed
    <3>1. \A w \in Upload : del'[w] = "idle" => del[w] = "idle"
      BY <1>t, <2>1
    <3>2. rows \subseteq Upload
      BY DEF TypeOK
    <3> QED
      BY <2>1, <3>1, <3>2 DEF Listed
  <2> QED
    BY <2>1, <2>2
<1> QED
  BY <1>1, <1>2, <1>3, <1>4 DEF Request, Uploading

(* The files of a template are not those an upload of another name enters, *)
(* and those of an upload are all entered in the end.                      *)
LEMMA FilesApart ==
  ASSUME NEW u \in Upload, NEW w \in Upload, NEW k \in Files(w),
         NEW loaded \in [Key -> Upload \cup {NoFile}]
  PROVE  /\ NameOf[w] # NameOf[u] =>
              \A n \in 0 .. Len(VnfdsOf[u]) : CopyOf(u, loaded, n)[k] = loaded[k]
         /\ w = u => CopyOf(u, loaded, Len(VnfdsOf[u]))[k] = u
<1>v. ASSUME NEW x \in Upload PROVE Range(VnfdsOf[x]) \subseteq Vnfd
  <2>1. /\ Range(VnfdsOf[x]) = {VnfdsOf[x][i] : i \in 1 .. Len(VnfdsOf[x])}
        /\ \A i \in 1 .. Len(VnfdsOf[x]) : VnfdsOf[x][i] \in Vnfd
    BY VnfdsAre
  <2> QED
    BY <2>1
<1>a. ASSUME NEW x \in Upload, NEW y \in Upload PROVE NameOf[x] \notin Range(VnfdsOf[y])
  <2>1. NameOf[x] \in Name /\ Name \cap Vnfd = {}
    BY CatalogAssumption
  <2> QED
    BY <1>v, <2>1
<1>1. k \in Key
  <2>1. NameOf[w] \in Name
    BY CatalogAssumption
  <2> QED
    BY <1>v, <2>1 DEF Files, Key
<1>2. ASSUME NameOf[w] # NameOf[u], NEW n \in 0 .. Len(VnfdsOf[u])
      PROVE  k \notin Written(u, n)
  <2>1. /\ Written(u, n) \subseteq {NameOf[u]} \cup Range(VnfdsOf[u])
    BY VnfdsAre DEF Written
  <2>2. k \notin Range(VnfdsOf[u])
    BY <1>2, <1>a DEF Files
  <2>3. k # NameOf[u]
    BY <1>2, <1>a DEF Files
  <2> QED
    BY <2>1, <2>2, <2>3
<1>3. ASSUME w = u PROVE k \in Written(u, Len(VnfdsOf[u]))
  <2>1. NsdAfter[u] <= Len(VnfdsOf[u])
    BY CatalogAssumption
  <2>2. k \in {NameOf[u]} \cup Range(VnfdsOf[u])
    BY <1>3 DEF Files
  <2> QED
    BY <2>1, <2>2, VnfdsAre DEF Written
<1> QED
  BY <1>1, <1>2, <1>3 DEF CopyOf

(* As long as requests come one at a time, the upload under way has a name *)
(* that no template has, and has loaded the files of them all: it leaves   *)
(* them where they are, and enters its own.                                *)
LEMMA FilesKept ==
  ASSUME TypeOK, LoneRequest, FilesListed, NamesUnique, NEW u \in Upload, UploadSound(u),
         Request(u), overlapped' = (overlapped \/ Cardinality(Busy') > 1)
  PROVE  LoneRequest' /\ FilesListed' /\ NamesUnique'
<1>0. IsFiniteSet(Busy')
  BY AloneKept
<1> SUFFICES ASSUME ~overlapped'
             PROVE  /\ \A x, w \in Busy' : x = w
                    /\ \A x \in Upload : pc'[x] \in {"parts", "polling"} =>
                         /\ \A w \in rows' : NameOf[w] # NameOf[x]
                         /\ \A w \in Listed' : \A k \in Files(w) : snap'[x][k] = w
                    /\ \A w \in Listed' : \A k \in Files(w) : json'[k] = w
                    /\ \A x, w \in rows' : NameOf[x] = NameOf[w] => x = w
  <2>1. \A w : Files(w)' = Files(w)
    BY DEF Files
  <2> QED
    BY <1>0, <2>1 DEF LoneRequest, FilesListed, NamesUnique
<1>1. /\ ~overlapped
      /\ \A x, w \in Busy' : x = w
      /\ \A x, w \in Busy : x = w
  BY AloneKept DEF LoneRequest
<1>2. /\ \A x \in Upload : pc[x] \in {"parts", "polling"} =>
           /\ \A w \in rows : NameOf[w] # NameOf[x]
           /\ \A w \in Listed : \A k \in Files(w) : snap[x][k] = w
      /\ \A w \in Listed : \A k \in Files(w) : json[k] = w
      /\ \A x, w \in rows : NameOf[x] = NameOf[w] => x = w
  BY <1>1 DEF LoneRequest, FilesListed, NamesUnique
<1>3. Listed \subseteq rows /\ rows \subseteq Upload /\ Listed' \subseteq rows'
  BY DEF Listed, TypeOK
<1>t. /\ snap \in [Upload -> [Key -> Upload \cup {NoFile}]]
      /\ json \in [Key -> Upload \cup {NoFile}]
  BY DEF TypeOK
<1>l. 0 \in 0 .. Len(VnfdsOf[u]) /\ Len(VnfdsOf[u]) \in 0 .. Len(VnfdsOf[u])
  BY VnfdsAre
<1>4. ASSUME NEW x \in Upload, x # u, pc'[x] \in {"parts", "polling"}
      PROVE  /\ pc[x] \in {"parts", "polling"} /\ pc[u] \notin {"parts", "polling"}
             /\ pc'[u] \notin {"parts", "polling"}
  <2>1. pc[x] \in {"parts", "polling"}
    BY <1>4, OthersStand
  <2>2. x \in Busy /\ x \in Busy'
    BY <1>4, <2>1 DEF Busy
  <2>3. u \notin Busy /\ u \notin Busy'
    BY <1>1, <1>4, <2>2
  <2> QED
    BY <2>1, <2>3 DEF Busy
<1>5. CASE /\ UNCHANGED <<json, snap>> /\ Listed' \subseteq Listed /\ rows' \subseteq rows
           /\ pc'[u] \in {"parts", "polling"} => pc[u] \in {"parts", "polling"}
  <2>1. \A x \in Upload : pc'[x] \in {"parts", "polling"} => pc[x] \in {"parts", "polling"}
    BY <1>4, <1>5
  <2> QED
    BY <1>1, <1>2, <1>5, <2>1
<1>6. CASE /\ UNCHANGED <<json, rows>> /\ Listed' = Listed
           /\ snap' = [snap EXCEPT ![u] = json] /\ pc'[u] = "refused"
  <2>1. \A x \in Upload : pc'[x] \in {"parts", "polling"} =>
          pc[x] \in {"parts", "polling"} /\ snap'[x] = snap[x]
    BY <1>4, <1>6, <1>t
  <2> QED
    BY <1>1, <1>2, <1>6, <2>1
<1>7. CASE /\ UNCHANGED rows /\ Listed' = Listed
           /\ snap' = [snap EXCEPT ![u] = json] /\ json' = CopyOf(u, json, 0)
           /\ pc'[u] = "parts" /\ \A w \in rows : NameOf[w] # NameOf[u]
  <2>1. \A x \in Upload : pc'[x] \in {"parts", "polling"} => x = u
    BY <1>4, <1>7
  <2>2. snap'[u] = json
    BY <1>7, <1>t
  <2>3. ASSUME NEW w \in Listed, NEW k \in Files(w) PROVE json'[k] = w
    <3>1. NameOf[w] # NameOf[u] /\ w \in Upload
      BY <1>3, <1>7
    <3>2. CopyOf(u, json, 0)[k] = json[k]
      BY <1>l, <1>t, <3>1, FilesApart
    <3> QED
      BY <1>2, <1>7, <3>2
  <2> QED
    BY <1>1, <1>2, <1>7, <2>1, <2>2, <2>3
<1>8. ASSUME pc[u] \in {"parts", "polling"}, NEW n \in 0 .. Len(VnfdsOf[u]),
             json' = CopyOf(u, snap[u], n), NEW w \in Listed, NEW k \in Files(w)
      PROVE  json'[k] = w
  <2>1. NameOf[w] # NameOf[u] /\ w \in Upload /\ snap[u][k] = w
    BY <1>2, <1>3, <1>8
  <2>2. snap[u] \in [Key -> Upload \cup {NoFile}]
    BY <1>t
  <2>3. CopyOf(u, snap[u], n)[k] = snap[u][k]
    <3>1. \A loaded \in [Key -> Upload \cup {NoFile}] : CopyOf(u, loaded, n)[k] = loaded[k]
      BY <2>1, FilesApart
    <3> QED
      BY <2>2, <3>1
  <2> QED
    BY <1>8, <2>1, <2>3
<1>9. CASE /\ UNCHANGED <<rows, snap>> /\ Listed' = Listed
           /\ pc[u] \in {"parts", "polling"} /\ pc'[u] = "parts"
           /\ nth[u] + 1 \in 0 .. Len(VnfdsOf[u]) /\ json' = CopyOf(u, snap[u], nth[u] + 1)
  <2>1. \A w \in Listed : \A k \in Files(w) : json'[k] = w
    BY <1>8, <1>9
  <2>2. \A x \in Upload : pc'[x] \in {"parts", "polling"} => pc[x] \in {"parts", "polling"}
    BY <1>4, <1>9
  <2> QED
    BY <1>1, <1>2, <1>9, <2>1, <2>2
<1>10. CASE /\ UNCHANGED snap /\ rows' = rows \cup {u} /\ Listed' \subseteq Listed \cup {u}
            /\ pc[u] \in {"parts", "polling"} /\ pc'[u] = "over"
            /\ json' = CopyOf(u, snap[u], Len(VnfdsOf[u]))
  <2>1. \A w \in Listed : \A k \in Files(w) : json'[k] = w
    BY <1>8, <1>l, <1>10
  <2>2. ASSUME NEW k \in Files(u) PROVE json'[k] = u
    <3>1. \A loaded \in [Key -> Upload \cup {NoFile}] :
            CopyOf(u, loaded, Len(VnfdsOf[u]))[k] = u
      BY FilesApart
    <3> QED
      BY <1>10, <1>t, <3>1
  <2>3. \A x \in Upload : pc'[x] \notin {"parts", "polling"}
    BY <1>4, <1>10
  <2>4. \A x, w \in rows' : NameOf[x] = NameOf[w] => x = w
    BY <1>2, <1>10
  <2> QED
    BY <1>1, <1>10, <2>1, <2>2, <2>3, <2>4
<1> QED
  BY <1>5, <1>6, <1>7, <1>9, <1>10, FilesBy

-----------------------------------------------------------------------------
(* The invariant *)

(* It holds initially,                                                     *)
LEMMA InitCatalog == Init => CatalogInv
<1> SUFFICES ASSUME Init PROVE CatalogInv
  OBVIOUS
<1> USE DEF Init
<1>1. TypeOK
  <2>1. json \in [Key -> Upload \cup {NoFile}]
    OBVIOUS
  <2>2. snap \in [Upload -> [Key -> Upload \cup {NoFile}]]
    BY <2>1
  <2> HIDE DEF Init
  <2> QED
    BY <2>1, <2>2 DEF TypeOK, Init
<1>2. ASSUME NEW u \in Upload PROVE UploadSound(u)
  <2>1. pc[u] = "idle" /\ nth[u] = 0 /\ made[u] = 0 /\ del[u] = "idle" /\ todo[u] = {}
    OBVIOUS
  <2>2. 0 < Len(VnfdsOf[u]) /\ VnfdsOf[u][1] \in Vnfd
    BY VnfdsAre
  <2>3. 0 < Len(PartsOf[At(u)])
    BY <2>1, <2>2, PartsAre DEF At
  <2>4. Stored(u) = {} /\ Finished(u) = {} /\ Noted(u) = {}
    <3>1. 1 .. 0 = {}
      OBVIOUS
    <3> QED
      BY <2>1, <3>1 DEF Stored, Finished, Noted, PartsIn
  <2> QED
    BY <2>1, <2>2, <2>3, <2>4 DEF UploadSound
<1>3. Busy = {} /\ Listed = {}
  BY DEF Busy, Listed
<1>4. LoneRequest /\ FilesListed /\ NamesUnique /\ PartsKept
  BY <1>3, FS_EmptySet DEF LoneRequest, FilesListed, NamesUnique, PartsKept
<1> QED
  BY <1>1, <1>2, <1>4 DEF CatalogInv

(* and every step keeps it.                                                *)
LEMMA StepCatalog == CatalogInv /\ [Next]_vars => CatalogInv'
<1> SUFFICES ASSUME CatalogInv, [Next]_vars PROVE CatalogInv'
  OBVIOUS
<1>p. /\ TypeOK /\ \A u \in Upload : UploadSound(u)
      /\ LoneRequest /\ FilesListed /\ NamesUnique
  BY DEF CatalogInv
<1>1. ASSUME NEW u \in Upload, Request(u), overlapped' = (overlapped \/ Cardinality(Busy') > 1)
      PROVE  CatalogInv'
  <2>1. overlapped' \in BOOLEAN
    BY <1>p, <1>1 DEF TypeOK
  <2>2. TypeOK'
    BY <1>p, <1>1, <2>1, UploadTypes, DeleteTypes DEF Request, Uploading
  <2>3. UploadSound(u)'
    BY <1>p, <1>1, UploadKeeps, CleanupKeeps, DeleteKeeps DEF Request, Uploading
  <2>4. ASSUME NEW w \in Upload, w # u PROVE UploadSound(w)'
    BY <1>p, <1>1, <2>4, OthersStand, OthersSound
  <2>5. LoneRequest' /\ FilesListed' /\ NamesUnique'
    BY <1>p, <1>1, FilesKept
  <2>6. PartsKept'
    <3>1. \A w \in Upload : UploadSound(w)'
      BY <2>3, <2>4
    <3>2. rows' \subseteq Upload
      BY <2>2 DEF TypeOK
    <3> QED
      BY <3>1, <3>2 DEF PartsKept, Listed, UploadSound, Stored
  <2> QED
    BY <2>2, <2>3, <2>4, <2>5, <2>6 DEF CatalogInv
<1>2. CASE UNCHANGED vars
  <2> USE <1>2 DEF vars, upVars, delVars
  <2>1. TypeOK'
    BY <1>p DEF TypeOK
  <2>2. \A u \in Upload : UploadSound(u)'
    BY <1>p, OthersSound DEF Stored
  <2>3. Busy' = Busy /\ Listed' = Listed /\ \A u \in Upload : Files(u)' = Files(u)
    BY DEF Busy, Listed, Files
  <2>4. LoneRequest' /\ FilesListed' /\ NamesUnique'
    BY <1>p, <2>3 DEF LoneRequest, FilesListed, NamesUnique, Files
  <2>5. PartsKept'
    BY <2>3 DEF CatalogInv, PartsKept, AllParts, PartsIn
  <2> QED
    BY <2>1, <2>2, <2>4, <2>5 DEF CatalogInv
<1> QED
  BY <1>1, <1>2 DEF Next

(* Whatever uploads and deletions go on or fail beside it, a template in   *)
(* the catalog keeps all that its VNFDs are booted from.                   *)
THEOREM CatalogSafe == Spec => []CatalogInv
  BY InitCatalog, StepCatalog, PTL DEF Spec

(* A template that is deleted leaves no flavor behind, however often       *)
(* delete_template has failed on the way.                                  *)
THEOREM DeletedFlavorsGoneSafe == Spec => []DeletedFlavorsGone
<1>1. CatalogInv => DeletedFlavorsGone
  BY DEF CatalogInv, UploadSound, DeletedFlavorsGone
<1> QED
  BY <1>1, CatalogSafe, PTL

(* What an upload that failed leaves behind is known: its finished VNFDs,  *)
(* what template_cleanup did not get to, and perhaps the part it was at.   *)
THEOREM FailedLeavesFinishedSafe == Spec => []FailedLeavesFinished
<1>1. CatalogInv => FailedLeavesFinished
  BY DEF CatalogInv, UploadSound, FailedLeavesFinished
<1> QED
  BY <1>1, CatalogSafe, PTL

(* As long as requests come one at a time, templates.json names the files  *)
(* of the templates in the catalog: each upload writes back the copy it    *)
(* loaded, and no other has written since.                                 *)
THEOREM FilesListedSafe == Spec => []FilesListed
<1>1. CatalogInv => FilesListed
  BY DEF CatalogInv
<1> QED
  BY <1>1, CatalogSafe, PTL

(* As long as they do, no two templates in the catalog have one name.      *)
THEOREM NamesUniqueSafe == Spec => []NamesUnique
<1>1. CatalogInv => NamesUnique
  BY DEF CatalogInv
<1> QED
  BY <1>1, CatalogSafe, PTL
=============================================================================
