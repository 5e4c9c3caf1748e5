-------------------------- MODULE MCRequests_proofs --------------------------
(***************************************************************************)
(* Proofs of what MCRequests checks. Each part has an inductive invariant  *)
(* of its own, that its steps keep by the lemmas of SharedActors_proofs    *)
(* and RequestParts_proofs and those about the commands of the client      *)
(* (CommandLine) here, while the others keep still.                        *)
(***************************************************************************)
EXTENDS MCRequests, RequestParts_proofs, SharedActors_proofs

(***************************************************************************)
(* CommandLine: what is typed, and the row a command acts on               *)
(***************************************************************************)


(* The first word of a kind is none, or one with none of the kind before.  *)
LEMMA FirstWordIs ==
  ASSUME NEW args \in Seq(Words), NEW ws
  PROVE  \/ FirstWord(args, ws) = 0 /\ \A i \in DOMAIN args : args[i] \notin ws
         \/ /\ FirstWord(args, ws) \in DOMAIN args /\ FirstWord(args, ws) > 0
            /\ args[FirstWord(args, ws)] \in ws
            /\ \A i \in DOMAIN args : args[i] \in ws => FirstWord(args, ws) <= i
<1>1. PICK at : at = {i \in DOMAIN args : args[i] \in ws}
  OBVIOUS
<1>2. at \in SUBSET Nat /\ \A i \in at : i > 0
  BY <1>1
<1>3. CASE at = {}
  <2>1. FirstWord(args, ws) = 0
    BY <1>1, <1>3 DEF FirstWord
  <2> QED
    BY <1>1, <1>3, <2>1
<1>4. CASE at # {}
  <2>1. \E i \in at : \A j \in at : i <= j
    BY <1>2, <1>4, LeastPlace
  <2>2. FirstWord(args, ws) = CHOOSE i \in at : \A j \in at : i <= j
    BY <1>1, <1>4 DEF FirstWord
  <2>3. FirstWord(args, ws) \in at /\ \A j \in at : FirstWord(args, ws) <= j
    BY <2>1, <2>2
  <2> QED
    BY <1>1, <1>2, <2>3
<1> QED
  BY <1>3, <1>4

(* Help first: nobody who asks for it gets anything else.                  *)
LEMMA HelpGiven ==
  ASSUME NEW args \in Seq(Words)
  PROVE  /\ Route(args) = "command" =>
              /\ "-h" \notin ToSet(args)
              /\ \A i \in DOMAIN args : args[i] = "help" => \E k \in 1 .. i : args[k] = "cmd"
         /\ Route(args) \in {"unknown", "interactive"} =>
              "help" \notin ToSet(args) \/ "cmd" \in ToSet(args)
<1>1. PICK first : first = FirstWord(args, {"cmd"})
  OBVIOUS
<1>2. PICK word : word = FirstWord(args, {"help"})
  OBVIOUS
<1>3. PICK line : line = Rewritten(args)
  OBVIOUS
<1>4. PICK remainder : remainder = FirstWord(line, Words \ {"-h", "-v"})
  OBVIOUS
<1>5. Route(args) = IF "bash-completion" \in ToSet(args) THEN "completion"
                    ELSE IF "-h" \in ToSet(line) THEN "help"
                    ELSE IF remainder = 0 THEN "interactive"
                    ELSE IF line[remainder] = "help" THEN "help"
                    ELSE IF line[remainder] = "cmd" THEN "command" ELSE "unknown"
  BY <1>3, <1>4 DEF Route
<1>6. \A s : \A w : w \in ToSet(s) <=> \E i \in DOMAIN s : s[i] = w
  BY DEF ToSet
<1>7. CASE line = <<"help", "cmd">>
  <2>1. line \in Seq(Words) /\ DOMAIN line = 1 .. 2 /\ line[1] = "help"
    BY <1>7 DEF Words
  <2>2. remainder = 1
    BY <1>4, <2>1, FirstWordIs DEF Words
  <2> QED
    BY <1>5, <2>1, <2>2
<1>8. CASE word > 0 /\ line = [args EXCEPT ![word] = "-h"]
  <2>1. word \in DOMAIN args
    BY <1>2, <1>8, FirstWordIs
  <2>2. DOMAIN line = DOMAIN args /\ line[word] = "-h"
    BY <1>8, <2>1
  <2>3. "-h" \in ToSet(line)
    BY <1>6, <2>1, <2>2
  <2> QED
    BY <1>5, <2>3
<1>9. CASE line = args /\ ~ (word > 0 /\ first = 0)
  <2>1. ASSUME Route(args) = "command", NEW i \in DOMAIN args, args[i] = "help"
        PROVE  \E k \in 1 .. i : args[k] = "cmd"
    <3>1. remainder # 0 /\ args[remainder] = "cmd"
      BY <1>5, <1>9, <2>1
    <3>2. "help" \in Words \ {"-h", "-v"}
      BY DEF Words
    <3>3. remainder \in DOMAIN args /\ remainder > 0 /\ remainder <= i
      BY <1>4, <1>9, <2>1, <3>1, <3>2, FirstWordIs
    <3> QED
      BY <3>1, <3>3
  <2>2. ASSUME "help" \in ToSet(args) PROVE "cmd" \in ToSet(args)
    <3>1. word > 0
      BY <1>2, <1>6, <2>2, FirstWordIs
    <3>2. first # 0
      BY <1>9, <3>1
    <3>3. first \in DOMAIN args /\ args[first] = "cmd"
      BY <1>1, <3>2, FirstWordIs
    <3> QED
      BY <1>6, <3>3
  <2>3. Route(args) = "command" => "-h" \notin ToSet(args)
    BY <1>5, <1>9
  <2> QED
    BY <2>1, <2>2, <2>3
<1>10. \/ line = <<"help", "cmd">>
       \/ word > 0 /\ line = [args EXCEPT ![word] = "-h"]
       \/ line = args /\ ~ (word > 0 /\ first = 0)
  BY <1>1, <1>2, <1>3 DEF Rewritten
<1> QED
  BY <1>7, <1>8, <1>9, <1>10

-----------------------------------------------------------------------------
(* An option begins at one place.                                          *)
LEMMA FirstOnce ==
  ASSUME NEW items \in Seq(Specs), NEW o, NEW k, NEW m, FirstAt(items, o, k), FirstAt(items, o, m)
  PROVE  k = m
<1>1. k \in Nat /\ m \in Nat /\ k > 0 /\ m > 0
  BY DEF FirstAt
<1>2. ~ (k < m) /\ ~ (m < k)
  BY <1>1 DEF FirstAt
<1> QED
  BY <1>1, <1>2

LEMMA SegmentFrom ==
  ASSUME NEW items \in Seq(Specs), NEW o, NEW k, FirstAt(items, o, k)
  PROVE  \A i : i \in Segment(items, o) <=>
                  /\ i \in DOMAIN items /\ k <= i
                  /\ \A j \in k + 1 .. i : ~IsOption(items[j])
<1>1. k \in Nat /\ k > 0
  BY DEF FirstAt
<1>2. \A m : FirstAt(items, o, m) => m = k
  BY FirstOnce
<1>3. ASSUME NEW i, i \in Segment(items, o)
      PROVE  /\ i \in DOMAIN items /\ k <= i
             /\ \A j \in k + 1 .. i : ~IsOption(items[j])
  <2>1. PICK m \in 1 .. i : FirstAt(items, o, m) /\ \A j \in m + 1 .. i : ~IsOption(items[j])
    BY <1>3 DEF Segment
  <2>2. m = k
    BY <1>2, <2>1
  <2> QED
    BY <1>3, <2>1, <2>2 DEF Segment
<1>4. ASSUME NEW i \in DOMAIN items, k <= i, \A j \in k + 1 .. i : ~IsOption(items[j])
      PROVE  i \in Segment(items, o)
  <2>1. k \in 1 .. i
    BY <1>1, <1>4
  <2> QED
    BY <1>4, <2>1 DEF Segment
<1> QED
  BY <1>3, <1>4

(* Where the next option stands, or the items end, its places end.         *)
LEMMA SegmentEnds ==
  ASSUME NEW items \in Seq(Specs), NEW o, NEW k, NEW n \in 1 .. Len(items) + 1,
         FirstAt(items, o, k), k < n, \A j \in k + 1 .. n - 1 : ~IsOption(items[j]),
         n <= Len(items) => IsOption(items[n])
  PROVE  Segment(items, o) = k .. n - 1
<1>1. k \in Nat /\ k > 0 /\ DOMAIN items = 1 .. Len(items) /\ Len(items) \in Nat /\ n \in Nat
  BY LenProperties DEF FirstAt
<1>2. ASSUME NEW i, i \in Segment(items, o) PROVE i \in k .. n - 1
  <2>1. i \in DOMAIN items /\ k <= i /\ \A j \in k + 1 .. i : ~IsOption(items[j])
    BY <1>2, SegmentFrom
  <2>2. i \in Nat /\ i <= Len(items)
    BY <1>1, <2>1
  <2>3. ~ (n <= i)
    <3>1. SUFFICES ASSUME n <= i PROVE FALSE
      OBVIOUS
    <3>2. n \in k + 1 .. i /\ n <= Len(items)
      BY <1>1, <2>2, <3>1
    <3> QED
      BY <2>1, <3>2
  <2> QED
    BY <1>1, <2>1, <2>2, <2>3
<1>3. ASSUME NEW i \in k .. n - 1 PROVE i \in Segment(items, o)
  <2>1. i \in DOMAIN items /\ k <= i
    BY <1>1
  <2>2. \A j \in k + 1 .. i : j \in k + 1 .. n - 1
    BY <1>1
  <2> QED
    BY <2>1, <2>2, SegmentFrom
<1> QED
  BY <1>2, <1>3

-----------------------------------------------------------------------------
(* One more place behind the others: a value, or not.                      *)
LEMMA ValuedMore ==
  ASSUME NEW items, NEW P \in SUBSET Nat, NEW i \in Nat, \A j \in P : j < i
  PROVE  \A j : j \in Valued(items, P \cup {i}) <=>
           \/ j \in Valued(items, P)
           \/ /\ j = i
              /\ \/ items[i] \in {"v", "--a=v"}
                 \/ Typed(items[i]) /\ \E m \in P : Typed(items[m])
<1>1. \A j \in P \cup {i} : \A m : (m \in P \cup {i} /\ m < j) <=> (m \in P /\ m < j)
  OBVIOUS
<1>2. \A m \in P : m < i
  OBVIOUS
<1>3. i \notin P
  OBVIOUS
<1>4. ASSUME NEW j \in P
      PROVE  j \in Valued(items, P \cup {i}) <=> j \in Valued(items, P)
  BY <1>1, <1>4 DEF Valued
<1>5. i \in Valued(items, P \cup {i}) <=>
        \/ items[i] \in {"v", "--a=v"}
        \/ Typed(items[i]) /\ \E m \in P : Typed(items[m])
  BY <1>1, <1>2 DEF Valued
<1>6. Valued(items, P) \subseteq P /\ Valued(items, P \cup {i}) \subseteq P \cup {i}
  BY DEF Valued
<1> QED
  BY <1>3, <1>4, <1>5, <1>6

(* What an item that is no option changes of the loop.                     *)
TypeStep(s, t, x) ==
  /\ Typed(x) /\ s.type = "none" /\ t.type = IF x = "type=list" THEN "list" ELSE "int"
  /\ t.n = s.n /\ t.many = s.many /\ t.clear = s.clear /\ t.out = s.out
ListStep(s, t, x) ==
  /\ x = "list=true" /\ t.many = TRUE
  /\ t.n = s.n /\ t.type = s.type /\ t.clear = s.clear /\ t.out = s.out
ClearStep(s, t, x) ==
  /\ x = "action=clear" /\ t.clear = TRUE
  /\ t.n = s.n /\ t.type = s.type /\ t.many = s.many /\ t.out = s.out
ValueStep(s, t, x) ==
  /\ x = "v" \/ (Typed(x) /\ s.type # "none")
  /\ t.n = s.n + 1 /\ t.out = Append(s.out, x)
  /\ t.type = s.type /\ t.many = s.many /\ t.clear = s.clear
PlainStep(s, t, x) ==
  TypeStep(s, t, x) \/ ListStep(s, t, x) \/ ClearStep(s, t, x) \/ ValueStep(s, t, x)

LEMMA StandsMore ==
  ASSUME NEW items, NEW P, NEW i, NEW x
  PROVE  Stands(items, P \cup {i}, x) <=> Stands(items, P, x) \/ items[i] = x
BY DEF Stands

(* Where the place is no value, the other places are values as before.     *)
LEMMA ValuedSame ==
  ASSUME NEW items, NEW P \in SUBSET Nat, NEW i \in Nat, \A j \in P : j < i,
         items[i] \notin {"v", "--a=v"}, Typed(items[i]) => \A m \in P : ~Typed(items[m])
  PROVE  /\ Valued(items, P \cup {i}) = Valued(items, P)
         /\ \A x : Stands(items, (P \cup {i}) \ Valued(items, P \cup {i}), x)
                  <=> Stands(items, P \ Valued(items, P), x) \/ items[i] = x
<1>1. \A j : j \in Valued(items, P \cup {i}) <=> j \in Valued(items, P)
  BY ValuedMore
<1>2. Valued(items, P \cup {i}) = Valued(items, P)
  BY <1>1
<1>3. i \notin Valued(items, P)
  BY DEF Valued
<1>4. (P \cup {i}) \ Valued(items, P \cup {i}) = (P \ Valued(items, P)) \cup {i}
  BY <1>2, <1>3
<1>5. PICK A : A = P \ Valued(items, P)
  OBVIOUS
<1>6. PICK B : B = (P \cup {i}) \ Valued(items, P \cup {i})
  OBVIOUS
<1>7. B = A \cup {i}
  BY <1>4, <1>5, <1>6
<1>8. \A x : Stands(items, B, x) <=> Stands(items, A, x) \/ items[i] = x
  BY <1>7, StandsMore
<1> QED
  BY <1>2, <1>5, <1>6, <1>8

LEMMA ValuedOne ==
  ASSUME NEW items, NEW P \in SUBSET Nat, NEW i \in Nat, \A j \in P : j < i,
         items[i] = "v" \/ (Typed(items[i]) /\ \E m \in P : Typed(items[m]))
  PROVE  /\ Valued(items, P \cup {i}) = Valued(items, P) \cup {i} /\ i \notin Valued(items, P)
         /\ (P \cup {i}) \ Valued(items, P \cup {i}) = P \ Valued(items, P)
<1>1. \A j : j \in Valued(items, P \cup {i}) <=> j \in Valued(items, P) \/ j = i
  BY ValuedMore
<1>2. i \notin P /\ Valued(items, P) \subseteq P
  BY DEF Valued
<1> QED
  BY <1>1, <1>2

LEMMA TakenMore ==
  ASSUME NEW items, NEW P \in SUBSET Nat, NEW i \in Nat, \A j \in P : j < i,
         NEW s, NEW t, s.n \in Nat, TakenAs(items, P, s), PlainStep(s, t, items[i]),
         s.many \in BOOLEAN, s.clear \in BOOLEAN
  PROVE  TakenAs(items, P \cup {i}, t)
<1>1. PICK x : x = items[i]
  OBVIOUS
<1>2. PICK Q : Q = P \cup {i}
  OBVIOUS
<1>3. PICK V : V = Valued(items, P)
  OBVIOUS
<1>4. PICK W : W = Valued(items, Q)
  OBVIOUS
<1>5. /\ s.type # "none" <=> \E j \in P : Typed(items[j])
      /\ s.type = "list" <=> Stands(items, P \ V, "type=list")
      /\ s.many <=> Stands(items, P, "list=true")
      /\ s.clear <=> Stands(items, P, "action=clear")
      /\ s.n = 0 <=> V = {}
      /\ s.n > 1 <=> \E j, k \in V : j # k
  BY <1>3 DEF TakenAs
<1>6. /\ Stands(items, Q, "list=true") <=> Stands(items, P, "list=true") \/ x = "list=true"
      /\ Stands(items, Q, "action=clear") <=> Stands(items, P, "action=clear") \/ x = "action=clear"
      /\ (\E j \in Q : Typed(items[j])) <=> (\E j \in P : Typed(items[j])) \/ Typed(x)
  BY <1>1, <1>2, StandsMore
<1>7. /\ ~Typed("v") /\ ~Typed("list=true") /\ ~Typed("action=clear")
      /\ \A y : Typed(y) <=> y \in {"type=int", "type=list"}
  BY DEF Typed
<1>8. SUFFICES /\ t.type # "none" <=> \E j \in Q : Typed(items[j])
               /\ t.type = "list" <=> Stands(items, Q \ W, "type=list")
               /\ t.many <=> Stands(items, Q, "list=true")
               /\ t.clear <=> Stands(items, Q, "action=clear")
               /\ t.n = 0 <=> W = {}
               /\ t.n > 1 <=> \E j, k \in W : j # k
  BY <1>2, <1>4 DEF TakenAs
<1>9. ASSUME x \notin {"v", "--a=v"}, Typed(x) => \A m \in P : ~Typed(items[m])
      PROVE  /\ W = V
             /\ Stands(items, Q \ W, "type=list") <=> Stands(items, P \ V, "type=list") \/ x = "type=list"
  BY <1>1, <1>2, <1>3, <1>4, <1>9, ValuedSame
<1>10. CASE TypeStep(s, t, x)
  <2>1. /\ Typed(x) /\ s.type = "none" /\ t.type = (IF x = "type=list" THEN "list" ELSE "int")
        /\ t.n = s.n /\ t.many = s.many /\ t.clear = s.clear
    BY <1>10 DEF TypeStep
  <2>2. /\ W = V
        /\ Stands(items, Q \ W, "type=list") <=> Stands(items, P \ V, "type=list") \/ x = "type=list"
    BY <1>5, <1>7, <1>9, <2>1
  <2>3. x \notin {"list=true", "action=clear"}
    BY <1>7, <2>1
  <2>4. t.type = "list" <=> x = "type=list"
    BY <2>1
  <2>5. t.many <=> Stands(items, Q, "list=true")
    BY <1>5, <1>6, <2>1, <2>3
  <2>6. t.clear <=> Stands(items, Q, "action=clear")
    BY <1>5, <1>6, <2>1, <2>3
  <2>7. t.n = 0 <=> W = {}
    BY <1>5, <2>1, <2>2
  <2>8. t.n > 1 <=> \E j, k \in W : j # k
    BY <1>5, <2>1, <2>2
  <2>9. t.type # "none" <=> \E j \in Q : Typed(items[j])
    BY <1>6, <2>1
  <2>10. t.type = "list" <=> Stands(items, Q \ W, "type=list")
    BY <1>5, <2>1, <2>2, <2>4
  <2> QED
    BY <2>5, <2>6, <2>7, <2>8, <2>9, <2>10
<1>11. CASE ListStep(s, t, x)
  <2>1. /\ x = "list=true" /\ t.many = TRUE /\ t.n = s.n /\ t.type = s.type /\ t.clear = s.clear
    BY <1>11 DEF ListStep
  <2>2. /\ W = V
        /\ Stands(items, Q \ W, "type=list") <=> Stands(items, P \ V, "type=list")
    BY <1>7, <1>9, <2>1
  <2>5. t.many <=> Stands(items, Q, "list=true")
    BY <1>6, <2>1
  <2>6. t.clear <=> Stands(items, Q, "action=clear")
    BY <1>5, <1>6, <2>1
  <2>7. t.n = 0 <=> W = {}
    BY <1>5, <2>1, <2>2
  <2>8. t.n > 1 <=> \E j, k \in W : j # k
    BY <1>5, <2>1, <2>2
  <2>9. t.type # "none" <=> \E j \in Q : Typed(items[j])
    BY <1>5, <1>6, <1>7, <2>1
  <2>10. t.type = "list" <=> Stands(items, Q \ W, "type=list")
    BY <1>5, <2>1, <2>2
  <2> QED
    BY <2>5, <2>6, <2>7, <2>8, <2>9, <2>10
<1>12. CASE ClearStep(s, t, x)
  <2>1. /\ x = "action=clear" /\ t.clear = TRUE /\ t.n = s.n /\ t.type = s.type /\ t.many = s.many
    BY <1>12 DEF ClearStep
  <2>2. /\ W = V
        /\ Stands(items, Q \ W, "type=list") <=> Stands(items, P \ V, "type=list")
    BY <1>7, <1>9, <2>1
  <2>5. t.many <=> Stands(items, Q, "list=true")
    BY <1>5, <1>6, <2>1
  <2>6. t.clear <=> Stands(items, Q, "action=clear")
    BY <1>6, <2>1
  <2>7. t.n = 0 <=> W = {}
    BY <1>5, <2>1, <2>2
  <2>8. t.n > 1 <=> \E j, k \in W : j # k
    BY <1>5, <2>1, <2>2
  <2>9. t.type # "none" <=> \E j \in Q : Typed(items[j])
    BY <1>5, <1>6, <1>7, <2>1
  <2>10. t.type = "list" <=> Stands(items, Q \ W, "type=list")
    BY <1>5, <2>1, <2>2
  <2> QED
    BY <2>5, <2>6, <2>7, <2>8, <2>9, <2>10
<1>13. CASE ValueStep(s, t, x)
  <2>1. /\ x = "v" \/ (Typed(x) /\ s.type # "none")
        /\ t.n = s.n + 1 /\ t.type = s.type /\ t.many = s.many /\ t.clear = s.clear
    BY <1>13 DEF ValueStep
  <2>2. /\ W = V \cup {i} /\ i \notin V /\ Q \ W = P \ V
    BY <1>1, <1>2, <1>3, <1>4, <1>5, <2>1, ValuedOne
  <2>3. x \notin {"list=true", "action=clear"}
    BY <1>7, <2>1
  <2>5. t.many <=> Stands(items, Q, "list=true")
    BY <1>5, <1>6, <2>1, <2>3
  <2>6. t.clear <=> Stands(items, Q, "action=clear")
    BY <1>5, <1>6, <2>1, <2>3
  <2>7. t.n = 0 <=> W = {}
    BY <2>1, <2>2
  <2>8. t.n > 1 <=> \E j, k \in W : j # k
    <3>1. t.n > 1 <=> s.n # 0
      BY <2>1
    <3>2. (\E j, k \in W : j # k) <=> V # {}
      BY <2>2
    <3> QED
      BY <1>5, <3>1, <3>2
  <2>9. t.type # "none" <=> \E j \in Q : Typed(items[j])
    BY <1>5, <1>6, <1>7, <2>1
  <2>10. t.type = "list" <=> Stands(items, Q \ W, "type=list")
    BY <1>5, <2>1, <2>2
  <2> QED
    BY <2>5, <2>6, <2>7, <2>8, <2>9, <2>10
<1> QED
  BY <1>1, <1>10, <1>11, <1>12, <1>13 DEF PlainStep

(* An option has no value yet but the one behind its "=".                  *)
LEMMA TakenFirst ==
  ASSUME NEW items, NEW i \in Nat, NEW t, IsOption(items[i]),
         t.n = IF items[i] = "--a=v" THEN 1 ELSE 0,
         t.type = "none", t.many = FALSE, t.clear = FALSE
  PROVE  TakenAs(items, {i}, t)
<1>1. PICK x : x = items[i] /\ x \in {"--a", "--b", "--a=v"}
  BY DEF IsOption
<1>2. ~Typed(x)
  BY <1>1 DEF Typed
<1>3. \A j : j \in Valued(items, {i}) <=> j = i /\ x = "--a=v"
  BY <1>1, <1>2 DEF Valued
<1>4. \A S, y : S \subseteq {i} /\ y # x => ~Stands(items, S, y)
  BY <1>1 DEF Stands
<1>5. PICK V : V = Valued(items, {i})
  OBVIOUS
<1>6. V \subseteq {i} /\ (V = {} <=> x # "--a=v")
  BY <1>3, <1>5
<1>7. /\ ~Stands(items, {i} \ V, "type=list") /\ ~Stands(items, {i}, "list=true")
      /\ ~Stands(items, {i}, "action=clear")
  BY <1>1, <1>4
<1>8. t.n = 0 <=> V = {}
  BY <1>1, <1>6
<1>9. t.n > 1 <=> \E j, k \in V : j # k
  BY <1>1, <1>6
<1> QED
  BY <1>1, <1>2, <1>5, <1>7, <1>8, <1>9 DEF TakenAs

(* What the loop counted gives the shape of what was written.              *)
LEMMA ShapeTaken ==
  ASSUME NEW items, NEW P, NEW s, s.n \in Nat, TakenAs(items, P, s),
         ~ (s.n = 0 /\ (s.type # "none" \/ s.many))
  PROVE  ShapeSeen(s) = ShapeOf(items, P)
<1>1. PICK V : V = Valued(items, P)
  OBVIOUS
<1>2. /\ s.type = "list" <=> Stands(items, P \ V, "type=list")
      /\ s.many <=> Stands(items, P, "list=true")
      /\ s.clear <=> Stands(items, P, "action=clear")
      /\ s.n = 0 <=> V = {}
      /\ s.n > 1 <=> \E j, k \in V : j # k
  BY <1>1 DEF TakenAs
<1>3. ShapeOf(items, P) =
        IF (\E i, j \in V : i # j) \/ Stands(items, P, "list=true") \/ Stands(items, P \ V, "type=list")
          THEN "list"
        ELSE IF V # {} THEN "one"
        ELSE IF Stands(items, P, "action=clear") THEN "cleared" ELSE "true"
  BY <1>1 DEF ShapeOf
<1>4. ShapeSeen(s) = IF s.n > 1 \/ s.many \/ s.type = "list" THEN "list"
                     ELSE IF s.n = 1 THEN "one" ELSE IF s.clear THEN "cleared" ELSE "true"
  BY DEF ShapeSeen
<1>5. s.n = 0 \/ s.n = 1 \/ s.n > 1
  OBVIOUS
<1> QED
  BY <1>2, <1>3, <1>4, <1>5

-----------------------------------------------------------------------------
(* The arguments handed on: values do not matter, a cleared option is      *)
(* taken from their end, a new one put there.                              *)
LEMMA HandedMore ==
  ASSUME NEW out \in Seq(Specs), NEW x \in Specs, ~IsOption(x), NEW shape,
         Handed(out, shape), HandedOnce(out, shape)
  PROVE  Handed(Append(out, x), shape) /\ HandedOnce(Append(out, x), shape)
<1>1. PICK new : new = Append(out, x)
  OBVIOUS
<1>2. /\ new \in Seq(Specs) /\ Len(new) = Len(out) + 1 /\ new[Len(out) + 1] = x
      /\ \A i \in 1 .. Len(out) : new[i] = out[i]
      /\ DOMAIN new = 1 .. Len(new) /\ DOMAIN out = 1 .. Len(out) /\ Len(out) \in Nat
  BY <1>1, AppendProperties, LenProperties
<1>3. \A i \in DOMAIN out : i \in DOMAIN new /\ new[i] = out[i]
  BY <1>2
<1>4. ASSUME NEW i \in DOMAIN new, IsOption(new[i]) PROVE i \in DOMAIN out /\ new[i] = out[i]
  <2>1. i # Len(out) + 1
    BY <1>2, <1>4
  <2>2. i \in 1 .. Len(out)
    BY <1>2, <2>1
  <2> QED
    BY <1>2, <2>2
<1>5. \A o \in DOMAIN shape :
        (\E i \in DOMAIN new : IsOption(new[i]) /\ OptionName(new[i]) = o)
          <=> (\E i \in DOMAIN out : IsOption(out[i]) /\ OptionName(out[i]) = o)
  BY <1>3, <1>4
<1>6. Handed(new, shape)
  BY <1>5 DEF Handed
<1>7. HandedOnce(new, shape)
  BY <1>4 DEF HandedOnce
<1> QED
  BY <1>1, <1>6, <1>7

LEMMA HandedNew ==
  ASSUME NEW out \in Seq(Specs), NEW x \in Specs, IsOption(x), NEW shape, NEW new,
         OptionName(x) \notin DOMAIN shape, DOMAIN new = DOMAIN shape \cup {OptionName(x)},
         \A o \in DOMAIN shape : new[o] = shape[o], new[OptionName(x)] = "one",
         Handed(out, shape), HandedOnce(out, shape)
  PROVE  Handed(Append(out, x), new) /\ HandedOnce(Append(out, x), new)
<1>1. PICK all : all = Append(out, x)
  OBVIOUS
<1>2. /\ all \in Seq(Specs) /\ Len(all) = Len(out) + 1 /\ all[Len(out) + 1] = x
      /\ \A i \in 1 .. Len(out) : all[i] = out[i]
      /\ DOMAIN all = 1 .. Len(all) /\ DOMAIN out = 1 .. Len(out) /\ Len(out) \in Nat
  BY <1>1, AppendProperties, LenProperties
<1>3. PICK n : n = Len(out) + 1
  OBVIOUS
<1>4. /\ DOMAIN all = DOMAIN out \cup {n} /\ n \notin DOMAIN out /\ all[n] = x
      /\ \A i \in DOMAIN out : all[i] = out[i]
  BY <1>2, <1>3
<1>5. \A i \in DOMAIN out : IsOption(out[i]) =>
        OptionName(out[i]) \in DOMAIN shape /\ OptionName(out[i]) # OptionName(x)
  BY DEF HandedOnce
<1>6. ASSUME NEW o \in DOMAIN new
      PROVE  new[o] # "cleared" <=> \E i \in DOMAIN all : IsOption(all[i]) /\ OptionName(all[i]) = o
  <2>1. CASE o = OptionName(x)
    BY <1>4, <2>1
  <2>2. CASE o # OptionName(x)
    <3>1. o \in DOMAIN shape /\ new[o] = shape[o]
      BY <2>2
    <3>2. shape[o] # "cleared" <=> \E i \in DOMAIN out : IsOption(out[i]) /\ OptionName(out[i]) = o
      BY <3>1 DEF Handed
    <3> QED
      BY <1>4, <2>2, <3>1, <3>2
  <2> QED
    BY <2>1, <2>2
<1>7. Handed(all, new)
  BY <1>6 DEF Handed
<1>8. ASSUME NEW i \in DOMAIN all, NEW j \in DOMAIN all, IsOption(all[i])
      PROVE  /\ OptionName(all[i]) \in DOMAIN new
             /\ IsOption(all[j]) /\ OptionName(all[i]) = OptionName(all[j]) => i = j
  <2>1. CASE i = n /\ j = n
    BY <1>4, <2>1
  <2>2. CASE i \in DOMAIN out /\ j = n
    BY <1>4, <1>5, <1>8, <2>2
  <2>3. CASE i = n /\ j \in DOMAIN out
    BY <1>4, <1>5, <1>8, <2>3
  <2>4. CASE i \in DOMAIN out /\ j \in DOMAIN out
    BY <1>4, <1>8, <2>4 DEF HandedOnce
  <2> QED
    BY <1>4, <1>8, <2>1, <2>2, <2>3, <2>4
<1>9. HandedOnce(all, new)
  BY <1>8 DEF HandedOnce
<1> QED
  BY <1>1, <1>7, <1>9

(* The option that closes keeps its argument unless it is cleared.         *)
LEMMA HandedStays ==
  ASSUME NEW out, NEW shape, NEW new, NEW name \in DOMAIN shape, DOMAIN new = DOMAIN shape,
         \A o \in DOMAIN shape \ {name} : new[o] = shape[o],
         shape[name] # "cleared", new[name] # "cleared",
         Handed(out, shape), HandedOnce(out, shape)
  PROVE  Handed(out, new) /\ HandedOnce(out, new)
<1>1. \A o \in DOMAIN new : new[o] # "cleared" <=> shape[o] # "cleared"
  OBVIOUS
<1>2. Handed(out, new)
  BY <1>1 DEF Handed
<1> QED
  BY <1>2 DEF HandedOnce

LEMMA FrontIs ==
  ASSUME NEW S, NEW s \in Seq(S), s # << >>
  PROVE  /\ Front(s) \in Seq(S) /\ DOMAIN Front(s) = 1 .. Len(s) - 1
         /\ \A i \in 1 .. Len(s) - 1 : Front(s)[i] = s[i]
<1>1. PICK n : n = Len(s) - 1
  OBVIOUS
<1>2. n \in Nat /\ n <= Len(s) /\ Len(s) \in Nat /\ DOMAIN s = 1 .. Len(s)
  BY <1>1, LenProperties, EmptySeq
<1>3. \A i \in 1 .. n : i \in Nat /\ i <= Len(s) /\ 1 <= i
  BY <1>2
<1>4. PICK less : less = SubSeq(s, 1, n)
  OBVIOUS
<1>5. 1 \in 1 .. Len(s) + 1 /\ n \in 1 - 1 .. Len(s)
  BY <1>2
<1>6. less \in Seq(S) /\ Len(less) = n /\ \A i \in 1 .. n : less[i] = s[i]
  BY <1>2, <1>3, <1>4, <1>5, SubSeqProperties
<1>7. DOMAIN less = 1 .. n
  BY <1>6, LenProperties
<1>8. Front(s) = less
  BY <1>1, <1>4 DEF Front
<1> QED
  BY <1>1, <1>6, <1>7, <1>8

LEMMA HandedClears ==
  ASSUME NEW out \in Seq(Specs), NEW shape, NEW new, NEW x, IsOption(x),
         OptionName(x) \in DOMAIN shape, DOMAIN new = DOMAIN shape,
         \A o \in DOMAIN shape \ {OptionName(x)} : new[o] = shape[o],
         new[OptionName(x)] = "cleared", out # << >>, out[Len(out)] = x,
         Handed(out, shape), HandedOnce(out, shape)
  PROVE  Handed(Front(out), new) /\ HandedOnce(Front(out), new)
<1>1. PICK less : less = Front(out)
  OBVIOUS
<1>2. PICK n : n = Len(out)
  OBVIOUS
<1>3. n \in Nat /\ n > 0 /\ DOMAIN out = 1 .. n
  BY <1>2, LenProperties, EmptySeq
<1>4. /\ DOMAIN less = 1 .. n - 1
      /\ \A i \in 1 .. n - 1 : less[i] = out[i]
  BY <1>1, <1>2, <1>3, FrontIs
<1>5. /\ DOMAIN out = DOMAIN less \cup {n} /\ n \in DOMAIN out /\ n \notin DOMAIN less /\ out[n] = x
      /\ \A i \in DOMAIN less : less[i] = out[i]
  BY <1>2, <1>3, <1>4
<1>6. \A i \in DOMAIN less : IsOption(less[i]) => OptionName(less[i]) # OptionName(x)
  BY <1>5 DEF HandedOnce
<1>7. ASSUME NEW o \in DOMAIN new
      PROVE  new[o] # "cleared" <=> \E i \in DOMAIN less : IsOption(less[i]) /\ OptionName(less[i]) = o
  <2>1. CASE o = OptionName(x)
    BY <1>6, <2>1
  <2>2. CASE o # OptionName(x)
    <3>1. o \in DOMAIN shape /\ new[o] = shape[o]
      BY <2>2
    <3>2. shape[o] # "cleared" <=> \E i \in DOMAIN out : IsOption(out[i]) /\ OptionName(out[i]) = o
      BY <3>1 DEF Handed
    <3> QED
      BY <1>5, <2>2, <3>1, <3>2
  <2> QED
    BY <2>1, <2>2
<1>8. Handed(less, new)
  BY <1>7 DEF Handed
<1>9. HandedOnce(less, new)
  BY <1>5 DEF HandedOnce
<1> QED
  BY <1>1, <1>8, <1>9

-----------------------------------------------------------------------------
(* The loop's record, field by field.                                      *)
LEMMA ScanFields ==
  ASSUME NEW s \in ScanState
  PROVE  /\ s.i \in Nat /\ s.now \in Specs \cup {NoOption} /\ s.n \in Nat
         /\ s.type \in {"none", "int", "list"} /\ s.many \in BOOLEAN /\ s.clear \in BOOLEAN
         /\ s.out \in Seq(Specs) /\ s.shape \in ShapesOf /\ s.bad \in BOOLEAN
BY DEF ScanState

LEMMA PlainItem ==
  ASSUME NEW s \in ScanState, NEW x \in Specs, ~IsOption(x), ~NextItem(s, x).bad
  PROVE  LET t == NextItem(s, x)
         IN /\ t \in ScanState /\ t.i = s.i /\ t.now = s.now /\ t.shape = s.shape
            /\ PlainStep(s, t, x)
            /\ s.now = NoOption => t.out = s.out
<1>1. PICK t : t = NextItem(s, x)
  OBVIOUS
<1>2. /\ t # [s EXCEPT !.bad = TRUE]
      /\ s.i \in Nat /\ s.now \in Specs \cup {NoOption} /\ s.n \in Nat /\ s.out \in Seq(Specs)
  BY <1>1, ScanFields DEF ScanState
<1>3. \/ /\ Typed(x) /\ s.type = "none" /\ s.now # NoOption
         /\ t = [s EXCEPT !.type = IF x = "type=list" THEN "list" ELSE "int"]
      \/ x = "list=true" /\ t = [s EXCEPT !.many = TRUE]
      \/ x = "action=clear" /\ t = [s EXCEPT !.clear = TRUE]
      \/ /\ x = "v" \/ (Typed(x) /\ s.type # "none")
         /\ s.now # NoOption /\ t = [s EXCEPT !.n = @ + 1, !.out = Append(@, x)]
  <2>1. \/ Typed(x) /\ s.type = "none" /\ s.now # NoOption
        \/ x = "list=true"
        \/ x = "action=clear"
        \/ x = "v" \/ (Typed(x) /\ s.type # "none")
        \/ x = "-x"
        \/ Typed(x) /\ s.now = NoOption
    BY DEF Specs, IsOption, Typed
  <2> QED
    BY <1>1, <1>2, <2>1 DEF NextItem, Typed
<1>4. SUFFICES /\ t \in ScanState /\ t.i = s.i /\ t.now = s.now /\ t.shape = s.shape
               /\ PlainStep(s, t, x)
               /\ s.now = NoOption => t.out = s.out
  BY <1>1
<1>5. CASE /\ Typed(x) /\ s.type = "none" /\ s.now # NoOption
           /\ t = [s EXCEPT !.type = IF x = "type=list" THEN "list" ELSE "int"]
  <2>1. /\ t \in ScanState /\ t.i = s.i /\ t.now = s.now /\ t.shape = s.shape
        /\ t.type = (IF x = "type=list" THEN "list" ELSE "int")
        /\ t.n = s.n /\ t.many = s.many /\ t.clear = s.clear /\ t.out = s.out
    BY <1>5 DEF ScanState
  <2> QED
    BY <1>5, <2>1 DEF PlainStep, TypeStep
<1>6. CASE x = "list=true" /\ t = [s EXCEPT !.many = TRUE]
  <2>1. /\ t \in ScanState /\ t.i = s.i /\ t.now = s.now /\ t.shape = s.shape /\ t.many = TRUE
        /\ t.n = s.n /\ t.type = s.type /\ t.clear = s.clear /\ t.out = s.out
    BY <1>6 DEF ScanState
  <2> QED
    BY <1>6, <2>1 DEF PlainStep, ListStep
<1>7. CASE x = "action=clear" /\ t = [s EXCEPT !.clear = TRUE]
  <2>1. /\ t \in ScanState /\ t.i = s.i /\ t.now = s.now /\ t.shape = s.shape /\ t.clear = TRUE
        /\ t.n = s.n /\ t.type = s.type /\ t.many = s.many /\ t.out = s.out
    BY <1>7 DEF ScanState
  <2> QED
    BY <1>7, <2>1 DEF PlainStep, ClearStep
<1>8. CASE /\ x = "v" \/ (Typed(x) /\ s.type # "none")
           /\ s.now # NoOption /\ t = [s EXCEPT !.n = @ + 1, !.out = Append(@, x)]
  <2>1. PICK all \in Seq(Specs) : all = Append(s.out, x)
    BY <1>2, AppendProperties
  <2>2. PICK n \in Nat : n = s.n + 1
    BY <1>2
  <2>3. t = [s EXCEPT !.n = n, !.out = all]
    BY <1>8, <2>1, <2>2
  <2>4. /\ t \in ScanState /\ t.i = s.i /\ t.now = s.now /\ t.shape = s.shape /\ t.n = n
        /\ t.out = all /\ t.type = s.type /\ t.many = s.many /\ t.clear = s.clear
    BY <2>3 DEF ScanState
  <2> QED
    BY <1>8, <2>1, <2>2, <2>4 DEF PlainStep, ValueStep
<1> QED
  BY <1>3, <1>5, <1>6, <1>7, <1>8

LEMMA ShapesClosed ==
  ASSUME NEW h \in ShapesOf, NEW o \in DOMAIN h, NEW v \in {"one", "list", "true", "cleared"},
         NEW new, new = [h EXCEPT ![o] = v]
  PROVE  /\ new \in ShapesOf /\ DOMAIN new = DOMAIN h /\ new[o] = v
         /\ \A p \in DOMAIN h \ {o} : new[p] = h[p]
<1>1. PICK D \in SUBSET {"--a", "--b"} : h \in [D -> {"one", "list", "true", "cleared"}]
  BY DEF ShapesOf
<1>2. new \in [D -> {"one", "list", "true", "cleared"}]
  BY <1>1
<1> QED
  BY <1>1, <1>2 DEF ShapesOf

LEMMA PreviousIs ==
  ASSUME NEW s \in ScanState, ~s.bad, s.now # NoOption, OptionName(s.now) \in DOMAIN s.shape,
         ShapeSeen(s) = "cleared" => s.out # << >>, ~Previous(s).bad
  PROVE  LET p == Previous(s)
         IN /\ p \in ScanState /\ p.i = s.i /\ ~ (s.n = 0 /\ (s.type # "none" \/ s.many))
            /\ p.out = IF ShapeSeen(s) = "cleared" THEN Front(s.out) ELSE s.out
            /\ p.shape = [s.shape EXCEPT ![OptionName(s.now)] = ShapeSeen(s)]
<1>1. PICK p : p = Previous(s)
  OBVIOUS
<1>2. PICK form : form = ShapeSeen(s)
  OBVIOUS
<1>3. form \in {"one", "list", "true", "cleared"}
  BY <1>2 DEF ShapeSeen
<1>4. PICK out : out = IF form = "cleared" THEN Front(s.out) ELSE s.out
  OBVIOUS
<1>5. out \in Seq(Specs)
  BY <1>2, <1>4, ScanFields, FrontIs
<1>6. PICK h : h = [s.shape EXCEPT ![OptionName(s.now)] = form]
  OBVIOUS
<1>7. h \in ShapesOf
  BY <1>3, <1>6, ScanFields, ShapesClosed
<1>8. \/ p = [s EXCEPT !.bad = TRUE]
      \/ ~ (s.n = 0 /\ (s.type # "none" \/ s.many)) /\ p = [s EXCEPT !.out = out, !.shape = h]
  BY <1>1, <1>2, <1>4, <1>6 DEF Previous
<1>9. [s EXCEPT !.bad = TRUE].bad = TRUE
  BY DEF ScanState
<1>10. ~ (s.n = 0 /\ (s.type # "none" \/ s.many)) /\ p = [s EXCEPT !.out = out, !.shape = h]
  BY <1>1, <1>8, <1>9
<1>11. p \in ScanState /\ p.i = s.i /\ p.out = out /\ p.shape = h
  BY <1>5, <1>7, <1>10 DEF ScanState
<1> QED
  BY <1>1, <1>2, <1>4, <1>6, <1>10, <1>11

OptionMade(p, t, x) ==
  /\ t.now = x /\ t.n = (IF x = "--a=v" THEN 1 ELSE 0)
  /\ t.type = "none" /\ t.many = FALSE /\ t.clear = FALSE /\ t.out = Append(p.out, x)
  /\ OptionName(x) \notin DOMAIN p.shape
  /\ DOMAIN t.shape = DOMAIN p.shape \cup {OptionName(x)}
  /\ t.shape[OptionName(x)] = "one" /\ \A o \in DOMAIN p.shape : t.shape[o] = p.shape[o]

LEMMA OptionIs ==
  ASSUME NEW p \in ScanState, NEW x \in Specs, NEW t, IsOption(x), t = Option(p, x), ~t.bad
  PROVE  t \in ScanState /\ t.i = p.i /\ OptionMade(p, t, x)
<1>2. PICK name : name = OptionName(x)
  OBVIOUS
<1>3. [p EXCEPT !.bad = TRUE].bad = TRUE
  BY DEF ScanState
<1>4. PICK h : h = [o \in DOMAIN p.shape \cup {name} |->
                      IF o \in DOMAIN p.shape THEN p.shape[o] ELSE "one"]
  OBVIOUS
<1>5. PICK all \in Seq(Specs) : all = Append(p.out, x)
  BY ScanFields, AppendProperties
<1>6. PICK n \in Nat : n = IF x = "--a=v" THEN 1 ELSE 0
  OBVIOUS
<1>7. /\ name \notin DOMAIN p.shape
      /\ t = [i |-> p.i, now |-> x, n |-> n, type |-> "none", many |-> FALSE, clear |-> FALSE,
              out |-> all, shape |-> h, bad |-> FALSE]
  BY <1>2, <1>3, <1>4, <1>5, <1>6 DEF Option
<1>8. h \in ShapesOf /\ DOMAIN h = DOMAIN p.shape \cup {name} /\ h[name] = "one"
      /\ \A o \in DOMAIN p.shape : h[o] = p.shape[o]
  <2>1. PICK D \in SUBSET {"--a", "--b"} : p.shape \in [D -> {"one", "list", "true", "cleared"}]
    BY ScanFields DEF ShapesOf
  <2>2. name \in {"--a", "--b"}
    BY <1>2 DEF OptionName, IsOption
  <2>3. PICK E : E = D \cup {name}
    OBVIOUS
  <2>4. E \in SUBSET {"--a", "--b"} /\ h \in [E -> {"one", "list", "true", "cleared"}]
    BY <1>4, <2>1, <2>2, <2>3
  <2>5. h \in ShapesOf
    BY <2>4 DEF ShapesOf
  <2> QED
    BY <1>4, <1>7, <2>5
<1>9. p.i \in Nat
  BY ScanFields
<1>10. t \in ScanState
  BY <1>7, <1>8, <1>9 DEF ScanState
<1> QED
  BY <1>2, <1>5, <1>6, <1>7, <1>8, <1>10 DEF OptionMade

-----------------------------------------------------------------------------
(* Before the first item nothing is open.                                  *)
LEMMA SoFarStarts ==
  ASSUME NEW items \in Seq(Specs)
  PROVE  Fresh \in ScanState /\ SoFar(items, Fresh)
<1>1. << >> \in ShapesOf /\ DOMAIN << >> = {}
  <2>1. PICK h : h = << >>
    OBVIOUS
  <2>2. h \in [{} -> {"one", "list", "true", "cleared"}]
    BY <2>1
  <2> QED
    BY <2>1, <2>2 DEF ShapesOf
<1>2. Fresh \in ScanState
  BY <1>1 DEF Fresh, ScanState
<1>3. Handed(<< >>, << >>) /\ HandedOnce(<< >>, << >>)
  BY <1>1 DEF Handed, HandedOnce
<1>4. /\ Fresh.i = 1 /\ Fresh.now = NoOption /\ Fresh.shape = << >> /\ Fresh.out = << >>
  BY DEF Fresh
<1>5. \A i \in DOMAIN items : ~ (i < 1)
  BY LenProperties
<1> QED
  BY <1>1, <1>2, <1>3, <1>4, <1>5 DEF SoFar

LEMMA SoFarPlain ==
  ASSUME NEW items \in Seq(Specs), NEW s \in ScanState, SoFar(items, s),
         s.i \in DOMAIN items, ~IsOption(items[s.i]),
         NEW t, t.i = s.i + 1, t.now = s.now, t.shape = s.shape, PlainStep(s, t, items[s.i]),
         s.now = NoOption => t.out = s.out
  PROVE  SoFar(items, t)
<1>1. PICK n \in Nat : n = s.i
  BY ScanFields
<1>2. DOMAIN items \in SUBSET Nat /\ \A k \in DOMAIN items : items[k] \in Specs
  BY LenProperties
<1>3. \A i \in DOMAIN items : i < t.i /\ IsOption(items[i]) => OptionName(items[i]) \in DOMAIN t.shape
  <2>1. \A i \in DOMAIN items : i < n + 1 => i < n \/ i = n
    BY <1>2
  <2>2. \A i \in DOMAIN items : i < n /\ IsOption(items[i]) => OptionName(items[i]) \in DOMAIN s.shape
    BY <1>1 DEF SoFar
  <2> QED
    BY <1>1, <2>1, <2>2
<1>4. \A o \in DOMAIN t.shape : o = OptionName(t.now) \/ ClosedAs(items, t, o)
  <2>1. ASSUME NEW o, ClosedAs(items, s, o) PROVE ClosedAs(items, t, o)
    <3>1. PICK k, m \in DOMAIN items :
            FirstAt(items, o, k) /\ k < m /\ m < s.i /\ IsOption(items[m])
      BY <2>1 DEF ClosedAs
    <3>2. m < t.i
      BY <1>1, <1>2, <3>1
    <3>3. t.shape[o] = ShapeOf(items, Segment(items, o))
      BY <2>1 DEF ClosedAs
    <3> QED
      BY <3>1, <3>2, <3>3 DEF ClosedAs
  <2> QED
    BY <2>1 DEF SoFar
<1>5. Handed(t.out, t.shape) /\ HandedOnce(t.out, t.shape)
  <2>1. t.out = s.out \/ t.out = Append(s.out, items[s.i])
    BY DEF PlainStep, TypeStep, ListStep, ClearStep, ValueStep
  <2>2. Handed(s.out, s.shape) /\ HandedOnce(s.out, s.shape) /\ s.out \in Seq(Specs)
    BY ScanFields DEF SoFar
  <2>3. CASE t.out = s.out
    BY <2>2, <2>3
  <2>4. CASE t.out = Append(s.out, items[s.i])
    BY <1>2, <2>2, <2>4, HandedMore
  <2> QED
    BY <2>1, <2>3, <2>4
<1>6. CASE s.now = NoOption
  <2>1. s.shape = << >>
    BY <1>6 DEF SoFar
  <2> QED
    BY <1>3, <1>4, <1>5, <1>6, <2>1 DEF SoFar
<1>7. CASE s.now # NoOption
  <2>1. IsOpen(items, s)
    BY <1>7 DEF SoFar
  <2>2. PICK k \in DOMAIN items : OpenFrom(items, s, k)
    BY <2>1 DEF IsOpen
  <2>3. /\ FirstAt(items, OptionName(s.now), k) /\ k < n /\ items[k] = s.now
        /\ \A j \in k + 1 .. n - 1 : ~IsOption(items[j])
        /\ TakenAs(items, k .. n - 1, s)
    BY <1>1, <2>2 DEF OpenFrom
  <2>4. k \in Nat /\ k < n + 1
    BY <1>2, <2>3
  <2>5. \A j \in k + 1 .. n : ~IsOption(items[j])
    <3>1. \A j \in k + 1 .. n : j = n \/ j \in k + 1 .. n - 1
      BY <2>4
    <3> QED
      BY <1>1, <2>3, <3>1
  <2>6. TakenAs(items, k .. n, t)
    <3>1. PICK P : P = k .. n - 1
      OBVIOUS
    <3>2. P \in SUBSET Nat /\ (\A j \in P : j < n) /\ k .. n = P \cup {n}
      BY <2>3, <2>4, <3>1
    <3>3. TakenAs(items, P \cup {n}, t)
      BY <1>1, <2>3, <3>1, <3>2, ScanFields, TakenMore
    <3> QED
      BY <3>2, <3>3
  <2>7. OpenFrom(items, t, k)
    <3>1. t.i - 1 = n
      BY <1>1
    <3>2. t.i = n + 1
      BY <1>1
    <3> QED
      BY <2>3, <2>4, <2>5, <2>6, <3>1, <3>2 DEF OpenFrom
  <2>8. t.n = 0 => t.out # << >> /\ t.out[Len(t.out)] = t.now
    <3>1. s.n \in Nat
      BY ScanFields
    <3>2. t.n = 0 => s.n = 0 /\ t.out = s.out
      BY <3>1 DEF PlainStep, TypeStep, ListStep, ClearStep, ValueStep
    <3>3. s.n = 0 => s.out # << >> /\ s.out[Len(s.out)] = s.now
      BY <2>1 DEF IsOpen
    <3> QED
      BY <3>2, <3>3
  <2>9. IsOpen(items, t)
    BY <2>1, <2>7, <2>8 DEF IsOpen
  <2> QED
    BY <1>3, <1>4, <1>5, <1>7, <2>9 DEF SoFar
<1> QED
  BY <1>6, <1>7

(* When the open option ends it is what was written behind it, and so are  *)
(* the others.                                                             *)
LEMMA SoFarCloses ==
  ASSUME NEW items \in Seq(Specs), NEW s \in ScanState, NEW p, ~s.bad, SoFar(items, s),
         s.i \in 1 .. Len(items) + 1, s.i <= Len(items) => IsOption(items[s.i]),
         p = Previous(s), ~p.bad
  PROVE  /\ p \in ScanState /\ p.i = s.i /\ DOMAIN p.shape = DOMAIN s.shape
         /\ AsWritten(items, p.shape)
         /\ Handed(p.out, p.shape) /\ HandedOnce(p.out, p.shape)
         /\ \A o \in DOMAIN p.shape : \E k \in DOMAIN items : FirstAt(items, o, k) /\ k < s.i
<1>1. p = Previous(s)
  OBVIOUS
<1>2. PICK n \in Nat : n = s.i
  BY ScanFields
<1>3. DOMAIN items \in SUBSET Nat
  BY LenProperties
<1>4. ASSUME NEW o, ClosedAs(items, s, o)
      PROVE  /\ s.shape[o] = ShapeOf(items, Segment(items, o))
             /\ \E k \in DOMAIN items : FirstAt(items, o, k) /\ k < s.i
  <2>1. PICK k, m \in DOMAIN items : FirstAt(items, o, k) /\ k < m /\ m < s.i
    BY <1>4 DEF ClosedAs
  <2>2. k < n
    BY <1>2, <1>3, <2>1
  <2> QED
    BY <1>2, <1>4, <2>1, <2>2 DEF ClosedAs
<1>5. CASE s.now = NoOption
  <2>1. p = s /\ s.shape = << >>
    BY <1>1, <1>5 DEF Previous, SoFar
  <2>2. DOMAIN s.shape = {}
    BY <2>1
  <2>3. AsWritten(items, p.shape)
    BY <2>1, <2>2 DEF AsWritten
  <2> QED
    BY <1>1, <2>1, <2>2, <2>3 DEF SoFar
<1>6. CASE s.now # NoOption
  <2>1. PICK x : x = s.now
    OBVIOUS
  <2>2. PICK form : form = ShapeSeen(s)
    OBVIOUS
  <2>3. IsOpen(items, s)
    BY <1>6 DEF SoFar
  <2>4. PICK name : name = OptionName(x)
    OBVIOUS
  <2>5. IsOption(x) /\ name \in DOMAIN s.shape /\ s.shape[name] = "one"
    BY <2>1, <2>3, <2>4 DEF IsOpen
  <2>6. s.n = 0 => s.out # << >> /\ s.out[Len(s.out)] = x
    BY <2>1, <2>3 DEF IsOpen
  <2>7. form = "cleared" => s.n = 0
    <3>1. s.n \in Nat
      BY ScanFields
    <3>2. ~ (s.n > 1) /\ s.n # 1 => s.n = 0
      BY <3>1
    <3> QED
      BY <2>2, <3>2 DEF ShapeSeen
  <2>8. /\ p \in ScanState /\ p.i = s.i /\ ~ (s.n = 0 /\ (s.type # "none" \/ s.many))
        /\ p.out = IF form = "cleared" THEN Front(s.out) ELSE s.out
        /\ p.shape = [s.shape EXCEPT ![name] = form]
    BY <1>1, <1>6, <2>1, <2>2, <2>4, <2>5, <2>6, <2>7, PreviousIs
  <2>9. form \in {"one", "list", "true", "cleared"}
    BY <2>2 DEF ShapeSeen
  <2>10. /\ DOMAIN p.shape = DOMAIN s.shape /\ p.shape[name] = form
         /\ \A o \in DOMAIN s.shape \ {name} : p.shape[o] = s.shape[o]
    BY <2>5, <2>8, <2>9, ScanFields, ShapesClosed
  <2>11. PICK k \in DOMAIN items : OpenFrom(items, s, k)
    BY <2>3 DEF IsOpen
  <2>12. /\ FirstAt(items, name, k) /\ k < n
         /\ \A j \in k + 1 .. n - 1 : ~IsOption(items[j])
         /\ TakenAs(items, k .. n - 1, s)
    BY <1>2, <2>1, <2>4, <2>11 DEF OpenFrom
  <2>13. form = ShapeOf(items, Segment(items, name))
    <3>1. Segment(items, name) = k .. n - 1
      BY <1>2, <2>12, SegmentEnds
    <3>2. s.n \in Nat
      BY ScanFields
    <3> QED
      BY <2>2, <2>8, <2>12, <3>1, <3>2, ShapeTaken
  <2>14. ASSUME NEW o \in DOMAIN p.shape
         PROVE  /\ p.shape[o] = ShapeOf(items, Segment(items, o))
                /\ \E l \in DOMAIN items : FirstAt(items, o, l) /\ l < s.i
    <3>1. CASE o = name
      BY <1>2, <2>10, <2>12, <2>13, <3>1
    <3>2. CASE o # name
      <4>1. ClosedAs(items, s, o) /\ p.shape[o] = s.shape[o]
        BY <2>1, <2>4, <2>10, <3>2 DEF SoFar
      <4> QED
        BY <1>4, <4>1
    <3> QED
      BY <3>1, <3>2
  <2>15. AsWritten(items, p.shape)
    BY <2>14 DEF AsWritten
  <2>16. Handed(p.out, p.shape) /\ HandedOnce(p.out, p.shape)
    <3>1. Handed(s.out, s.shape) /\ HandedOnce(s.out, s.shape) /\ s.out \in Seq(Specs)
      BY ScanFields DEF SoFar
    <3>2. CASE form = "cleared"
      BY <2>4, <2>5, <2>6, <2>7, <2>8, <2>10, <3>1, <3>2, HandedClears
    <3>3. CASE form # "cleared"
      BY <2>5, <2>8, <2>10, <3>1, <3>3, HandedStays
    <3> QED
      BY <3>2, <3>3
  <2> QED
    BY <1>1, <2>8, <2>10, <2>14, <2>15, <2>16
<1> QED
  BY <1>5, <1>6

SameRest(s, t) ==
  /\ t.now = s.now /\ t.n = s.n /\ t.type = s.type /\ t.many = s.many /\ t.clear = s.clear
  /\ t.out = s.out /\ t.shape = s.shape

LEMMA SoFarOption ==
  ASSUME NEW items \in Seq(Specs), NEW s \in ScanState, NEW t, NEW r, ~s.bad, SoFar(items, s),
         s.i \in DOMAIN items, IsOption(items[s.i]), ~Previous(s).bad,
         r = Option(Previous(s), items[s.i]), ~r.bad, t.i = s.i + 1, SameRest(r, t)
  PROVE  SoFar(items, t)
<1>1. PICK p : p = Previous(s)
  OBVIOUS
<1>2. PICK n \in Nat : n = s.i
  BY ScanFields
<1>3. /\ DOMAIN items \in SUBSET Nat /\ \A k \in DOMAIN items : items[k] \in Specs
      /\ n \in 1 .. Len(items) + 1 /\ n > 0
  BY <1>2, LenProperties
<1>4. PICK x \in Specs : x = items[n] /\ IsOption(x)
  BY <1>2, <1>3
<1>5. PICK name : name = OptionName(x)
  OBVIOUS
<1>6. /\ p \in ScanState /\ DOMAIN p.shape = DOMAIN s.shape
      /\ AsWritten(items, p.shape)
      /\ Handed(p.out, p.shape) /\ HandedOnce(p.out, p.shape)
      /\ \A o \in DOMAIN p.shape : \E k \in DOMAIN items : FirstAt(items, o, k) /\ k < n
  BY <1>1, <1>2, <1>3, <1>4, SoFarCloses
<1>7. /\ t.now = x /\ t.n = (IF x = "--a=v" THEN 1 ELSE 0)
      /\ t.type = "none" /\ t.many = FALSE /\ t.clear = FALSE /\ t.out = Append(p.out, x)
      /\ name \notin DOMAIN p.shape
      /\ DOMAIN t.shape = DOMAIN p.shape \cup {name}
      /\ t.shape[name] = "one" /\ \A o \in DOMAIN p.shape : t.shape[o] = p.shape[o]
  <2>1. PICK q : q = r
    OBVIOUS
  <2>2. ~q.bad /\ q = Option(p, x)
    BY <1>1, <1>2, <1>4, <2>1
  <2>3. /\ q.now = x /\ q.n = (IF x = "--a=v" THEN 1 ELSE 0)
        /\ q.type = "none" /\ q.many = FALSE /\ q.clear = FALSE /\ q.out = Append(p.out, x)
        /\ name \notin DOMAIN p.shape
        /\ DOMAIN q.shape = DOMAIN p.shape \cup {name}
        /\ q.shape[name] = "one" /\ \A o \in DOMAIN p.shape : q.shape[o] = p.shape[o]
    <3>1. p \in ScanState /\ x \in Specs /\ IsOption(x) /\ q = Option(p, x) /\ ~q.bad
      BY <1>4, <1>6, <2>2
    <3>2. OptionMade(p, q, x)
      BY <3>1, OptionIs
    <3> QED
      BY <1>5, <3>2 DEF OptionMade
  <2>4. /\ t.now = q.now /\ t.n = q.n /\ t.type = q.type /\ t.many = q.many
        /\ t.clear = q.clear /\ t.out = q.out /\ t.shape = q.shape
    BY <2>1 DEF SameRest
  <2> QED
    BY <2>3, <2>4
<1>8. \A i \in DOMAIN items : i < t.i /\ IsOption(items[i]) => OptionName(items[i]) \in DOMAIN t.shape
  <2>1. \A i \in DOMAIN items : i < n + 1 => i < n \/ i = n
    BY <1>3
  <2>2. \A i \in DOMAIN items : i < n /\ IsOption(items[i]) => OptionName(items[i]) \in DOMAIN s.shape
    BY <1>2 DEF SoFar
  <2> QED
    BY <1>2, <1>4, <1>5, <1>6, <1>7, <2>1, <2>2
<1>9. FirstAt(items, name, n)
  <2>1. \A i \in DOMAIN items : i < n /\ IsOption(items[i]) => OptionName(items[i]) \in DOMAIN s.shape
    BY <1>2 DEF SoFar
  <2>2. \A j \in 1 .. n - 1 : j \in DOMAIN items /\ j < n
    <3>1. DOMAIN items = 1 .. Len(items) /\ Len(items) \in Nat
      BY LenProperties
    <3> QED
      BY <1>2, <3>1
  <2>3. \A j \in 1 .. n - 1 : ~NamedAt(items, name, j)
    BY <1>6, <1>7, <2>1, <2>2 DEF NamedAt
  <2> QED
    BY <1>2, <1>4, <1>5, <2>3 DEF FirstAt, NamedAt
<1>10. OpenFrom(items, t, n)
  <2>1. TakenAs(items, {n}, t)
    BY <1>4, <1>7, TakenFirst
  <2>2. t.i - 1 = n /\ n < t.i /\ n .. n = {n} /\ n + 1 .. n = {}
    BY <1>2
  <2>3. TakenAs(items, n .. t.i - 1, t)
    BY <2>1, <2>2
  <2>4. \A j \in n + 1 .. t.i - 1 : ~IsOption(items[j])
    BY <2>2
  <2> QED
    BY <1>4, <1>5, <1>7, <1>9, <2>2, <2>3, <2>4 DEF OpenFrom
<1>11. t.out # << >> /\ t.out[Len(t.out)] = x
  <2>1. PICK out \in Seq(Specs) : out = p.out
    BY <1>6, ScanFields
  <2>2. PICK all : all = Append(out, x)
    OBVIOUS
  <2>3. all # << >> /\ Len(all) = Len(out) + 1 /\ all[Len(out) + 1] = x
    BY <2>2, AppendProperties
  <2>4. t.out = all
    BY <1>7, <2>1, <2>2
  <2> QED
    BY <2>3, <2>4
<1>12. IsOpen(items, t)
  BY <1>2, <1>4, <1>5, <1>7, <1>10, <1>11 DEF IsOpen
<1>13. ASSUME NEW o \in DOMAIN t.shape, o # name PROVE ClosedAs(items, t, o)
  <2>1. o \in DOMAIN p.shape /\ t.shape[o] = p.shape[o]
    BY <1>7, <1>13
  <2>2. PICK k \in DOMAIN items : FirstAt(items, o, k) /\ k < n
    BY <1>6, <2>1
  <2>3. n \in DOMAIN items /\ n < t.i /\ IsOption(items[n])
    BY <1>2, <1>4
  <2>4. t.shape[o] = ShapeOf(items, Segment(items, o))
    BY <1>6, <2>1 DEF AsWritten
  <2> QED
    BY <2>2, <2>3, <2>4 DEF ClosedAs
<1>14. Handed(t.out, t.shape) /\ HandedOnce(t.out, t.shape)
  <2>1. PICK out \in Seq(Specs) : out = p.out
    BY <1>6, ScanFields
  <2>2. PICK h : h = p.shape
    OBVIOUS
  <2>3. PICK new : new = t.shape
    OBVIOUS
  <2>4. Handed(out, h) /\ HandedOnce(out, h)
    BY <1>6, <2>1, <2>2
  <2>5. /\ OptionName(x) \notin DOMAIN h /\ DOMAIN new = DOMAIN h \cup {OptionName(x)}
        /\ new[OptionName(x)] = "one" /\ \A o \in DOMAIN h : new[o] = h[o]
    BY <1>5, <1>7, <2>2, <2>3
  <2>6. Handed(Append(out, x), new) /\ HandedOnce(Append(out, x), new)
    BY <1>4, <2>4, <2>5, HandedNew
  <2>7. t.out = Append(out, x)
    BY <1>7, <2>1
  <2> QED
    BY <2>3, <2>6, <2>7
<1>15. t.now # NoOption
  BY <1>4, <1>7 DEF IsOption, NoOption
<1> QED
  BY <1>5, <1>7, <1>8, <1>12, <1>13, <1>14, <1>15 DEF SoFar

LEMMA SeqOfIs ==
  ASSUME NEW S, NEW n \in Nat, NEW s \in SeqOf(S, n)
  PROVE  s \in Seq(S)
<1>1. PICK m \in 0 .. n : s \in [1 .. m -> S]
  BY DEF SeqOf
<1> QED
  BY <1>1


-----------------------------------------------------------------------------
(* One more item, of whichever kind, keeps the loop as it must be.         *)
MovedTo(s, n, t) == t = [s EXCEPT !.i = n]
MovedOn(s, t) == t = [s EXCEPT !.i = @ + 1]

LEMMA NextPlace ==
  ASSUME NEW s \in ScanState, NEW n \in Nat, NEW t, MovedTo(s, n, t)
  PROVE  t \in ScanState /\ t.i = n /\ t.bad = s.bad /\ SameRest(s, t)
BY DEF ScanState, SameRest, MovedTo

LEMMA ItemRead ==
  ASSUME NEW items \in Seq(Specs), NEW s \in ScanState, NEW r, NEW t, ~s.bad, SoFar(items, s),
         s.i \in DOMAIN items, r = NextItem(s, items[s.i]), ~r.bad, MovedOn(r, t)
  PROVE  t \in ScanState /\ ~t.bad /\ t.i = s.i + 1 /\ SoFar(items, t)
<1>1. PICK n \in Nat : n = s.i
  BY ScanFields
<1>2. PICK x \in Specs : x = items[s.i]
  BY LenProperties
<1>3. r = NextItem(s, x)
  BY <1>2
<1>4. PICK m \in Nat : m = n + 1
  OBVIOUS
<1>5. r.i = n => MovedTo(r, m, t)
  BY <1>4 DEF MovedOn, MovedTo
<1>6. CASE IsOption(x)
  <2>1. PICK p : p = Previous(s)
    OBVIOUS
  <2>2. ~p.bad /\ r = Option(p, x)
    BY <1>3, <1>6, <2>1 DEF NextItem
  <2>3. n \in 1 .. Len(items) + 1
    BY <1>1, LenProperties
  <2>4. p \in ScanState /\ p.i = n
    BY <1>1, <1>2, <1>6, <2>1, <2>2, <2>3, SoFarCloses
  <2>5. r \in ScanState /\ r.i = p.i
    BY <1>6, <2>2, <2>4, OptionIs
  <2>6. MovedTo(r, m, t)
    BY <1>5, <2>4, <2>5
  <2>7. t \in ScanState /\ t.i = m /\ t.bad = r.bad /\ SameRest(r, t)
    BY <2>5, <2>6, NextPlace
  <2>8. ~Previous(s).bad /\ IsOption(items[s.i]) /\ r = Option(Previous(s), items[s.i])
    BY <1>2, <1>6, <2>1, <2>2
  <2>9. t.i = s.i + 1
    BY <1>1, <1>4, <2>7
  <2>10. SoFar(items, t)
    BY <2>7, <2>8, <2>9, SoFarOption
  <2> QED
    BY <2>7, <2>9, <2>10
<1>7. CASE ~IsOption(x)
  <2>1. /\ r \in ScanState /\ r.i = s.i /\ r.now = s.now /\ r.shape = s.shape
        /\ PlainStep(s, r, x)
        /\ s.now = NoOption => r.out = s.out
    BY <1>3, <1>7, PlainItem
  <2>2. MovedTo(r, m, t)
    BY <1>1, <1>5, <2>1
  <2>3. t \in ScanState /\ t.i = m /\ t.bad = r.bad /\ SameRest(r, t)
    BY <2>1, <2>2, NextPlace
  <2>4. PlainStep(s, t, x)
    BY <2>1, <2>3 DEF PlainStep, TypeStep, ListStep, ClearStep, ValueStep, SameRest
  <2>5. /\ t.i = s.i + 1 /\ t.now = s.now /\ t.shape = s.shape
        /\ s.now = NoOption => t.out = s.out
    BY <1>1, <1>4, <2>1, <2>3 DEF SameRest
  <2>6. SoFar(items, t)
    BY <1>2, <1>7, <2>4, <2>5, SoFarPlain
  <2> QED
    BY <2>3, <2>5, <2>6
<1> QED
  BY <1>6, <1>7

LEMMA FreshIs == Fresh \in ScanState /\ Fresh.i = 1 /\ ~Fresh.bad
<1>1. << >> \in Seq(Specs)
  BY EmptySeq
<1> QED
  BY <1>1, SoFarStarts DEF Fresh

-----------------------------------------------------------------------------
(* The parts of the invariant that hold in every phase.                    *)
CliGround == CliTypeOK /\ DomainKept /\ StatusTrue /\ TargetFound

LEMMA CliStarts == CliInit => CliInv
<1> SUFFICES ASSUME CliInit PROVE CliInv
  OBVIOUS
<1>1. argv \in Seq(Words)
  BY SeqOfIs, CommandLineAssumption DEF CliInit
<1>2. scan \in ScanState /\ ~scan.bad /\ scan.i = 1 /\ auth.version = "none"
  BY FreshIs DEF CliInit, NoAuth
<1>3. specs \in Seq(Specs) /\ Len(specs) = 0
  BY DEF CliInit
<1>4. CliTypeOK
  BY <1>1, <1>2, <1>3 DEF CliInit, CliTypeOK, Verbs
<1>5. DomainKept /\ StatusTrue /\ TargetFound
  BY DEF CliInit, DomainKept, StatusTrue, TargetFound
<1>6. HelpHarmless
  BY <1>1, HelpGiven DEF HelpHarmless
<1>7. ParsedAsWritten /\ ParsedSoFar
  BY DEF CliInit, ParsedAsWritten, ParsedSoFar
<1> QED
  BY <1>4, <1>5, <1>6, <1>7 DEF CliInv

(* The steps before a command is looked up leave target and rows alone.    *)
LEMMA ArgvKept == ASSUME CliGround, Run PROVE CliGround'
<1>1. UNCHANGED <<auth, specs, scan, verb, given, target, rowsOf, spent>>
  BY DEF Run
<1>2. cliPhase = "argv" /\ target = NoId
  BY DEF Run, CliGround, TargetFound
<1>3. \/ cliPhase' = "auth" /\ argv' = << >> /\ exit' = exit
      \/ cliPhase' = "end" /\ exit' \in {0, 1} /\ argv' = argv
  BY DEF Run, Exit
<1>7. argv' \in Seq(Words) /\ exit' \in 0 .. 2 /\ (exit' = 2 <=> cliPhase' # "end")
  <2>1. argv \in Seq(Words) /\ exit = 2
    BY <1>2 DEF CliGround, CliTypeOK
  <2>2. CASE argv' = << >>
    BY <1>3, <2>1, <2>2
  <2>3. CASE argv' = argv
    BY <1>3, <2>1, <2>3
  <2> QED
    BY <1>3, <2>2, <2>3
<1>4. CliTypeOK'
  BY <1>1, <1>2, <1>3, <1>7 DEF CliGround, CliTypeOK
<1>5. DomainKept' /\ StatusTrue'
  BY <1>1, <1>2 DEF CliGround, DomainKept, StatusTrue
<1>6. TargetFound'
  BY <1>1, <1>2, <1>3 DEF CliGround, TargetFound
<1> QED
  BY <1>4, <1>5, <1>6 DEF CliGround

LEMMA VersionOffered ==
  ASSUME NEW domain \in BOOLEAN, NEW offered \in SUBSET {"v2", "v3"}, offered # {}
  PROVE  /\ Version(domain, offered) \in offered
         /\ domain /\ "v3" \in offered => Version(domain, offered) = "v3"
BY DEF Version

LEMMA AuthenticateKept == ASSUME CliGround, AuthenticateUser PROVE CliGround'
<1>1. UNCHANGED <<argv, specs, scan, verb, given, target, rowsOf, spent>>
  BY DEF AuthenticateUser
<1>2. cliPhase = "auth" /\ target = NoId
  BY DEF AuthenticateUser, CliGround, TargetFound
<1>3. CASE cliPhase' = "end" /\ exit' = 1 /\ auth' = auth
  <2>1. CliTypeOK'
    BY <1>1, <1>2, <1>3 DEF CliGround, CliTypeOK
  <2>2. DomainKept' /\ StatusTrue'
    BY <1>1, <1>2, <1>3 DEF CliGround, DomainKept, StatusTrue
  <2>3. TargetFound'
    BY <1>1, <1>2, <1>3 DEF CliGround, TargetFound
  <2> QED
    BY <2>1, <2>2, <2>3 DEF CliGround
<1>4. CASE /\ cliPhase' = "session" /\ exit' = exit
           /\ \E domain \in BOOLEAN, offered \in SUBSET {"v2", "v3"} :
                /\ offered # {}
                /\ auth' = [domain |-> domain, offered |-> offered,
                            version |-> Version(domain, offered)]
  <2>1. PICK domain \in BOOLEAN, offered \in SUBSET {"v2", "v3"} :
          /\ offered # {}
          /\ auth' = [domain |-> domain, offered |-> offered,
                      version |-> Version(domain, offered)]
    BY <1>4
  <2>2. auth'.domain = domain /\ auth'.offered = offered
        /\ auth'.version = Version(domain, offered)
    BY <2>1
  <2>3. auth'.version \in {"v2", "v3"}
    BY <2>1, <2>2, VersionOffered
  <2>4. CliTypeOK'
    BY <1>1, <1>2, <1>4, <2>3 DEF CliGround, CliTypeOK
  <2>5. DomainKept'
    BY <2>1, <2>2, VersionOffered DEF DomainKept
  <2>6. StatusTrue' /\ TargetFound'
    BY <1>1, <1>2, <1>4 DEF CliGround, StatusTrue, TargetFound
  <2> QED
    BY <2>4, <2>5, <2>6 DEF CliGround
<1>5. \/ cliPhase' = "end" /\ exit' = 1 /\ auth' = auth
      \/ /\ cliPhase' = "session" /\ exit' = exit
         /\ \E domain \in BOOLEAN, offered \in SUBSET {"v2", "v3"} :
              /\ offered # {}
              /\ auth' = [domain |-> domain, offered |-> offered,
                          version |-> Version(domain, offered)]
  <2>1. PICK o \in SUBSET (AuthOptions \cup {"keystone"}), offered \in SUBSET {"v2", "v3"} :
          IF Sufficient(o) /\ "auth_url" \in o /\ offered # {}
            THEN /\ cliPhase' = "session"
                 /\ auth' = [domain |-> "domain" \in o, offered |-> offered,
                             version |-> Version("domain" \in o, offered)]
                 /\ UNCHANGED exit
            ELSE Exit(1) /\ UNCHANGED auth
    BY DEF AuthenticateUser
  <2>2. ("domain" \in o) \in BOOLEAN
    OBVIOUS
  <2> QED
    BY <2>1, <2>2 DEF Exit
<1> QED
  BY <1>3, <1>4, <1>5

LEMMA RunCommandKept == ASSUME CliGround, RunCommand PROVE CliGround'
<1>1. UNCHANGED <<argv, exit, scan, verb, given, target, rowsOf, spent>>
  BY DEF RunCommand
<1>2. cliPhase = "session" /\ cliPhase' = "command" /\ target = NoId /\ scan = Fresh
  BY DEF RunCommand, CliGround, TargetFound
<1>3. specs' \in Seq(Specs) /\ auth' = NoAuth
  BY SeqOfIs, CommandLineAssumption DEF RunCommand
<1>4. scan.i \in 1 .. Len(specs') + 1 /\ auth'.version = "none"
  BY <1>2, <1>3, FreshIs DEF NoAuth
<1>5. CliTypeOK'
  BY <1>1, <1>2, <1>3, <1>4 DEF CliGround, CliTypeOK
<1>6. DomainKept' /\ StatusTrue' /\ TargetFound'
  BY <1>1, <1>2, <1>3 DEF CliGround, DomainKept, StatusTrue, TargetFound
<1> QED
  BY <1>5, <1>6 DEF CliGround

LEMMA LoopItemKept == ASSUME CliGround, ParsedSoFar, ParseItem PROVE CliGround' /\ ParsedSoFar'
<1>1. UNCHANGED <<argv, auth, specs, verb, given, target, rowsOf, spent>>
  BY DEF ParseItem
<1>2. cliPhase = "command" /\ target = NoId /\ scan.i <= Len(specs) /\ SoFar(specs, scan)
  BY DEF ParseItem, CliGround, TargetFound, ParsedSoFar
<1>3. /\ specs \in Seq(Specs) /\ scan \in ScanState /\ ~scan.bad
      /\ scan.i \in 1 .. Len(specs) + 1
  BY DEF CliGround, CliTypeOK
<1>4. scan.i \in DOMAIN specs /\ Len(specs) \in Nat /\ scan.i \in Nat
  BY <1>2, <1>3, LenProperties
<1>9. PICK r : r = NextItem(scan, specs[scan.i])
  OBVIOUS
<1>5. PICK t : MovedOn(r, t)
  BY DEF MovedOn
<1>6. \/ cliPhase' = "end" /\ exit' = 1 /\ scan' = scan
      \/ ~r.bad /\ scan' = t /\ cliPhase' = cliPhase /\ exit' = exit
  BY <1>5, <1>9 DEF ParseItem, Exit, MovedOn
<1>7. CASE cliPhase' = "end" /\ exit' = 1 /\ scan' = scan
  <2>1. CliTypeOK'
    BY <1>1, <1>7 DEF CliGround, CliTypeOK
  <2>2. DomainKept' /\ StatusTrue' /\ TargetFound'
    BY <1>1, <1>2, <1>7 DEF CliGround, DomainKept, StatusTrue, TargetFound
  <2>3. ParsedSoFar'
    BY <1>7 DEF ParsedSoFar
  <2> QED
    BY <2>1, <2>2, <2>3 DEF CliGround
<1>8. CASE ~r.bad /\ scan' = t /\ cliPhase' = cliPhase /\ exit' = exit
  <2>1. t \in ScanState /\ ~t.bad /\ t.i = scan.i + 1 /\ SoFar(specs, t)
    <3>1. PICK items \in Seq(Specs) : items = specs
      BY <1>3
    <3>2. PICK s \in ScanState : s = scan
      BY <1>3
    <3>3. /\ ~s.bad /\ SoFar(items, s) /\ s.i \in DOMAIN items
          /\ r = NextItem(s, items[s.i]) /\ ~r.bad /\ MovedOn(r, t)
      BY <1>2, <1>3, <1>4, <1>5, <1>8, <1>9, <3>1, <3>2
    <3>4. t \in ScanState /\ ~t.bad /\ t.i = s.i + 1 /\ SoFar(items, t)
      BY <3>3, ItemRead
    <3> QED
      BY <3>1, <3>2, <3>4
  <2>2. t.i \in 1 .. Len(specs) + 1
    BY <1>2, <1>4, <2>1
  <2>3. CliTypeOK'
    BY <1>1, <1>8, <2>1, <2>2 DEF CliGround, CliTypeOK
  <2>4. DomainKept' /\ StatusTrue' /\ TargetFound'
    BY <1>1, <1>2, <1>8 DEF CliGround, DomainKept, StatusTrue, TargetFound
  <2>5. ParsedSoFar'
    BY <1>1, <1>8, <2>1 DEF ParsedSoFar
  <2> QED
    BY <2>3, <2>4, <2>5 DEF CliGround
<1> QED
  BY <1>6, <1>7, <1>8

LEMMA ParseEndKept == ASSUME CliGround, ParsedSoFar, ParseEnd PROVE CliGround' /\ ParsedAsWritten'
<1>1. UNCHANGED <<argv, auth, specs, verb, given, target, rowsOf, spent>>
  BY DEF ParseEnd
<1>2. cliPhase = "command" /\ target = NoId /\ SoFar(specs, scan)
  BY DEF ParseEnd, CliGround, TargetFound, ParsedSoFar
<1>3. /\ specs \in Seq(Specs) /\ scan \in ScanState /\ ~scan.bad
      /\ scan.i \in 1 .. Len(specs) + 1 /\ ~ (scan.i <= Len(specs))
  <2>1. /\ specs \in Seq(Specs) /\ scan \in ScanState /\ ~scan.bad
        /\ scan.i \in 1 .. Len(specs) + 1
    BY DEF CliGround, CliTypeOK
  <2>2. Len(specs) \in Nat /\ scan.i \in Nat /\ scan.i > Len(specs)
    BY <2>1, LenProperties DEF ParseEnd
  <2> QED
    BY <2>1, <2>2
<1>4. PICK p : p = Previous(scan)
  OBVIOUS
<1>5. \/ cliPhase' = "end" /\ exit' = 1 /\ scan' = scan
      \/ ~p.bad /\ scan' = p /\ cliPhase' = "parsed" /\ exit' = exit
  BY <1>4 DEF ParseEnd, Exit
<1>6. CASE cliPhase' = "end" /\ exit' = 1 /\ scan' = scan
  <2>1. CliTypeOK'
    BY <1>1, <1>6 DEF CliGround, CliTypeOK
  <2>2. DomainKept' /\ StatusTrue' /\ TargetFound'
    BY <1>1, <1>2, <1>6 DEF CliGround, DomainKept, StatusTrue, TargetFound
  <2>3. ParsedAsWritten'
    BY <1>6 DEF ParsedAsWritten
  <2> QED
    BY <2>1, <2>2, <2>3 DEF CliGround
<1>7. CASE ~p.bad /\ scan' = p /\ cliPhase' = "parsed" /\ exit' = exit
  <2>1. p \in ScanState /\ p.i = scan.i /\ AsWritten(specs, p.shape) /\ Handed(p.out, p.shape)
    <3>1. PICK items \in Seq(Specs) : items = specs
      BY <1>3
    <3>2. PICK s \in ScanState : s = scan
      BY <1>3
    <3>3. /\ ~s.bad /\ SoFar(items, s) /\ s.i \in 1 .. Len(items) + 1
          /\ s.i <= Len(items) => IsOption(items[s.i])
          /\ p = Previous(s) /\ ~p.bad
      BY <1>2, <1>3, <1>4, <1>7, <3>1, <3>2
    <3>4. /\ p \in ScanState /\ p.i = s.i /\ AsWritten(items, p.shape)
          /\ Handed(p.out, p.shape)
      BY <3>3, SoFarCloses
    <3> QED
      BY <3>1, <3>2, <3>4
  <2>2. CliTypeOK'
    BY <1>1, <1>2, <1>3, <1>7, <2>1 DEF CliGround, CliTypeOK
  <2>3. DomainKept' /\ StatusTrue' /\ TargetFound'
    BY <1>1, <1>2, <1>7 DEF CliGround, DomainKept, StatusTrue, TargetFound
  <2>4. ParsedAsWritten'
    BY <1>1, <1>7, <2>1 DEF ParsedAsWritten
  <2> QED
    BY <2>2, <2>3, <2>4 DEF CliGround
<1> QED
  BY <1>5, <1>6, <1>7

LEMMA CliBeginKept == ASSUME CliGround, Begin PROVE CliGround'
<1>1. UNCHANGED <<argv, auth, target>> /\ specs' = << >> /\ scan' = Fresh
  BY DEF Begin
<1>2. cliPhase = "parsed" /\ target = NoId
  BY DEF Begin, CliGround, TargetFound
<1>3. /\ verb' \in Verbs /\ given' \in Uuid \cup RowName
      /\ \/ cliPhase' = "end" /\ exit' = 1
         \/ cliPhase' = "byId" /\ exit' = exit
  BY DEF Begin, Exit
<1>4. PICK used \in SUBSET Uuid :
        /\ spent' = used
        /\ rowsOf' \in {r \in [Uuid -> RowName \cup {NoRow}] :
                          \A u \in Uuid \ used : r[u] = NoRow}
  BY DEF Begin
<1>5. /\ spent' \subseteq Uuid /\ rowsOf' \in [Uuid -> RowName \cup {NoRow}]
      /\ \A u \in Uuid : rowsOf'[u] # NoRow => u \in spent'
  BY <1>4
<1>6. specs' \in Seq(Specs) /\ Len(specs') = 0 /\ scan' \in ScanState /\ scan'.i = 1 /\ ~scan'.bad
  BY <1>1, FreshIs
<1>7. CliTypeOK'
  BY <1>1, <1>2, <1>3, <1>5, <1>6 DEF CliGround, CliTypeOK
<1>8. DomainKept' /\ StatusTrue' /\ TargetFound'
  BY <1>1, <1>2, <1>3, <1>5 DEF CliGround, DomainKept, StatusTrue, TargetFound
<1> QED
  BY <1>7, <1>8 DEF CliGround

(* A row that is found is one that is there, so its id was used.           *)
LEMMA FindByIdKept == ASSUME CliGround, FindById PROVE CliGround'
<1>1. UNCHANGED <<argv, exit, auth, specs, scan, verb, given, rowsOf, spent>>
  BY DEF FindById
<1>2. cliPhase = "byId" /\ target = NoId
  BY DEF FindById, CliGround, TargetFound
<1>3. \/ /\ target' = given /\ cliPhase' = "act"
         /\ given \in Uuid /\ given \in spent /\ given # NoId
      \/ cliPhase' = "byName" /\ target' = target
  BY CommandLineAssumption DEF FindById, CliGround, TargetFound
<1>4. CliTypeOK'
  BY <1>1, <1>2, <1>3 DEF CliGround, CliTypeOK
<1>5. DomainKept' /\ StatusTrue' /\ TargetFound'
  BY <1>1, <1>2, <1>3 DEF CliGround, DomainKept, StatusTrue, TargetFound
<1> QED
  BY <1>4, <1>5 DEF CliGround

LEMMA FindByNameKept == ASSUME CliGround, FindByName PROVE CliGround'
<1>1. UNCHANGED <<argv, auth, specs, scan, verb, given, rowsOf, spent>>
  BY DEF FindByName
<1>2. cliPhase = "byName" /\ target = NoId /\ given \in Uuid \cup RowName
  BY DEF FindByName, CliGround, TargetFound
<1>3. \/ target' \in Named(given) /\ cliPhase' = "act" /\ exit' = exit
      \/ cliPhase' = "end" /\ exit' = 1 /\ target' = target
  BY DEF FindByName, Exit
<1>4. ASSUME target' \in Named(given)
      PROVE  /\ target' \in Uuid /\ target' # NoId
             /\ target' \in spent /\ rowsOf[target'] = given
  BY <1>2, <1>4, CommandLineAssumption DEF Named, CliGround, TargetFound
<1>5. CliTypeOK'
  BY <1>1, <1>2, <1>3, <1>4 DEF CliGround, CliTypeOK
<1>6. DomainKept' /\ StatusTrue' /\ TargetFound'
  BY <1>1, <1>2, <1>3, <1>4 DEF CliGround, DomainKept, StatusTrue, TargetFound
<1> QED
  BY <1>5, <1>6 DEF CliGround

(* One row of the server goes, and of the others none changes.             *)
LEMMA RowGoes ==
  ASSUME CliGround, NEW u \in Uuid, rowsOf' = [rowsOf EXCEPT ![u] = NoRow]
  PROVE  /\ rowsOf' \in [Uuid -> RowName \cup {NoRow}] /\ rowsOf'[u] = NoRow
         /\ \A v \in Uuid : rowsOf'[v] \in {rowsOf[v], NoRow}
BY DEF CliGround, CliTypeOK

LEMMA ActKept == ASSUME CliGround, Act PROVE CliGround'
<1>1. UNCHANGED <<argv, auth, specs, scan, verb, given, target, spent>>
  BY DEF Act
<1>2. /\ cliPhase = "act" /\ target \in Uuid /\ given \in Uuid \cup RowName
      /\ target = given \/ rowsOf[target] \in {given, NoRow}
  BY DEF Act, CliGround, TargetFound, CliTypeOK
<1>3. cliPhase' = "end" /\ exit' \in {0, 1}
  BY DEF Act, Exit
<1>4. \/ rowsOf' = rowsOf /\ ~(exit' = 0 /\ verb = "delete")
      \/ rowsOf' = [rowsOf EXCEPT ![target] = NoRow]
  BY DEF Act, Exit
<1>5. /\ rowsOf' \in [Uuid -> RowName \cup {NoRow}]
      /\ \A v \in Uuid : rowsOf'[v] \in {rowsOf[v], NoRow}
      /\ exit' = 0 /\ verb = "delete" => rowsOf'[target] = NoRow
  <2>1. CASE rowsOf' = rowsOf /\ ~(exit' = 0 /\ verb = "delete")
    BY <2>1 DEF CliGround, CliTypeOK
  <2>2. CASE rowsOf' = [rowsOf EXCEPT ![target] = NoRow]
    BY <1>2, <2>2, RowGoes
  <2> QED
    BY <1>4, <2>1, <2>2
<1>6. CliTypeOK'
  BY <1>1, <1>2, <1>3, <1>5 DEF CliGround, CliTypeOK
<1>7. DomainKept' /\ StatusTrue'
  BY <1>1, <1>2, <1>3, <1>5 DEF CliGround, DomainKept, StatusTrue
<1>8. TargetFound'
  BY <1>1, <1>2, <1>3, <1>5 DEF CliGround, TargetFound
<1> QED
  BY <1>6, <1>7, <1>8 DEF CliGround

(* Others change rows only while the command is not at its end, and the    *)
(* row it found never gets another name.                                   *)
LEMMA RowChangesKept ==
  ASSUME CliGround, cliPhase \in {"byId", "byName", "act"},
         UNCHANGED <<cliPhase, argv, exit, auth, specs, scan, verb, given, target>>,
         spent \subseteq spent', spent' \subseteq Uuid,
         rowsOf' \in [Uuid -> RowName \cup {NoRow}],
         \A u \in spent : rowsOf'[u] \in {rowsOf[u], NoRow},
         \A u \in Uuid : rowsOf'[u] # NoRow => u \in spent'
  PROVE  CliGround'
<1>1. CliTypeOK'
  BY DEF CliGround, CliTypeOK
<1>2. DomainKept' /\ StatusTrue'
  BY DEF CliGround, CliTypeOK, DomainKept, StatusTrue
<1>3. TargetFound'
  BY DEF CliGround, TargetFound
<1> QED
  BY <1>1, <1>2, <1>3 DEF CliGround

LEMMA RowsElsewhereKept == ASSUME CliGround, OthersCreate \/ OthersDelete PROVE CliGround'
<1>1. /\ cliPhase \in {"byId", "byName", "act"}
      /\ UNCHANGED <<cliPhase, argv, exit, auth, specs, scan, verb, given, target>>
  BY DEF OthersCreate, OthersDelete
<1>2. /\ rowsOf \in [Uuid -> RowName \cup {NoRow}] /\ spent \subseteq Uuid
      /\ \A u \in Uuid : rowsOf[u] # NoRow => u \in spent
  BY DEF CliGround, CliTypeOK, TargetFound
<1>3. CASE OthersCreate
  <2>1. PICK u \in Uuid \ spent, name \in RowName :
          rowsOf' = [rowsOf EXCEPT ![u] = name] /\ spent' = spent \cup {u}
    BY <1>3 DEF OthersCreate
  <2>2. /\ rowsOf' \in [Uuid -> RowName \cup {NoRow}]
        /\ \A v \in Uuid \ {u} : rowsOf'[v] = rowsOf[v]
    BY <1>2, <2>1
  <2>3. /\ \A v \in spent : rowsOf'[v] \in {rowsOf[v], NoRow}
        /\ \A v \in Uuid : rowsOf'[v] # NoRow => v \in spent'
    BY <1>2, <2>1, <2>2
  <2> QED
    BY <1>1, <1>2, <2>1, <2>2, <2>3, RowChangesKept
<1>4. CASE OthersDelete
  <2>1. PICK u \in Uuid : rowsOf' = [rowsOf EXCEPT ![u] = NoRow] /\ spent' = spent
    BY <1>4 DEF OthersDelete
  <2>2. /\ rowsOf' \in [Uuid -> RowName \cup {NoRow}]
        /\ \A v \in Uuid : rowsOf'[v] \in {rowsOf[v], NoRow}
    BY <2>1, RowGoes
  <2>3. /\ \A v \in spent : rowsOf'[v] \in {rowsOf[v], NoRow}
        /\ \A v \in Uuid : rowsOf'[v] # NoRow => v \in spent'
    BY <1>2, <2>1, <2>2
  <2> QED
    BY <1>1, <1>2, <2>1, <2>2, <2>3, RowChangesKept
<1> QED
  BY <1>3, <1>4

(* No step of a command, or of others at its server, breaks its invariant. *)
LEMMA PhaseLeft ==
  ASSUME \/ Run \/ AuthenticateUser \/ Begin \/ FindById \/ FindByName \/ Act
         \/ OthersCreate \/ OthersDelete
  PROVE  cliPhase' \notin {"argv", "command", "parsed"}
BY DEF Run, AuthenticateUser, Begin, FindById, FindByName, Act, OthersCreate, OthersDelete, Exit

LEMMA CliKept == CliInv /\ [CliNext]_cliVars => CliInv'
<1> SUFFICES ASSUME CliInv, [CliNext]_cliVars PROVE CliInv'
  OBVIOUS
<1>1. CASE UNCHANGED cliVars
  BY <1>1 DEF cliVars, CliInv, CliTypeOK, DomainKept, StatusTrue, TargetFound, HelpHarmless,
     ParsedAsWritten, ParsedSoFar
<1>2. CliGround /\ ParsedSoFar
  BY DEF CliInv, CliGround
<1>3. CASE \/ Run \/ AuthenticateUser \/ Begin \/ FindById \/ FindByName \/ Act
           \/ OthersCreate \/ OthersDelete
  <2>1. CliGround'
    BY <1>2, <1>3, ArgvKept, AuthenticateKept, CliBeginKept, FindByIdKept, FindByNameKept, ActKept,
       RowsElsewhereKept
  <2>2. HelpHarmless' /\ ParsedAsWritten' /\ ParsedSoFar'
    BY <1>3, PhaseLeft DEF HelpHarmless, ParsedAsWritten, ParsedSoFar
  <2> QED
    BY <2>1, <2>2 DEF CliInv, CliGround
<1>4. CASE RunCommand
  <2>1. CliGround'
    BY <1>2, <1>4, RunCommandKept
  <2>2. cliPhase' = "command" /\ specs' \in Seq(Specs) /\ scan' = Fresh
    <3>1. cliPhase' = "command" /\ scan' = scan /\ cliPhase = "session"
      BY <1>4 DEF RunCommand
    <3> QED
      BY <1>2, <2>1, <3>1 DEF CliGround, CliTypeOK, TargetFound
  <2>3. SoFar(specs', scan')
    BY <2>2, SoFarStarts
  <2>4. HelpHarmless' /\ ParsedAsWritten' /\ ParsedSoFar'
    BY <2>2, <2>3 DEF HelpHarmless, ParsedAsWritten, ParsedSoFar
  <2> QED
    BY <2>1, <2>4 DEF CliInv, CliGround
<1>5. CASE ParseItem
  <2>1. CliGround' /\ ParsedSoFar'
    BY <1>2, <1>5, LoopItemKept
  <2>2. cliPhase' \in {"command", "end"}
    BY <1>5 DEF ParseItem, Exit
  <2>3. HelpHarmless' /\ ParsedAsWritten'
    BY <2>2 DEF HelpHarmless, ParsedAsWritten
  <2> QED
    BY <2>1, <2>3 DEF CliInv, CliGround
<1>6. CASE ParseEnd
  <2>1. CliGround' /\ ParsedAsWritten'
    BY <1>2, <1>6, ParseEndKept
  <2>2. cliPhase' \in {"parsed", "end"}
    BY <1>6 DEF ParseEnd, Exit
  <2>3. HelpHarmless' /\ ParsedSoFar'
    BY <2>2 DEF HelpHarmless, ParsedSoFar
  <2> QED
    BY <2>1, <2>3 DEF CliInv, CliGround
<1> QED
  BY <1>1, <1>3, <1>4, <1>5, <1>6 DEF CliNext

(* A command goes on only with the row it was given.                       *)
LEMMA OneRowStep ==
  ASSUME [CliNext]_cliVars, target' # target
  PROVE  target' = given \/ Named(given) = {target'}
  <1>1. FindById \/ FindByName
    BY DEF CliNext, cliVars, Run, AuthenticateUser, RunCommand, ParseItem, ParseEnd, Begin,
           Act, OthersCreate, OthersDelete
  <1>2. CASE FindById
    BY <1>2 DEF FindById
  <1>3. CASE FindByName
    <2>1. Cardinality(Named(given)) = 1 /\ target' \in Named(given)
      BY <1>3 DEF FindByName
    <2>2. IsFiniteSet(Named(given))
      BY CommandLineAssumption, FS_Subset DEF Named
    <2>3. PICK u : Named(given) = {u}
      BY <2>1, <2>2, FS_Singleton
    <2>. QED
      BY <2>1, <2>3
  <1>. QED
    BY <1>1, <1>2, <1>3

(***************************************************************************)
(* CommandLine: the values a command sends and prints                      *)
(***************************************************************************)


LEMMA TypedFields ==
  ASSUME NEW k, NEW t \in TypedAs(k)
  PROVE  /\ t.kind = k
         /\ t.list \in IF k \in ListOption THEN SeqOf(Values(k), 2) ELSE {<< >>}
         /\ t.extra \in Extra(k)
         /\ t.fields \in IF k = "show" THEN SeqOf(Field, 1) ELSE {<< >>}
         /\ t.columns \in IF k = "list" THEN SeqOf(Field \cup {NoColumn}, 2) ELSE {<< >>}
         /\ t.vdu \in IF k = "driver" THEN Vdu \cup {AnyVdu} ELSE {AnyVdu}
         /\ t.methods \in IF k = "update" THEN SUBSET NetId ELSE {{}}
BY DEF TypedAs

LEMMA ShortList ==
  ASSUME NEW S, NEW n \in Nat, NEW s \in SeqOf(S, n)
  PROVE  s \in Seq(S) /\ Len(s) <= n /\ Len(s) \in Nat
<1>1. PICK m \in 0 .. n : s \in [1 .. m -> S]
  BY DEF SeqOf
<1> QED
  BY <1>1

(* What is typed is a list of values, and behind it at most one more.      *)
LEMMA ListTyped ==
  ASSUME NEW k, NEW t \in TypedAs(k)
  PROVE  t.list \in Seq(Values(k)) /\ Len(t.list) <= 2 /\ Len(t.list) \in Nat
<1>1. CASE k \in ListOption
  <2>1. t.list \in SeqOf(Values(k), 2)
    BY <1>1, TypedFields
  <2> QED
    BY <2>1, ShortList
<1>2. CASE k \notin ListOption
  <2>1. t.list = << >>
    BY <1>2, TypedFields
  <2> QED
    BY <2>1
<1> QED
  BY <1>1, <1>2

LEMMA ExtraTyped ==
  ASSUME NEW k, NEW e \in Extra(k)
  PROVE  /\ e.values \in Seq(Values(k)) /\ Len(e.values) <= 1
         /\ e.many \in BOOLEAN /\ (e = NoExtra => e.values = << >> /\ e.many = FALSE)
         /\ e # NoExtra => /\ k \in ListOption /\ Len(e.values) = 1
                           /\ 1 \in DOMAIN e.values /\ e.values[1] \in Values(k)
<1>1. CASE e = NoExtra
  <2>1. e.values = << >> /\ e.many = FALSE
    BY <1>1 DEF NoExtra
  <2>2. << >> \in Seq(Values(k)) /\ Len(<< >>) = 0
    OBVIOUS
  <2>3. e.many \in BOOLEAN
    BY <2>1
  <2> QED
    BY <1>1, <2>1, <2>2, <2>3
<1>2. CASE e # NoExtra
  <2>1. /\ e.many \in IF k \in ListOption THEN BOOLEAN ELSE {}
        /\ e.values \in SeqOf(Values(k), 1) \ {<< >>}
    BY <1>2 DEF Extra
  <2>2. k \in ListOption /\ e.many \in BOOLEAN
    BY <2>1
  <2>3. e.values \in Seq(Values(k)) /\ Len(e.values) <= 1 /\ Len(e.values) \in Nat /\ e.values # << >>
    BY <2>1, ShortList
  <2>4. Len(e.values) = 1
    <3>1. PICK n \in Nat : n = Len(e.values) /\ n <= 1
      BY <2>3
    <3>2. n # 0
      BY <2>3, <3>1, EmptySeq
    <3>3. ASSUME NEW m \in Nat, m <= 1, m # 0 PROVE m = 1
      BY <3>3
    <3> QED
      BY <3>1, <3>2, <3>3
  <2>5. 1 \in DOMAIN e.values /\ e.values[1] \in Values(k)
    BY <2>3, <2>4
  <2> QED
    BY <1>2, <2>2, <2>3, <2>4, <2>5
<1> QED
  BY <1>1, <1>2

LEMMA NoExtraIs == /\ NoExtra.values = << >> /\ NoExtra.many = FALSE
                   /\ \A k : NoExtra \in Extra(k)
BY DEF NoExtra, Extra

LEMMA ValuesStarts == ValuesInit => ValuesInv
<1> SUFFICES ASSUME ValuesInit PROVE ValuesInv
  OBVIOUS
<1>1. PICK k \in Kinds : typed \in TypedAs(k)
  BY DEF ValuesInit
<1>2. typed.kind = k /\ typed.extra \in Extra(k)
  BY <1>1, TypedFields
<1>3. typed.list \in Seq(Values(k)) /\ Len(typed.list) <= 3
  BY <1>1, ListTyped
<1>4. rowsBack = << >> /\ DOMAIN printed.columns = {}
  BY DEF ValuesInit, NoTable
<1>5. ValuesTypeOK
  BY <1>1, <1>2, <1>3, <1>4 DEF ValuesInit, ValuesTypeOK
<1>6. SentAsComposed
  BY DEF ValuesInit, SentAsComposed, WasSent
<1>7. FieldsReach /\ NetworksReach /\ VdusReach /\ OnlyMeantSent /\ PrintedTrue
  BY DEF ValuesInit, FieldsReach, NetworksReach, VdusReach, OnlyMeantSent, PrintedTrue, WasSent
<1> QED
  BY <1>5, <1>6, <1>7 DEF ValuesInv

-----------------------------------------------------------------------------
(* The options behind the "--" are taken in once.                          *)
LEMMA MergeArgsKept == ASSUME ValuesInv, MergeArgs PROVE ValuesInv'
<1>1. /\ UNCHANGED <<typed, request, rowsBack, printed>>
      /\ cvPc = "merge" /\ cvPc' = "compose"
      /\ known' = Merged(known, extra).list /\ extra' = Merged(known, extra).extra
  BY DEF MergeArgs
<1>2. /\ typed.kind \in Kinds /\ typed \in TypedAs(typed.kind)
      /\ known = typed.list /\ extra = typed.extra
  BY <1>1 DEF ValuesInv, ValuesTypeOK, SentAsComposed
<1>3. PICK k : k = typed.kind
  OBVIOUS
<1>4. /\ typed.list \in Seq(Values(k)) /\ Len(typed.list) <= 2 /\ Len(typed.list) \in Nat
      /\ typed.extra \in Extra(k) /\ typed.extra.values \in Seq(Values(k))
      /\ Len(typed.extra.values) <= 1 /\ typed.extra.many \in BOOLEAN
  BY <1>2, <1>3, ListTyped, TypedFields, ExtraTyped
<1>5. /\ known' = AllTyped /\ extra' = (IF typed.extra.many THEN NoExtra ELSE typed.extra)
  <2>1. CASE typed.extra.many
    BY <1>1, <1>2, <2>1 DEF Merged, AllTyped
  <2>2. CASE ~typed.extra.many
    <3>1. known' = typed.list /\ extra' = typed.extra
      BY <1>1, <1>2, <2>2 DEF Merged
    <3>2. typed.list \o << >> = typed.list
      BY <1>4
    <3> QED
      BY <2>2, <3>1, <3>2 DEF AllTyped
  <2> QED
    BY <1>4, <2>1, <2>2
<1>6. AllTyped \in Seq(Values(k)) /\ Len(AllTyped) <= 3
  <2>1. PICK v \in Seq(Values(k)) : v = (IF typed.extra.many THEN typed.extra.values ELSE << >>)
    <3>1. << >> \in Seq(Values(k))
      OBVIOUS
    <3> QED
      BY <1>4, <3>1
  <2>2. Len(v) <= 1 /\ Len(v) \in Nat
    BY <1>4, <2>1
  <2>3. typed.list \o v \in Seq(Values(k)) /\ Len(typed.list \o v) = Len(typed.list) + Len(v)
    BY <1>4, <2>1, <2>2
  <2>4. AllTyped = typed.list \o v
    BY <2>1 DEF AllTyped
  <2> QED
    BY <1>4, <2>2, <2>3, <2>4
<1>7. extra' \in Extra(k)
  BY <1>4, <1>5, NoExtraIs
<1>8. ValuesTypeOK'
  BY <1>1, <1>3, <1>5, <1>6, <1>7 DEF ValuesInv, ValuesTypeOK
<1>9. SentAsComposed'
  BY <1>1, <1>5 DEF SentAsComposed, AllTyped, WasSent
<1>10. FieldsReach' /\ NetworksReach' /\ VdusReach' /\ OnlyMeantSent' /\ PrintedTrue'
  BY <1>1 DEF FieldsReach, NetworksReach, VdusReach, OnlyMeantSent, PrintedTrue, WasSent
<1> QED
  BY <1>8, <1>9, <1>10 DEF ValuesInv

(* Only what cannot be used is refused.                                    *)
LEMMA RefuseKept == ASSUME ValuesInv, Refuse PROVE ValuesInv'
<1>1. /\ UNCHANGED <<typed, known, extra, request, rowsBack, printed>>
      /\ cvPc = "compose" /\ cvPc' = "failed" /\ Unusable
  BY DEF Refuse
<1>2. known = AllTyped /\ extra = (IF typed.extra.many THEN NoExtra ELSE typed.extra)
  BY <1>1 DEF ValuesInv, SentAsComposed
<1>3. ValuesTypeOK'
  BY <1>1 DEF ValuesInv, ValuesTypeOK
<1>4. SentAsComposed'
  BY <1>1, <1>2 DEF SentAsComposed, AllTyped, WasSent, Unusable
<1>5. NetworksReach'
  BY <1>1, <1>2 DEF NetworksReach, AllTyped, Unusable
<1>6. FieldsReach' /\ VdusReach' /\ OnlyMeantSent' /\ PrintedTrue'
  BY <1>1 DEF FieldsReach, VdusReach, OnlyMeantSent, PrintedTrue, WasSent
<1> QED
  BY <1>3, <1>4, <1>5, <1>6 DEF ValuesInv

(* What is sent: the fields of both lists, or the lone one.                *)
LEMMA JoinedMembers ==
  ASSUME NEW S, NEW s \in Seq(S), NEW u \in Seq(S)
  PROVE  /\ \A x : x \in ToSet(s \o u) <=> x \in ToSet(s) \/ x \in ToSet(u)
         /\ s \o u \in Seq(S)
<1>1. /\ s \o u \in Seq(S) /\ Len(s \o u) = Len(s) + Len(u) /\ Len(s) \in Nat /\ Len(u) \in Nat
      /\ \A i \in 1 .. Len(s) + Len(u) :
           (s \o u)[i] = IF i <= Len(s) THEN s[i] ELSE u[i - Len(s)]
  BY ConcatProperties, LenProperties
<1>2. DOMAIN (s \o u) = 1 .. Len(s) + Len(u) /\ DOMAIN s = 1 .. Len(s) /\ DOMAIN u = 1 .. Len(u)
  BY <1>1, LenProperties
<1>3. PICK w : w = s \o u
  OBVIOUS
<1>4. ASSUME NEW x, x \in ToSet(w) PROVE x \in ToSet(s) \/ x \in ToSet(u)
  <2>1. PICK i \in 1 .. Len(s) + Len(u) : x = w[i]
    BY <1>2, <1>3, <1>4 DEF ToSet
  <2>2. CASE i <= Len(s)
    <3>1. x = s[i] /\ i \in DOMAIN s
      BY <1>1, <1>2, <1>3, <2>1, <2>2
    <3> QED
      BY <3>1 DEF ToSet
  <2>3. CASE ~ (i <= Len(s))
    <3>1. x = u[i - Len(s)] /\ i - Len(s) \in DOMAIN u
      BY <1>1, <1>2, <1>3, <2>1, <2>3
    <3> QED
      BY <3>1 DEF ToSet
  <2> QED
    BY <2>2, <2>3
<1>5. ASSUME NEW x, x \in ToSet(s) PROVE x \in ToSet(w)
  <2>1. PICK i \in 1 .. Len(s) : x = s[i]
    BY <1>2, <1>5 DEF ToSet
  <2>2. i \in DOMAIN w /\ w[i] = x
    BY <1>1, <1>2, <1>3, <2>1
  <2> QED
    BY <2>2 DEF ToSet
<1>6. ASSUME NEW x, x \in ToSet(u) PROVE x \in ToSet(w)
  <2>1. PICK i \in 1 .. Len(u) : x = u[i]
    BY <1>2, <1>6 DEF ToSet
  <2>2. i + Len(s) \in 1 .. Len(s) + Len(u) /\ ~ (i + Len(s) <= Len(s)) /\ i + Len(s) - Len(s) = i
    BY <1>1, <2>1
  <2>3. i + Len(s) \in DOMAIN w /\ w[i + Len(s)] = x
    BY <1>1, <1>2, <1>3, <2>1, <2>2
  <2> QED
    BY <2>3 DEF ToSet
<1> QED
  BY <1>1, <1>3, <1>4, <1>5, <1>6

(* What a command typed, by its parts.                                     *)
TypedParts(k) ==
  /\ typed.list \in Seq(Values(k)) /\ typed.extra.values \in Seq(Values(k))
  /\ typed.extra.many \in BOOLEAN
  /\ typed.extra # NoExtra => Len(typed.extra.values) = 1
  /\ typed.extra = NoExtra => typed.extra.values = << >> /\ typed.extra.many = FALSE
  /\ AllTyped = IF typed.extra.many THEN typed.list \o typed.extra.values ELSE typed.list

LEMMA PartsTyped == ASSUME ValuesInv PROVE TypedParts(typed.kind)
<1>1. typed \in TypedAs(typed.kind)
  BY DEF ValuesInv, ValuesTypeOK
<1>2. PICK k : k = typed.kind
  OBVIOUS
<1>3. typed.extra \in Extra(k)
  BY <1>1, <1>2, TypedFields
<1>4. typed.list \in Seq(Values(k))
  BY <1>1, <1>2, ListTyped
<1>5. /\ typed.extra.values \in Seq(Values(k)) /\ typed.extra.many \in BOOLEAN
      /\ typed.extra = NoExtra => typed.extra.values = << >> /\ typed.extra.many = FALSE
      /\ typed.extra # NoExtra => Len(typed.extra.values) = 1
  BY <1>3, ExtraTyped
<1>6. typed.list \o << >> = typed.list
  BY <1>4
<1>7. AllTyped = IF typed.extra.many THEN typed.list \o typed.extra.values ELSE typed.list
  BY <1>6 DEF AllTyped
<1> QED
  BY <1>2, <1>4, <1>5, <1>7 DEF TypedParts

LEMMA FieldsSent ==
  ASSUME ValuesInv, typed.kind = "list", cvPc = "compose"
  PROVE  LET alone == typed.extra # NoExtra /\ ~typed.extra.many
         IN ToSet(SentFields) =
              (IF alone THEN {} ELSE ToSet(typed.list)) \cup ToSet(typed.extra.values)
<1>1. TypedParts("list")
  BY PartsTyped
<1>2. known = AllTyped /\ extra = (IF typed.extra.many THEN NoExtra ELSE typed.extra)
  BY DEF ValuesInv, SentAsComposed
<1>3. SentFields = IF extra = NoExtra THEN known ELSE extra.values
  BY DEF SentFields
<1>4. CASE typed.extra # NoExtra /\ ~typed.extra.many
  BY <1>2, <1>3, <1>4
<1>5. CASE typed.extra # NoExtra /\ typed.extra.many
  <2>1. SentFields = typed.list \o typed.extra.values
    BY <1>1, <1>2, <1>3, <1>5 DEF TypedParts
  <2>2. typed.list \in Seq(Values("list")) /\ typed.extra.values \in Seq(Values("list"))
    BY <1>1 DEF TypedParts
  <2>3. \A x : x \in ToSet(SentFields) <=> x \in ToSet(typed.list) \/ x \in ToSet(typed.extra.values)
    BY <2>1, <2>2, JoinedMembers
  <2> QED
    BY <1>5, <2>3
<1>6. CASE typed.extra = NoExtra
  <2>1. typed.extra.values = << >> /\ typed.extra.many = FALSE
    BY <1>1, <1>6 DEF TypedParts
  <2>2. SentFields = typed.list
    BY <1>1, <1>2, <1>3, <1>6, <2>1 DEF TypedParts
  <2>3. ToSet(<< >>) = {}
    BY DEF ToSet
  <2> QED
    BY <1>6, <2>1, <2>2, <2>3
<1> QED
  BY <1>4, <1>5, <1>6

(* Of the pairs of a network the last one counts.                          *)
LEMMA LastOfNet ==
  ASSUME NEW S, NEW typedPairs \in Seq(S), NEW i \in DOMAIN typedPairs,
         \A j \in i + 1 .. Len(typedPairs) : typedPairs[j].net # typedPairs[i].net
  PROVE  /\ typedPairs[i].net \in DOMAIN PairsToMap(typedPairs)
         /\ PairsToMap(typedPairs)[typedPairs[i].net] = typedPairs[i].id
<1>1. DOMAIN typedPairs = 1 .. Len(typedPairs) /\ Len(typedPairs) \in Nat
  BY LenProperties
<1>2. ASSUME NEW k \in DOMAIN typedPairs, typedPairs[k].net = typedPairs[i].net,
             \A j \in DOMAIN typedPairs : typedPairs[j].net = typedPairs[i].net => j <= k
      PROVE  k = i
  <2>1. i <= k
    BY <1>2
  <2>2. k \notin i + 1 .. Len(typedPairs)
    BY <1>2
  <2> QED
    BY <1>1, <2>1, <2>2
<1>3. \A j \in DOMAIN typedPairs : typedPairs[j].net = typedPairs[i].net => j <= i
  <2>1. ASSUME NEW j \in DOMAIN typedPairs, typedPairs[j].net = typedPairs[i].net PROVE j <= i
    <3>1. j \notin i + 1 .. Len(typedPairs)
      BY <2>1
    <3> QED
      BY <1>1, <3>1
  <2> QED
    BY <2>1
<1>4. PICK k : k = LastPair(typedPairs, typedPairs[i].net)
  OBVIOUS
<1>5. /\ k \in DOMAIN typedPairs /\ typedPairs[k].net = typedPairs[i].net
      /\ \A j \in DOMAIN typedPairs : typedPairs[j].net = typedPairs[i].net => j <= k
  BY <1>3, <1>4 DEF LastPair
<1>6. k = i
  BY <1>2, <1>5
<1>7. PICK n : n = typedPairs[i].net
  OBVIOUS
<1>8. n \in {typedPairs[j].net : j \in DOMAIN typedPairs}
  BY <1>7
<1>9. n \in DOMAIN PairsToMap(typedPairs) /\ PairsToMap(typedPairs)[n] = typedPairs[LastPair(typedPairs, n)].id
  BY <1>8 DEF PairsToMap
<1> QED
  BY <1>4, <1>6, <1>7, <1>9

LEMMA NetworksSent ==
  ASSUME ValuesInv, typed.kind = "create", cvPc = "compose", ~Unusable,
         BadPair \notin ToSet(AllTyped), NEW i \in DOMAIN AllTyped,
         \A j \in i + 1 .. Len(AllTyped) : AllTyped[j].net # AllTyped[i].net
  PROVE  /\ AllTyped[i].net \in DOMAIN RequestMade.attributes
         /\ RequestMade.attributes[AllTyped[i].net] = AllTyped[i].id
<1>1. known = AllTyped
  BY DEF ValuesInv, SentAsComposed
<1>2. known \in Seq(Values("create"))
  BY DEF ValuesInv, ValuesTypeOK
<1>3. RequestMade.attributes = PairsToMap(known)
  BY DEF RequestMade
<1>4. PICK typedPairs \in Seq(Values("create")) : typedPairs = AllTyped
  BY <1>1, <1>2
<1>5. /\ typedPairs[i].net \in DOMAIN PairsToMap(typedPairs)
      /\ PairsToMap(typedPairs)[typedPairs[i].net] = typedPairs[i].id
  BY <1>4, LastOfNet
<1> QED
  BY <1>1, <1>3, <1>4, <1>5

LEMMA VdusSent ==
  ASSUME ValuesInv, typed.kind = "diagnose", cvPc = "compose"
  PROVE  /\ SentVdus \in {{}} \cup ToSet(typed.list) \cup ToSet(typed.extra.values)
         /\ typed.extra = NoExtra /\ typed.list # << >> => SentVdus = Last(typed.list)
<1>1. TypedParts("diagnose")
  BY PartsTyped
<1>2. known = AllTyped /\ extra = (IF typed.extra.many THEN NoExtra ELSE typed.extra)
  BY DEF ValuesInv, SentAsComposed
<1>3. SentVdus = IF extra # NoExtra THEN extra.values[1]
                 ELSE IF known = << >> THEN {} ELSE known[Len(known)]
  BY DEF SentVdus
<1>4. /\ typed.list \in Seq(Values("diagnose")) /\ typed.extra.values \in Seq(Values("diagnose"))
      /\ known \in Seq(Values("diagnose"))
  BY <1>1 DEF TypedParts, ValuesInv, ValuesTypeOK
<1>5. CASE extra # NoExtra
  <2>1. extra = typed.extra /\ typed.extra # NoExtra
    BY <1>2, <1>5
  <2>2. 1 \in DOMAIN typed.extra.values
    BY <1>1, <1>4, <2>1, LenProperties DEF TypedParts
  <2>3. SentVdus \in ToSet(typed.extra.values)
    BY <1>3, <2>1, <2>2 DEF ToSet
  <2> QED
    BY <2>1, <2>3
<1>6. CASE extra = NoExtra /\ known = << >>
  <2>1. SentVdus = {}
    BY <1>3, <1>6
  <2>2. typed.extra = NoExtra => typed.list = << >>
    BY <1>1, <1>2, <1>6 DEF TypedParts
  <2> QED
    BY <2>1, <2>2
<1>7. CASE extra = NoExtra /\ known # << >>
  <2>1. SentVdus = known[Len(known)]
    BY <1>3, <1>7
  <2>2. Len(known) \in DOMAIN known
    BY <1>4, <1>7, LenProperties, EmptySeq
  <2>3. SentVdus \in ToSet(known)
    BY <2>1, <2>2 DEF ToSet
  <2>4. \A x : x \in ToSet(known) => x \in ToSet(typed.list) \/ x \in ToSet(typed.extra.values)
    <3>1. CASE typed.extra.many
      <4>1. known = typed.list \o typed.extra.values
        BY <1>1, <1>2, <3>1 DEF TypedParts
      <4> QED
        BY <1>4, <4>1, JoinedMembers
    <3>2. CASE ~typed.extra.many
      BY <1>1, <1>2, <3>2 DEF TypedParts
    <3> QED
      BY <3>1, <3>2
  <2>5. typed.extra = NoExtra => SentVdus = Last(typed.list)
    BY <1>1, <1>2, <2>1 DEF TypedParts, Last
  <2> QED
    BY <2>3, <2>4, <2>5
<1> QED
  BY <1>5, <1>6, <1>7

LEMMA SendValuesKept == ASSUME ValuesInv, SendValues PROVE ValuesInv'
<1>1. /\ UNCHANGED <<typed, known, extra, rowsBack, printed>>
      /\ cvPc = "compose" /\ cvPc' = "sent" /\ ~Unusable /\ request' = RequestMade
  BY DEF SendValues
<1>2. known = AllTyped /\ extra = (IF typed.extra.many THEN NoExtra ELSE typed.extra)
  BY <1>1 DEF ValuesInv, SentAsComposed
<1>3. ValuesTypeOK'
  BY <1>1 DEF ValuesInv, ValuesTypeOK
<1>4. SentAsComposed'
  <2>1. PICK whole : whole = RequestMade
    OBVIOUS
  <2>2. RequestMade' = RequestMade /\ Unusable' = Unusable /\ AllTyped' = AllTyped
    BY <1>1 DEF RequestMade, Unusable, AllTyped, SentFields, SentVdus, SentMethod
  <2> QED
    BY <1>1, <1>2, <2>2 DEF SentAsComposed, WasSent
<1>5. ASSUME typed.kind = "list" PROVE FieldsReach'
  <2>1. request'.fields = SentFields /\ request'.verbose = (typed.details /\ typed.fields = << >>)
    BY <1>1 DEF RequestMade
  <2>2. typed.fields = << >>
    <3>1. typed \in TypedAs(typed.kind)
      BY DEF ValuesInv, ValuesTypeOK
    <3> QED
      BY <1>5, <3>1, TypedFields
  <2>3. LET alone == typed.extra # NoExtra /\ ~typed.extra.many
        IN ToSet(SentFields) =
             (IF alone THEN {} ELSE ToSet(typed.list)) \cup ToSet(typed.extra.values)
    BY <1>1, <1>5, FieldsSent
  <2> QED
    BY <1>1, <2>1, <2>2, <2>3 DEF FieldsReach
<1>6. ASSUME typed.kind = "create" PROVE NetworksReach'
  <2>1. BadPair \notin ToSet(AllTyped)
    BY <1>1, <1>2, <1>6 DEF Unusable
  <2>2. \A i \in DOMAIN AllTyped :
          (\A j \in i + 1 .. Len(AllTyped) : AllTyped[j].net # AllTyped[i].net) =>
            /\ AllTyped[i].net \in DOMAIN RequestMade.attributes
            /\ RequestMade.attributes[AllTyped[i].net] = AllTyped[i].id
    BY <1>1, <1>6, <2>1, NetworksSent
  <2>3. request'.attributes = RequestMade.attributes
    BY <1>1
  <2> QED
    BY <1>1, <2>1, <2>2, <2>3 DEF NetworksReach, AllTyped
<1>7. ASSUME typed.kind = "diagnose" PROVE VdusReach'
  <2>1. request'.vdus = SentVdus
    BY <1>1 DEF RequestMade
  <2>2. /\ SentVdus \in {{}} \cup ToSet(typed.list) \cup ToSet(typed.extra.values)
        /\ typed.extra = NoExtra /\ typed.list # << >> => SentVdus = Last(typed.list)
    BY <1>1, <1>7, VdusSent
  <2> QED
    BY <1>1, <2>1, <2>2 DEF VdusReach
<1>8. OnlyMeantSent'
  <2>1. typed.kind = "activate" => request'.enable \in {"true", "FALSE"}
    BY <1>1 DEF RequestMade, Unusable
  <2>2. typed.kind = "update" => request'.method \in typed.methods
    BY <1>1 DEF RequestMade, SentMethod, Unusable
  <2> QED
    BY <1>1, <2>1, <2>2 DEF OnlyMeantSent
<1>9. PrintedTrue'
  BY <1>1 DEF PrintedTrue
<1>10. FieldsReach' /\ NetworksReach' /\ VdusReach'
  BY <1>1, <1>5, <1>6, <1>7 DEF FieldsReach, NetworksReach, VdusReach
<1> QED
  BY <1>3, <1>4, <1>8, <1>9, <1>10 DEF ValuesInv

LEMMA ServerAnswersKept == ASSUME ValuesInv, ServerAnswers PROVE ValuesInv'
<1>1. /\ UNCHANGED <<typed, known, extra, request, printed>>
      /\ cvPc = "sent" /\ cvPc' = "answered"
  BY DEF ServerAnswers
<1>2. rowsBack' \in Seq(IF typed.kind = "driver" THEN Vdu ELSE SUBSET Field)
  <2>1. CASE typed.kind = "driver"
    <3>1. rowsBack' \in SeqOf(Vdu, MaxRows)
      BY <2>1 DEF ServerAnswers
    <3> QED
      BY <2>1, <3>1, ShortList, CommandValuesAssumption
  <2>2. CASE typed.kind # "driver"
    <3>1. PICK keys \in {Field, IF request.fields = << >> THEN Field
                                ELSE Field \cap ToSet(request.fields)} :
            \E n \in IF typed.kind = "list" THEN 0 .. MaxRows ELSE 0 .. 1 :
              rowsBack' = [i \in 1 .. n |-> keys]
      BY <2>2 DEF ServerAnswers
    <3>5. keys \in SUBSET Field
      BY <3>1
    <3>6. PICK n \in IF typed.kind = "list" THEN 0 .. MaxRows ELSE 0 .. 1 :
            rowsBack' = [i \in 1 .. n |-> keys]
      BY <3>1, Zenon
    <3>7. n \in 0 .. MaxRows \/ n \in 0 .. 1
      BY <3>6, Zenon
    <3>8. PICK most \in Nat : most = MaxRows
      BY CommandValuesAssumption
    <3>9. 0 .. most \subseteq Nat /\ 0 .. 1 \subseteq Nat
      OBVIOUS
    <3>2. n \in Nat
      BY <3>7, <3>8, <3>9, Zenon
    <3>3. PICK T : T = SUBSET Field
      OBVIOUS
    <3>4. rowsBack' \in Seq(T)
      BY <3>2, <3>3, <3>5, <3>6
    <3> QED
      BY <2>2, <3>3, <3>4
  <2> QED
    BY <2>1, <2>2
<1>3. ValuesTypeOK'
  BY <1>1, <1>2 DEF ValuesInv, ValuesTypeOK
<1>4. SentAsComposed'
  BY <1>1 DEF ValuesInv, SentAsComposed, AllTyped, WasSent, RequestMade, Unusable, SentFields,
              SentVdus, SentMethod
<1>5. FieldsReach' /\ OnlyMeantSent' /\ PrintedTrue'
  BY <1>1 DEF ValuesInv, FieldsReach, OnlyMeantSent, PrintedTrue, WasSent
<1>6. NetworksReach'
  BY <1>1 DEF ValuesInv, NetworksReach
<1>7. VdusReach'
  BY <1>1 DEF ValuesInv, VdusReach, WasSent
<1> QED
  BY <1>3, <1>4, <1>5, <1>6, <1>7 DEF ValuesInv

(* The columns shown stand in the order in which they were typed.          *)
Earlier == {p \in Nat \X Nat : p[1] < p[2]}

LEMMA ShownInOrder ==
  ASSUME NEW row, IsFiniteSet(DOMAIN typed.columns), DOMAIN typed.columns \subseteq Nat
  PROVE  /\ IsFiniteSet(ShownAt(row)) /\ Cardinality(ShownAt(row)) \in Nat
         /\ \A k \in 1 .. Cardinality(ShownAt(row)) :
              KthShown(row, k) \in ShownAt(row)
         /\ \A j, k \in 1 .. Cardinality(ShownAt(row)) :
              j < k => KthShown(row, j) < KthShown(row, k)
         /\ \A i \in ShownAt(row) :
              \E k \in 1 .. Cardinality(ShownAt(row)) : KthShown(row, k) = i
<1>1. PICK S : S = ShownAt(row)
  OBVIOUS
<1>2. S \subseteq DOMAIN typed.columns /\ S \subseteq Nat
  BY <1>1 DEF ShownAt
<1>3. IsFiniteSet(S) /\ Cardinality(S) \in Nat
  BY <1>2, FS_Subset, FS_CardinalityType
<1>4. PICK R : R = Earlier
  OBVIOUS
<1>5. \A i, j \in Nat : <<i, j>> \in R <=> i < j
  BY <1>4 DEF Earlier
<1>6. StrictTotal(S, R)
  BY <1>2, <1>5 DEF StrictTotal
<1>7. \A i \in S : {j \in S : j < i} = Below(S, R, i)
  <2>1. ASSUME NEW i \in S PROVE {j \in S : j < i} = Below(S, R, i)
    <3>1. \A j \in S : j < i <=> <<j, i>> \in R
      BY <1>2, <1>5
    <3> QED
      BY <3>1 DEF Below
  <2> QED
    BY <2>1
<1>8. \A i \in S : Cardinality({j \in S : j < i}) = Rank(S, R, i)
  BY <1>7 DEF Rank
<1>9. /\ \A i \in S : Rank(S, R, i) \in 0 .. Cardinality(S) - 1
      /\ \A i, j \in S : <<i, j>> \in R => Rank(S, R, i) < Rank(S, R, j)
      /\ \A i, j \in S : Rank(S, R, i) = Rank(S, R, j) => i = j
      /\ \A k \in 1 .. Cardinality(S) : \E i \in S : Rank(S, R, i) = k - 1
  BY <1>3, <1>6, RankGrows, RankOnto
<1>10. ASSUME NEW k \in 1 .. Cardinality(S)
       PROVE  KthShown(row, k) \in S /\ Rank(S, R, KthShown(row, k)) = k - 1
  <2>1. \E i \in S : Cardinality({j \in S : j < i}) = k - 1
    BY <1>8, <1>9
  <2>2. KthShown(row, k) \in S /\ Cardinality({j \in S : j < KthShown(row, k)}) = k - 1
    BY <1>1, <2>1 DEF KthShown
  <2> QED
    BY <1>8, <2>2
<1>11. ASSUME NEW j \in 1 .. Cardinality(S), NEW k \in 1 .. Cardinality(S), j < k
       PROVE  KthShown(row, j) < KthShown(row, k)
  <2>1. PICK x \in S, y \in S : /\ x = KthShown(row, j) /\ Rank(S, R, x) = j - 1
                               /\ y = KthShown(row, k) /\ Rank(S, R, y) = k - 1
    BY <1>10
  <2>2. x \in Nat /\ y \in Nat /\ j \in Int /\ k \in Int
    BY <1>2, <1>3
  <2>3. ~ (<<y, x>> \in R) /\ x # y
    BY <1>9, <1>11, <2>1, <2>2
  <2>4. <<x, y>> \in R
    BY <1>6, <2>3 DEF StrictTotal
  <2> QED
    BY <1>5, <2>1, <2>2, <2>4
<1>12. ASSUME NEW i \in S PROVE \E k \in 1 .. Cardinality(S) : KthShown(row, k) = i
  <2>1. PICK k : k = Rank(S, R, i) + 1
    OBVIOUS
  <2>2. k \in 1 .. Cardinality(S) /\ Rank(S, R, i) = k - 1
    BY <1>3, <1>9, <2>1
  <2>3. KthShown(row, k) \in S /\ Rank(S, R, KthShown(row, k)) = k - 1
    BY <1>10, <2>2
  <2> QED
    BY <1>9, <2>2, <2>3
<1> QED
  BY <1>1, <1>3, <1>10, <1>11, <1>12

(* Columns of a row in any order are fields.                               *)
LEMMA OrderOfColumns ==
  ASSUME NEW row \in SUBSET Field, NEW columns \in ColumnOrders(row)
  PROVE  \A i \in DOMAIN columns : columns[i] \in Field
BY DEF ColumnOrders, Bijection, Injection

LEMMA ListColumns ==
  ASSUME ValuesInv, typed.kind = "list", NEW columns \in Columns(rowsBack)
  PROVE  /\ \A i \in DOMAIN columns : columns[i] \in Field
         /\ typed.columns # << >> /\ rowsBack # << >> =>
              \E f \in [DOMAIN columns -> DOMAIN typed.columns] :
                /\ \A a, b \in DOMAIN f : a < b => f[a] < f[b]
                /\ \A a \in DOMAIN f : typed.columns[f[a]] = columns[a]
                /\ \A i \in DOMAIN typed.columns : typed.columns[i] \in rowsBack[1] =>
                     \E a \in DOMAIN f : f[a] = i
<1>1. typed \in TypedAs("list") /\ rowsBack \in Seq(SUBSET Field)
  BY DEF ValuesInv, ValuesTypeOK
<1>2. typed.columns \in SeqOf(Field \cup {NoColumn}, 2)
  BY <1>1, TypedFields
<1>3. typed.columns \in Seq(Field \cup {NoColumn}) /\ Len(typed.columns) \in Nat
  BY <1>2, ShortList
<1>4. DOMAIN typed.columns = 1 .. Len(typed.columns)
  BY <1>3, LenProperties
<1>5. IsFiniteSet(DOMAIN typed.columns) /\ DOMAIN typed.columns \subseteq Nat
  BY <1>3, <1>4, FS_Interval
<1>6. CASE rowsBack = << >>
  <2>1. columns = << >>
    BY <1>6 DEF Columns
  <2>2. DOMAIN columns = {}
    BY <2>1
  <2> QED
    BY <1>6, <2>2
<1>7. ASSUME rowsBack # << >> PROVE rowsBack[1] \in SUBSET Field
  <2>1. 1 \in DOMAIN rowsBack
    BY <1>1, <1>7, EmptySeq, LenProperties
  <2> QED
    BY <1>1, <2>1, ElementOfSeq, LenProperties
<1>8. CASE rowsBack # << >> /\ typed.columns = << >>
  <2>1. columns \in ColumnOrders(rowsBack[1])
    BY <1>8 DEF Columns
  <2> QED
    BY <1>7, <1>8, <2>1, OrderOfColumns
<1>9. CASE rowsBack # << >> /\ typed.columns # << >>
  <2>1. PICK row : row = rowsBack[1]
    OBVIOUS
  <2>2. PICK n : n = Cardinality(ShownAt(row))
    OBVIOUS
  <2>3. columns = [k \in 1 .. n |-> typed.columns[KthShown(row, k)]]
    BY <1>9, <2>1, <2>2 DEF Columns
  <2>4. PICK f : f = [k \in 1 .. n |-> KthShown(row, k)]
    OBVIOUS
  <2>5. DOMAIN f = 1 .. n /\ DOMAIN columns = 1 .. n
        /\ \A k \in 1 .. n : f[k] = KthShown(row, k) /\ columns[k] = typed.columns[f[k]]
    BY <2>3, <2>4
  <2>6. /\ \A k \in 1 .. n : f[k] \in ShownAt(row)
        /\ \A j, k \in 1 .. n : j < k => f[j] < f[k]
        /\ \A i \in ShownAt(row) : \E k \in 1 .. n : f[k] = i
    BY <1>5, <2>2, <2>5, ShownInOrder
  <2>7. \A i : i \in ShownAt(row) <=> i \in DOMAIN typed.columns /\ typed.columns[i] \in row
    BY DEF ShownAt
  <2>8. f \in [DOMAIN columns -> DOMAIN typed.columns]
    BY <2>4, <2>5, <2>6, <2>7
  <2>9. \A k \in DOMAIN columns : columns[k] \in Field
    BY <1>7, <1>9, <2>1, <2>5, <2>6, <2>7
  <2>10. f \in [DOMAIN columns -> DOMAIN typed.columns] /\ DOMAIN f = 1 .. n
    BY <2>5, <2>8
  <2>11. \A a, b \in DOMAIN f : a < b => f[a] < f[b]
    BY <2>6, <2>10
  <2>12. \A a \in DOMAIN f : typed.columns[f[a]] = columns[a]
    BY <2>5, <2>10
  <2>13. \A i \in DOMAIN typed.columns : typed.columns[i] \in rowsBack[1] =>
           \E a \in DOMAIN f : f[a] = i
    BY <2>1, <2>6, <2>7, <2>10
  <2> QED
    BY <2>9, <2>10, <2>11, <2>12, <2>13
<1> QED
  BY <1>6, <1>8, <1>9

(* Printing sends nothing more.                                            *)
LEMMA PrintedOnly ==
  ASSUME ValuesInv, UNCHANGED <<typed, known, extra, request, rowsBack>>,
         cvPc = "answered", cvPc' \in {"printed", "failed"},
         cvPc' = "failed" => typed.kind \in {"driver", "show"}
  PROVE  FieldsReach' /\ NetworksReach' /\ VdusReach' /\ OnlyMeantSent' /\ SentAsComposed'
<1>1. SentAsComposed'
  BY DEF ValuesInv, SentAsComposed, AllTyped, WasSent, RequestMade, Unusable, SentFields,
         SentVdus, SentMethod
<1>2. FieldsReach' /\ VdusReach' /\ OnlyMeantSent'
  BY DEF ValuesInv, FieldsReach, VdusReach, OnlyMeantSent, WasSent
<1>3. NetworksReach'
  BY DEF ValuesInv, NetworksReach
<1> QED
  BY <1>1, <1>2, <1>3

LEMMA PrintListKept == ASSUME ValuesInv, PrintList PROVE ValuesInv'
<1>1. /\ UNCHANGED <<typed, known, extra, request, rowsBack>>
      /\ cvPc = "answered" /\ cvPc' = "printed" /\ typed.kind = "list"
  BY DEF PrintList
<1>2. PICK columns \in Columns(rowsBack) :
        printed' = [columns |-> columns, rows |-> [i \in DOMAIN rowsBack |-> columns]]
  BY DEF PrintList
<1>3. printed'.columns = columns /\ printed'.rows = [i \in DOMAIN rowsBack |-> columns]
  BY <1>2
<1>4. rowsBack \in Seq(SUBSET Field)
  BY <1>1 DEF ValuesInv, ValuesTypeOK
<1>5. Len(printed'.rows) = Len(rowsBack)
  BY <1>3, <1>4
<1>6. /\ \A i \in DOMAIN columns : columns[i] \in Field
      /\ typed.columns # << >> /\ rowsBack # << >> =>
           \E f \in [DOMAIN columns -> DOMAIN typed.columns] :
             /\ \A a, b \in DOMAIN f : a < b => f[a] < f[b]
             /\ \A a \in DOMAIN f : typed.columns[f[a]] = columns[a]
             /\ \A i \in DOMAIN typed.columns : typed.columns[i] \in rowsBack[1] =>
                  \E a \in DOMAIN f : f[a] = i
  BY <1>1, ListColumns
<1>7. ValuesTypeOK'
  BY <1>1, <1>3, <1>6 DEF ValuesInv, ValuesTypeOK
<1>8. PrintedTrue'
  BY <1>1, <1>3, <1>5, <1>6 DEF PrintedTrue
<1> QED
  BY <1>1, <1>7, <1>8, PrintedOnly DEF ValuesInv

LEMMA PrintDriverKept == ASSUME ValuesInv, PrintDriver PROVE ValuesInv'
<1>1. /\ UNCHANGED <<typed, known, extra, request, rowsBack>>
      /\ cvPc = "answered" /\ typed.kind = "driver"
      /\ cvPc' \in {"printed", "failed"}
  BY DEF PrintDriver
<1>2. CASE cvPc' = "failed"
  <2>1. printed' = printed
    BY <1>2 DEF PrintDriver
  <2>2. ValuesTypeOK' /\ PrintedTrue'
    BY <1>1, <1>2, <2>1 DEF ValuesInv, ValuesTypeOK, PrintedTrue
  <2> QED
    BY <1>1, <2>2, PrintedOnly DEF ValuesInv
<1>3. CASE cvPc' = "printed"
  <2>1. /\ printed' = [columns |-> << >>, rows |-> [i \in Catalogs(rowsBack) |-> <<rowsBack[i]>>]]
        /\ ~ (Catalogs(rowsBack) = {} /\ typed.vdu # AnyVdu)
    BY <1>3 DEF PrintDriver
  <2>2. PICK rows : rows = [i \in Catalogs(rowsBack) |-> <<rowsBack[i]>>]
    OBVIOUS
  <2>3. printed'.columns = << >> /\ printed'.rows = rows
    BY <2>1, <2>2
  <2>4. ASSUME typed.vdu # AnyVdu
        PROVE  DOMAIN rows # {} /\ \A i \in DOMAIN rows : rows[i] = <<typed.vdu>>
    <3>1. Catalogs(rowsBack) # {} /\ Catalogs(rowsBack) = CatalogOf(rowsBack)
      BY <2>1, <2>4 DEF Catalogs
    <3>2. \A i \in CatalogOf(rowsBack) : rowsBack[i] = typed.vdu
      BY DEF CatalogOf
    <3> QED
      BY <2>2, <3>1, <3>2
  <2>5. \A i \in DOMAIN printed'.columns : printed'.columns[i] \in Field
    <3>1. DOMAIN printed'.columns = {}
      BY <2>3
    <3> QED
      BY <3>1
  <2>6. ValuesTypeOK'
    BY <1>1, <1>3, <2>5 DEF ValuesInv, ValuesTypeOK
  <2>7. PrintedTrue'
    BY <1>1, <2>3, <2>4 DEF PrintedTrue
  <2> QED
    BY <1>1, <1>3, <2>6, <2>7, PrintedOnly DEF ValuesInv
<1> QED
  BY <1>1, <1>2, <1>3

LEMMA PrintShowKept == ASSUME ValuesInv, PrintShow PROVE ValuesInv'
<1>1. /\ UNCHANGED <<typed, known, extra, request, rowsBack>>
      /\ cvPc = "answered" /\ typed.kind = "show"
      /\ cvPc' \in {"printed", "failed"}
  BY DEF PrintShow
<1>2. \A i \in DOMAIN printed'.columns : printed'.columns[i] \in Field
  <2>1. CASE printed' = printed
    BY <2>1 DEF ValuesInv, ValuesTypeOK
  <2>2. CASE printed' # printed
    <3>1. rowsBack # << >> /\ rowsBack \in Seq(SUBSET Field)
      BY <1>1, <2>2 DEF PrintShow, ValuesInv, ValuesTypeOK
    <3>2. PICK columns \in ColumnOrders(rowsBack[1]) : printed' = [columns |-> columns, rows |-> << >>]
      BY <2>2 DEF PrintShow
    <3>3. 1 \in DOMAIN rowsBack
      BY <3>1, EmptySeq, LenProperties
    <3>4. rowsBack[1] \in SUBSET Field
      BY <3>1, <3>3, ElementOfSeq, LenProperties
    <3>5. printed'.columns = columns
      BY <3>2
    <3> QED
      BY <3>4, <3>5, OrderOfColumns
  <2> QED
    BY <2>1, <2>2
<1>3. ValuesTypeOK'
  BY <1>1, <1>2 DEF ValuesInv, ValuesTypeOK
<1>4. PrintedTrue'
  BY <1>1 DEF PrintedTrue
<1> QED
  BY <1>1, <1>3, <1>4, PrintedOnly DEF ValuesInv

LEMMA PrintDoneKept == ASSUME ValuesInv, PrintDone PROVE ValuesInv'
<1>1. /\ UNCHANGED <<typed, known, extra, request, rowsBack, printed>>
      /\ cvPc = "answered" /\ typed.kind \notin {"list", "driver", "show"} /\ cvPc' = "printed"
  BY DEF PrintDone
<1>2. ValuesTypeOK' /\ PrintedTrue'
  BY <1>1 DEF ValuesInv, ValuesTypeOK, PrintedTrue
<1> QED
  BY <1>1, <1>2, PrintedOnly DEF ValuesInv

LEMMA ValuesKept == ValuesInv /\ [ValuesNext]_valuesVars => ValuesInv'
<1> SUFFICES ASSUME ValuesInv, [ValuesNext]_valuesVars PROVE ValuesInv'
  OBVIOUS
<1>1. CASE UNCHANGED valuesVars
  <2>1. ValuesTypeOK'
    BY <1>1 DEF valuesVars, ValuesInv, ValuesTypeOK
  <2>3. FieldsReach' /\ OnlyMeantSent'
    BY <1>1 DEF valuesVars, ValuesInv, FieldsReach, OnlyMeantSent, WasSent
  <2>4. NetworksReach'
    BY <1>1 DEF valuesVars, ValuesInv, NetworksReach
  <2>5. VdusReach'
    BY <1>1 DEF valuesVars, ValuesInv, VdusReach, WasSent
  <2>6. PrintedTrue'
    BY <1>1 DEF valuesVars, ValuesInv, PrintedTrue
  <2>2. SentAsComposed'
    BY <1>1 DEF valuesVars, ValuesInv, SentAsComposed, AllTyped, WasSent, RequestMade, Unusable,
                SentFields, SentVdus, SentMethod
  <2> QED
    BY <2>1, <2>2, <2>3, <2>4, <2>5, <2>6 DEF ValuesInv
<1> QED
  BY <1>1, MergeArgsKept, RefuseKept, SendValuesKept, ServerAnswersKept, PrintListKept,
     PrintDriverKept, PrintShowKept, PrintDoneKept DEF ValuesNext

-----------------------------------------------------------------------------
(* The parts together: each step is of one, and the others keep still.     *)

PartsInv ==
  /\ RpcInv /\ UpdateInv /\ LockInv /\ RouterInv /\ ClientsInv
  /\ MigrationInv /\ RowsInv /\ TablesInv
  /\ RestInv /\ HttpInv /\ RuleInv /\ ListInv /\ ViewInv /\ CliInv /\ RoutesInv
  /\ PolInv /\ ValuesInv /\ DescInv /\ DocInv /\ LfInv /\ UdInv

LEMMA PartsStart == Init => PartsInv
<1> SUFFICES ASSUME Init PROVE PartsInv
  OBVIOUS
<1>1. /\ RpcInit /\ UpdateInit /\ LockInit /\ RouterInit /\ OsInit
      /\ MigrationInit /\ RowsInit /\ TablesInit
  BY DEF Init
<1>2. RestInit /\ HttpInit /\ RuleInit /\ ListInit /\ ViewInit
  BY DEF Init
<1>3. RestInv /\ HttpInv /\ RuleInv /\ ListInv /\ ViewInv
  BY <1>2, RestStarts, HttpStarts, RuleStarts, ListStarts, ViewStarts
<1>4. CliInv /\ RoutesInv
  BY CliStarts, RoutesStart DEF Init
<1>7. PolInv /\ ValuesInv
  BY PolStarts, ValuesStarts DEF Init
<1>5. DescInv /\ DocInv
  BY DescStarts, DocStarts DEF Init
<1>6. LfInv /\ UdInv
  BY LfStarts, UdStarts DEF Init
<1> QED
  BY <1>1, <1>3, <1>4, <1>5, <1>6, <1>7, RpcStarts, UpdateStarts, LockStarts, RouterStarts, OsStarts,
     MigrationStarts, RowsStart, TablesStart DEF PartsInv

LEMMA PartsMove ==
  ASSUME [Next]_partVars
  PROVE  /\ [RpcNext]_rpcVars /\ [UpdateNext]_updateVars /\ [LockNext]_lockVars
         /\ [RouterNext]_routerVars /\ [OsNext]_osVars /\ [MigrationNext]_migrationVars
         /\ [RowsNext]_rowsVars /\ [TablesNext]_tableVars /\ [DocNext]_docVars
         /\ [CliNext]_cliVars /\ [RestNext]_restVars /\ [HttpNext]_httpVars
         /\ [RuleNext]_ruleVars /\ [ListNext]_listVars /\ [ViewNext]_viewVars
         /\ [RoutesNext]_routesVars /\ [DescNext]_descVars /\ [LfNext]_lfVars /\ [UdNext]_udVars
         /\ [PolNext]_polVars /\ [ValuesNext]_valuesVars
<1>1. [RpcNext]_rpcVars /\ [UpdateNext]_updateVars
  BY DEF Next, Others, partVars
<1>2. [LockNext]_lockVars
  BY DEF Next, Others, partVars
<1>3. [RouterNext]_routerVars
  BY DEF Next, Others, partVars
<1>4. [OsNext]_osVars
  BY DEF Next, Others, partVars
<1>5. [MigrationNext]_migrationVars
  BY DEF Next, Others, partVars
<1>6. [RowsNext]_rowsVars /\ [TablesNext]_tableVars
  BY DEF Next, Others, partVars
<1>7. [DocNext]_docVars /\ [CliNext]_cliVars /\ [RoutesNext]_routesVars
  BY DEF Next, Others, partVars
<1>8. [RestNext]_restVars /\ [HttpNext]_httpVars
  BY DEF Next, Others, partVars
<1>9. [RuleNext]_ruleVars /\ [ListNext]_listVars /\ [ViewNext]_viewVars
  BY DEF Next, Others, partVars
<1>10. [DescNext]_descVars
  BY DEF Next, Others, partVars
<1>11. [LfNext]_lfVars /\ [UdNext]_udVars
  BY DEF Next, Others, partVars
<1>12. [PolNext]_polVars /\ [ValuesNext]_valuesVars
  BY DEF Next, Others, partVars
<1> QED
  BY <1>1, <1>2, <1>3, <1>4, <1>5, <1>6, <1>7, <1>8, <1>9, <1>10, <1>11, <1>12

LEMMA PartsTurn == PartsInv /\ [Next]_partVars => PartsInv'
<1> SUFFICES ASSUME PartsInv, [Next]_partVars PROVE PartsInv'
  OBVIOUS
<1>1. /\ RpcInv /\ UpdateInv /\ LockInv /\ RouterInv /\ ClientsInv
      /\ MigrationInv /\ RowsInv /\ TablesInv
  BY DEF PartsInv
<1>2. RpcInv' /\ UpdateInv' /\ LockInv' /\ RouterInv' /\ ClientsInv'
  BY <1>1, PartsMove, RpcKept, UpdateKept, LockKept, RouterKept, OsKept
<1>3. MigrationInv' /\ RowsInv' /\ TablesInv'
  BY <1>1, PartsMove, MigrationKept, RowsKept, TablesKept
<1>4. RestInv /\ HttpInv /\ RuleInv /\ ListInv /\ ViewInv
  BY DEF PartsInv
<1>5. RestInv' /\ HttpInv' /\ RuleInv' /\ ListInv' /\ ViewInv'
  BY <1>4, PartsMove, RestKept, HttpKept, RuleKept, ListKept, ViewKept
<1>6. CliInv' /\ RoutesInv'
  BY PartsMove, CliKept, RoutesKept DEF PartsInv
<1>9. PolInv' /\ ValuesInv'
  BY PartsMove, PolKept, ValuesKept DEF PartsInv
<1>7. DescInv' /\ DocInv'
  BY PartsMove, DescKept, DocKept DEF PartsInv
<1>8. LfInv' /\ UdInv'
  BY PartsMove, LfKept, UdKept DEF PartsInv
<1> QED
  BY <1>2, <1>3, <1>5, <1>6, <1>7, <1>8, <1>9 DEF PartsInv

LEMMA PartsKeep == Spec => []PartsInv
  BY PartsStart, PartsTurn, PTL DEF Spec

(* Whatever starts, ends or is lost in between: a manager handles a cast   *)
(* once, no acknowledgement passes a plugin by, a context names the request*)
(* it comes from and makes nobody an administrator; an update on its way   *)
(* is for a manager that listens, of a service that has the VDU it names,  *)
(* and the plugin keeps the proxy of each manager it has invoked.          *)
THEOREM MessagesSafe == Spec => []MessagesTrue
<1>1. PartsInv => MessagesTrue
  BY DEF MessagesTrue, PartsInv
<1> QED
  BY <1>1, PartsKeep, PTL

(* However many there are and in whatever order they go on or end: a caller*)
(* fails or makes something in another's name only when another replaced   *)
(* the plugin's clients while it went on; two threads, and with a lock file*)
(* two processes, are never both inside what a lock guards; and a router   *)
(* that refused nothing and is acknowledged has what its event set, saved. *)
THEOREM ActorsSafe == Spec => []ActorsApart
<1>1. PartsInv => ActorsApart
  BY DEF ActorsApart, PartsInv
<1> QED
  BY <1>1, PartsKeep, PTL

(* Whatever names lie inside each other, and wherever the server ends: the *)
(* row of a VDU has its own user data, events and machines, a look-up finds*)
(* the VDU asked for, no row is left without its service, and a machine is *)
(* booted as the template of its service describes it. However many        *)
(* operators migrate the database at a time, whatever breaks or is told to *)
(* stop in between: where no run is under way the tables are those of the  *)
(* version, unless a run ended half way, runs crossed each other or a stamp*)
(* said what was not so.                                                   *)
THEOREM DatabaseSafe == Spec => []DatabaseTrue
<1>1. PartsInv => DatabaseTrue
  BY DEF DatabaseTrue, PartsInv
<1> QED
  BY <1>1, PartsKeep, PTL

(* Whatever the pipeline, the resource, its attributes and its rules: no   *)
(* request is handled without a context of its token, each answer is of the*)
(* kind that was asked for, a value that is taken is as its rule wants it  *)
(* and would be taken again, no rule of the policy lets in for a key that  *)
(* the credentials lack, and where a bulk fails none of it is left but what*)
(* could not be deleted.                                                   *)
THEOREM RequestsSafe == Spec => []RequestsScreened
<1>1. PartsInv => RequestsScreened
  BY DEF RequestsScreened, PartsInv
<1> QED
  BY <1>1, PartsKeep, PTL

(* However rows come and go, whatever the sorts, limits and filters: who   *)
(* follows the links sees each row that stayed, once and in order, unless  *)
(* the row a page ended with was deleted; a page of the API is the one the *)
(* database would have cut out; and an answer shows the fields asked for.  *)
THEOREM AnswersSafe == Spec => []AnswersTrue
<1>1. PartsInv => AnswersTrue
  BY DEF AnswersTrue, PartsInv
<1> QED
  BY <1>1, PartsKeep, PTL

(* Whatever is typed and whoever else changes rows: a command that reports *)
(* success did what it was told to the row it was given, the server has a  *)
(* handler for it unless the command is one that has none, each option that*)
(* is taken is what was written behind it, what is sent was typed, and what*)
(* is printed is what was answered.                                        *)
THEOREM CommandsSafe == Spec => []CommandsTrue
<1>1. PartsInv => CommandsTrue
  BY DEF CommandsTrue, PartsInv
<1> QED
  BY <1>1, PartsKeep, PTL

(* Whatever a descriptor describes, in whatever order it is parsed, the    *)
(* machines come up and acknowledge: an interface is on the network that   *)
(* joins its own point, with one card each and that for management first;  *)
(* the data of an event name addresses of the machines they were asked of; *)
(* a machine runs its own commands behind those of the program, with no    *)
(* mark left in them; and a document has what was acknowledged.            *)
THEOREM DescriptorsSafe == Spec => []DescriptorsTrue
<1>1. PartsInv => DescriptorsTrue
  BY DEF DescriptorsTrue, PartsInv
<1> QED
  BY <1>1, PartsKeep, PTL

(* No step of a command, an upload, a query, a dump, a migration or an     *)
(* update goes further than it was told.                                   *)
THEOREM StepsSafe == Spec => StepsMeant
<1>1. Spec => OneRowMeant
  <2>1. [Next]_partVars => [target' # target => target' = given \/ Named(given) = {target'}]_cliVars
    BY PartsMove, OneRowStep
  <2> QED
    BY <2>1, PTL DEF Spec, OneRowMeant
<1>2. Spec => OneTemplateMeant
  <2>1. PartsInv /\ [Next]_partVars =>
          [\A s \in Service : serviceRow[s].at = "none" /\ serviceRow'[s].at = "entered" =>
             \A t \in templateRows : TypeOf[t] = WantedType[s] => t = serviceRow'[s].template]_tableVars
    BY PartsMove, OneTemplateStep DEF PartsInv
  <2> QED
    BY <2>1, PartsKeep, PTL DEF Spec, OneTemplateMeant
<1>3. Spec => InfoTrue
  <2>1. PartsInv /\ [Next]_partVars =>
          [/\ managerInfo'.state = "given" /\ managerInfo' # managerInfo =>
                \A s \in DOMAIN managerInfo'.of :
                  managerInfo'.of[s] =
                    UNION {IF booted[v] = << >> THEN {Phantom} ELSE Range(booted[v]) :
                             v \in ListedVdus(s)}
           /\ managerInfo'.state = "error" /\ managerInfo' # managerInfo =>
                \E s \in Service : serviceRow[s].at \in {"removing", "cut"}]_tableVars
    BY PartsMove, InfoStep DEF PartsInv
  <2> QED
    BY <2>1, PartsKeep, PTL DEF Spec, InfoTrue
<1>4. Spec => DumpSettled
  <2>1. PartsInv /\ [Next]_partVars =>
          [(dumped \in {"document", "error"} => dumped' # "empty")
             /\ (dumped = "error" => dumped' = "error")]_docVars
    BY PartsMove, DumpStep DEF PartsInv
  <2> QED
    BY <2>1, PartsKeep, PTL DEF Spec, DumpSettled
<1>5. PartsInv /\ [Next]_partVars => MigrationSteps
  BY PartsMove, MigrationStepsMeant DEF PartsInv
<1>6. Spec => UpgradedWholly
  <2>1. PartsInv /\ [Next]_partVars =>
          [(\E o \in Operator : command[o].cmd = "upgrade" /\ RecordedHere(o, "folsom"))
             => Whole \/ "crossed" \in blemish]_migrationVars
    BY <1>5 DEF MigrationSteps
  <2> QED
    BY <2>1, PartsKeep, PTL DEF Spec, UpgradedWholly
<1>7. Spec => DowngradedWholly
  <2>1. PartsInv /\ [Next]_partVars =>
          [\A o \in Operator :
             (command[o].cmd = "downgrade" /\ RecordedHere(o, "none"))
               => \/ blemish # {}
                  \/ /\ \A t \in AllTables : tableIs[t] = "absent"
                     /\ ~Transactional /\ saved[o][1]["vduconfigurations"] # "InnoDB"]_migrationVars
    BY <1>5 DEF MigrationSteps
  <2> QED
    BY <2>1, PartsKeep, PTL DEF Spec, DowngradedWholly
<1>8. Spec => OnlyRunsWrite
  <2>1. PartsInv /\ [Next]_partVars =>
          [<<tableIs, version>>' # <<tableIs, version>>
             => \E o \in Operator : \/ todo[o] # <<>> \/ changed[o] > 0
                                    \/ command[o].cmd = "stamp"]_migrationVars
    BY <1>5 DEF MigrationSteps
  <2> QED
    BY <2>1, PartsKeep, PTL DEF Spec, OnlyRunsWrite
<1>9. Spec => EngineAsAsked
  <2>1. PartsInv /\ [Next]_partVars =>
          [\A o \in Operator, t \in AllTables :
             (changed'[o] = changed[o] + 1 /\ tableIs[t] = "absent" /\ tableIs'[t] # "absent")
               => tableIs'[t] = IF command[o].engine = "" THEN "InnoDB" ELSE command[o].engine]_migrationVars
    BY <1>5 DEF MigrationSteps
  <2> QED
    BY <2>1, PartsKeep, PTL DEF Spec, EngineAsAsked
<1>10. Spec => OneStepOnly
  <2>1. PartsInv /\ [Next]_partVars =>
          [\A o \in Operator :
             (engineOf[o] = "" /\ engineOf'[o] # "" /\ command[o].delta = 1)
               => \A i \in DOMAIN todo'[o] :
                    todo'[o][i].does = "record"
                      => PlaceOf(todo'[o][i].what)
                           \in {PlaceOf(version) + 1, PlaceOf(version) - 1}]_migrationVars
    BY <1>5 DEF MigrationSteps
  <2> QED
    BY <2>1, PartsKeep, PTL DEF Spec, OneStepOnly
<1>11. Spec => NoProxyYet
  <2>1. PartsInv /\ [Next]_partVars =>
          [\A c \in Asker :
             (asked[c].pc = "read" /\ asked'[c].pc = "KeyError")
               => launch[asked[c].of] # "invoked"]_updateVars
    BY PartsMove, NoProxyStep DEF PartsInv
  <2> QED
    BY <2>1, PartsKeep, PTL DEF Spec, NoProxyYet
<1>12. Spec => GoneIsRefused
  <2>1. PartsInv /\ [Next]_partVars =>
          [\A c \in Asker :
             (asked[c].pc = "begun" /\ ~FoundByNsdId(asked[c].of)) => asked'[c].pc # "read"]_updateVars
    BY PartsMove, GoneStep DEF PartsInv
  <2> QED
    BY <2>1, PartsKeep, PTL DEF Spec, GoneIsRefused
<1> QED
  BY <1>1, <1>2, <1>3, <1>4, <1>6, <1>7, <1>8, <1>9, <1>10, <1>11, <1>12 DEF StepsMeant
=============================================================================
