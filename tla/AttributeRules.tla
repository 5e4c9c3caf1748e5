---------------------------- MODULE AttributeRules ----------------------------
(***************************************************************************)
(* The rules by which the attributes of a request are converted and        *)
(* checked. A rule for a dictionary holds rules for its keys, each with a  *)
(* conversion perhaps, whose results replace the values as the keys are    *)
(* gone through, in whatever order the dictionary of rules yields them. A  *)
(* check answers a message or nothing; a conversion raises.                *)
(*                                                                         *)
(* A value is a record of its Python type and what the rules tell apart.   *)
(***************************************************************************)
EXTENDS Integers, Sequences, FiniteSets, SequencesExt, Functions

CONSTANTS
  Key,
  RuleSpecs,   \* rules for the keys of a dictionary
  Data,    \* the dictionaries that are checked, [some keys -> value]
  Lists    \* lists of texts: <<k, v>> for 'k=v', <<"True">> for 'True', and << >>
           \* for another malformed one

How == {"none", "int", "boolean", "boolean if not none", "list", "none to list"}

ASSUME RuleAssumption ==
  /\ \A s \in RuleSpecs : \A k \in DOMAIN s : s[k].convert \in How
  /\ \A l \in Lists : Len(l) \in Nat /\ DOMAIN l = 1 .. Len(l)

VARIABLES
  spec, data,  \* the rules, and the dictionary
  before,      \* history: the dictionary as it came
  rulePc,      \* "keys", "checking", "accepted", "refused" or "raised"
  toCheck,     \* the keys that are left
  round,       \* how many times it has been checked
  pairs, kvp   \* a list of texts, and the dictionary made of it

ruleVars == <<spec, data, before, rulePc, toCheck, round, pairs, kvp>>

(* The values. Of a text is told which number it is read as, what it says, *)
(* and how long it is.                                                     *)
NotNumber == 999
AnInt(n) == [type |-> "int", n |-> n]
ABool(b) == [type |-> "bool", b |-> b]
AList(items) == [type |-> "list", items |-> items]

(* A rule is [rule, lo, hi, orNone, required, convert]: its name, limits,  *)
(* whether None passes, whether the key must be there, and what it is      *)
(* converted to first.                                                     *)
NoLimit == -99

(* Rules, data and verdict of a request keep their types.                  *)
RuleTypeOK ==
  /\ spec \in RuleSpecs /\ DOMAIN data = DOMAIN before
  /\ rulePc \in {"keys", "checking", "accepted", "refused", "raised"}
  /\ toCheck \subseteq DOMAIN spec \cap DOMAIN data /\ round \in 1 .. 2
  /\ kvp.pc \in {"making", "made", "raised"}
  /\ \A k \in DOMAIN kvp.map : kvp.map[k] # {}

RuleInit ==
  /\ spec \in RuleSpecs /\ data \in Data /\ before = data
  /\ rulePc = "keys" /\ toCheck = {} /\ round = 1
  /\ pairs \in Lists /\ kvp = [pc |-> "making", at |-> 0, map |-> << >>]
  /\ spec = (CHOOSE s \in RuleSpecs : TRUE) \/ pairs = << >>

-----------------------------------------------------------------------------
(* Conversions *)

(* int(): a bool is an integer, too.                                       *)
Number(v) ==
  CASE v.type = "int" -> {v.n}
    [] v.type = "bool" -> {IF v.b THEN 1 ELSE 0}
    [] v.type = "text" /\ v.n # NotNumber -> {v.n}
    [] OTHER -> {}

(* convert_to_boolean: 0 and 1, and the texts of those and of the words.   *)
BooleanOf(v) ==
  CASE v.type = "bool" -> {v.b}
    [] v.type = "int" /\ v.n \in 0 .. 1 -> {v.n = 1}
    [] v.type = "text" /\ (v.word = "true" \/ v.n = 1) -> {TRUE}
    [] v.type = "text" /\ (v.word = "false" \/ v.n = 0) -> {FALSE}
    [] OTHER -> {}

(* Mutant: a list is put in a list, too.                                   *)
AsListAlways(v) == IF v.type = "none" THEN AList(<< >>) ELSE AList(<<v>>)

AsList(v) ==
  CASE v.type = "none" -> AList(<< >>) [] v.type = "list" -> v [] OTHER -> AList(<<v>>)

(* What a conversion makes of a value: nothing where it raises.            *)
Converted(how, v) ==
  CASE how = "none" -> {v}
    [] how = "int" -> {AnInt(n) : n \in Number(v)}
    [] how = "boolean" -> {ABool(b) : b \in BooleanOf(v)}
    [] how = "boolean if not none" ->
         IF v.type = "none" THEN {v} ELSE {ABool(b) : b \in BooleanOf(v)}
    [] how = "list" -> {AsList(v)}
    [] how = "none to list" -> {IF v.type = "none" THEN AList(<< >>) ELSE v}

-----------------------------------------------------------------------------
(* Checks *)

Within(n, lo, hi) == (lo = NoLimit \/ n >= lo) /\ (hi = NoLimit \/ n <= hi)

IsUuid(v) == v.type = "text" /\ v.word \in {"uuid", "other uuid"}

Falsy(v) ==
  \/ v.type = "none" \/ (v.type = "int" /\ v.n = 0) \/ (v.type = "bool" /\ ~v.b)
  \/ (v.type = "text" /\ v.len = 0) \/ (v.type = "list" /\ v.items = << >>)

Satisfies(r, v) ==
  CASE r.rule = "any" -> TRUE
    [] r.rule = "range" -> \E n \in Number(v) : Within(n, r.lo, r.hi)
    [] r.rule = "non_negative" -> \E n \in Number(v) : n >= 0
    [] r.rule = "string" -> v.type = "text" /\ Within(v.len, NoLimit, r.hi)
    [] r.rule = "not_empty_string" ->
         v.type = "text" /\ Within(v.len, NoLimit, r.hi) /\ v.word # "blank"
    [] r.rule = "uuid" -> IsUuid(v)
    [] r.rule = "uuid_list" ->
         /\ v.type = "list" /\ \A i \in DOMAIN v.items : IsUuid(v.items[i])
         /\ IsInjective(v.items)
    [] r.rule = "boolean" -> BooleanOf(v) # {}
    [] r.rule = "list_or_none" -> Falsy(v) \/ v.type = "list"

Passes(r, v) == (r.orNone /\ v.type = "none") \/ Satisfies(r, v)

(* The keys that must be there are; others are let through.                *)
VerifyDictKeys ==
  /\ rulePc = "keys"
  /\ rulePc' = IF \A k \in DOMAIN spec : spec[k].required => k \in DOMAIN data
               THEN "checking" ELSE "refused"
  /\ toCheck' = IF rulePc' = "checking" THEN DOMAIN spec \cap DOMAIN data ELSE {}
  /\ UNCHANGED <<spec, data, before, round, pairs, kvp>>

(* _validate_dict_item: convert, keep, check.                              *)
DictItem(k) ==
  LET made == Converted(spec[k].convert, data[k])
  IN /\ rulePc = "checking" /\ k \in toCheck
     /\ toCheck' = toCheck \ {k}
     /\ data' = [data EXCEPT ![k] = IF made = {} THEN @ ELSE CHOOSE v \in made : TRUE]
     /\ rulePc' = IF made = {} THEN "raised"
                  ELSE IF Passes(spec[k], data'[k]) THEN "checking" ELSE "refused"
     /\ UNCHANGED <<spec, before, round, pairs, kvp>>

Accepted ==
  /\ rulePc = "checking" /\ toCheck = {} /\ rulePc' = "accepted"
  /\ UNCHANGED <<spec, data, before, toCheck, round, pairs, kvp>>

(* A request is checked anew when it is sent again as it was kept.         *)
CheckAgain ==
  /\ rulePc = "accepted" /\ round = 1
  /\ rulePc' = "keys" /\ round' = 2
  /\ UNCHANGED <<spec, data, before, toCheck, pairs, kvp>>

-----------------------------------------------------------------------------
Collect(map, pair) ==
  [k \in {pair[1]} \cup DOMAIN map |->
     (IF k = pair[1] THEN {pair[2]} ELSE {}) \cup (IF k \in DOMAIN map THEN map[k] ELSE {})]

(* convert_kvp_list_to_dict: a flag without values comes as 'True' alone.  *)
JustFlag == << <<"True">> >>

KvpFlag ==
  /\ kvp.pc = "making" /\ pairs = JustFlag
  /\ kvp' = [pc |-> "made", at |-> kvp.at, map |-> << >>]
  /\ UNCHANGED <<spec, data, before, rulePc, toCheck, round, pairs>>

(* The values of a key are collected, while its own description has them   *)
(* refused; a text without a key raises.                                   *)
KvpPair ==
  /\ kvp.pc = "making" /\ kvp.at < Len(pairs) /\ pairs # JustFlag
  /\ LET pair == pairs[kvp.at + 1]
     IN kvp' = IF Len(pair) # 2 THEN [pc |-> "raised", at |-> kvp.at, map |-> kvp.map]
               ELSE [pc |-> "making", at |-> kvp.at + 1, map |-> Collect(kvp.map, pair)]
  /\ UNCHANGED <<spec, data, before, rulePc, toCheck, round, pairs>>

KvpMade ==
  /\ kvp.pc = "making" /\ kvp.at = Len(pairs)
  /\ kvp' = [pc |-> "made", at |-> kvp.at, map |-> kvp.map]
  /\ UNCHANGED <<spec, data, before, rulePc, toCheck, round, pairs>>

RuleNext ==
  \/ VerifyDictKeys \/ Accepted \/ CheckAgain \/ KvpFlag \/ KvpPair \/ KvpMade
  \/ \E k \in Key : DictItem(k)

-----------------------------------------------------------------------------
MayPass(k) == \E v \in Converted(spec[k].convert, before[k]) : Passes(spec[k], v)

(* In whichever order the keys are gone through, the dictionary is taken   *)
(* if each of its keys is good by itself and none is missing, and not      *)
(* otherwise; the order only decides what the refusal says.                *)
VerdictFixed ==
  LET fine == \A k \in DOMAIN spec :
                IF k \in DOMAIN before THEN MayPass(k) ELSE ~spec[k].required
  IN /\ rulePc = "accepted" => fine
     /\ rulePc \in {"refused", "raised"} => ~fine

(* What has been taken is as the rules say: a number in its range is not   *)
(* outside of a limit, be the limit 0, a flag is a flag and a list a list. *)
TakenAsRuled ==
  rulePc = "accepted" =>
    \A k \in DOMAIN spec \cap DOMAIN data :
      /\ spec[k].convert = "int" => data[k].type = "int"
      /\ spec[k].convert = "boolean" => data[k].type = "bool"
      /\ spec[k].convert = "list" => data[k].type = "list"
      /\ spec[k].rule = "range" /\ data[k].type = "int" =>
           /\ spec[k].lo # NoLimit => data[k].n >= spec[k].lo
           /\ spec[k].hi # NoLimit => data[k].n <= spec[k].hi

(* What was taken once is taken again, and stays as it is.                 *)
TakenAgain ==
  /\ round = 2 => rulePc \notin {"refused", "raised"}
  /\ round = 2 => \A k \in DOMAIN spec \cap DOMAIN data : Converted(spec[k].convert, data[k]) = {data[k]}

(* No value of a repeated key is lost, none is given to another key, and a *)
(* flag has none.                                                          *)
PairsKept ==
  /\ kvp.pc = "made" /\ pairs = JustFlag => DOMAIN kvp.map = {}
  /\ kvp.pc = "made" /\ pairs # JustFlag =>
       /\ DOMAIN kvp.map = {pairs[i][1] : i \in DOMAIN pairs}
       /\ \A k \in DOMAIN kvp.map :
            kvp.map[k] = {pairs[i][2] : i \in {j \in DOMAIN pairs : pairs[j][1] = k}}

(* What has been found good is what its conversion makes of what came, and *)
(* passes; the rest is as it came, until the check has ended.              *)
FoundGood(k) == round = 2 \/ (rulePc \in {"checking", "accepted"} /\ k \notin toCheck)

CheckedSoFar ==
  /\ \A k \in DOMAIN spec \cap DOMAIN data :
       IF FoundGood(k)
         THEN data[k] \in Converted(spec[k].convert, before[k]) /\ Passes(spec[k], data[k])
         ELSE rulePc \in {"keys", "checking"} => data[k] = before[k]
  /\ round = 2 \/ rulePc \in {"checking", "accepted"} =>
       \A k \in DOMAIN spec : spec[k].required => k \in DOMAIN data
  /\ rulePc = "accepted" => toCheck = {}

CollectedSoFar ==
  /\ pairs \in Lists /\ kvp.at \in 0 .. Len(pairs)
  /\ IF pairs = JustFlag THEN kvp.at = 0 ELSE kvp.pc = "made" => kvp.at = Len(pairs)
  /\ DOMAIN kvp.map = {pairs[i][1] : i \in 1 .. kvp.at}
  /\ \A k \in DOMAIN kvp.map :
       kvp.map[k] = {pairs[i][2] : i \in {j \in 1 .. kvp.at : pairs[j][1] = k}}

(* What each step of a check, and of the making of a dictionary, keeps.    *)
RuleInv ==
  /\ RuleTypeOK /\ CheckedSoFar /\ CollectedSoFar
  /\ VerdictFixed /\ TakenAsRuled /\ TakenAgain /\ PairsKept
=============================================================================
