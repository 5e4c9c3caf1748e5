----------------------------- MODULE OsloCommon -----------------------------
(***************************************************************************)
(* What the program takes from oslo with a logic of its own. First the     *)
(* locks of lockutils. Then the rules of policy.                           *)
(***************************************************************************)
EXTENDS Naturals, FiniteSets, Sequences, SequencesExt

(***************************************************************************)
(* The one plugin of a server process (manager.py), made under a lock of   *)
(* lockutils by whichever thread needs it first, and those locks: a        *)
(* semaphore of the process per name, kept only as long as some thread     *)
(* refers to it, and behind it a file for locks between processes.         *)
(***************************************************************************)
CONSTANTS Thread,       \* threads that call get_instance or a locked function
          LockProcess, ProcessOf,
          Manager,         \* the name of the manager's lock
          ErrandsOf        \* which locks each may take, of a process or of all

ASSUME LockAssumption ==
  /\ IsFiniteSet(Thread) /\ ProcessOf \in [Thread -> LockProcess]
  /\ "nobody" \notin LockProcess
  /\ \A t \in Thread : \A e \in ErrandsOf[t] : e.name = Manager => ~ e.external

VARIABLES
  lockPc,     \* where each thread is
  errand,     \* what it does under which lock
  semOf,      \* _semaphores: the semaphore of a name in a process, or none
  semHeld,    \* which semaphores are taken
  mySem,      \* the semaphore a thread refers to
  fileOf,     \* the process that has locked the file of a name, or none
  instance,   \* VNFSvcManager._instance
  plugins,       \* how many plugins each process has made
  dead        \* processes that crashed

semVars == <<semOf, semHeld, mySem>>
managerVars == <<instance, plugins, dead>>
lockVars == <<lockPc, errand, semVars, fileOf, managerVars>>

NoSem == 0
Sem == 1 .. Cardinality(Thread)   \* a bound: as many as threads can refer to
NoProcess == "nobody"
LockName == {e.name : e \in UNION {ErrandsOf[t] : t \in Thread}}

LockInit ==
  /\ lockPc = [t \in Thread |-> "idle"]
  /\ errand \in {f \in [Thread -> UNION {ErrandsOf[t] : t \in Thread}] :
                   \A t \in Thread : f[t] \in ErrandsOf[t]}
  /\ semOf = [p \in LockProcess |-> [n \in LockName |-> NoSem]]
  /\ semHeld = [p \in LockProcess |-> {}] /\ mySem = [t \in Thread |-> NoSem]
  /\ fileOf = [n \in LockName |-> NoProcess]
  /\ instance = [p \in LockProcess |-> FALSE] /\ dead = {}
  /\ plugins = [p \in LockProcess |-> 0]

Alive(t) == ProcessOf[t] \notin dead
Name(t) == errand[t].name
FileFree(t) == fileOf[Name(t)] \in {NoProcess, ProcessOf[t]}
LockGoes(t, at) == lockPc' = [lockPc EXCEPT ![t] = at]

(* The semaphores that a thread of the process refers to.                  *)
Referred(p, ref) == {ref[t] : t \in {u \in Thread : ProcessOf[u] = p}} \ {NoSem}

(* The dictionary is weak: what nobody refers to is not in it any more.    *)
Weak(p, ref, of) ==
  [of EXCEPT ![p] =
    [n \in LockName |-> IF @[n] \in Referred(p, ref) THEN @[n] ELSE NoSem]]

-----------------------------------------------------------------------------
(* get_instance looks first, and asks for the lock if there is none.       *)
GetInstance(t) ==
  /\ lockPc[t] = "idle" /\ Alive(t) /\ Name(t) = Manager
  /\ LockGoes(t, IF instance[ProcessOf[t]] THEN "done" ELSE "register")
  /\ UNCHANGED <<errand, semVars, fileOf, managerVars>>

(* synchronized: any other locked function.                                *)
CallLocked(t) ==
  /\ lockPc[t] = "idle" /\ Alive(t) /\ Name(t) # Manager
  /\ LockGoes(t, "register")
  /\ UNCHANGED <<errand, semVars, fileOf, managerVars>>

(* The semaphore of the name, or a new one, under a lock of its own.       *)
Register(t) ==
  /\ lockPc[t] = "register" /\ Alive(t)
  /\ LET p == ProcessOf[t]
         old == semOf[p][Name(t)] IN
     \E s \in IF old # NoSem THEN {old} ELSE Sem \ Referred(p, mySem) :
       /\ (old = NoSem => \A r \in Sem \ Referred(p, mySem) : s <= r)
       /\ mySem' = [mySem EXCEPT ![t] = s]
       /\ semOf' = [semOf EXCEPT ![p][Name(t)] = s]
  /\ LockGoes(t, "acquire")
  /\ UNCHANGED <<errand, semHeld, fileOf, managerVars>>

Acquire(t) ==
  /\ lockPc[t] = "acquire" /\ Alive(t) /\ mySem[t] \notin semHeld[ProcessOf[t]]
  /\ semHeld' = [semHeld EXCEPT ![ProcessOf[t]] = @ \cup {mySem[t]}]
  /\ LockGoes(t, IF errand[t].external THEN "file" ELSE "inside")
  /\ UNCHANGED <<errand, semOf, mySem, fileOf, managerVars>>

(* _InterProcessLock: tried again and again while another process has it.  *)
LockFile(t) ==
  /\ lockPc[t] = "file" /\ Alive(t) /\ FileFree(t)
  /\ fileOf' = [fileOf EXCEPT ![Name(t)] = ProcessOf[t]]
  /\ LockGoes(t, "inside")
  /\ UNCHANGED <<errand, semVars, managerVars>>

(* Without a directory for the files, or one that can be made, it raises.     *)
NoLockPath(t) ==
  /\ lockPc[t] = "file" /\ Alive(t) /\ LockGoes(t, "release")
  /\ UNCHANGED <<errand, semVars, fileOf, managerVars>>

(* _create_instance looks again under the lock; other functions just run.  *)
InsideLock(t) ==
  /\ lockPc[t] = "inside" /\ Alive(t)
  /\ LockGoes(t, IF Name(t) = Manager /\ ~ instance[ProcessOf[t]]
                 THEN "making" ELSE "release")
  /\ UNCHANGED <<errand, semVars, fileOf, managerVars>>

(* The plugin is found by name or by class and connects to the bus, which  *)
(* takes time and may fail; only then is it the instance.                  *)
MakeInstance(t) ==
  /\ lockPc[t] = "making" /\ Alive(t)
  /\ LET p == ProcessOf[t] IN
     \/ /\ instance' = [instance EXCEPT ![p] = TRUE]
        /\ plugins' = [plugins EXCEPT ![p] = @ + 1]
     \/ UNCHANGED <<instance, plugins>>
  /\ LockGoes(t, "release")
  /\ UNCHANGED <<errand, semVars, fileOf, dead>>

(* Mutant: the file of a function that ended stays locked.                 *)
ReleaseKeepsFile(t) ==
  /\ lockPc[t] = "release" /\ Alive(t)
  /\ LET p == ProcessOf[t]
         ref == [mySem EXCEPT ![t] = NoSem] IN
       /\ semHeld' = [semHeld EXCEPT ![p] = @ \ {mySem[t]}]
       /\ mySem' = ref /\ semOf' = Weak(p, ref, semOf)
  /\ LockGoes(t, "done")
  /\ UNCHANGED <<errand, fileOf, managerVars>>

(* However the function ended, the file is unlocked and the semaphore is   *)
(* given back and forgotten.                                               *)
Release(t) ==
  /\ lockPc[t] = "release" /\ Alive(t)
  /\ LET p == ProcessOf[t]
         ref == [mySem EXCEPT ![t] = NoSem] IN
       /\ semHeld' = [semHeld EXCEPT ![p] = @ \ {mySem[t]}]
       /\ mySem' = ref /\ semOf' = Weak(p, ref, semOf)
       /\ fileOf' = [fileOf EXCEPT ![Name(t)] =
                       IF errand[t].external /\ @ = p THEN NoProcess ELSE @]
  /\ LockGoes(t, "done")
  /\ UNCHANGED <<errand, managerVars>>

(* A crash closes the files, which unlocks them.                           *)
CrashOf(p) ==
  /\ p \notin dead /\ dead' = dead \cup {p}
  /\ fileOf' = [n \in LockName |->
                  IF fileOf[n] = p THEN NoProcess ELSE fileOf[n]]
  /\ UNCHANGED <<lockPc, errand, semVars, instance, plugins>>

-----------------------------------------------------------------------------
LockStep(t) ==
  \/ GetInstance(t) \/ CallLocked(t) \/ Register(t) \/ Acquire(t)
  \/ LockFile(t) \/ NoLockPath(t)
  \/ InsideLock(t) \/ MakeInstance(t) \/ Release(t)

LockNext == (\E t \in Thread : LockStep(t)) \/ \E p \in LockProcess : CrashOf(p)

-----------------------------------------------------------------------------
(* Properties *)

(* Where the threads are; a semaphore is taken by a thread that refers to  *)
(* it, and the dictionary has none that nobody refers to.                  *)
LockTypeOK ==
  /\ lockPc \in [Thread -> {"idle", "register", "acquire", "file", "inside",
                            "making", "release", "done"}]
  /\ \A t \in Thread : errand[t] \in ErrandsOf[t]
  /\ mySem \in [Thread -> Sem \cup {NoSem}] /\ dead \subseteq LockProcess
  /\ fileOf \in [LockName -> LockProcess \cup {NoProcess}]
  /\ semHeld \in [LockProcess -> SUBSET Sem]
  /\ semOf \in [LockProcess -> [LockName -> Sem \cup {NoSem}]]
  /\ instance \in [LockProcess -> BOOLEAN] /\ plugins \in [LockProcess -> Nat]
  /\ \A p \in LockProcess :
       /\ semHeld[p] \subseteq Referred(p, mySem)
       /\ \A n \in LockName : semOf[p][n] \in Referred(p, mySem) \cup {NoSem}

(* A thread refers to the semaphore of its name, which the dictionary has  *)
(* as long, from where it registers to where it releases it.               *)
Refers(t) == mySem[t] # NoSem
Holds(t) == lockPc[t] \in {"file", "inside", "making", "release"}

Registered ==
  \A t \in Thread :
    /\ Refers(t) <=> Holds(t) \/ lockPc[t] = "acquire"
    /\ Refers(t) => \A n \in LockName :
                     semOf[ProcessOf[t]][n] = mySem[t] <=> n = Name(t)

(* A semaphore that is taken has one thread that holds it.                 *)
HeldByOne ==
  /\ \A t \in Thread : Holds(t) => mySem[t] \in semHeld[ProcessOf[t]]
  /\ \A t, u \in Thread : Holds(t) /\ Holds(u) /\ ProcessOf[t] = ProcessOf[u]
       => t = u \/ mySem[t] # mySem[u]
  /\ \A p \in LockProcess : \A s \in semHeld[p] :
       \E t \in Thread : ProcessOf[t] = p /\ Holds(t) /\ mySem[t] = s

(* A function of an external lock runs with its file locked, and only one  *)
(* thread of a process without an instance makes it.                       *)
FileLocked ==
  \A t \in Thread :
    /\ lockPc[t] = "file" => errand[t].external
    /\ Alive(t) /\ lockPc[t] = "inside" /\ errand[t].external
         => fileOf[Name(t)] = ProcessOf[t]
    /\ lockPc[t] = "making" => Name(t) = Manager /\ ~ instance[ProcessOf[t]]

In(t) == Alive(t) /\ lockPc[t] \in {"inside", "making"}

(* No two threads are in functions of one lock at a time: of one process,  *)
(* or of any process when the lock is external to both.                    *)
Exclusive ==
  \A t, u \in Thread : t # u /\ In(t) /\ In(u) /\ Name(t) = Name(u) =>
    ProcessOf[t] # ProcessOf[u] /\ ~ (errand[t].external /\ errand[u].external)

(* A process makes one plugin, however many threads ask for it at once and *)
(* whatever attempts fail before.                                          *)
OneInstance ==
  \A p \in LockProcess : plugins[p] <= 1 /\ (instance[p] <=> plugins[p] = 1)

(* Threads that want the same lock wait for the same semaphore.            *)
SameSemaphore ==
  \A t, u \in Thread :
    /\ ProcessOf[t] = ProcessOf[u] /\ mySem[t] # NoSem /\ mySem[u] # NoSem
    => (mySem[t] = mySem[u] <=> Name(t) = Name(u))

(* Nothing stays locked that no thread holds, after errors and crashes.    *)
NothingLeft ==
  \A n \in LockName : fileOf[n] # NoProcess =>
    \E t \in Thread : /\ Alive(t) /\ ProcessOf[t] = fileOf[n] /\ Name(t) = n
                      /\ errand[t].external /\ lockPc[t] \in {"inside", "release"}

(* Someone can always go on: the threads that are left never wait for each *)
(* other.                                                                  *)
SomeoneGoesOn ==
  (\E t \in Thread : Alive(t) /\ lockPc[t] \in {"acquire", "file"})
    => \E t \in Thread :
         /\ Alive(t)
         /\ \/ lockPc[t] \in {"register", "inside", "making", "release"}
            \/ lockPc[t] = "acquire" /\ mySem[t] \notin semHeld[ProcessOf[t]]
            \/ lockPc[t] = "file" /\ FileFree(t)

LockInv ==
  /\ LockTypeOK /\ Registered /\ HeldByOne /\ FileLocked /\ NothingLeft
  /\ Exclusive /\ OneInstance /\ SameSemaphore /\ SomeoneGoesOn

-----------------------------------------------------------------------------
(***************************************************************************)
(* The policy language: a rule is a text of checks joined by and, or, not  *)
(* and parentheses, or a list of lists of checks. A stack of tokens is     *)
(* reduced whenever its top matches, until the rule is one check. A check  *)
(* is what it answers for each thing it may be asked about: "T", "F", or   *)
(* "E" for a KeyError, when the credentials or the target lack a key.      *)
(***************************************************************************)
CONSTANTS
  RuleWords,     \* the words a text is made of: a key of WordTokens each
  MaxWords,  \* the longest text
  MaxLists   \* the longest list of a rule that is a list

ASSUME PolicyAssumption == MaxWords \in Nat /\ MaxLists \in Nat

VARIABLES
  polText,   \* the words of the text that were read
  waiting,   \* the tokens of the last word that are not on the stack yet
  stack,     \* tokens with their values
  polPc,     \* "reading" or "judged"
  listRule,  \* a rule that is a list of lists, instead of a text
  ruleCheck  \* the check that was made of the rule, or a token that is none

polVars == <<polText, waiting, stack, polPc, listRule, ruleCheck>>

(* What a check may be asked about: the answer of a check of the           *)
(* credentials, that of another rule, which may be absent, and that of the *)
(* default rule, if there is one.                                          *)
Case == [a : {"T", "F", "E"}, r : {"T", "F", "E", "absent"}, default : {"T", "F", "none"}]

(* Rules.__missing__ and RuleCheck: an absent rule is the default one, and *)
(* whatever has no answer is false.                                        *)
OfRule(c) ==
  LET found == IF c.r # "absent" THEN c.r ELSE IF c.default = "none" THEN "E" ELSE c.default
  IN IF found = "E" THEN "F" ELSE found

(* _parse_check: what is not understood is false.                          *)
Atoms == {"a", "r", "@", "x"}
ParseCheck(word) ==
  [c \in Case |-> CASE word = "a" -> c.a [] word = "r" -> OfRule(c)
                    [] word = "@" -> "T" [] word = "x" -> "F"]

(* Mutant: the inverse of what cannot be looked up is true.                *)
NotCheckOfError(check) == [c \in Case |-> IF check[c] = "T" THEN "F" ELSE "T"]

NotCheck(check) ==
  [c \in Case |-> CASE check[c] = "T" -> "F" [] check[c] = "F" -> "T" [] OTHER -> "E"]

(* AndCheck and OrCheck ask in order, and no further than they must.       *)
AndCheck(x, y) == [c \in Case |-> IF x[c] = "T" THEN y[c] ELSE x[c]]
OrCheck(x, y) == [c \in Case |-> IF x[c] = "F" THEN y[c] ELSE x[c]]

TrueCheck == [c \in Case |-> "T"]
FalseCheck == [c \in Case |-> "F"]

-----------------------------------------------------------------------------
(* _parse_tokenize: parentheses are cut off a word at both its ends; a     *)
(* quoted string is a token of its own unless a parenthesis follows it.    *)
WordTokens(w) ==
  CASE w = "(a" -> <<"(", "a">> [] w = "r)" -> <<"r", ")">> [] w = "'s')" -> <<"x", ")">>
    [] w = "()" -> <<"(", ")">> [] OTHER -> <<w>>

TokenOf(w) == IF w \in Atoms THEN [tok |-> "check", val |-> ParseCheck(w)]
                             ELSE [tok |-> w, val |-> FalseCheck]

(* The reducers of ParseState, by the tokens they match.                   *)
Reductions(toks) ==
  CASE toks = <<"(", "check", ")">> -> "check" [] toks = <<"(", "and_expr", ")">> -> "check"
    [] toks = <<"(", "or_expr", ")">> -> "check" [] toks = <<"check", "and", "check">> -> "and_expr"
    [] toks = <<"and_expr", "and", "check">> -> "and_expr"
    [] toks = <<"check", "or", "check">> -> "or_expr"
    [] toks = <<"or_expr", "or", "check">> -> "or_expr"
    [] toks = <<"not", "check">> -> "check" [] OTHER -> "none"

Top(n) == SubSeq(stack, Len(stack) - n + 1, Len(stack))
Toks(items) == [i \in DOMAIN items |-> items[i].tok]
TopMatches(n) == Len(stack) >= n /\ Reductions(Toks(Top(n))) # "none"
Reducible == TopMatches(2) \/ TopMatches(3)

Combined(items) ==
  IF Len(items) = 2 THEN NotCheck(items[2].val)
  ELSE IF items[1].tok = "(" THEN items[2].val
  ELSE IF items[2].tok = "and" THEN AndCheck(items[1].val, items[3].val)
  ELSE OrCheck(items[1].val, items[3].val)
Reduced(items) == [tok |-> Reductions(Toks(items)), val |-> Combined(items)]

-----------------------------------------------------------------------------
(* The next word of the text, as long as it goes on.                       *)
NextWord ==
  /\ polPc = "reading" /\ listRule = << >> /\ waiting = << >> /\ ~Reducible
  /\ Len(polText) < MaxWords
  /\ \E w \in RuleWords : polText' = Append(polText, w) /\ waiting' = WordTokens(w)
  /\ UNCHANGED <<stack, polPc, listRule, ruleCheck>>

(* ParseState.shift: one token, once nothing can be reduced.               *)
Shift ==
  /\ waiting # << >> /\ ~Reducible
  /\ stack' = Append(stack, TokenOf(Head(waiting))) /\ waiting' = Tail(waiting)
  /\ UNCHANGED <<polText, polPc, listRule, ruleCheck>>

(* ParseState.reduce *)
Reduce ==
  /\ \E n \in {2, 3} :
       /\ TopMatches(n)
       /\ stack' = Append(SubSeq(stack, 1, Len(stack) - n), Reduced(Top(n)))
  /\ UNCHANGED <<polText, waiting, polPc, listRule, ruleCheck>>

(* A token that is no check, which nothing is asked of.                    *)
NoCheck == [c \in {} |-> "F"]

(* ParseState.result: one value, whatever it is a value of. An empty text  *)
(* is always true, and one that cannot be parsed is false.                 *)
Result ==
  IF polText = << >> THEN TrueCheck
  ELSE IF Len(stack) # 1 THEN FalseCheck
  ELSE IF stack[1].tok \in {"check", "and_expr", "or_expr"} THEN stack[1].val
  ELSE NoCheck

ParseTextRule ==
  /\ polPc = "reading" /\ listRule = << >> /\ waiting = << >> /\ ~Reducible
  /\ polPc' = "judged" /\ ruleCheck' = Result
  /\ UNCHANGED <<polText, waiting, stack, listRule>>

(* _parse_list_rule: an "or" of "and"s, empty ones left out. No list at    *)
(* all is true, none but empty ones is false. Both ask their checks in     *)
(* order; the first that is not true, or not false, has the last word.     *)
FirstOf(S) == CHOOSE i \in S : \A j \in S : i <= j
AllOf(list) ==
  [c \in Case |-> LET against == {i \in DOMAIN list : ParseCheck(list[i])[c] # "T"}
                 IN IF against = {} THEN "T" ELSE ParseCheck(list[FirstOf(against)])[c]]
ListCheck(lists) ==
  [c \in Case |-> LET for == {i \in DOMAIN lists : lists[i] # << >> /\ AllOf(lists[i])[c] # "F"}
                 IN IF lists = << >> THEN "T"
                    ELSE IF for = {} THEN "F" ELSE AllOf(lists[FirstOf(for)])[c]]

ParseListRule ==
  /\ polPc = "reading" /\ listRule # << >>
  /\ polPc' = "judged" /\ ruleCheck' = ListCheck(listRule)
  /\ UNCHANGED <<polText, waiting, stack, listRule>>

PolInit ==
  /\ polText = << >> /\ waiting = << >> /\ stack = << >> /\ polPc = "reading"
  /\ listRule \in SeqOf(SeqOf(Atoms, MaxLists), MaxLists) /\ ruleCheck = NoCheck

PolNext == NextWord \/ Shift \/ Reduce \/ ParseTextRule \/ ParseListRule

PolSpec == PolInit /\ [][PolNext]_polVars

-----------------------------------------------------------------------------
(* policy.check: what has no answer is false; a rule that is no check      *)
(* cannot be called, which is an error of the program.                     *)
Verdict(c) ==
  IF DOMAIN ruleCheck # Case THEN "error"
  ELSE IF ruleCheck[c] = "E" THEN "F" ELSE ruleCheck[c]

(* The language as its grammar has it: "not" takes the check behind it,    *)
(* and a chain has one kind of operator.                                   *)
Readings(s) ==
  LET Way == {"check", "and", "or"}
      reads[way \in Way, i \in 1 .. Len(s) + 1, j \in 0 .. Len(s)] ==
        LET first(k) == reads["check", i, k - 1] \cup reads[way, i, k - 1]
            both(d, e) == IF way = "and" THEN AndCheck(d, e) ELSE OrCheck(d, e)
        IN IF i > j THEN {}
           ELSE IF way # "check"
           THEN UNION {{both(d, e) : d \in first(k), e \in reads["check", k + 1, j]} :
                         k \in {k \in i + 1 .. j - 1 : s[k] = way}}
           ELSE IF i = j THEN {ParseCheck(x) : x \in {s[i]} \cap Atoms}
           ELSE IF s[i] = "not" THEN {NotCheck(d) : d \in reads["check", i + 1, j]}
           ELSE IF s[i] = "(" /\ s[j] = ")"
           THEN UNION {reads[w, i + 1, j - 1] : w \in Way}
           ELSE {}
  IN UNION {reads[w, 1, Len(s)] : w \in Way}

Written == FlattenSeq([i \in DOMAIN polText |-> WordTokens(polText[i])])

CheckAnswer == {"T", "F", "E"}
TokenName == RuleWords \cup Atoms \cup {"(", ")", "check", "and_expr", "or_expr"}
PolTypeOK ==
  /\ polText \in Seq(RuleWords) /\ Len(polText) <= MaxWords
  /\ polPc \in {"reading", "judged"} /\ waiting \in Seq(TokenName) /\ Len(waiting) <= 2
  /\ stack \in Seq([tok : TokenName, val : [Case -> CheckAnswer]])
  /\ listRule \in Seq(Seq(Atoms))
  /\ \A k \in 1 .. Len(stack) - 1 :
       stack[k].tok = "not" => stack[k + 1].tok # "check" \/ k = Len(stack) - 1

(* A text that the grammar reads becomes the check that it reads, and      *)
(* every other fails closed: it is false in each case, or cannot be called *)
(* where it is one word that is no check.                                  *)
ParsedAsMeant ==
  polPc = "judged" /\ listRule = << >> /\ polText # << >> =>
    LET meant == Readings(Written)
    IN IF meant # {} THEN meant = {ruleCheck}
       ELSE ruleCheck = FalseCheck \/ (DOMAIN ruleCheck # Case /\ Len(Written) = 1)

(* What cannot be looked up never tips the scales: a rule that allows      *)
(* without it also allows with it, whatever it were. Only a rule that      *)
(* another one is asked about may be missing and allow, as under a "not".  *)
MissingNeverAllows ==
  polPc = "judged" =>
    \A c \in Case : c.a = "E" /\ Verdict(c) = "T" =>
      \A answer \in {"T", "F"} : Verdict([c EXCEPT !.a = answer]) = "T"

(* A list of lists allows where all checks of one of its lists do, as long *)
(* as there is an answer to each check; so does the empty list.            *)
ListAsText ==
  polPc = "judged" /\ listRule # << >> =>
    \A c \in Case : c.a # "E" =>
      (Verdict(c) = "T" <=>
         \E i \in DOMAIN listRule :
           /\ listRule[i] # << >>
           /\ \A k \in DOMAIN listRule[i] : ParseCheck(listRule[i][k])[c] = "T")

(* What these rest on: each check on the stack, and the one that was made  *)
(* of the rule, answers without the credentials' key as it would with it.  *)
Known(c, answer) == [c EXCEPT !.a = answer]
Steady(check) ==
  \A c \in Case, answer \in {"T", "F"} :
    c.a = "E" /\ check[c] # "E" => check[Known(c, answer)] = check[c]
SteadyChecks ==
  /\ \A i \in DOMAIN stack : Steady(stack[i].val)
  /\ polPc = "judged" =>
       IF listRule # << >> THEN ruleCheck = ListCheck(listRule)
       ELSE ruleCheck = NoCheck \/ (ruleCheck \in [Case -> CheckAnswer] /\ Steady(ruleCheck))

PolInv == PolTypeOK /\ MissingNeverAllows /\ ListAsText /\ SteadyChecks
=============================================================================
