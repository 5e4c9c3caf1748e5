---------------------------- MODULE CommandLine -----------------------------
(***************************************************************************)
(* The shell. First what it makes of the words it is given: options,       *)
(* commands, names of rows. Then the values it puts into a request and     *)
(* prints of an answer.                                                    *)
(***************************************************************************)
EXTENDS Naturals, Sequences, SequencesExt, FiniteSets, TLC

(***************************************************************************)
(* One run of the command line client: shell.py decides what the arguments *)
(* ask for and how to authenticate, parse_args_to_dict takes the options a *)
(* command does not know, and the command looks its resource up by id and  *)
(* by name before it acts on it, while others create and delete.           *)
(***************************************************************************)
CONSTANTS
  Uuid,        \* the ids of rows
  RowName,     \* the names of rows, which may look like ids
  MaxArgs,     \* the longest command line
  MaxSpecs     \* the most unknown items of a command

NoRow == "no row"
NoId == "no id"

ASSUME CommandLineAssumption ==
  /\ IsFiniteSet(Uuid) /\ MaxArgs \in Nat /\ MaxSpecs \in Nat
  /\ {NoRow, NoId} \cap (Uuid \cup RowName) = {}

VARIABLES
  cliPhase,    \* what the run is at
  argv,        \* the arguments of the program
  exit,        \* its exit status, or 2 while it runs
  auth,        \* the authentication options, and the version chosen
  specs,       \* the values_specs of the command
  scan,        \* the loop of parse_args_to_dict over them
  verb,        \* the command: show, update or delete
  given,       \* the id or name it was given
  target,      \* the id it was found to be
  rowsOf,      \* rowsOf[u]: the name of row u of the server, or NoRow
  spent        \* the ids that were used

cliVars == <<cliPhase, argv, exit, auth, specs, scan, verb, given, target, rowsOf, spent>>

Verbs == {"show", "update", "delete"}
Words == {"cmd", "-h", "help", "-v", "word", "bash-completion"}
Specs == {"--a", "--b", "--a=v", "type=int", "type=list", "list=true", "action=clear",
          "v", "-x"}

-----------------------------------------------------------------------------
(* The arguments of the program: VNFSvcShell.run                           *)

FirstWord(args, ws) ==
  LET at == {i \in DOMAIN args : args[i] \in ws}
  IN IF at = {} THEN 0 ELSE CHOOSE i \in at : \A j \in at : i <= j

(* The first command, -h and help decide; 0 is for none.                   *)
Rewritten(args) ==
  LET command == FirstWord(args, {"cmd"})
      word == FirstWord(args, {"help"})
  IN IF command > 0 /\ FirstWord(args, {"-h"}) > command THEN <<"help", "cmd">>
     ELSE IF word > 0 /\ command = 0 THEN [args EXCEPT ![word] = "-h"] ELSE args

(* What is left when the global options are taken, of which -h prints the  *)
(* help at once; without anything left the shell is interactive.           *)
Route(args) ==
  LET line == Rewritten(args)
      remainder == FirstWord(line, Words \ {"-h", "-v"})
  IN IF "bash-completion" \in ToSet(args) THEN "completion"
     ELSE IF "-h" \in ToSet(line) THEN "help"
     ELSE IF remainder = 0 THEN "interactive"
     ELSE IF line[remainder] = "help" THEN "help"
     ELSE IF line[remainder] = "cmd" THEN "command" ELSE "unknown"

Exit(n) == cliPhase' = "end" /\ exit' = n

(* The two kinds of help and completion succeed; a wrong word fails.       *)
Run ==
  /\ cliPhase = "argv"
  /\ IF Route(argv) \in {"command", "interactive"}
       THEN cliPhase' = "auth" /\ argv' = << >> /\ UNCHANGED exit
       ELSE Exit(IF Route(argv) = "unknown" THEN 1 ELSE 0) /\ UNCHANGED argv
  /\ UNCHANGED <<auth, specs, scan, verb, given, target, rowsOf, spent>>

-----------------------------------------------------------------------------
(* authenticate_user and the session of Keystone it makes in any case      *)

NoAuth == [domain |-> FALSE, offered |-> {}, version |-> "none"]

AuthOptions == {"token", "url", "user", "password", "project", "domain", "auth_url"}

Sufficient(o) ==
  IF "keystone" \notin o THEN "url" \in o
  ELSE IF o \cap {"token", "url"} # {} THEN {"token", "url"} \subseteq o
  ELSE {"user", "password", "project", "auth_url"} \subseteq o

(* Version 3 serves only where a domain is named or version 2 is missing.  *)
Version(domain, offered) ==
  IF ("v2" \in offered /\ ~domain) \/ "v3" \notin offered THEN "v2" ELSE "v3"

(* Keystone's versions are discovered at its address, or told by it; with  *)
(* no address neither works, not even where the options were sufficient.   *)
AuthenticateUser ==
  /\ cliPhase = "auth"
  /\ \E o \in SUBSET (AuthOptions \cup {"keystone"}), offered \in SUBSET {"v2", "v3"} :
       IF Sufficient(o) /\ "auth_url" \in o /\ offered # {}
         THEN /\ cliPhase' = "session"
              /\ auth' = [domain |-> "domain" \in o, offered |-> offered,
                          version |-> Version("domain" \in o, offered)]
              /\ UNCHANGED exit
         ELSE Exit(1) /\ UNCHANGED auth
  /\ UNCHANGED <<argv, specs, scan, verb, given, target, rowsOf, spent>>

(* run_command: with the session the client is made, and the command has   *)
(* the items that its parser does not know.                                *)
RunCommand ==
  /\ cliPhase = "session" /\ cliPhase' = "command"
  /\ auth' = NoAuth /\ specs' \in SeqOf(Specs, MaxSpecs)
  /\ UNCHANGED <<argv, exit, scan, verb, given, target, rowsOf, spent>>

-----------------------------------------------------------------------------
(* parse_args_to_dict: what is unknown is --option, then type=, list=true  *)
(* and action=clear, then values.                                          *)

IsOption(x) == x \in {"--a", "--b", "--a=v"}
OptionName(x) == IF x = "--a=v" THEN "--a" ELSE x

NoOption == "none"
Fresh == [i |-> 1, now |-> NoOption, n |-> 0, type |-> "none", many |-> FALSE,
          clear |-> FALSE, out |-> << >>, shape |-> << >>, bad |-> FALSE]

(* _process_previous_argument: nargs, store_true, or no argument at all.   *)
ShapeSeen(s) ==
  IF s.n > 1 \/ s.many \/ s.type = "list" THEN "list"
  ELSE IF s.n = 1 THEN "one" ELSE IF s.clear THEN "cleared" ELSE "true"

Previous(s) ==
  IF s.now = NoOption THEN s
  ELSE IF s.n = 0 /\ (s.type # "none" \/ s.many) THEN [s EXCEPT !.bad = TRUE]
  ELSE [s EXCEPT !.out = IF ShapeSeen(s) = "cleared" THEN Front(@) ELSE @,
                 !.shape = [@ EXCEPT ![OptionName(s.now)] = ShapeSeen(s)]]

(* Mutant: list=true lasts.                                                *)
OptionUnreset(s, x) ==
  IF OptionName(x) \in DOMAIN s.shape THEN [s EXCEPT !.bad = TRUE]
  ELSE [i |-> s.i, now |-> x, n |-> IF x = "--a=v" THEN 1 ELSE 0, type |-> "none",
        many |-> s.many, clear |-> FALSE, out |-> Append(s.out, x),
        shape |-> [o \in DOMAIN s.shape \cup {OptionName(x)} |->
                     IF o \in DOMAIN s.shape THEN s.shape[o] ELSE "one"], bad |-> FALSE]

Option(s, x) ==
  IF OptionName(x) \in DOMAIN s.shape THEN [s EXCEPT !.bad = TRUE]
  ELSE [i |-> s.i, now |-> x, n |-> IF x = "--a=v" THEN 1 ELSE 0, type |-> "none",
        many |-> FALSE, clear |-> FALSE, out |-> Append(s.out, x),
        shape |-> [o \in DOMAIN s.shape \cup {OptionName(x)} |->
                     IF o \in DOMAIN s.shape THEN s.shape[o] ELSE "one"], bad |-> FALSE]

Typed(x) == x \in {"type=int", "type=list"}

(* What is not understood is a value, which an option must be open for.    *)
NextItem(s, x) ==
  IF IsOption(x) THEN LET p == Previous(s) IN IF p.bad THEN p ELSE Option(p, x)
  ELSE IF Typed(x) /\ s.now = NoOption THEN [s EXCEPT !.bad = TRUE]
  ELSE IF Typed(x) /\ s.type = "none"
    THEN [s EXCEPT !.type = IF x = "type=list" THEN "list" ELSE "int"]
  ELSE IF x = "list=true" THEN [s EXCEPT !.many = TRUE]
  ELSE IF x = "action=clear" THEN [s EXCEPT !.clear = TRUE]
  ELSE IF s.now \in {NoOption, "--a=v"} \/ x = "-x" THEN [s EXCEPT !.bad = TRUE]
  ELSE [s EXCEPT !.n = @ + 1, !.out = Append(@, x)]

(* The loop over the items; a CommandError ends the program.               *)
ParseItem ==
  /\ cliPhase = "command" /\ scan.i <= Len(specs)
  /\ LET s == NextItem(scan, specs[scan.i])
     IN IF s.bad THEN Exit(1) /\ UNCHANGED scan
        ELSE scan' = [s EXCEPT !.i = @ + 1] /\ UNCHANGED <<cliPhase, exit>>
  /\ UNCHANGED <<argv, auth, specs, verb, given, target, rowsOf, spent>>

ParseEnd ==
  /\ cliPhase = "command" /\ scan.i > Len(specs)
  /\ IF Previous(scan).bad THEN Exit(1) /\ UNCHANGED scan
     ELSE cliPhase' = "parsed" /\ scan' = Previous(scan) /\ UNCHANGED exit
  /\ UNCHANGED <<argv, auth, specs, verb, given, target, rowsOf, spent>>

-----------------------------------------------------------------------------
(* The command: find_resourceid_by_name_or_id, then the request itself     *)

(* UpdateCommand wants something to update. The server has rows by now.    *)
Begin ==
  /\ cliPhase = "parsed"
  /\ \E v \in Verbs, g \in Uuid \cup RowName :
       /\ verb' = v /\ given' = g
       /\ IF v = "update" /\ scan.shape = << >> THEN Exit(1)
          ELSE cliPhase' = "byId" /\ UNCHANGED exit
  /\ specs' = << >> /\ scan' = Fresh
  /\ \E used \in SUBSET Uuid :
       /\ spent' = used
       /\ rowsOf' \in {r \in [Uuid -> RowName \cup {NoRow}] :
                         \A u \in Uuid \ used : r[u] = NoRow}
  /\ UNCHANGED <<argv, auth, target>>

(* By id only if it looks like one; else, or if there is none, by name.    *)
FindById ==
  /\ cliPhase = "byId"
  /\ IF given \in Uuid /\ rowsOf[given] # NoRow
       THEN target' = given /\ cliPhase' = "act"
       ELSE cliPhase' = "byName" /\ UNCHANGED target
  /\ UNCHANGED <<argv, exit, auth, specs, scan, verb, given, rowsOf, spent>>

Named(name) == {u \in Uuid : rowsOf[u] = name}

(* Mutant: the first of the rows that have the name.                       *)
FindByNameFirst ==
  /\ cliPhase = "byName"
  /\ IF Named(given) # {}
       THEN target' \in Named(given) /\ cliPhase' = "act" /\ UNCHANGED exit
       ELSE Exit(1) /\ UNCHANGED target
  /\ UNCHANGED <<argv, auth, specs, scan, verb, given, rowsOf, spent>>

FindByName ==
  /\ cliPhase = "byName"
  /\ IF Cardinality(Named(given)) = 1
       THEN target' \in Named(given) /\ cliPhase' = "act" /\ UNCHANGED exit
       ELSE Exit(1) /\ UNCHANGED target
  /\ UNCHANGED <<argv, auth, specs, scan, verb, given, rowsOf, spent>>

(* The row may have gone since; a delete of what is gone succeeds too. An  *)
(* exception of the request is logged, and the exit status is 1, even if   *)
(* only the answer was lost.                                               *)
Act ==
  /\ cliPhase = "act"
  /\ \/ Exit(1) /\ UNCHANGED rowsOf
     \/ verb # "delete" /\ rowsOf[target] # NoRow /\ Exit(0) /\ UNCHANGED rowsOf
     \/ /\ verb = "delete" /\ rowsOf' = [rowsOf EXCEPT ![target] = NoRow]
        /\ \E n \in {0, 1} : Exit(n)
  /\ UNCHANGED <<argv, auth, specs, scan, verb, given, target, spent>>

(* Others create and delete rows of the server.                            *)
OthersCreate ==
  /\ cliPhase \in {"byId", "byName", "act"}
  /\ \E u \in Uuid \ spent, name \in RowName :
       /\ rowsOf' = [rowsOf EXCEPT ![u] = name]
       /\ spent' = spent \cup {u}
  /\ UNCHANGED <<cliPhase, argv, exit, auth, specs, scan, verb, given, target>>

OthersDelete ==
  /\ cliPhase \in {"byId", "byName", "act"}
  /\ \E u \in Uuid : rowsOf[u] # NoRow /\ rowsOf' = [rowsOf EXCEPT ![u] = NoRow]
  /\ UNCHANGED <<cliPhase, argv, exit, auth, specs, scan, verb, given, target, spent>>

-----------------------------------------------------------------------------
CliInit ==
  /\ cliPhase = "argv" /\ argv \in SeqOf(Words, MaxArgs) /\ exit = 2
  /\ auth = NoAuth /\ specs = << >> /\ scan = Fresh
  /\ verb = "show" /\ given = NoId /\ target = NoId
  /\ rowsOf = [u \in Uuid |-> NoRow] /\ spent = {}

CliNext == Run \/ AuthenticateUser \/ RunCommand \/ ParseItem \/ ParseEnd \/ Begin
           \/ FindById \/ FindByName \/ Act \/ OthersCreate \/ OthersDelete

CliSpec == CliInit /\ [][CliNext]_cliVars

-----------------------------------------------------------------------------
(* Words, options and result of a command keep their types.                *)
ShapesOf == UNION {[D -> {"one", "list", "true", "cleared"}] : D \in SUBSET {"--a", "--b"}}
ScanState ==
  [i : Nat, now : Specs \cup {NoOption}, n : Nat, type : {"none", "int", "list"},
   many : BOOLEAN, clear : BOOLEAN, out : Seq(Specs), shape : ShapesOf, bad : BOOLEAN]
CliTypeOK ==
  /\ cliPhase \in {"argv", "auth", "session", "command", "parsed", "byId", "byName",
                   "act", "end"}
  /\ argv \in Seq(Words) /\ exit \in 0 .. 2 /\ (exit = 2 <=> cliPhase # "end")
  /\ auth.version \in {"none", "v2", "v3"}
  /\ specs \in Seq(Specs) /\ scan \in ScanState /\ ~scan.bad /\ scan.i \in 1 .. Len(specs) + 1
  /\ verb \in Verbs /\ given \in Uuid \cup RowName \cup {NoId}
  /\ target \in Uuid \cup {NoId}
  /\ rowsOf \in [Uuid -> RowName \cup {NoRow}] /\ spent \subseteq Uuid

(* Whoever asks for help is not taken to want the command, nor told of a   *)
(* wrong one: no -h anywhere, and no help before the command, leads to a   *)
(* request, and help without a command is given whatever else is said.     *)
HelpHarmless ==
  cliPhase = "argv" =>
    /\ Route(argv) = "command" =>
         /\ "-h" \notin ToSet(argv)
         /\ \A i \in DOMAIN argv : argv[i] = "help" => \E k \in 1 .. i : argv[k] = "cmd"
    /\ Route(argv) \in {"unknown", "interactive"} =>
         "help" \notin ToSet(argv) \/ "cmd" \in ToSet(argv)

(* A domain is not dropped where Keystone has the version that knows it,   *)
(* and the version is one that Keystone offers.                            *)
DomainKept ==
  auth # NoAuth => /\ auth.version \in auth.offered
                   /\ auth.domain /\ "v3" \in auth.offered => auth.version = "v3"

(* What was written from option o up to the next option, by its places.    *)
NamedAt(items, o, i) == IsOption(items[i]) /\ OptionName(items[i]) = o
FirstAt(items, o, i) ==
  i \in DOMAIN items /\ NamedAt(items, o, i) /\ \A j \in 1 .. i - 1 : ~NamedAt(items, o, j)
Segment(items, o) ==
  {i \in DOMAIN items : \E k \in 1 .. i : /\ FirstAt(items, o, k)
                                          /\ \A j \in k + 1 .. i : ~IsOption(items[j])}

(* A type= behind another one is a value, too.                             *)
Valued(items, places) ==
  {i \in places : \/ items[i] \in {"v", "--a=v"}
                  \/ Typed(items[i]) /\ \E j \in places : j < i /\ Typed(items[j])}

(* An option is a list if it has two values or is said to be one, a flag   *)
(* without values, left out if it is cleared, and else has its one value;  *)
(* nothing written behind another option matters.                          *)
Stands(items, places, x) == \E i \in places : items[i] = x
ShapeOf(items, places) ==
  LET values == Valued(items, places)
  IN IF (\E i, j \in values : i # j) \/ Stands(items, places, "list=true")
        \/ Stands(items, places \ values, "type=list") THEN "list"
     ELSE IF values # {} THEN "one"
     ELSE IF Stands(items, places, "action=clear") THEN "cleared" ELSE "true"

(* What parse_args_to_dict accepts it takes for what was written, and the  *)
(* arguments it hands on lack the cleared options and no other.            *)
Handed(out, shape) ==
  \A o \in DOMAIN shape :
    shape[o] # "cleared" <=> \E i \in DOMAIN out : IsOption(out[i]) /\ OptionName(out[i]) = o
AsWritten(items, shape) == \A o \in DOMAIN shape : shape[o] = ShapeOf(items, Segment(items, o))

ParsedAsWritten ==
  cliPhase = "parsed" => AsWritten(specs, scan.shape) /\ Handed(scan.out, scan.shape)

(* A command goes on only with the row it was given: the row of that id,   *)
(* or the one row of that name.                                            *)
OneRowMeant == [][target' # target => target' = given \/ Named(given) = {target'}]_cliVars

(* A delete that reports success has left no such row, whoever took it     *)
(* away, and a row of another name or id is never touched.                 *)
StatusTrue ==
  cliPhase = "end" /\ target # NoId =>
    /\ exit = 0 /\ verb = "delete" => rowsOf[target] = NoRow
    /\ target = given \/ rowsOf[target] \in {given, NoRow}

(* What these rest on: no item is parsed before the command has any,   *)
(* only an id that was used has a row, and a target is such an id that the *)
(* command looked up for what it was given.                                *)
TargetFound ==
  /\ cliPhase \in {"argv", "auth", "session"} => scan = Fresh /\ specs = << >>
  /\ \A u \in Uuid : rowsOf[u] # NoRow => u \in spent
  /\ target # NoId => cliPhase \in {"act", "end"} /\ target \in spent
  /\ cliPhase \in {"byId", "byName", "act"} => given \in Uuid \cup RowName
  /\ cliPhase = "act" =>
       target # NoId /\ (target = given \/ rowsOf[target] \in {given, NoRow})

(* What ParsedAsWritten rests on: the option that is open is as it was     *)
(* written so far, the others are as they were written, and the arguments  *)
(* handed on have each option once.                                        *)
TakenAs(items, places, s) ==
  LET values == Valued(items, places)
  IN /\ s.type # "none" <=> \E i \in places : Typed(items[i])
     /\ s.type = "list" <=> Stands(items, places \ values, "type=list")
     /\ s.many <=> Stands(items, places, "list=true")
     /\ s.clear <=> Stands(items, places, "action=clear")
     /\ s.n = 0 <=> values = {}
     /\ s.n > 1 <=> \E i, j \in values : i # j
OpenFrom(items, s, k) ==
  /\ FirstAt(items, OptionName(s.now), k) /\ k < s.i /\ items[k] = s.now
  /\ \A j \in k + 1 .. s.i - 1 : ~IsOption(items[j])
  /\ TakenAs(items, k .. s.i - 1, s)
IsOpen(items, s) ==
  /\ IsOption(s.now) /\ OptionName(s.now) \in DOMAIN s.shape
  /\ s.shape[OptionName(s.now)] = "one"
  /\ \E k \in DOMAIN items : OpenFrom(items, s, k)
  /\ s.n = 0 => s.out # << >> /\ s.out[Len(s.out)] = s.now
ClosedAs(items, s, o) ==
  /\ \E k, m \in DOMAIN items : FirstAt(items, o, k) /\ k < m /\ m < s.i /\ IsOption(items[m])
  /\ s.shape[o] = ShapeOf(items, Segment(items, o))
HandedOnce(out, shape) ==
  \A i, j \in DOMAIN out :
    IsOption(out[i]) =>
      /\ OptionName(out[i]) \in DOMAIN shape
      /\ IsOption(out[j]) /\ OptionName(out[i]) = OptionName(out[j]) => i = j
SoFar(items, s) ==
  /\ \A i \in DOMAIN items : i < s.i /\ IsOption(items[i]) => OptionName(items[i]) \in DOMAIN s.shape
  /\ IF s.now = NoOption THEN s.shape = << >> ELSE IsOpen(items, s)
  /\ \A o \in DOMAIN s.shape : o = OptionName(s.now) \/ ClosedAs(items, s, o)
  /\ Handed(s.out, s.shape) /\ HandedOnce(s.out, s.shape)

ParsedSoFar == cliPhase = "command" => SoFar(specs, scan)

CliInv ==
  /\ CliTypeOK /\ HelpHarmless /\ DomainKept /\ ParsedAsWritten /\ StatusTrue /\ TargetFound
  /\ ParsedSoFar

-----------------------------------------------------------------------------
(***************************************************************************)
(* What a command of the client makes of its options and of the answer:    *)
(* the options its parser knows are merged with those behind the "--", the *)
(* query or the body is put together and sent, and the answer becomes a    *)
(* table. CommandLine is about the row a command acts on.                  *)
(***************************************************************************)
CONSTANTS
  Field,     \* the attributes of a resource
  Net,       \* the networks of a service, which key --networks
  NetId,     \* the ids they get
  Vdu,       \* the names of VDUs
  Kinds,     \* the commands
  MaxRows    \* the longest list the server answers with

NoColumn == "no column"
AnyVdu == "no VDU"

ASSUME CommandValuesAssumption ==
  /\ MaxRows \in Nat
  /\ "" \notin Net /\ AnyVdu \notin Vdu /\ NoColumn \notin Field /\ IsFiniteSet(Field)

VARIABLES
  typed,   \* what was typed
  known,   \* the options with a list of values that the parser knows
  extra,   \* the options behind the "--" that are left
  cvPc,    \* what the command is at
  request,    \* the query or the body
  rowsBack,   \* the rows of the answer, or the catalogs of a driver by VDU
  printed    \* the columns and rows printed

valuesVars == <<typed, known, extra, cvPc, request, rowsBack, printed>>

AllKinds == {"list", "show", "driver", "create", "activate", "diagnose", "update"}
ASSUME KindsAssumption == Kinds \subseteq AllKinds

(* These have an option with a list of values: --fields, --networks, and   *)
(* --vdu-id of diagnostics.                                                *)
ListOption == {"list", "create", "diagnose"}

NoMap == [x \in {} |-> x]
NoTable == [columns |-> << >>, rows |-> << >>]

(* A value of --networks is a pair, unless it has no "=" in it.            *)
BadPair == [net |-> "", id |-> ""]
NetPairs == [net : Net, id : NetId] \cup {BadPair}
Values(k) ==
  IF k = "list" THEN Field
  ELSE IF k = "create" THEN NetPairs ELSE SUBSET Vdu

(* The same option behind the "--" has one value or a list of them.        *)
NoExtra == [many |-> FALSE, values |-> << >>]
Extra(k) ==
  {NoExtra} \cup [many : IF k \in ListOption THEN BOOLEAN ELSE {}, values : SeqOf(Values(k), 1) \ {<< >>}]

TypedAs(k) ==
  [kind : {k}, list : IF k \in ListOption THEN SeqOf(Values(k), 2) ELSE {<< >>},
   extra : Extra(k),
   details : IF k \in {"list", "show"} THEN BOOLEAN ELSE {FALSE},
   fields : IF k = "show" THEN SeqOf(Field, 1) ELSE {<< >>},
   columns : IF k = "list" THEN SeqOf(Field \cup {NoColumn}, 2) ELSE {<< >>},
   vdu : IF k = "driver" THEN Vdu \cup {AnyVdu} ELSE {AnyVdu},
   flag : IF k = "activate" THEN {"true", "FALSE", "yes"} ELSE {""},
   methods : IF k = "update" THEN SUBSET NetId ELSE {{}}]

(* A key that is not sent has the value it has here.                       *)
NothingSent == [fields |-> << >>, verbose |-> FALSE, attributes |-> NoMap, beside |-> << >>,
              vdus |-> {}, enable |-> "", method |-> ""]

ValuesInit ==
  /\ \E k \in Kinds : typed \in TypedAs(k)
  /\ known = typed.list /\ extra = typed.extra
  /\ cvPc = "merge" /\ request = NothingSent /\ rowsBack = << >> /\ printed = NoTable

-----------------------------------------------------------------------------
(* Mutant: the options behind the "--" replace the others.                 *)
MergedOver(list, e) == [list |-> e.values, extra |-> NoExtra]

(* _merge_args: a list behind the "--" is appended to the list that is     *)
(* known by the same name; one value stays an option of its own.           *)
Merged(list, e) ==
  IF e.many THEN [list |-> list \o e.values, extra |-> NoExtra]
            ELSE [list |-> list, extra |-> e]

(* Only these commands read what stands behind the "--" into a list.       *)
MergeArgs ==
  /\ cvPc = "merge" /\ cvPc' = "compose"
  /\ known' = Merged(known, extra).list /\ extra' = Merged(known, extra).extra
  /\ UNCHANGED <<typed, request, rowsBack, printed>>

(* dict(key_value.split('=', 1) ...): the last pair of a name stays.       *)
LastPair(pairs, n) ==
  CHOOSE i \in DOMAIN pairs :
    pairs[i].net = n /\ \A j \in DOMAIN pairs : pairs[j].net = n => j <= i
PairsToMap(pairs) == [n \in {pairs[i].net : i \in DOMAIN pairs} |-> pairs[LastPair(pairs, n)].id]

(* args2search_opts and retrieve_list: one field behind the "--" replaces  *)
(* the others; ShowCommand lets the fields take the place of the details.  *)
(* args2body of the commands: of --vdu-id only the last counts, and of the *)
(* methods of an update any one; one value left behind the "--" goes on    *)
(* top of it, which for a network is next to the attributes.               *)
SentFields ==
  IF typed.kind = "show" THEN typed.fields
  ELSE IF typed.kind # "list" THEN << >> ELSE IF extra = NoExtra THEN known ELSE extra.values
SentVdus ==
  IF typed.kind # "diagnose" THEN {}
  ELSE IF extra # NoExtra THEN extra.values[1] ELSE IF known = << >> THEN {} ELSE known[Len(known)]
SentMethod == IF typed.kind = "update" THEN CHOOSE m \in typed.methods : TRUE ELSE ""

RequestMade ==
  [fields |-> SentFields, verbose |-> typed.details /\ typed.fields = << >>,
   attributes |-> IF typed.kind = "create" THEN PairsToMap(known) ELSE NoMap,
   beside |-> IF typed.kind = "create" THEN extra.values ELSE << >>,
   vdus |-> SentVdus, enable |-> typed.flag, method |-> SentMethod]

(* A pair without "=", a flag that is neither of the two in lower case,    *)
(* and no method at all are exceptions before anything is sent.            *)
Unusable ==
  \/ typed.kind = "create" /\ BadPair \in ToSet(known)
  \/ typed.kind = "activate" /\ typed.flag \notin {"true", "FALSE"}
  \/ typed.kind = "update" /\ typed.methods = {}

Refuse ==
  /\ cvPc = "compose" /\ Unusable /\ cvPc' = "failed"
  /\ UNCHANGED <<typed, known, extra, request, rowsBack, printed>>

SendValues ==
  /\ cvPc = "compose" /\ ~Unusable /\ cvPc' = "sent" /\ request' = RequestMade
  /\ UNCHANGED <<typed, known, extra, rowsBack, printed>>

(* The server: rows with the fields asked for, or with all of them where   *)
(* it does not look at the fields; the catalogs of a driver by VDU.        *)
ServerAnswers ==
  /\ cvPc = "sent" /\ cvPc' = "answered"
  /\ IF typed.kind = "driver" THEN rowsBack' \in SeqOf(Vdu, MaxRows)
     ELSE \E keys \in {Field, IF request.fields = << >> THEN Field
                              ELSE Field \cap ToSet(request.fields)} :
            \E n \in IF typed.kind = "list" THEN 0 .. MaxRows ELSE 0 .. 1 :
              rowsBack' = [i \in 1 .. n |-> keys]
  /\ UNCHANGED <<typed, known, extra, request, printed>>

-----------------------------------------------------------------------------
(* setup_columns: the keys of the first row, or those of the asked columns *)
(* that are among them; without a row there is no column.                  *)
ShownAt(row) == {i \in DOMAIN typed.columns : typed.columns[i] \in row}
KthShown(row, k) ==
  CHOOSE i \in ShownAt(row) : Cardinality({j \in ShownAt(row) : j < i}) = k - 1
ColumnOrders(row) == Bijection(1 .. Cardinality(row), row)
Columns(rows) ==
  IF rows = << >> THEN {<< >>}
  ELSE IF typed.columns # << >>
    THEN {[k \in 1 .. Cardinality(ShownAt(rows[1])) |-> typed.columns[KthShown(rows[1], k)]]}
  ELSE ColumnOrders(rows[1])

(* ShowCommand.get_data: the catalogs of the VDU, of which the last stays. *)
CatalogOf(vdus) ==
  {i \in DOMAIN vdus : /\ vdus[i] = typed.vdu
                       /\ \A j \in DOMAIN vdus : vdus[j] = typed.vdu => j <= i}

(* The catalogs to print, with all of them when no VDU is named.           *)
Catalogs(vdus) == IF typed.vdu = AnyVdu THEN DOMAIN vdus ELSE CatalogOf(vdus)

(* A list is printed whatever is in it. A show fails without an attribute  *)
(* to print, and without a catalog of the VDU; a create prints an empty    *)
(* row instead.                                                            *)
PrintList ==
  /\ cvPc = "answered" /\ typed.kind = "list" /\ cvPc' = "printed"
  /\ \E columns \in Columns(rowsBack) :
       printed' = [columns |-> columns, rows |-> [i \in DOMAIN rowsBack |-> columns]]
  /\ UNCHANGED <<typed, known, extra, request, rowsBack>>

PrintDriver ==
  /\ cvPc = "answered" /\ typed.kind = "driver"
  /\ IF Catalogs(rowsBack) = {} /\ typed.vdu # AnyVdu
       THEN cvPc' = "failed" /\ UNCHANGED printed
       ELSE /\ printed' = [columns |-> << >>,
                           rows |-> [i \in Catalogs(rowsBack) |-> <<rowsBack[i]>>]]
            /\ cvPc' = "printed"
  /\ UNCHANGED <<typed, known, extra, request, rowsBack>>

PrintShow ==
  /\ cvPc = "answered" /\ typed.kind = "show"
  /\ IF rowsBack = << >> \/ rowsBack[1] = {}
       THEN cvPc' = "failed" /\ UNCHANGED printed
       ELSE /\ \E columns \in ColumnOrders(rowsBack[1]) :
                 printed' = [columns |-> columns, rows |-> << >>]
            /\ cvPc' = "printed"
  /\ UNCHANGED <<typed, known, extra, request, rowsBack>>

PrintDone ==
  /\ cvPc = "answered" /\ typed.kind \notin {"list", "driver", "show"} /\ cvPc' = "printed"
  /\ UNCHANGED <<typed, known, extra, request, rowsBack, printed>>

ValuesNext == MergeArgs \/ Refuse \/ SendValues \/ ServerAnswers
              \/ PrintList \/ PrintDriver \/ PrintShow \/ PrintDone

ValuesSpec == ValuesInit /\ [][ValuesNext]_valuesVars

-----------------------------------------------------------------------------
(* The values a command sends and prints keep their types.                 *)
ValuesTypeOK ==
  /\ typed.kind \in Kinds /\ typed \in TypedAs(typed.kind) /\ extra \in Extra(typed.kind)
  /\ known \in Seq(Values(typed.kind)) /\ Len(known) <= 3
  /\ cvPc \in {"merge", "compose", "sent", "answered", "printed", "failed"}
  /\ cvPc \in {"merge", "compose"} => request = NothingSent
  /\ rowsBack \in Seq(IF typed.kind = "driver" THEN Vdu ELSE SUBSET Field)
  /\ \A i \in DOMAIN printed.columns : printed.columns[i] \in Field

WasSent == cvPc \in {"sent", "answered", "printed"}

(* Every field typed is asked of the server, in front of the "--" or       *)
(* behind it, unless one field stands alone behind it: then it is the only *)
(* one that is.                                                            *)
FieldsReach ==
  WasSent /\ typed.kind = "list" =>
    LET alone == typed.extra # NoExtra /\ ~typed.extra.many
    IN /\ ToSet(request.fields) = (IF alone THEN {} ELSE ToSet(typed.list)) \cup ToSet(typed.extra.values)
       /\ typed.details => request.verbose

(* Every network typed is in the attributes of the service, with one of    *)
(* the ids typed for it, the last one in front of the "--" or behind it;   *)
(* nothing is sent for a pair that is none. A lone pair behind the "--"    *)
(* does not get there.                                                     *)
NetworksReach ==
  typed.kind = "create" /\ cvPc \in {"sent", "answered", "printed", "failed"} =>
    LET all == typed.list \o (IF typed.extra.many THEN typed.extra.values ELSE << >>)
    IN IF BadPair \in ToSet(all) THEN cvPc = "failed"
       ELSE /\ cvPc # "failed"
            /\ \A i \in DOMAIN all :
                 (\A j \in i + 1 .. Len(all) : all[j].net # all[i].net) =>
                   all[i].net \in DOMAIN request.attributes /\ request.attributes[all[i].net] = all[i].id

(* Of several --vdu-id only the last one's VDUs are diagnosed, and no      *)
(* other VDU ever is.                                                      *)
VdusReach ==
  WasSent /\ typed.kind = "diagnose" =>
    /\ request.vdus \in {{}} \cup ToSet(typed.list) \cup ToSet(typed.extra.values)
    /\ typed.extra = NoExtra /\ typed.list # << >> => request.vdus = Last(typed.list)

(* A service is never enabled or disabled by a word that is neither true   *)
(* nor false, and an update always has a method that was typed.            *)
OnlyMeantSent ==
  WasSent => /\ typed.kind = "activate" => request.enable \in {"true", "FALSE"}
             /\ typed.kind = "update" => request.method \in typed.methods

(* A list prints every row of the answer, under the columns of the order   *)
(* typed. The catalogs printed are those of the VDU that was named, and    *)
(* none of another.                                                        *)
PrintedTrue ==
  cvPc = "printed" =>
    /\ typed.kind = "list" =>
         /\ Len(printed.rows) = Len(rowsBack)
         /\ typed.columns # << >> /\ rowsBack # << >> =>
              \E f \in [DOMAIN printed.columns -> DOMAIN typed.columns] :
                /\ \A a, b \in DOMAIN f : a < b => f[a] < f[b]
                /\ \A a \in DOMAIN f : typed.columns[f[a]] = printed.columns[a]
                /\ \A i \in DOMAIN typed.columns : typed.columns[i] \in rowsBack[1] =>
                     \E a \in DOMAIN f : f[a] = i
    /\ typed.kind = "driver" /\ typed.vdu # AnyVdu =>
         /\ DOMAIN printed.rows # {}
         /\ \A i \in DOMAIN printed.rows : printed.rows[i] = <<typed.vdu>>

(* What these rest on: what is put together is all that was typed, what is *)
(* sent was put together of it, and nothing is sent that cannot be used.   *)
AllTyped == typed.list \o (IF typed.extra.many THEN typed.extra.values ELSE << >>)
SentAsComposed ==
  /\ cvPc = "merge" => known = typed.list /\ extra = typed.extra
  /\ cvPc # "merge" => /\ known = AllTyped
                       /\ extra = IF typed.extra.many THEN NoExtra ELSE typed.extra
  /\ WasSent => request = RequestMade /\ ~Unusable
  /\ cvPc = "failed" => Unusable \/ typed.kind \in {"driver", "show"}

ValuesInv ==
  /\ ValuesTypeOK /\ FieldsReach /\ NetworksReach /\ VdusReach /\ OnlyMeantSent
  /\ PrintedTrue /\ SentAsComposed
=============================================================================
