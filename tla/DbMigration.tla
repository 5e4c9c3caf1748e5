----------------------------- MODULE DbMigration -----------------------------
(***************************************************************************)
(* vnfsvc-db-manage: the operator's commands that build the tables of the  *)
(* database, one migration after the other, and record in the database     *)
(* how far it is. A command may fail or die between two statements, and    *)
(* two operators may run theirs at once. Where the dialect has no          *)
(* transactional DDL (MySQL) every statement stands as soon as it is run.  *)
(* The files of the versions directory change from outside, with the       *)
(* repository they are kept in.                                            *)
(***************************************************************************)
EXTENDS Naturals, FiniteSets, Sequences, SequencesExt

CONSTANTS
  Operator,    \* those who run the commands
  MaxCommands, \* bound: commands of all operators
  MaxCheckouts \* bound: changes of the versions directory

ASSUME MigrationAssumption == MaxCommands \in Nat /\ MaxCheckouts \in Nat

VARIABLES
  dialect,   \* of the database, and what the command line has of it
  tableIs,   \* each table: absent, or the engine it was made with
  version,   \* the revision recorded in the database
  files,     \* the revisions in the versions directory
  headFile,  \* what the file HEAD there says
  checkouts, \* changes of the directory so far
  command,   \* the command of each operator
  engineOf,  \* MYSQL_ENGINE of each operator's process
  todo,      \* the statements it has still to run
  changed,   \* statements it has run
  saved,     \* tables and version as its transaction found them
  endedHow,  \* how its last command ended
  commands,  \* commands run so far
  blemish    \* history: what, if anything, keeps the tables from being as the version says

migrationVars == <<dialect, tableIs, version, files, headFile, checkouts, command,
                   engineOf, todo, changed, saved, endedHow, commands, blemish>>

Tables == <<"networkservices", "vdus", "servicetemplates", "vduconfigurations", "users">>
AllTables == ToSet(Tables)
Engines == {"InnoDB", "MyISAM"}
Revisions == <<"none", "folsom", "second">>   \* "twin" is the head of another branch
Configs == {"url", "engine", "nothing"}

NoCommand == [cmd |-> "none", rev |-> "none", delta |-> 0, sql |-> FALSE, engine |-> ""]

(* The calls enumerated: a step up or down goes before a revision that is  *)
(* also given, "" is no revision.                                          *)
AlembicCommands ==
  [cmd : {"upgrade"}, rev : {"head"}, delta : {0}, sql : {FALSE}, engine : {"MyISAM"}]
    \cup [cmd : {"upgrade", "downgrade"}, rev : {"", "head", "none"}, delta : {0},
          sql : {FALSE}, engine : {""}]
    \cup [cmd : {"upgrade", "downgrade"}, rev : {"none"}, delta : {1}, sql : BOOLEAN,
          engine : {""}]
    \cup [cmd : {"stamp"}, rev : {"folsom", "none"}, delta : {0}, sql : {FALSE}, engine : {""}]
    \cup [cmd : {"check_migration", "revision"}, rev : {""}, delta : {0}, sql : {FALSE},
          engine : {""}]

Statements == [does : {"create", "drop"}, what : AllTables]
                \cup [does : {"record"}, what : ToSet(Revisions)]

(* Schema, revisions and commands keep their types.                        *)
MigTypeOK ==
  /\ tableIs \in [AllTables -> Engines \cup {"absent"}] /\ version \in ToSet(Revisions)
  /\ files \subseteq {"folsom", "second", "twin"} /\ "folsom" \in files
  /\ command \in [Operator -> AlembicCommands \cup {NoCommand}]
  /\ engineOf \in [Operator -> Engines \cup {""}]
  /\ todo \in [Operator -> Seq(Statements)] /\ changed \in [Operator -> Nat]
  /\ saved \in [Operator -> [AllTables -> Engines \cup {"absent"}] \X ToSet(Revisions)]
  /\ endedHow \in [Operator -> {"none", "well", "failed", "died"}]
  /\ dialect \in [name : {"mysql", "postgresql"}, config : Configs] /\ commands \in Nat
  /\ blemish \subseteq {"halfway", "crossed", "stamped"}

MigrationInit ==
  /\ dialect \in [name : {"mysql", "postgresql"}, config : Configs]
  /\ tableIs = [t \in AllTables |-> "absent"] /\ version = "none"
  /\ files = {"folsom"} /\ headFile = "86d6d9776e2b" /\ checkouts = 0
  /\ command = [o \in Operator |-> NoCommand] /\ engineOf = [o \in Operator |-> ""]
  /\ todo = [o \in Operator |-> <<>>] /\ changed = [o \in Operator |-> 0]
  /\ saved = [o \in Operator |-> <<tableIs, version>>]
  /\ endedHow = [o \in Operator |-> "none"] /\ commands = 0
  /\ blemish = {}

Transactional == dialect.name = "postgresql"
Heads == {f \in files : f = "folsom" => files = {"folsom"}}
PlaceOf(rev) == CHOOSE i \in DOMAIN Revisions : Revisions[i] = rev

(* The process ends, its connection closed; a transaction that is not      *)
(* committed is taken back.                                                *)
CommandEnds(o, how) ==
  /\ endedHow' = [endedHow EXCEPT ![o] = how]
  /\ command' = [command EXCEPT ![o] = NoCommand]
  /\ todo' = [todo EXCEPT ![o] = <<>>] /\ changed' = [changed EXCEPT ![o] = 0]
  /\ engineOf' = [engineOf EXCEPT ![o] = ""]
  /\ IF how # "well" /\ Transactional /\ changed[o] > 0
       THEN tableIs' = saved[o][1] /\ version' = saved[o][2] /\ UNCHANGED blemish
       ELSE /\ blemish' = blemish \cup IF how # "well" /\ changed[o] > 0 THEN {"halfway"} ELSE {}
            /\ UNCHANGED <<tableIs, version>>
  /\ UNCHANGED <<dialect, files, headFile, checkouts, saved, commands>>

Launch(o, c) ==
  /\ command[o] = NoCommand /\ commands < MaxCommands
  /\ command' = [command EXCEPT ![o] = c]
  /\ commands' = commands + 1
  /\ endedHow' = [endedHow EXCEPT ![o] = "none"]
  /\ UNCHANGED <<dialect, tableIs, version, files, headFile, checkouts, engineOf, todo,
                 changed, saved, blemish>>

(* do_upgrade_downgrade: a delta goes before a revision; 0 is no delta.     *)
NothingAsked(c) == c.rev = "" /\ c.delta = 0

(* Mutant: a revision that is given goes before the step.                  *)
TargetOfRevision(c, from) ==
  IF c.rev = "none" THEN 1
  ELSE IF c.delta # 0 THEN IF c.cmd = "upgrade" THEN from + c.delta ELSE from - c.delta
  ELSE IF "second" \in files THEN 3 ELSE 2

(* Where the command leads on the line of revisions, 0 where nowhere.      *)
Target(c, from) ==
  IF c.delta # 0 THEN IF c.cmd = "upgrade" THEN from + c.delta ELSE from - c.delta
  ELSE IF c.rev = "head" THEN IF "second" \in files THEN 3 ELSE 2 ELSE PlaceOf(c.rev)

Reachable(c, from) ==
  /\ ~NothingAsked(c)
  /\ (c.rev = "head" \/ c.delta # 0) => Cardinality(Heads) = 1
  /\ Target(c, from) \in DOMAIN Revisions
  /\ Target(c, from) = 3 => "second" \in files
  /\ IF c.cmd = "upgrade" THEN Target(c, from) >= from ELSE Target(c, from) <= from

(* Mutant: the last table is forgotten.                                    *)
CreatesFour == [i \in 1 .. 4 |-> [does |-> "create", what |-> Tables[i]]]

(* upgrade_base                                                            *)
Creates == [i \in DOMAIN Tables |-> [does |-> "create", what |-> Tables[i]]]

(* downgrade_base                                                          *)
Drops == [i \in DOMAIN Tables |-> [does |-> "drop", what |-> Tables[i]]]

Record(i) == <<[does |-> "record", what |-> Revisions[i]]>>

(* The first revision makes the tables; those after it have statements of  *)
(* their own, none here.                                                   *)
UpScript(from, to) ==
  (IF from = 1 /\ to > 1 THEN Creates \o Record(2) ELSE <<>>)
    \o (IF from < 3 /\ to = 3 THEN Record(3) ELSE <<>>)

Down(from, to) ==
  (IF from = 3 /\ to < 3 THEN Record(2) ELSE <<>>)
    \o (IF from > 1 /\ to = 1 THEN Drops \o Record(1) ELSE <<>>)

(* set_mysql_engine: what the option says, or the default of the models.   *)
EngineAsked(c) == IF c.engine # "" THEN c.engine ELSE "InnoDB"

(* env.py: it connects, for which it needs a URL, and the statements to    *)
(* come are laid out from the version the database records. Transactional  *)
(* DDL of two commands does not mix: the second waits for the first.       *)
RunOnline(o) ==
  LET c == command[o] IN
  /\ c.cmd \in {"upgrade", "downgrade"} /\ ~c.sql
  /\ dialect.config = "url" /\ engineOf[o] = "" /\ Reachable(c, PlaceOf(version))
  /\ Transactional => \A p \in Operator : engineOf[p] = ""
  /\ engineOf' = [engineOf EXCEPT ![o] = EngineAsked(c)]
  /\ todo' = [todo EXCEPT ![o] = IF c.cmd = "upgrade"
                                   THEN UpScript(PlaceOf(version), Target(c, PlaceOf(version)))
                                   ELSE Down(PlaceOf(version), Target(c, PlaceOf(version)))]
  /\ saved' = [saved EXCEPT ![o] = <<tableIs, version>>]
  /\ blemish' = blemish \cup
       IF \E p \in Operator : engineOf[p] # "" /\ {c.cmd, command[p].cmd} # {"upgrade"}
         THEN {"crossed"} ELSE {}
  /\ UNCHANGED <<dialect, tableIs, version, files, headFile, checkouts, command, changed,
                 endedHow, commands>>

(* With --sql the statements of the whole way from the start are printed.  *)
RunOffline(o) ==
  /\ command[o].cmd = "upgrade" /\ command[o].sql
  /\ dialect.config # "nothing" /\ Reachable(command[o], 1)
  /\ CommandEnds(o, "well")

(* SystemExit, or an error of alembic said by alembic_util.err.            *)
RefusedOffline(o) ==
  LET c == command[o] IN
  /\ c.cmd \in {"upgrade", "downgrade"} /\ engineOf[o] = ""
  /\ \/ ~c.sql /\ (dialect.config # "url" \/ ~Reachable(c, PlaceOf(version)))
     \/ c.sql /\ (c.cmd = "downgrade" \/ dialect.config = "nothing" \/ ~Reachable(c, 1))
  /\ CommandEnds(o, "failed")

(* A foreign key keeps the table it refers to, where the engine has them.  *)
Kept(t) ==
  /\ t = "servicetemplates" /\ tableIs["vduconfigurations"] # "absent"
  /\ Transactional \/ tableIs["vduconfigurations"] = "InnoDB"

Possible(s) ==
  CASE s.does = "create" -> tableIs[s.what] = "absent"
    [] s.does = "drop" -> tableIs[s.what] # "absent" /\ ~Kept(s.what)
    [] s.does = "record" -> TRUE

Execute(o) ==
  LET s == Head(todo[o]) IN
  /\ todo[o] # <<>> /\ Possible(s)
  /\ tableIs' = CASE s.does = "create" -> [tableIs EXCEPT ![s.what] = engineOf[o]]
                [] s.does = "drop" -> [tableIs EXCEPT ![s.what] = "absent"]
                [] s.does = "record" -> tableIs
  /\ version' = IF s.does = "record" THEN s.what ELSE version
  /\ todo' = [todo EXCEPT ![o] = Tail(@)] /\ changed' = [changed EXCEPT ![o] = @ + 1]
  /\ UNCHANGED <<dialect, files, headFile, checkouts, command, engineOf, saved, endedHow,
                 commands, blemish>>

Breaks(o) == todo[o] # <<>> /\ ~Possible(Head(todo[o])) /\ CommandEnds(o, "failed")

CommandDone(o) ==
  /\ command[o].cmd \in {"upgrade", "downgrade"} /\ engineOf[o] # "" /\ todo[o] = <<>>
  /\ CommandEnds(o, "well")

(* The process dies, at any moment of its run.                             *)
Dies(o) == engineOf[o] # "" /\ CommandEnds(o, "died")

(* stamp records the revision and runs nothing.                            *)
Stamp(o) ==
  /\ command[o].cmd = "stamp" /\ dialect.config = "url"
  /\ Transactional => \A p \in Operator : engineOf[p] = ""
  /\ version' = command[o].rev /\ blemish' = blemish \cup {"stamped"}
  /\ endedHow' = [endedHow EXCEPT ![o] = "well"]
  /\ command' = [command EXCEPT ![o] = NoCommand]
  /\ UNCHANGED <<dialect, tableIs, files, headFile, checkouts, engineOf, todo, changed, saved,
                 commands>>

StampFails(o) == command[o].cmd = "stamp" /\ dialect.config # "url" /\ CommandEnds(o, "failed")

(* validate_head_file                                                      *)
HeadValid == Cardinality(Heads) = 1 /\ headFile \in Heads

Check(o) ==
  /\ command[o].cmd = "check_migration"
  /\ CommandEnds(o, IF HeadValid THEN "well" ELSE "failed")

(* The repository has no script.py.mako: alembic fails to write the file   *)
(* of a new revision, and update_head_file is not come to.                 *)
Revision(o) == command[o].cmd = "revision" /\ CommandEnds(o, "failed")

(* Other commits of the repository: a second revision, on one branch or    *)
(* two, HEAD brought up to date with it or not.                            *)
Checkout ==
  /\ checkouts < MaxCheckouts /\ checkouts' = checkouts + 1
  /\ \A o \in Operator : command[o] = NoCommand
  /\ files' \in {{"folsom", "second"}, {"folsom", "second", "twin"}}
  /\ headFile' \in {headFile, "second"}
  /\ UNCHANGED <<dialect, tableIs, version, command, engineOf, todo, changed, saved, endedHow,
                 commands, blemish>>

CommandStep(o) ==
  \/ \E c \in AlembicCommands : Launch(o, c)
  \/ RunOnline(o) \/ RunOffline(o) \/ RefusedOffline(o)
  \/ Execute(o) \/ Breaks(o) \/ CommandDone(o) \/ Dies(o)
  \/ Stamp(o) \/ StampFails(o) \/ Check(o) \/ Revision(o)

MigrationNext == Checkout \/ \E o \in Operator : CommandStep(o)

MigrationSpec == MigrationInit /\ [][MigrationNext]_migrationVars

(***************************************************************************)
(* Properties                                                              *)
(***************************************************************************)

Whole == \A t \in AllTables : tableIs[t] # "absent"
NobodyRuns == \A o \in Operator : command[o] = NoCommand

(* The version recorded tells the tables that are there, as long as no     *)
(* command has broken off after its first statement without a transaction  *)
(* to take it back, none has stamped, and none ran beside a downgrade: two *)
(* upgrades at once do no harm.                                            *)
TablesAsVersion ==
  (NobodyRuns /\ blemish = {}) =>
    IF version = "none" THEN \A t \in AllTables : tableIs[t] = "absent" ELSE Whole

(* Where DDL is transactional nothing is ever left halfway but by a stamp: *)
(* between commands the tables are all there or none is.                   *)
AllOrNoTable ==
  (NobodyRuns /\ Transactional) => Whole \/ \A t \in AllTables : tableIs[t] = "absent"

RecordedHere(o, v) ==
  /\ changed'[o] = changed[o] + 1
  /\ Head(todo[o]) = [does |-> "record", what |-> v]

(* The first revision is recorded only over all of its tables, whatever    *)
(* broke off or was stamped before and whatever upgrades run beside it: a  *)
(* downgrade that began before it did may still take a table from it.      *)
UpgradedWholly ==
  [][(\E o \in Operator : command[o].cmd = "upgrade" /\ RecordedHere(o, "folsom"))
       => Whole \/ "crossed" \in blemish]_migrationVars

(* A downgrade gets to the start only with no table left, and where no     *)
(* foreign key was enforced: the templates' table is to go before the one  *)
(* that refers to it, so that elsewhere every such downgrade breaks off.   *)
DowngradedWholly ==
  [][\A o \in Operator :
       (command[o].cmd = "downgrade" /\ RecordedHere(o, "none"))
         => \/ blemish # {}
            \/ /\ \A t \in AllTables : tableIs[t] = "absent"
               /\ ~Transactional /\ saved[o][1]["vduconfigurations"] # "InnoDB"
    ]_migrationVars

(* An offline run, a check and a refused command touch neither tables nor  *)
(* version: only a run with statements and a stamp do.                     *)
OnlyRunsWrite ==
  [][<<tableIs, version>>' # <<tableIs, version>>
       => \E o \in Operator : \/ todo[o] # <<>> \/ changed[o] > 0
                              \/ command[o].cmd = "stamp"]_migrationVars

(* Every table has the engine that the command which made it was asked     *)
(* for, also when two commands run at once with different ones.            *)
EngineAsAsked ==
  [][\A o \in Operator, t \in AllTables :
       (changed'[o] = changed[o] + 1 /\ tableIs[t] = "absent" /\ tableIs'[t] # "absent")
         => tableIs'[t] = IF command[o].engine = "" THEN "InnoDB" ELSE command[o].engine
    ]_migrationVars

(* A relative step leads to the neighbour of the recorded revision.        *)
OneStepOnly ==
  [][\A o \in Operator :
       (engineOf[o] = "" /\ engineOf'[o] # "" /\ command[o].delta = 1)
         => \A i \in DOMAIN todo'[o] :
              todo'[o][i].does = "record"
                => PlaceOf(todo'[o][i].what) \in {PlaceOf(version) + 1, PlaceOf(version) - 1}
    ]_migrationVars

(* What makes it so. A run has still to execute the rest of the script it  *)
(* laid out at its start,                                                  *)
Executing(o) == engineOf[o] # ""

ScriptTo(o, to) ==
  IF command[o].cmd = "upgrade" THEN UpScript(PlaceOf(saved[o][2]), to)
                                ELSE Down(PlaceOf(saved[o][2]), to)

RestOf(o, script) ==
  /\ Len(script) = changed[o] + Len(todo[o])
  /\ \A i \in DOMAIN todo[o] : todo[o][i] = script[changed[o] + i]

RunSound(o) ==
  IF Executing(o)
    THEN /\ command[o].cmd \in {"upgrade", "downgrade"} /\ ~command[o].sql
         /\ engineOf[o] = EngineAsked(command[o])
         /\ \E to \in DOMAIN Revisions : RestOf(o, ScriptTo(o, to))
    ELSE todo[o] = <<>> /\ changed[o] = 0

(* and beside it are no others, or upgrades beside upgrades.               *)
RunsApart ==
  \A o, p \in Operator : o # p /\ Executing(o) /\ Executing(p) =>
    /\ ~Transactional
    /\ "crossed" \notin blemish => command[o].cmd = "upgrade" /\ command[p].cmd = "upgrade"

(* How many tables it has made or dropped.                                 *)
Gone(o) ==
  IF command[o].cmd = "upgrade"
    THEN IF saved[o][2] = "none" THEN changed[o] ELSE 0
    ELSE IF saved[o][2] = "second" /\ changed[o] > 0 THEN changed[o] - 1 ELSE changed[o]

(* What an upgrade made stays: it records the first revision over it.      *)
MadeStays ==
  "crossed" \notin blemish =>
    \A o \in Operator : Executing(o) /\ command[o].cmd = "upgrade" =>
      \A i \in DOMAIN Tables : i <= Gone(o) => tableIs[Tables[i]] # "absent"

(* Between its first table and the revision that tells of it, a run has    *)
(* the tables up to one and not those after it, or the other way round;    *)
(* when none is between, the tables are as the version says.               *)
Between(o) == Executing(o) /\ Gone(o) \in DOMAIN Tables

TablesOf(o) ==
  \A i \in DOMAIN Tables :
    tableIs[Tables[i]] = "absent" <=> (command[o].cmd = "upgrade") # (i <= Gone(o))

WholeIn(tables) == \A t \in AllTables : tables[t] # "absent"
NoneIn(tables) == \A t \in AllTables : tables[t] = "absent"

AsTold(tables, told) ==
  /\ WholeIn(tables) \/ NoneIn(tables)
  /\ blemish = {} => (told = "none" <=> NoneIn(tables))

TablesSound ==
  Transactional \/ blemish = {} =>
    /\ \A o \in Operator : Between(o) =>
         /\ TablesOf(o)
         /\ \A p \in Operator : Between(p) => p = o
    /\ (\A o \in Operator : ~Between(o)) => AsTold(tableIs, version)

(* What a transaction would be taken back to was so as well;               *)
SavedSound ==
  Transactional => \A o \in Operator : Executing(o) =>
    /\ AsTold(saved[o][1], saved[o][2])
    /\ changed[o] = 0 => saved[o] = <<tableIs, version>>

(* a run that has come beyond the first revision finds it recorded; and a  *)
(* downgrade is alone with the tables and the version it began with.       *)
VersionSound ==
  blemish = {} => \A o \in Operator : Executing(o) =>
    IF command[o].cmd = "upgrade"
      THEN saved[o][2] # "none" \/ changed[o] > Len(Tables) => version # "none"
      ELSE /\ changed[o] = 0 => version = saved[o][2]
           /\ saved[o][2] = "second" /\ changed[o] = 1 => version = "folsom"
           /\ \A i \in DOMAIN Tables : i > Gone(o) =>
                tableIs[Tables[i]] = saved[o][1][Tables[i]]
           /\ Gone(o) \in 3 .. 5 => /\ ~Transactional
                                    /\ saved[o][1]["vduconfigurations"] # "InnoDB"

MigrationInv ==
  /\ MigTypeOK /\ RunsApart /\ (\A o \in Operator : RunSound(o)) /\ MadeStays
  /\ TablesSound /\ SavedSound /\ VersionSound /\ TablesAsVersion /\ AllOrNoTable
=============================================================================
