---------------------------- MODULE MCProcesses ----------------------------
(***************************************************************************)
(* The parts that wait, poll, retry or restart, each on its own: `turn' is *)
(* the one a behaviour is about, the others keep still. These are checked  *)
(* for what must happen in the end, too.                                   *)
(***************************************************************************)
EXTENDS BootVdu, ServiceNetwork, ClientSession, ServiceLife, TLC

VARIABLE turn

(* ServiceNetwork: two services that share no network but the manager's.   *)
NetsOfST == "s" :> {"m", "x"} @@ "t" :> {"y"}
MgmtOfST == "s" :> "m" @@ "t" :> "no"
RoutedOfST == "s" :> {"x", "m"} @@ "t" :> {"y"}
RouterOfST == "s" :> "r1" @@ "t" :> "r2"

(* ClientSession: what client there is while others have their turn.       *)
AnyClient == [kind |-> "session", strategy |-> "keystone", authUrl |-> TRUE,
              token |-> "none", endpoint |-> FALSE, format |-> "json"]

Others(part) ==
  /\ turn = part /\ UNCHANGED turn
  /\ part # "boot" => UNCHANGED bootVars
  /\ part # "net" => UNCHANGED netVars
  /\ part # "session" => UNCHANGED sessionVars
  /\ part # "life" => UNCHANGED lifeVars
  /\ part # "server" => UNCHANGED serverVars

partVars == <<bootVars, netVars, sessionVars, lifeVars, serverVars, turn>>

Init ==
  /\ turn \in {"boot", "net", "session", "life", "server"}
  /\ BootInit /\ (turn # "boot" => bootN = 1 /\ bootNics = {Mgmt} /\ bootIndex = 0)
  /\ NetInit
  /\ SessionInit /\ (turn # "session" => client = AnyClient)
  /\ LifeInit /\ (turn # "life" => launcher.daemon)
  /\ ServerInit /\ (turn # "server" => conf = [p \in Process |-> "no"] /\ portOf = "nobody")

Next ==
  \/ Others("boot") /\ BootNext
  \/ Others("net") /\ NetNext
  \/ Others("session") /\ SessionNext
  \/ Others("life") /\ LifeNext
  \/ Others("server") /\ ServerNext

(* nova answers, and a thread that can go on does so.                      *)
Fairness ==
  /\ WF_partVars(Others("boot") /\ BootStep)
  /\ WF_partVars(Others("boot") /\ \E i \in Machine : NovaStep(i))
  /\ \A s \in Service : /\ WF_partVars(Others("net") /\ Creation(s))
                        /\ WF_partVars(Others("net") /\ PuppetBuilt(s))
  /\ WF_partVars(Others("session") /\ SessionStep)
  /\ WF_partVars(Others("life") /\ LauncherStep)
  /\ WF_partVars(Others("life") /\ ServiceStep)
  /\ \A p \in Process : WF_partVars(Others("server") /\ StartStep(p))

Spec == Init /\ [][Next]_partVars /\ Fairness

-----------------------------------------------------------------------------
(* Before a service is deployed: _boot_vdu answers for all the machines it *)
(* was asked for, with ids and addresses that are theirs, whichever of     *)
(* them nova is quicker with; and the preparation of networks keeps what   *)
(* belongs to others and leaves nothing of what it made for its own use.   *)
BringUpTrue ==
  BootInv /\ NetInv /\ NetKept /\ NetCleared

(* What a process or a client says of itself is so: a request runs as      *)
(* often as the client may repeat it and not again, a service runs one     *)
(* loop whatever signals come, and a server that has started serves.       *)
ProcessesTrue ==
  SessionInv /\ LifeInv /\ ServerInv

(* The loops that poll and retry come to an end, with a result or with an  *)
(* exception: booting, waiting for the puppet master unless its machine    *)
(* fails, a call of the client, the server's wait for its port.            *)
LoopsEnd == BootEnds /\ NetAnswered /\ CallEnds /\ StartEnds

(* Signals are served: a failure ends the process, SIGHUP starts the       *)
(* service anew, and once it was told to stop it does not come back.       *)
SignalsServed == FailureEnds /\ HangupRestarts /\ StoppedStaysStopped
=============================================================================
