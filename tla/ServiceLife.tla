---------------------------- MODULE ServiceLife -----------------------------
(***************************************************************************)
(* The processes. First the launcher of the vnf-manager, under signals.    *)
(* Then the start of the server's.                                         *)
(***************************************************************************)
EXTENDS Naturals, FiniteSets

(***************************************************************************)
(* The life of the vnf-manager's process: ServiceLauncher, the service it  *)
(* runs in a green thread, its looping calls, and the signals that end or  *)
(* restart it. While the launcher stops or restarts nothing else runs      *)
(* (none of what it does there switches), so each of these is one step.    *)
(***************************************************************************)
CONSTANT MaxHups   \* the restarts a behaviour is followed through

ASSUME MaxHupsAssumption == MaxHups \in Nat

VARIABLES
  launcher,   \* the main green thread
  thread,     \* run_service, in a green thread of Services.tg
  done,       \* Service._done and Services.done: how often each was sent
  timer       \* the looping calls of each start of the service

lifeVars == <<launcher, thread, done, timer>>

Starts == 0 .. MaxHups
Timers == {"report", "periodic"}
Loops == {"none", "sleeping", "calling", "ended"}

(* Process, signals and loops of a service keep their types.               *)
LifeTypeOK ==
  /\ launcher \in [phase : {"loop", "armed", "waiting", "stopping", "stopped", "reset",
                            "exited", "escaped", "killed"},
                   handled : BOOLEAN, daemon : BOOLEAN, signo : {"none", "TERM", "HUP"},
                   starts : Starts]
  /\ thread \in {"none", "spawned", "starting", "serving", "failed"}
  /\ done \in [service : 0 .. 1, services : 0 .. 1]
  /\ timer \in [heart : [loop : Loops, running : BOOLEAN],
                of : [Starts -> [Timers -> [loop : Loops, running : BOOLEAN]]]]

Unstarted == [loop |-> "none", running |-> FALSE]
Started == [loop |-> "sleeping", running |-> TRUE]

(* The manager, and with it the heartbeat, is made before the launcher.    *)
LifeInit ==
  /\ launcher \in [phase : {"loop"}, handled : {FALSE}, daemon : BOOLEAN,
                   signo : {"none"}, starts : {0}]
  /\ thread = "spawned"
  /\ done = [service |-> 0, services |-> 0]
  /\ timer = [heart |-> Started, of |-> [n \in Starts |-> [k \in Timers |-> Unstarted]]]

Over == launcher.phase \in {"exited", "escaped", "killed"}

-----------------------------------------------------------------------------
(* The service and its looping calls run when the launcher waits.          *)

StartService ==
  /\ launcher.phase = "waiting" /\ thread = "spawned"
  /\ thread' = "starting"
  /\ UNCHANGED <<launcher, done, timer>>

(* The broker cannot be reached, or the manager fails in init_host.        *)
StartFails ==
  /\ launcher.phase = "waiting" /\ thread = "starting"
  /\ thread' = "failed"
  /\ UNCHANGED <<launcher, done, timer>>

(* The consumers are up: start the looping calls, then wait for the end.   *)
StartTimers ==
  /\ launcher.phase = "waiting" /\ thread = "starting"
  /\ thread' = "serving"
  /\ timer' = [timer EXCEPT !.of[launcher.starts] = [k \in Timers |-> Started]]
  /\ UNCHANGED <<launcher, done>>

(* FixedIntervalLoopingCall._inner, from one switch to the next: `while    *)
(* self._running' before a call and `if not self._running' after it.       *)
Woken(t) ==
  [t EXCEPT !.loop = IF ~t.running THEN "ended"
                     ELSE IF @ = "calling" THEN "sleeping" ELSE "calling"]

Loop(n, k) ==
  /\ launcher.phase = "waiting" /\ timer.of[n][k].loop \in {"sleeping", "calling"}
  /\ timer' = [timer EXCEPT !.of[n][k] = Woken(@)]
  /\ UNCHANGED <<launcher, thread, done>>

(* _report_state finds no `cache' in the manager: it stops itself.         *)
Heartbeat ==
  /\ launcher.phase = "waiting" /\ timer.heart.loop \in {"sleeping", "calling"}
  /\ timer' = [timer EXCEPT !.heart =
                 IF @.loop = "calling" THEN Woken([@ EXCEPT !.running = FALSE]) ELSE Woken(@)]
  /\ UNCHANGED <<launcher, thread, done>>

-----------------------------------------------------------------------------
(* ServiceLauncher *)

Launcher(p) == launcher' = [launcher EXCEPT !.phase = p]

HandleSignal ==
  /\ launcher.phase = "loop"
  /\ launcher' = [launcher EXCEPT !.phase = "armed", !.handled = TRUE, !.signo = "none"]
  /\ UNCHANGED <<thread, done, timer>>

(* The configuration is logged before the try begins.                      *)
BeginWait ==
  /\ launcher.phase = "armed" /\ Launcher("waiting")
  /\ UNCHANGED <<thread, done, timer>>

(* ThreadGroup.wait returns when its one thread has ended, which is logged.*)
WaitReturns ==
  /\ launcher.phase = "waiting" /\ thread = "failed" /\ Launcher("stopping")
  /\ UNCHANGED <<thread, done, timer>>

(* A signal strikes whichever green thread runs, so one that starts the    *)
(* service may be lost to it; SignalExit reaches the launcher in the end.  *)
(* Between handle_signal and the try it passes the launcher by. Once one   *)
(* was handled, the next kills.                                            *)
Signal(s) ==
  /\ ~Over /\ (s = "HUP" => launcher.starts < MaxHups)
  /\ launcher' = [launcher EXCEPT
       !.phase = IF ~launcher.handled THEN "killed"
                 ELSE IF @ = "waiting" THEN "stopping" ELSE "escaped",
       !.handled = FALSE, !.signo = s]
  /\ \/ UNCHANGED thread
     \/ launcher.phase = "waiting" /\ thread = "starting" /\ thread' = "failed"
  /\ UNCHANGED <<done, timer>>

SentOnce(e) == IF done[e] = 0 THEN 1 ELSE done[e]

(* Mutant: the service forgets its looping calls without stopping them.    *)
StopAllForgetful ==
  /\ done' = [e \in DOMAIN done |-> SentOnce(e)]
  /\ thread' = "none" /\ UNCHANGED timer

(* Services.stop: the service closes its connection (which has no `close': *)
(* the error is passed over), sends _done and stops its looping calls; the *)
(* event `done' is sent and the threads of the group are killed.           *)
StopAll ==
  /\ done' = [e \in DOMAIN done |-> SentOnce(e)]
  /\ timer' = [timer EXCEPT !.of[launcher.starts] =
                 [k \in Timers |-> [@[k] EXCEPT !.running = FALSE]]]
  /\ thread' = "none"

StopServices == launcher.phase = "stopping" /\ StopAll /\ Launcher("stopped")

(* Mutant: every signal ends the process.                                  *)
ExitAnyway ==
  /\ launcher.phase = "stopped" /\ Launcher("exited")
  /\ UNCHANGED <<thread, done, timer>>

Exit ==
  /\ launcher.phase = "stopped" /\ ~(launcher.signo = "HUP" /\ launcher.daemon)
  /\ Launcher("exited")
  /\ UNCHANGED <<thread, done, timer>>

(* Launcher.restart: Services.restart stops all a second time ...          *)
Restart ==
  /\ launcher.phase = "stopped" /\ launcher.signo = "HUP" /\ launcher.daemon
  /\ StopAll /\ Launcher("reset")

(* ... and begins anew, with new events and a new thread.                  *)
Reset ==
  /\ launcher.phase = "reset"
  /\ launcher' = [launcher EXCEPT !.phase = "loop", !.starts = @ + 1]
  /\ done' = [e \in DOMAIN done |-> 0]
  /\ thread' = "spawned"
  /\ UNCHANGED timer

LauncherStep == HandleSignal \/ BeginWait \/ WaitReturns \/ StopServices \/ Exit
                \/ Restart \/ Reset
ServiceStep == StartService \/ StartTimers
LoopStep == Heartbeat \/ \E n \in Starts, k \in Timers : Loop(n, k)

LifeNext ==
  \/ LauncherStep \/ ServiceStep \/ StartFails \/ LoopStep
  \/ \E s \in {"TERM", "HUP"} : Signal(s)

LifeSpec == LifeInit /\ [][LifeNext]_lifeVars

-----------------------------------------------------------------------------
(* However often the process is restarted, one looping call of a kind is   *)
(* on at a time, and only while its service serves or is about to stop.    *)
OneLoopEach ==
  \A k \in Timers, n \in Starts :
    timer.of[n][k].running =>
      /\ n = launcher.starts
      /\ thread = "serving" \/ launcher.phase \in {"stopping", "escaped", "killed"}

(* A looping call that was stopped does not begin another call, even when  *)
(* it was asleep when it was stopped.                                      *)
StoppedStaysStopped ==
  [][\A k \in Timers, n \in Starts :
       timer.of[n][k].loop # "calling" /\ timer'.of[n][k].loop = "calling"
         => timer.of[n][k].running]_lifeVars

(* A process that ends by itself has stopped its service; only a signal    *)
(* before the launcher waits, or a second one, ends it otherwise.          *)
ExitIsClean ==
  launcher.phase = "exited" =>
    thread = "none" /\ done.service = 1 /\ done.services = 1

(* Where the launcher is tells whether it has stopped the service or is    *)
(* about to start it; a hangup it still has to serve is not the last.      *)
LauncherSound ==
  /\ launcher.phase \in {"stopped", "reset"} =>
       thread = "none" /\ done.service = 1 /\ done.services = 1
  /\ launcher.phase \in {"loop", "armed"} => thread = "spawned"
  /\ launcher.phase # "loop" /\ launcher.signo = "HUP" => launcher.starts < MaxHups
  /\ launcher.phase = "reset" => launcher.signo = "HUP"

LifeInv == LifeTypeOK /\ LauncherSound /\ OneLoopEach /\ ExitIsClean

(* A service that fails to start takes the process with it: it does not    *)
(* wait for ever with nothing running.                                     *)
FailureEnds == thread = "failed" ~> (thread # "failed" \/ Over)

(* A hangup of a daemon, once its launcher waits, ends in a service that   *)
(* serves again or could not start, unless it is told to end meanwhile.    *)
HangupRestarts ==
  launcher.phase = "stopped" /\ launcher.signo = "HUP" /\ launcher.daemon
    ~> \/ thread \in {"serving", "failed"}
       \/ launcher.phase \in {"escaped", "killed"} \/ launcher.signo = "TERM"

-----------------------------------------------------------------------------
(***************************************************************************)
(* The start of vnfsvc-server: it reads its configuration, loads the API   *)
(* with its plugin, whose consumers take messages of vnf-managers from     *)
(* then on, and only then tries to bind the port, for as long as another   *)
(* process has it and the retry window lasts. Each member of Process is    *)
(* one life of a server process; an operator may start one before the last *)
(* has stopped.                                                            *)
(***************************************************************************)
CONSTANTS
  Process,  \* processes of the server
  Window    \* attempts that fit in retry_until_window, 0.1 s apart

ASSUME ServerAssumption == Window \in Nat /\ Process \cap {"foreign", "nobody"} = {}

VARIABLES
  serverPc,   \* where each process is
  conf,       \* what its configuration has wrong, if anything
  portOf,     \* the process that has the port, "foreign" or "nobody"
  consumers,  \* processes that take messages of vnf-managers
  found,      \* attempts that found the port in use
  exitCode    \* what ended the process

serverVars == <<serverPc, conf, portOf, consumers, found, exitCode>>

Wrong == {"no", "no config file", "no paste file", "bad app", "no plugin", "bad host",
          "no cert", "no key", "no ca", "bad ssl", "forbidden"}

(* Sockets and starts of the server's processes keep their types.          *)
ServerTypeOK ==
  /\ serverPc \in [Process -> {"off", "configured", "loaded", "binding", "serving", "over"}]
  /\ conf \in [Process -> Wrong]
  /\ portOf \in Process \cup {"foreign", "nobody"} /\ consumers \subseteq Process
  /\ found \in [Process -> 0 .. Window]
  /\ exitCode \in [Process -> {"none", "stopped", "in use"} \cup (Wrong \ {"no"})]
  /\ \A p \in Process : exitCode[p] # "none" <=> serverPc[p] = "over"

ServerInit ==
  /\ serverPc = [p \in Process |-> "off"] /\ conf \in [Process -> Wrong]
  /\ portOf \in {"foreign", "nobody"} /\ consumers = {}
  /\ found = [p \in Process |-> 0] /\ exitCode = [p \in Process |-> "none"]

(* The end of a process gives back what it has.                            *)
Ends(p, why) ==
  /\ serverPc' = [serverPc EXCEPT ![p] = "over"]
  /\ exitCode' = [exitCode EXCEPT ![p] = why]
  /\ consumers' = consumers \ {p}
  /\ portOf' = IF portOf = p THEN "nobody" ELSE portOf
  /\ UNCHANGED <<conf, found>>

Goes(p, where) == serverPc' = [serverPc EXCEPT ![p] = where]

(* main and config.init                                                    *)
Configure(p) ==
  /\ serverPc[p] = "off"
  /\ IF conf[p] = "no config file" THEN Ends(p, conf[p])
     ELSE Goes(p, "configured") /\ UNCHANGED <<conf, portOf, consumers, found, exitCode>>

(* Mutant: the consumers are left to the first request.                    *)
ConsumersOfNone(p) == consumers

ConsumersOf(p) == consumers \cup {p}

(* load_paste_app builds the router, which makes the manager load the      *)
(* plugin; the plugin's consumers start in its __init__.                   *)
LoadApp(p) ==
  /\ serverPc[p] = "configured"
  /\ IF conf[p] \in {"no paste file", "bad app", "no plugin"} THEN Ends(p, conf[p])
     ELSE /\ Goes(p, "loaded") /\ consumers' = ConsumersOf(p)
          /\ UNCHANGED <<conf, portOf, found, exitCode>>

(* The first part of _get_socket: address and files.                       *)
GetSocket(p) ==
  /\ serverPc[p] = "loaded"
  /\ IF conf[p] \in {"bad host", "no cert", "no key", "no ca"} THEN Ends(p, conf[p])
     ELSE Goes(p, "binding") /\ UNCHANGED <<conf, portOf, consumers, found, exitCode>>

(* It sleeps 0.1 s and tries again.                                        *)
InUse(p) ==
  /\ found' = [found EXCEPT ![p] = @ + 1]
  /\ UNCHANGED <<serverPc, conf, portOf, consumers, exitCode>>

(* An error other than EADDRINUSE is raised again, ssl's among them.       *)
Listen(p) ==
  /\ serverPc[p] = "binding" /\ found[p] < Window
  /\ IF conf[p] = "forbidden" THEN Ends(p, conf[p])
     ELSE IF portOf # "nobody" THEN InUse(p)
     ELSE IF conf[p] = "bad ssl" THEN Ends(p, conf[p])
     ELSE /\ Goes(p, "serving") /\ portOf' = p
          /\ UNCHANGED <<conf, consumers, found, exitCode>>

GiveUp(p) ==
  /\ serverPc[p] = "binding" /\ found[p] = Window
  /\ Ends(p, "in use")

(* wait() returns on an interrupt.                                         *)
Stops(p) == serverPc[p] = "serving" /\ Ends(p, "stopped")

(* Another program takes the port or leaves it.                            *)
Foreign ==
  /\ portOf \in {"foreign", "nobody"}
  /\ portOf' = IF portOf = "foreign" THEN "nobody" ELSE "foreign"
  /\ UNCHANGED <<serverPc, conf, consumers, found, exitCode>>

StartStep(p) == LoadApp(p) \/ GetSocket(p) \/ Listen(p) \/ GiveUp(p)

ServerNext ==
  \/ \E p \in Process : Configure(p) \/ StartStep(p) \/ Stops(p)
  \/ Foreign

ServerSpec ==
  ServerInit /\ [][ServerNext]_serverVars /\ \A p \in Process : WF_serverVars(StartStep(p))

-----------------------------------------------------------------------------
(* Whoever answers requests also takes the messages of the managers they   *)
(* lead to, and a process that is over takes neither.                      *)
ServesWholly ==
  /\ portOf \in Process => serverPc[portOf] = "serving" /\ portOf \in consumers
  /\ \A p \in Process : serverPc[p] = "over" => p \notin consumers /\ portOf # p

(* Another process may take messages meant for the one that serves only    *)
(* while it is itself at its start.                                        *)
NewcomerOnly ==
  \A p, q \in consumers : p # q => serverPc[p] \in {"loaded", "binding"}
                                    \/ serverPc[q] \in {"loaded", "binding"}

(* A start fails for what is wrong in the configuration, or for a port     *)
(* that each of the attempts found in use.                                 *)
FailsForReason ==
  \A p \in Process :
    /\ exitCode[p] = "in use" => found[p] = Window
    /\ exitCode[p] \in Wrong => exitCode[p] = conf[p]

(* Who has consumers has loaded the application, and who serves has the    *)
(* port.                                                                   *)
StartSound ==
  \A p \in Process :
    /\ p \in consumers <=> serverPc[p] \in {"loaded", "binding", "serving"}
    /\ serverPc[p] = "serving" <=> portOf = p

ServerInv ==
  ServerTypeOK /\ StartSound /\ ServesWholly /\ NewcomerOnly /\ FailsForReason

(* A process that has its configuration serves or is over in the end, so   *)
(* that two of them do not take messages for good.                         *)
StartEnds ==
  \A p \in Process : serverPc[p] = "configured" ~> serverPc[p] \in {"serving", "over"}
=============================================================================
