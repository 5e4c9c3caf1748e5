------------------------- MODULE MCProcesses_proofs -------------------------
(***************************************************************************)
(* What is proved of the parts that wait, poll, retry or restart, each by  *)
(* an invariant of its own that its steps keep, and of all of them in      *)
(* MCProcesses, where the others keep still.                               *)
(***************************************************************************)
EXTENDS MCProcesses, WorkerPool, SequenceTheorems, TLAPS

-----------------------------------------------------------------------------
(* The servers *)

LEMMA ServerStarts == ServerInit => ServerInv
<1> SUFFICES ASSUME ServerInit PROVE ServerInv
  OBVIOUS
<1> USE ServerAssumption
<1>1. ServerTypeOK
  <2>1. 0 \in 0 .. Window
    BY DEF ServerAssumption
  <2>2. found \in [Process -> 0 .. Window]
    BY <2>1 DEF ServerInit
  <2>3. /\ serverPc \in [Process -> {"off", "configured", "loaded", "binding", "serving", "over"}]
        /\ exitCode \in [Process -> {"none", "stopped", "in use"} \cup (Wrong \ {"no"})]
        /\ \A p \in Process : exitCode[p] = "none" /\ serverPc[p] = "off"
    BY DEF ServerInit
  <2> QED
    BY <2>2, <2>3 DEF ServerInit, ServerTypeOK
<1>2. StartSound /\ ServesWholly
  BY DEF ServerInit, StartSound, ServesWholly
<1>3. NewcomerOnly /\ FailsForReason
  BY DEF ServerInit, NewcomerOnly, FailsForReason, Wrong
<1> QED
  BY <1>1, <1>2, <1>3 DEF ServerInv

(* A process that ends gives back its port and its consumers.              *)
LEMMA EndsKept ==
  ASSUME ServerInv, NEW p \in Process, NEW why, Ends(p, why), serverPc[p] # "over",
         why \in {"stopped", "in use"} \cup (Wrong \ {"no"}),
         why = "in use" => found[p] = Window, why \in Wrong => why = conf[p]
  PROVE  ServerInv'
<1> USE ServerAssumption
<1>1. ServerTypeOK'
  BY DEF ServerInv, ServerTypeOK, Ends, Wrong
<1>2. StartSound'
  BY DEF ServerInv, ServerTypeOK, Ends, StartSound
<1>3. ServesWholly' /\ NewcomerOnly'
  BY <1>1, <1>2 DEF ServerTypeOK, StartSound, ServesWholly, NewcomerOnly
<1>4. FailsForReason'
  BY DEF ServerInv, ServerTypeOK, Ends, FailsForReason, Wrong
<1> QED
  BY <1>1, <1>2, <1>3, <1>4 DEF ServerInv

(* A process that goes on keeps what is so of it.                          *)
LEMMA ServerKept ==
  ASSUME ServerInv, [ServerNext]_serverVars
  PROVE  ServerInv'
<1> USE ServerAssumption
<1>s. StartSound /\ ServerTypeOK /\ ServesWholly /\ NewcomerOnly /\ FailsForReason
  BY DEF ServerInv
<1>1. CASE UNCHANGED serverVars
  BY <1>1 DEF serverVars, ServerInv, ServerTypeOK, StartSound, ServesWholly, NewcomerOnly,
              FailsForReason
<1>2. ASSUME NEW p \in Process, \E why : Ends(p, why) /\ serverPc[p] # "over"
               /\ why \in {"stopped", "in use"} \cup (Wrong \ {"no"})
               /\ (why = "in use" => found[p] = Window) /\ (why \in Wrong => why = conf[p])
      PROVE  ServerInv'
  BY <1>2, EndsKept
<1>3. ASSUME NEW p \in Process, NEW w \in {"configured", "loaded", "binding", "serving"},
             Goes(p, w), serverPc[p] # "over", UNCHANGED <<conf, found, exitCode>>,
             consumers' = IF w = "configured" THEN consumers ELSE consumers \cup {p},
             w = "configured" => serverPc[p] = "off",
             IF w = "serving" THEN portOf = "nobody" /\ portOf' = p
                              ELSE portOf' = portOf /\ serverPc[p] # "serving"
      PROVE  ServerInv'
  <2>1. ServerTypeOK'
    BY <1>s, <1>3 DEF ServerTypeOK, Goes
  <2>2. StartSound'
    BY <1>s, <1>3 DEF ServerTypeOK, StartSound, Goes
  <2>3. ServesWholly' /\ NewcomerOnly'
    BY <2>1, <2>2 DEF ServerTypeOK, StartSound, ServesWholly, NewcomerOnly
  <2>4. FailsForReason'
    BY <1>s, <1>3 DEF ServerTypeOK, FailsForReason, Wrong
  <2> QED
    BY <2>1, <2>2, <2>3, <2>4 DEF ServerInv
<1>4. ASSUME NEW p \in Process, InUse(p), serverPc[p] = "binding", found[p] < Window
      PROVE  ServerInv'
  <2>1. ServerTypeOK'
    <3>1. found[p] + 1 \in 0 .. Window
      <4>1. found[p] \in 0 .. Window
        BY <1>s DEF ServerTypeOK
      <4> QED
        BY <1>4, <4>1 DEF ServerAssumption
    <3>2. found' \in [Process -> 0 .. Window]
      BY <1>s, <1>4, <3>1 DEF ServerTypeOK, InUse
    <3> QED
      BY <1>s, <1>4, <3>2 DEF InUse, ServerTypeOK
  <2>2. StartSound' /\ ServesWholly' /\ NewcomerOnly'
    BY <1>s, <1>4 DEF InUse, StartSound, ServesWholly, NewcomerOnly
  <2>3. FailsForReason'
    <3>1. exitCode[p] = "none"
      BY <1>s, <1>4 DEF ServerTypeOK
    <3> QED
      BY <1>s, <1>4, <3>1 DEF InUse, ServerTypeOK, FailsForReason, Wrong
  <2> QED
    BY <2>1, <2>2, <2>3 DEF ServerInv
<1>5. CASE Foreign
  BY <1>s, <1>5 DEF Foreign, ServerInv, ServerTypeOK, StartSound, ServesWholly, NewcomerOnly,
                    FailsForReason
<1>6. ASSUME NEW p \in Process, Configure(p) PROVE ServerInv'
  <2>1. CASE conf[p] = "no config file"
    BY <1>2, <1>6, <2>1 DEF Configure, Wrong
  <2>2. CASE conf[p] # "no config file"
    BY <1>3, <1>6, <2>2 DEF Configure
  <2> QED
    BY <2>1, <2>2
<1>7. ASSUME NEW p \in Process, LoadApp(p) PROVE ServerInv'
  <2>1. CASE conf[p] \in {"no paste file", "bad app", "no plugin"}
    BY <1>2, <1>7, <2>1 DEF LoadApp, Wrong
  <2>2. CASE conf[p] \notin {"no paste file", "bad app", "no plugin"}
    BY <1>3, <1>7, <2>2 DEF LoadApp, ConsumersOf
  <2> QED
    BY <2>1, <2>2
<1>8. ASSUME NEW p \in Process, GetSocket(p) PROVE ServerInv'
  <2>1. CASE conf[p] \in {"bad host", "no cert", "no key", "no ca"}
    BY <1>2, <1>8, <2>1 DEF GetSocket, Wrong
  <2>2. CASE conf[p] \notin {"bad host", "no cert", "no key", "no ca"}
    <3>1. consumers \cup {p} = consumers
      BY <1>s, <1>8 DEF StartSound, GetSocket
    <3> QED
      BY <1>3, <1>8, <2>2, <3>1 DEF GetSocket
  <2> QED
    BY <2>1, <2>2
<1>9. ASSUME NEW p \in Process, Listen(p) PROVE ServerInv'
  <2>1. CASE conf[p] = "forbidden" \/ (conf[p] = "bad ssl" /\ portOf = "nobody")
    BY <1>2, <1>9, <2>1 DEF Listen, Wrong
  <2>2. CASE conf[p] # "forbidden" /\ portOf # "nobody"
    BY <1>4, <1>9, <2>2 DEF Listen
  <2>3. CASE conf[p] \notin {"forbidden", "bad ssl"} /\ portOf = "nobody"
    <3>1. consumers \cup {p} = consumers
      BY <1>s, <1>9 DEF StartSound, Listen
    <3> QED
      BY <1>3, <1>9, <2>3, <3>1 DEF Listen
  <2> QED
    BY <2>1, <2>2, <2>3
<1>10. ASSUME NEW p \in Process, GiveUp(p) \/ Stops(p) PROVE ServerInv'
  <2>1. CASE GiveUp(p)
    <3>1. /\ Ends(p, "in use") /\ serverPc[p] # "over" /\ found[p] = Window
          /\ "in use" \notin Wrong
      BY <2>1 DEF GiveUp, Wrong
    <3> QED
      BY <3>1, EndsKept
  <2>2. CASE Stops(p)
    <3>1. Ends(p, "stopped") /\ serverPc[p] # "over" /\ "stopped" \notin Wrong
      BY <2>2 DEF Stops, Wrong
    <3> QED
      BY <3>1, EndsKept
  <2> QED
    BY <1>10, <2>1, <2>2
<1> QED
  BY <1>1, <1>5, <1>6, <1>7, <1>8, <1>9, <1>10 DEF ServerNext, StartStep

-----------------------------------------------------------------------------
(* The launcher of the vnf-manager *)

LEMMA LifeStarts == LifeInit => LifeInv
<1> SUFFICES ASSUME LifeInit PROVE LifeInv
  OBVIOUS
<1> USE MaxHupsAssumption
<1>1. LifeTypeOK
  <2>1. 0 \in Starts
    BY DEF Starts, MaxHupsAssumption
  <2>2. timer \in [heart : [loop : Loops, running : BOOLEAN],
                  of : [Starts -> [Timers -> [loop : Loops, running : BOOLEAN]]]]
    BY DEF LifeInit, Loops, Started, Unstarted
  <2>3. launcher \in [phase : {"loop", "armed", "waiting", "stopping", "stopped", "reset",
                              "exited", "escaped", "killed"},
                     handled : BOOLEAN, daemon : BOOLEAN, signo : {"none", "TERM", "HUP"},
                     starts : Starts]
    BY <2>1 DEF LifeInit
  <2> QED
    BY <2>2, <2>3 DEF LifeInit, LifeTypeOK
<1>2. \A n \in Starts, k \in Timers : timer.of[n][k].running = FALSE
  BY DEF LifeInit, Unstarted
<1>3. OneLoopEach
  BY <1>2 DEF OneLoopEach
<1>4. LauncherSound /\ ExitIsClean
  BY DEF LifeInit, LauncherSound, ExitIsClean
<1> QED
  BY <1>1, <1>3, <1>4 DEF LifeInv

(* A signal ends the launcher's wait, or the process; it may strike the    *)
(* service at its start.                                                   *)
LEMMA SignalKept ==
  ASSUME LifeInv, NEW s \in {"TERM", "HUP"}, Signal(s)
  PROVE  LifeInv'
<1>1. LifeTypeOK /\ LauncherSound /\ OneLoopEach /\ ExitIsClean
  BY DEF LifeInv
<1>2. /\ launcher.phase \notin {"exited", "escaped", "killed"}
      /\ launcher'.phase = IF ~launcher.handled THEN "killed"
                           ELSE IF launcher.phase = "waiting" THEN "stopping" ELSE "escaped"
      /\ launcher'.signo = s /\ launcher'.starts = launcher.starts
      /\ s = "HUP" => launcher.starts < MaxHups
      /\ thread' = thread \/ (launcher.phase = "waiting" /\ thread = "starting" /\ thread' = "failed")
      /\ UNCHANGED <<done, timer>>
  BY <1>1 DEF Signal, Over, LifeTypeOK
<1>3. LifeTypeOK'
  BY <1>1, <1>2 DEF Signal, LifeTypeOK
<1>4. LauncherSound' /\ ExitIsClean'
  BY <1>2 DEF LauncherSound, ExitIsClean
<1>5. OneLoopEach'
  BY <1>1, <1>2 DEF OneLoopEach
<1> QED
  BY <1>3, <1>4, <1>5 DEF LifeInv

(* A looping call that is stopped is where it was.                         *)
LEMMA StoppedLoop ==
  ASSUME NEW t \in [loop : Loops, running : BOOLEAN]
  PROVE  /\ [t EXCEPT !.running = FALSE] \in [loop : Loops, running : BOOLEAN]
         /\ [t EXCEPT !.running = FALSE].running = FALSE
OBVIOUS

(* Stopping the services ends the loops of this start, and there are none  *)
(* of others.                                                              *)
LEMMA StopsLoops ==
  ASSUME LifeTypeOK, OneLoopEach, StopAll
  PROVE  /\ \A n \in Starts, k \in Timers : timer'.of[n][k].running = FALSE
         /\ timer' \in [heart : [loop : Loops, running : BOOLEAN],
                        of : [Starts -> [Timers -> [loop : Loops, running : BOOLEAN]]]]
         /\ done' \in [service : 0 .. 1, services : 0 .. 1]
         /\ done'.service = 1 /\ done'.services = 1 /\ thread' = "none"
<1>1. timer \in [heart : [loop : Loops, running : BOOLEAN],
                of : [Starts -> [Timers -> [loop : Loops, running : BOOLEAN]]]]
  BY DEF LifeTypeOK
<1> DEFINE stopped == [k \in Timers |-> [timer.of[launcher.starts][k] EXCEPT !.running = FALSE]]
<1>2. launcher.starts \in Starts
  BY DEF LifeTypeOK
<1>3. /\ stopped \in [Timers -> [loop : Loops, running : BOOLEAN]]
      /\ \A k \in Timers : stopped[k].running = FALSE
  <2>1. \A k \in Timers : timer.of[launcher.starts][k] \in [loop : Loops, running : BOOLEAN]
    BY <1>1, <1>2
  <2> QED
    BY <2>1, StoppedLoop
<1>4. timer' = [timer EXCEPT !.of[launcher.starts] = stopped]
  BY DEF StopAll
<1> HIDE DEF stopped
<1>5. /\ timer'.heart = timer.heart /\ timer'.of = [timer.of EXCEPT ![launcher.starts] = stopped]
      /\ timer' = [heart |-> timer'.heart, of |-> timer'.of]
  BY <1>1, <1>4
<1>6. timer'.of \in [Starts -> [Timers -> [loop : Loops, running : BOOLEAN]]]
  BY <1>1, <1>2, <1>3, <1>5
<1>7. ASSUME NEW n \in Starts, NEW k \in Timers PROVE timer'.of[n][k].running = FALSE
  <2>1. CASE n = launcher.starts
    BY <1>1, <1>2, <1>3, <1>5, <2>1
  <2>2. CASE n # launcher.starts
    <3>1. timer'.of[n][k] = timer.of[n][k]
      BY <1>1, <1>2, <1>5, <2>2
    <3>2. timer.of[n][k].running \in BOOLEAN
      BY <1>1
    <3> QED
      BY <2>2, <3>1, <3>2 DEF OneLoopEach
  <2> QED
    BY <2>1, <2>2
<1>8. /\ done' \in [service : 0 .. 1, services : 0 .. 1]
      /\ done'.service = 1 /\ done'.services = 1 /\ thread' = "none"
  <2>1. /\ done \in [service : 0 .. 1, services : 0 .. 1] /\ DOMAIN done = {"service", "services"}
        /\ done' = [e \in DOMAIN done |-> SentOnce(e)] /\ thread' = "none"
    BY DEF StopAll, LifeTypeOK
  <2>2. SentOnce("service") = 1 /\ SentOnce("services") = 1
    BY <2>1 DEF SentOnce
  <2>3. done' = [service |-> 1, services |-> 1]
    BY <2>1, <2>2
  <2> QED
    BY <2>1, <2>3
<1> QED
  BY <1>1, <1>5, <1>6, <1>7, <1>8

(* A looping call that wakes up does not begin to run.                     *)
LEMMA LoopKept ==
  ASSUME LifeInv, LoopStep
  PROVE  LifeInv'
<1>1. LifeTypeOK /\ LauncherSound /\ OneLoopEach /\ ExitIsClean
  BY DEF LifeInv
<1>2. launcher.phase = "waiting" /\ UNCHANGED <<launcher, thread, done>>
  BY DEF LoopStep, Loop, Heartbeat
<1>t. timer \in [heart : [loop : Loops, running : BOOLEAN],
                of : [Starts -> [Timers -> [loop : Loops, running : BOOLEAN]]]]
  BY <1>1 DEF LifeTypeOK
<1>3. \A t \in [loop : Loops, running : BOOLEAN] :
        Woken(t) \in [loop : Loops, running : BOOLEAN] /\ (Woken(t).running <=> t.running)
  BY DEF Woken, Loops
<1>4. /\ timer' \in [heart : [loop : Loops, running : BOOLEAN],
                     of : [Starts -> [Timers -> [loop : Loops, running : BOOLEAN]]]]
      /\ \A n \in Starts, k \in Timers : timer'.of[n][k].running => timer.of[n][k].running
  <2>1. CASE Heartbeat
    <3> DEFINE h == timer.heart
               h2 == IF h.loop = "calling" THEN Woken([h EXCEPT !.running = FALSE]) ELSE Woken(h)
    <3>1. h \in [loop : Loops, running : BOOLEAN]
      BY <1>t
    <3>2. h2 \in [loop : Loops, running : BOOLEAN]
      <4>1. [h EXCEPT !.running = FALSE] \in [loop : Loops, running : BOOLEAN]
        BY <3>1, StoppedLoop
      <4> QED
        BY <1>3, <3>1, <4>1
    <3>3. timer' = [timer EXCEPT !.heart = h2]
      BY <2>1 DEF Heartbeat
    <3> HIDE DEF h2
    <3> QED
      BY <1>t, <3>2, <3>3
  <2>2. ASSUME NEW n \in Starts, NEW k \in Timers, Loop(n, k)
        PROVE  /\ timer' \in [heart : [loop : Loops, running : BOOLEAN],
                              of : [Starts -> [Timers -> [loop : Loops, running : BOOLEAN]]]]
               /\ \A m \in Starts, l \in Timers :
                    timer'.of[m][l].running => timer.of[m][l].running
    <3> DEFINE w == Woken(timer.of[n][k])
    <3>1. w \in [loop : Loops, running : BOOLEAN] /\ (w.running <=> timer.of[n][k].running)
      BY <1>3, <1>t
    <3>2. timer' = [timer EXCEPT !.of[n][k] = w]
      BY <2>2 DEF Loop
    <3> HIDE DEF w
    <3>3. /\ timer'.heart = timer.heart
          /\ timer'.of = [timer.of EXCEPT ![n][k] = w]
          /\ timer' = [heart |-> timer'.heart, of |-> timer'.of]
      BY <1>t, <3>2
    <3>4. timer'.of = [timer.of EXCEPT ![n] = [timer.of[n] EXCEPT ![k] = w]]
      BY <1>t, <3>3
    <3>5. [timer.of[n] EXCEPT ![k] = w] \in [Timers -> [loop : Loops, running : BOOLEAN]]
      BY <1>t, <3>1
    <3>6. timer'.of \in [Starts -> [Timers -> [loop : Loops, running : BOOLEAN]]]
      BY <1>t, <3>4, <3>5
    <3>7. ASSUME NEW m \in Starts, NEW l \in Timers, timer'.of[m][l].running
          PROVE  timer.of[m][l].running
      <4>1. CASE m = n /\ l = k
        BY <1>t, <3>1, <3>4, <3>7, <4>1
      <4>2. CASE ~(m = n /\ l = k)
        BY <1>t, <3>4, <3>7, <4>2
      <4> QED
        BY <4>1, <4>2
    <3> QED
      BY <1>t, <3>3, <3>6, <3>7
  <2> QED
    BY <2>1, <2>2 DEF LoopStep
<1> QED
  BY <1>1, <1>2, <1>4 DEF LifeInv, LifeTypeOK, LauncherSound, OneLoopEach, ExitIsClean

(* The rest of what the launcher and the service do.                       *)
LEMMA LifeKept ==
  ASSUME LifeInv, [LifeNext]_lifeVars
  PROVE  LifeInv'
<1>1. LifeTypeOK /\ LauncherSound /\ OneLoopEach /\ ExitIsClean
  BY DEF LifeInv
<1> USE DEF LifeInv, LifeTypeOK, LauncherSound, OneLoopEach, ExitIsClean
<1>2. CASE UNCHANGED lifeVars
  BY <1>2 DEF lifeVars
<1>3. CASE StartService \/ StartFails
  BY <1>3 DEF StartService, StartFails
<1>4. CASE StartTimers
  <2>1. /\ launcher.phase = "waiting" /\ thread' = "serving"
        /\ launcher.starts \in Starts /\ UNCHANGED <<launcher, done>>
    BY <1>4 DEF StartTimers
  <2> DEFINE on == [k \in Timers |-> Started]
  <2>2. timer' = [timer EXCEPT !.of[launcher.starts] = on]
    BY <1>4 DEF StartTimers
  <2>3. on \in [Timers -> [loop : Loops, running : BOOLEAN]]
    BY DEF Started, Loops
  <2> HIDE DEF on
  <2>4. /\ timer'.heart = timer.heart
        /\ timer'.of = [timer.of EXCEPT ![launcher.starts] = on]
        /\ timer' = [heart |-> timer'.heart, of |-> timer'.of]
    BY <2>2
  <2>5. timer'.of \in [Starts -> [Timers -> [loop : Loops, running : BOOLEAN]]]
    BY <2>1, <2>3, <2>4
  <2>6. ASSUME NEW n \in Starts, NEW k \in Timers, timer'.of[n][k].running
        PROVE  n = launcher'.starts
    <3>1. CASE n # launcher.starts
      <4>1. timer.of[n][k].running /\ launcher'.starts = launcher.starts
        BY <2>1, <2>4, <2>6, <3>1, <1>1
      <4> QED
        BY <1>1, <4>1
    <3> QED
      BY <2>1, <3>1
  <2>7. timer.heart \in [loop : Loops, running : BOOLEAN]
    BY <1>1
  <2>8. LifeTypeOK'
    BY <1>1, <2>1, <2>4, <2>5, <2>7
  <2>9. LauncherSound' /\ ExitIsClean'
    BY <1>1, <2>1
  <2>10. OneLoopEach'
    BY <2>1, <2>6
  <2> QED
    BY <2>8, <2>9, <2>10
<1>5. CASE HandleSignal \/ BeginWait
  <2>1. CASE HandleSignal
    <3>1. /\ launcher.phase = "loop" /\ UNCHANGED <<thread, done, timer>>
          /\ launcher' = [launcher EXCEPT !.phase = "armed", !.handled = TRUE, !.signo = "none"]
      BY <2>1 DEF HandleSignal
    <3>2. LifeTypeOK' /\ launcher'.phase = "armed" /\ launcher'.signo = "none"
          /\ launcher'.starts = launcher.starts
      BY <1>1, <3>1
    <3> QED
      BY <1>1, <3>1, <3>2
  <2>2. CASE BeginWait
    <3>1. /\ launcher.phase = "armed" /\ UNCHANGED <<thread, done, timer>>
          /\ launcher' = [launcher EXCEPT !.phase = "waiting"]
      BY <2>2 DEF BeginWait, Launcher
    <3>2. LifeTypeOK' /\ launcher'.phase = "waiting" /\ launcher'.signo = launcher.signo
          /\ launcher'.starts = launcher.starts
      BY <1>1, <3>1
    <3> QED
      BY <1>1, <3>1, <3>2
  <2> QED
    BY <1>5, <2>1, <2>2
<1>6. CASE WaitReturns \/ Exit
  <2>1. /\ launcher' = [launcher EXCEPT !.phase = launcher'.phase]
        /\ launcher'.phase \in {"stopping", "exited"}
        /\ launcher'.phase = "exited" => launcher.phase = "stopped"
        /\ launcher'.phase = "stopping" => launcher.phase = "waiting"
        /\ UNCHANGED <<thread, done, timer>>
    BY <1>1, <1>6 DEF WaitReturns, Exit, Launcher
  <2>2. LifeTypeOK' /\ launcher'.starts = launcher.starts /\ launcher'.signo = launcher.signo
    BY <1>1, <2>1
  <2> QED
    BY <1>1, <2>1, <2>2
<1>7. CASE StopServices \/ Restart
  <2>1. StopAll
    BY <1>7 DEF StopServices, Restart
  <2>2. /\ launcher'.phase \in {"stopped", "reset"}
        /\ launcher' = [launcher EXCEPT !.phase = launcher'.phase]
        /\ launcher'.phase = "reset" => launcher.signo = "HUP"
        /\ launcher.phase # "loop"
    BY <1>7 DEF StopServices, Restart, Launcher
  <2>3. /\ \A n \in Starts, k \in Timers : timer'.of[n][k].running = FALSE
        /\ timer' \in [heart : [loop : Loops, running : BOOLEAN],
                       of : [Starts -> [Timers -> [loop : Loops, running : BOOLEAN]]]]
        /\ done' \in [service : 0 .. 1, services : 0 .. 1]
        /\ done'.service = 1 /\ done'.services = 1 /\ thread' = "none"
    BY <1>1, <2>1, StopsLoops
  <2>4. LifeTypeOK'
    BY <1>1, <2>2, <2>3
  <2>5. LauncherSound' /\ OneLoopEach' /\ ExitIsClean'
    BY <1>1, <2>2, <2>3
  <2> QED
    BY <2>4, <2>5
<1>8. CASE Reset
  <2>1. /\ launcher.phase = "reset" /\ thread' = "spawned" /\ UNCHANGED timer
        /\ launcher' = [launcher EXCEPT !.phase = "loop", !.starts = launcher.starts + 1]
        /\ done' = [e \in DOMAIN done |-> 0]
    BY <1>8 DEF Reset
  <2>2. launcher.starts + 1 \in Starts
    <3>1. launcher.starts \in 0 .. MaxHups /\ launcher.starts < MaxHups
      BY <1>1, <2>1 DEF Starts
    <3> QED
      BY <3>1, MaxHupsAssumption DEF Starts
  <2>3. done' \in [service : 0 .. 1, services : 0 .. 1]
    BY <1>1, <2>1
  <2>4. LifeTypeOK'
    BY <1>1, <2>1, <2>2, <2>3
  <2>5. \A n \in Starts, k \in Timers : ~timer.of[n][k].running
    BY <1>1, <2>1
  <2>6. LauncherSound' /\ OneLoopEach' /\ ExitIsClean'
    BY <1>1, <2>1, <2>5
  <2> QED
    BY <2>4, <2>6
<1> QED
  BY <1>2, <1>3, <1>4, <1>5, <1>6, <1>7, <1>8, SignalKept, LoopKept
     DEF LifeNext, LauncherStep, ServiceStep

-----------------------------------------------------------------------------
(* A call of the client *)

LEMMA SessionStarts == SessionInit => SessionInv
<1> SUFFICES ASSUME SessionInit PROVE SessionInv
  OBVIOUS
<1>1. client \in ClientState /\ client.format = "json"
  BY DEF SessionInit, ClientState, Formats
<1>2. 1 \in 1 .. Retries + 1 /\ 0 \in 0 .. Retries + 1
  BY RetriesAssumption
<1>3. call \in CallState
  BY <1>2 DEF SessionInit, Idle, CallState, Methods, Formats, Phases, Outcomes
<1>4. UnderWaySound /\ RunsBounded /\ SuccessRan /\ GivesUpLate /\ FormatRestored
  BY RetriesAssumption DEF SessionInit, Idle, UnderWaySound, RunsBounded, SuccessRan,
     GivesUpLate, FormatRestored
<1> QED
  BY <1>1, <1>3, <1>4 DEF SessionInv, SessionTypeOK

(* A call that goes on, without having run again.                          *)
LEMMA GoesOn ==
  ASSUME SessionInv, call.phase # "idle", NEW p \in Phases \ {"idle"}, NEW f \in BOOLEAN,
         call' = [call EXCEPT !.phase = p, !.fresh = f],
         client' \in ClientState, client'.strategy = client.strategy,
         p = "resend" => f
  PROVE  SessionInv'
<1>1. /\ call \in CallState /\ UnderWaySound /\ RunsBounded /\ SuccessRan
  BY DEF SessionInv, SessionTypeOK
<1>2. /\ call' \in CallState /\ call'.phase = p /\ call'.fresh = f
      /\ call'.ran = call.ran /\ call'.attempt = call.attempt /\ call'.outcome = call.outcome
      /\ call'.method = call.method
  BY <1>1 DEF CallState
<1>3. SessionTypeOK'
  BY <1>2 DEF SessionTypeOK
<1>4. UnderWaySound' /\ RunsBounded' /\ SuccessRan' /\ GivesUpLate' /\ FormatRestored'
  BY <1>1, <1>2 DEF UnderWaySound, RunsBounded, SuccessRan, GivesUpLate, FormatRestored
<1> QED
  BY <1>3, <1>4 DEF SessionInv

(* A call that ends with an exception, having run n times in this attempt. *)
LEMMA EndsRaised ==
  ASSUME SessionInv, call.phase # "idle", NEW n \in {0, 1}, NEW f \in BOOLEAN,
         NEW o \in Outcomes \ {"none", "ok"},
         call' = [call EXCEPT !.phase = "idle", !.ran = call.ran + n, !.fresh = f, !.outcome = o],
         client' \in ClientState, client'.strategy = client.strategy,
         o = "ConnectionFailed" => ~Retried(call.method) \/ call.attempt > Retries,
         o = "Unauthorized" /\ client.strategy = "keystone" => f
  PROVE  SessionInv'
<1>1. /\ call \in CallState /\ UnderWaySound /\ RunsBounded /\ SuccessRan
  BY DEF SessionInv, SessionTypeOK
<1>2. /\ call.attempt \in Nat /\ call.ran \in Nat /\ call.attempt <= Retries + 1
      /\ call.ran + n <= call.attempt /\ Retries \in Nat
      /\ call.method = "POST" => call.ran + n <= 1
  BY <1>1, RetriesAssumption DEF CallState, UnderWaySound
<1>3. call.ran + n \in 0 .. Retries + 1 /\ "idle" \in Phases
  BY <1>2 DEF Phases
<1>4. /\ call' \in CallState /\ call'.phase = "idle" /\ call'.fresh = f
      /\ call'.ran = call.ran + n /\ call'.attempt = call.attempt /\ call'.outcome = o
      /\ call'.method = call.method
  BY <1>1, <1>3 DEF CallState
<1>5. SessionTypeOK'
  BY <1>4 DEF SessionTypeOK
<1>6. UnderWaySound' /\ RunsBounded' /\ SuccessRan' /\ FormatRestored'
  BY <1>1, <1>2, <1>4 DEF UnderWaySound, RunsBounded, SuccessRan, FormatRestored
<1>7. GivesUpLate'
  BY <1>2, <1>4 DEF GivesUpLate, Retried
<1> QED
  BY <1>5, <1>6, <1>7 DEF SessionInv

(* A call that returns, having run once more.                              *)
LEMMA Returns ==
  ASSUME SessionInv, call.phase # "idle", Return
  PROVE  SessionInv'
<1>1. /\ call \in CallState /\ client \in ClientState /\ UnderWaySound
  BY DEF SessionInv, SessionTypeOK
<1>2. /\ call.attempt \in Nat /\ call.ran \in Nat /\ call.attempt <= Retries + 1
      /\ call.ran + 1 <= call.attempt /\ Retries \in Nat
      /\ call.method = "POST" => call.ran + 1 <= 1
  BY <1>1, RetriesAssumption DEF CallState, UnderWaySound
<1>3. call.ran + 1 \in 0 .. Retries + 1 /\ "idle" \in Phases /\ "ok" \in Outcomes
  BY <1>2 DEF Phases, Outcomes
<1>4. /\ call' \in CallState /\ call'.phase = "idle" /\ call'.saved = call.saved
      /\ call'.ran = call.ran + 1 /\ call'.attempt = call.attempt /\ call'.outcome = "ok"
      /\ call'.method = call.method
  BY <1>1, <1>3 DEF CallState, Return
<1>5. client' \in ClientState /\ client'.format = call.saved
  BY <1>1 DEF ClientState, CallState, Return
<1>6. UnderWaySound' /\ RunsBounded' /\ SuccessRan' /\ FormatRestored' /\ GivesUpLate'
  BY <1>2, <1>4, <1>5 DEF UnderWaySound, RunsBounded, SuccessRan, FormatRestored, GivesUpLate
<1> QED
  BY <1>4, <1>5, <1>6 DEF SessionInv, SessionTypeOK

(* A lost connection, when the request may have run: only what may be run  *)
(* again is, in an attempt of its own.                                     *)
LEMMA LostKept ==
  ASSUME SessionInv, call.phase # "idle", NEW n \in {0, 1}, ConnectionLost(n)
  PROVE  SessionInv'
<1>1. /\ call \in CallState /\ client \in ClientState /\ UnderWaySound /\ client' = client
  BY DEF SessionInv, SessionTypeOK, ConnectionLost
<1>2. CASE Retried(call.method) /\ call.attempt <= Retries
  <2>1. /\ call.attempt \in Nat /\ call.ran \in Nat /\ Retries \in Nat
        /\ call.ran + n <= call.attempt /\ call.method # "POST" /\ call.outcome = "none"
    BY <1>1, <1>2, RetriesAssumption DEF CallState, UnderWaySound, Retried
  <2>2. /\ call.ran + n \in 0 .. Retries + 1 /\ call.attempt + 1 \in 1 .. Retries + 1
        /\ "fetch" \in Phases
    BY <1>2, <2>1 DEF Phases
  <2>3. /\ call' \in CallState /\ call'.phase = "fetch" /\ call'.method = call.method
        /\ call'.ran = call.ran + n /\ call'.attempt = call.attempt + 1
        /\ call'.outcome = "none"
    BY <1>1, <1>2, <2>1, <2>2 DEF CallState, ConnectionLost
  <2>4. UnderWaySound' /\ RunsBounded' /\ SuccessRan' /\ FormatRestored' /\ GivesUpLate'
    BY <1>2, <2>1, <2>3 DEF UnderWaySound, RunsBounded, SuccessRan, FormatRestored, GivesUpLate
  <2> QED
    BY <1>1, <2>3, <2>4 DEF SessionInv, SessionTypeOK
<1>3. CASE ~(Retried(call.method) /\ call.attempt <= Retries)
  <2>1. /\ call.fresh \in BOOLEAN /\ "ConnectionFailed" \in Outcomes \ {"none", "ok"}
        /\ call.attempt \in Nat /\ Retries \in Nat
    BY <1>1, RetriesAssumption DEF CallState, Outcomes
  <2>2. call' = [call EXCEPT !.phase = "idle", !.ran = call.ran + n, !.fresh = call.fresh,
                             !.outcome = "ConnectionFailed"]
    BY <1>1, <1>3 DEF CallState, ConnectionLost
  <2>3. ~Retried(call.method) \/ call.attempt > Retries
    BY <1>3, <2>1
  <2> QED
    BY <1>1, <2>1, <2>2, <2>3, EndsRaised
<1> QED
  BY <1>2, <1>3

(* A call keeps what is so of it, whatever fails on the way.               *)
LEMMA SessionKept ==
  ASSUME SessionInv, [SessionNext]_sessionVars
  PROVE  SessionInv'
<1>1. /\ call \in CallState /\ client \in ClientState /\ UnderWaySound
  BY DEF SessionInv, SessionTypeOK
<1>z. call = [call EXCEPT !.ran = call.ran + 0]
  <2>1. call.ran + 0 = call.ran
    BY <1>1 DEF CallState
  <2>2. call = [call EXCEPT !.ran = call.ran]
    BY <1>1 DEF CallState
  <2> QED
    BY <2>1, <2>2
<1>m. ASSUME NEW p \in Phases \ {"idle"}, call.phase # "idle", MoveTo(p), client' \in ClientState,
             client'.strategy = client.strategy, p = "resend" => call.fresh
      PROVE  SessionInv'
  <2>1. call' = [call EXCEPT !.phase = p, !.fresh = call.fresh] /\ call.fresh \in BOOLEAN
    BY <1>1, <1>m DEF MoveTo, CallState
  <2> QED
    BY <1>m, <2>1, GoesOn
<1>e. ASSUME NEW n \in {0, 1}, call.phase # "idle",
             NEW o \in Outcomes \ {"none", "ok", "ConnectionFailed"},
             call' = [call EXCEPT !.phase = "idle", !.ran = call.ran + n, !.outcome = o],
             client' \in ClientState, client'.strategy = client.strategy,
             o = "Unauthorized" /\ client.strategy = "keystone" => call.fresh
      PROVE  SessionInv'
  <2>1. /\ call' = [call EXCEPT !.phase = "idle", !.ran = call.ran + n, !.fresh = call.fresh,
                                !.outcome = o]
        /\ call.fresh \in BOOLEAN
    BY <1>1, <1>e DEF CallState
  <2> QED
    BY <1>e, <2>1, EndsRaised
<1>r. ASSUME call.phase # "idle", NEW o \in Outcomes \ {"none", "ok", "ConnectionFailed"}, Raise(o),
             o = "Unauthorized" /\ client.strategy = "keystone" => call.fresh
      PROVE  SessionInv'
  <2>1. call' = [call EXCEPT !.phase = "idle", !.ran = call.ran + 0, !.outcome = o]
    BY <1>1, <1>r, <1>z DEF Raise, CallState
  <2> QED
    BY <1>1, <1>e, <1>r, <2>1 DEF Raise
<1>o. {"NoAuthURLProvided", "EndpointNotFound", "RequestURITooLong", "AttributeError",
       "VNFSvcClientException", "SessionError", "Unauthorized"}
        \subseteq Outcomes \ {"none", "ok", "ConnectionFailed"}
  BY DEF Outcomes
<1>p. {"fetch", "endpoint", "login", "ready", "send", "relogin", "resend"} \subseteq Phases \ {"idle"}
  BY DEF Phases
<1>j. [client EXCEPT !.format = "json"] \in ClientState
      /\ [client EXCEPT !.format = "json"].strategy = client.strategy
  BY <1>1 DEF ClientState, Formats
<1>n. ASSUME call.phase # "idle", NEW n \in {0, 1}, NoMetadata(n) PROVE SessionInv'
  BY <1>1, <1>e, <1>j, <1>n, <1>o DEF NoMetadata
<1>a. ASSUME call.phase # "idle", NEW n \in {0, 1}, ErrorAnswer(n) PROVE SessionInv'
  BY <1>1, <1>e, <1>j, <1>a, <1>o DEF ErrorAnswer
<1>s. ASSUME call.phase # "idle", Succeeded PROVE SessionInv'
  BY <1>n, <1>s, Returns DEF Succeeded
<1>2. CASE UNCHANGED sessionVars
  BY <1>2 DEF sessionVars, SessionInv, SessionTypeOK, UnderWaySound, RunsBounded, SuccessRan,
              GivesUpLate, FormatRestored
<1>3. CASE Expire
  <2>1. /\ client' \in ClientState /\ client'.strategy = client.strategy
        /\ client'.format = client.format /\ call' = call
    BY <1>1, <1>3 DEF Expire, ClientState
  <2> QED
    BY <2>1 DEF SessionInv, SessionTypeOK, UnderWaySound, RunsBounded, SuccessRan,
                GivesUpLate, FormatRestored
<1>4. CASE Call
  <2>1. PICK m \in Methods, f \in {client.format, "json", "xml"}, long \in BOOLEAN :
          /\ call' = [Idle EXCEPT !.method = m, !.saved = client.format, !.long = long,
                                  !.phase = "fetch"]
          /\ client' = [client EXCEPT !.format = f]
    BY <1>4 DEF Call
  <2>2. /\ 1 \in 1 .. Retries + 1 /\ 0 \in 0 .. Retries + 1 /\ client.format \in Formats
        /\ f \in Formats
    BY <1>1, RetriesAssumption DEF ClientState, Formats
  <2>3. call' = [method |-> m, saved |-> client.format, long |-> long, phase |-> "fetch",
                 attempt |-> 1, fresh |-> FALSE, ran |-> 0, outcome |-> "none"]
    BY <2>1 DEF Idle
  <2>4. call' \in CallState
    BY <2>2, <2>3 DEF CallState, Phases, Outcomes
  <2>5. client' \in ClientState
    BY <1>1, <2>1, <2>2 DEF ClientState
  <2>6. UnderWaySound' /\ RunsBounded' /\ SuccessRan' /\ FormatRestored' /\ GivesUpLate'
    BY <2>3, RetriesAssumption
       DEF UnderWaySound, RunsBounded, SuccessRan, FormatRestored, GivesUpLate
  <2> QED
    BY <2>4, <2>5, <2>6 DEF SessionInv, SessionTypeOK
<1>5. CASE Fetch
  BY <1>1, <1>5, <1>m, <1>p DEF Fetch
<1>6. CASE GetEndpointUrl
  <2>1. call.phase # "idle" /\ client.strategy = client.strategy
    BY <1>6 DEF GetEndpointUrl
  <2>2. /\ [client EXCEPT !.endpoint = TRUE] \in ClientState
        /\ [client EXCEPT !.endpoint = TRUE].strategy = client.strategy
    BY <1>1 DEF ClientState
  <2>3. CASE ConnectionLost(0)
    BY <2>1, <2>3, LostKept
  <2>4. CASE Raise("NoAuthURLProvided") \/ Raise("EndpointNotFound")
    BY <1>o, <1>r, <2>1, <2>4
  <2>5. CASE MoveTo("login") /\ UNCHANGED client
    BY <1>1, <1>m, <1>p, <2>1, <2>5
  <2>6. CASE MoveTo("ready") /\ client' = [client EXCEPT !.endpoint = TRUE]
    BY <1>m, <1>p, <2>1, <2>2, <2>6
  <2> QED
    BY <1>6, <2>3, <2>4, <2>5, <2>6 DEF GetEndpointUrl
<1>7. CASE Authenticate
  <2>1. call.phase \in {"login", "relogin"}
    BY <1>7 DEF Authenticate
  <2>2. /\ [client EXCEPT !.token = "good", !.endpoint = TRUE] \in ClientState
        /\ [client EXCEPT !.token = "good", !.endpoint = TRUE].strategy = client.strategy
        /\ [client EXCEPT !.token = "good"] \in ClientState
        /\ [client EXCEPT !.token = "good"].strategy = client.strategy
    BY <1>1 DEF ClientState
  <2>3. ASSUME LoggedIn, client' \in ClientState, client'.strategy = client.strategy
        PROVE  SessionInv'
    <3> DEFINE p == IF call.phase = "login" THEN "ready" ELSE "resend"
    <3>1. call' = [call EXCEPT !.phase = p, !.fresh = TRUE] /\ p \in Phases \ {"idle"}
      BY <1>p, <2>3 DEF LoggedIn
    <3> HIDE DEF p
    <3> QED
      BY <2>1, <2>3, <3>1, GoesOn
  <2>4. CASE ConnectionLost(0)
    BY <2>1, <2>4, LostKept
  <2>5. CASE Raise("NoAuthURLProvided") \/ (client.strategy # "keystone" /\ Raise("Unauthorized"))
    BY <1>o, <1>r, <2>1, <2>5
  <2>6. CASE /\ call' = [call EXCEPT !.phase = "idle", !.fresh = TRUE, !.outcome = "Unauthorized"]
             /\ UNCHANGED client
    <3>1. /\ call' = [call EXCEPT !.phase = "idle", !.ran = call.ran + 0, !.fresh = TRUE,
                                  !.outcome = "Unauthorized"]
      BY <1>1, <1>z, <2>6 DEF CallState
    <3>2. "Unauthorized" \in Outcomes \ {"none", "ok"} /\ "Unauthorized" # "ConnectionFailed"
      BY DEF Outcomes
    <3> QED
      BY <1>1, <2>1, <2>6, <3>1, <3>2, EndsRaised
  <2>7. CASE /\ call' = [call EXCEPT !.phase = "idle", !.outcome = "EndpointNotFound"]
             /\ client' = [client EXCEPT !.token = "good"]
    <3>1. call' = [call EXCEPT !.phase = "idle", !.ran = call.ran + 0,
                               !.outcome = "EndpointNotFound"]
      BY <1>1, <1>z, <2>7 DEF CallState
    <3> QED
      BY <1>e, <1>o, <2>1, <2>2, <2>7, <3>1
  <2> QED
    BY <1>1, <1>7, <2>2, <2>3, <2>4, <2>5, <2>6, <2>7 DEF Authenticate
<1>8. CASE Ready
  <2>1. CASE Raise("RequestURITooLong")
    BY <1>8, <1>o, <1>r, <2>1 DEF Ready
  <2>2. CASE NoMetadata(0)
    BY <1>8, <1>n, <2>2 DEF Ready
  <2>3. CASE MoveTo("send") /\ UNCHANGED client
    BY <1>1, <1>8, <1>m, <1>p, <2>3 DEF Ready
  <2> QED
    BY <1>8, <2>1, <2>2, <2>3 DEF Ready
<1>9. CASE Send
  <2>1. call.phase \in {"send", "resend"}
    BY <1>9 DEF Send
  <2>2. ASSUME NEW n \in {0, 1}, ConnectionLost(n) PROVE SessionInv'
    BY <2>1, <2>2, LostKept
  <2>3. CASE Unauthorized
    <3>1. CASE call.phase = "send"
      BY <1>1, <1>m, <1>p, <2>3, <3>1 DEF Unauthorized
    <3>2. CASE call.phase = "resend"
      BY <1>1, <1>o, <1>r, <2>3, <3>2 DEF Unauthorized, UnderWaySound
    <3> QED
      BY <2>1, <3>1, <3>2
  <2> QED
    BY <1>9, <1>a, <1>s, <2>1, <2>2, <2>3 DEF Send
<1>10. CASE SessionFetch
  <2>1. /\ [client EXCEPT !.endpoint = TRUE] \in ClientState
        /\ [client EXCEPT !.endpoint = TRUE].strategy = client.strategy
    BY <1>1 DEF ClientState
  <2> QED
    BY <1>10, <1>m, <1>o, <1>p, <1>r, <2>1 DEF SessionFetch
<1>11. CASE SessionSend
  <2>1. ASSUME NEW n \in {0, 1},
               call' = [call EXCEPT !.phase = "idle", !.ran = n, !.outcome = "SessionError"],
               UNCHANGED client
        PROVE  SessionInv'
    <3>1. /\ call.attempt \in 1 .. Retries + 1 /\ n \in 0 .. Retries + 1
          /\ "idle" \in Phases /\ "SessionError" \in Outcomes /\ n <= call.attempt
      BY <1>1, RetriesAssumption DEF CallState, Phases, Outcomes
    <3>2. /\ call' \in CallState /\ call'.phase = "idle" /\ call'.ran = n
          /\ call'.attempt = call.attempt /\ call'.outcome = "SessionError"
      BY <1>1, <2>1, <3>1 DEF CallState
    <3>3. UnderWaySound' /\ RunsBounded' /\ SuccessRan' /\ FormatRestored' /\ GivesUpLate'
      BY <3>1, <3>2, RetriesAssumption
         DEF UnderWaySound, RunsBounded, SuccessRan, FormatRestored, GivesUpLate
    <3> QED
      BY <1>1, <2>1, <3>2, <3>3 DEF SessionInv, SessionTypeOK
  <2>2. call.phase # "idle"
    BY <1>11 DEF SessionSend
  <2> QED
    BY <1>11, <1>s, <2>1, <2>2 DEF SessionSend
<1> QED
  BY <1>2, <1>3, <1>4, <1>5, <1>6, <1>7, <1>8, <1>9, <1>10, <1>11
     DEF SessionNext, SessionStep

-----------------------------------------------------------------------------
(* A launch of machines: its lists                                         *)

(* The machines from m on, as they are created, n of them.                 *)
From(m, n) == [k \in 1 .. n |-> m + k - 1]

LEMMA FromIsRun ==
  ASSUME NEW m \in Nat, NEW n \in Nat
  PROVE  /\ From(m, n) \in Seq(Nat) /\ Len(From(m, n)) = n
         /\ ToSet(From(m, n)) = m .. m + n - 1
         /\ Append(From(m, n), m + n) = From(m, n + 1)
<1>1. From(m, n) \in Seq(Nat) /\ Len(From(m, n)) = n
  BY DEF From
<1>2. \A i \in m .. m + n - 1 : i - m + 1 \in 1 .. n /\ From(m, n)[i - m + 1] = i
  BY DEF From
<1>3. ToSet(From(m, n)) = m .. m + n - 1
  <2>1. DOMAIN From(m, n) = 1 .. n /\ \A k \in 1 .. n : From(m, n)[k] = m + k - 1
    BY DEF From
  <2>2. \A k \in 1 .. n : m + k - 1 \in m .. m + n - 1
    OBVIOUS
  <2> HIDE DEF From
  <2>3. ASSUME NEW i \in m .. m + n - 1 PROVE i \in ToSet(From(m, n))
    BY <1>2, <2>1 DEF ToSet
  <2>4. ASSUME NEW i \in ToSet(From(m, n)) PROVE i \in m .. m + n - 1
    BY <2>1, <2>2, <2>4 DEF ToSet
  <2> QED
    BY <2>3, <2>4
<1>4. Append(From(m, n), m + n) = From(m, n + 1)
  <2>1. \A k \in 1 .. n + 1 : Append(From(m, n), m + n)[k] = m + k - 1
    BY <1>1 DEF From
  <2>2. Append(From(m, n), m + n) = [k \in 1 .. n + 1 |-> m + k - 1]
    BY <1>1, <2>1
  <2> QED
    BY <2>2 DEF From
<1> QED
  BY <1>1, <1>3, <1>4

(* The row of m machines goes on with the next n.                          *)
LEMMA RowGoesOn ==
  ASSUME NEW m \in Nat, NEW n \in Nat
  PROVE  Row(m) \o From(m, n) = Row(m + n)
<1>1. Row(m) \in Seq(Nat) /\ Len(Row(m)) = m /\ \A k \in 1 .. m : Row(m)[k] = k - 1
  BY DEF Row
<1>2. From(m, n) \in Seq(Nat) /\ Len(From(m, n)) = n /\ \A k \in 1 .. n : From(m, n)[k] = m + k - 1
  BY DEF From
<1>3. /\ Len(Row(m) \o From(m, n)) = m + n
      /\ \A k \in 1 .. m + n : (Row(m) \o From(m, n))[k] = k - 1
  BY <1>1, <1>2
<1>4. Row(m) \o From(m, n) \in Seq(Nat)
  BY <1>1, <1>2
<1>5. /\ Row(m + n) \in Seq(Nat) /\ Len(Row(m + n)) = m + n
      /\ \A k \in 1 .. m + n : Row(m + n)[k] = k - 1
  BY DEF Row
<1> HIDE DEF From, Row
<1> QED
  BY <1>3, <1>4, <1>5, SeqEqual

(* A row names each machine once.                                          *)
LEMMA RowNamesOnce ==
  ASSUME NEW n \in Nat
  PROVE  ToSet(Row(n)) = 0 .. n - 1 /\ IsInjective(Row(n))
<1>1. DOMAIN Row(n) = 1 .. n /\ \A k \in 1 .. n : Row(n)[k] = k - 1
  BY DEF Row
<1>2. \A i \in 0 .. n - 1 : i + 1 \in 1 .. n /\ Row(n)[i + 1] = i
  BY <1>1
<1>3. \A k \in 1 .. n : k - 1 \in 0 .. n - 1
  OBVIOUS
<1> HIDE DEF Row
<1> QED
  BY <1>1, <1>2, <1>3 DEF ToSet, IsInjective

(* What is removed from a list is one entry of it.                         *)
LEMMA Removed ==
  ASSUME NEW S, NEW s \in Seq(S), NEW i \in DOMAIN s
  PROVE  /\ RemoveAt(s, i) \in Seq(S) /\ Len(RemoveAt(s, i)) = Len(s) - 1
         /\ ToSet(RemoveAt(s, i)) \cup {s[i]} = ToSet(s)
<1>1. /\ i \in 1 .. Len(s) /\ Len(s) \in Nat
  OBVIOUS
<1>2. /\ SubSeq(s, 1, i - 1) \in Seq(S) /\ Len(SubSeq(s, 1, i - 1)) = i - 1
      /\ \A k \in 1 .. i - 1 : SubSeq(s, 1, i - 1)[k] = s[k]
  BY <1>1
<1>3. /\ SubSeq(s, i + 1, Len(s)) \in Seq(S) /\ Len(SubSeq(s, i + 1, Len(s))) = Len(s) - i
      /\ \A k \in 1 .. Len(s) - i : SubSeq(s, i + 1, Len(s))[k] = s[k + i]
  BY <1>1
<1>4. /\ RemoveAt(s, i) \in Seq(S) /\ Len(RemoveAt(s, i)) = Len(s) - 1
      /\ \A k \in 1 .. Len(s) - 1 : RemoveAt(s, i)[k] = IF k < i THEN s[k] ELSE s[k + 1]
  <2> DEFINE a == SubSeq(s, 1, i - 1)
             b == SubSeq(s, i + 1, Len(s))
  <2>1. a \in Seq(S) /\ b \in Seq(S) /\ RemoveAt(s, i) = a \o b
    BY <1>2, <1>3 DEF RemoveAt
  <2>2. /\ Len(a) = i - 1 /\ \A k \in 1 .. i - 1 : a[k] = s[k]
        /\ Len(b) = Len(s) - i /\ \A k \in 1 .. Len(s) - i : b[k] = s[k + i]
    BY <1>2, <1>3
  <2> HIDE DEF a, b
  <2>3. /\ a \o b \in Seq(S) /\ Len(a \o b) = Len(a) + Len(b)
        /\ \A k \in 1 .. Len(a) + Len(b) : (a \o b)[k] = IF k <= Len(a) THEN a[k] ELSE b[k - Len(a)]
    BY <2>1, ConcatProperties
  <2>4. Len(a) + Len(b) = Len(s) - 1
    BY <1>1, <2>2
  <2>5. ASSUME NEW k \in 1 .. Len(s) - 1
        PROVE  (a \o b)[k] = IF k < i THEN s[k] ELSE s[k + 1]
    <3>1. CASE k < i
      <4>1. k <= Len(a) /\ k \in 1 .. i - 1
        BY <1>1, <2>2, <3>1
      <4>2. (a \o b)[k] = a[k]
        BY <2>3, <2>4, <4>1
      <4> QED
        BY <2>2, <3>1, <4>1, <4>2
    <3>2. CASE ~(k < i)
      <4> DEFINE j == k - Len(a)
      <4>1. ~(k <= Len(a)) /\ j \in 1 .. Len(s) - i /\ j + i = k + 1
        BY <1>1, <2>2, <3>2
      <4>2. (a \o b)[k] = b[j]
        BY <2>3, <2>4, <4>1
      <4> HIDE DEF j
      <4>3. b[j] = s[j + i]
        BY <2>2, <4>1
      <4> QED
        BY <3>2, <4>1, <4>2, <4>3
    <3> QED
      BY <3>1, <3>2
  <2> QED
    BY <2>1, <2>3, <2>4, <2>5
<1>5. \A k \in 1 .. Len(s) : k # i =>
        \E j \in 1 .. Len(s) - 1 : RemoveAt(s, i)[j] = s[k]
  <2> SUFFICES ASSUME NEW k \in 1 .. Len(s), k # i
               PROVE  \E j \in 1 .. Len(s) - 1 : RemoveAt(s, i)[j] = s[k]
    OBVIOUS
  <2>1. CASE k < i
    BY <1>1, <1>4, <2>1
  <2>2. CASE k > i
    <3>1. k - 1 \in 1 .. Len(s) - 1 /\ RemoveAt(s, i)[k - 1] = s[k]
      BY <1>1, <1>4, <2>2
    <3> QED
      BY <3>1
  <2> QED
    BY <1>1, <2>1, <2>2
<1>6. \A j \in 1 .. Len(s) - 1 : \E k \in 1 .. Len(s) : RemoveAt(s, i)[j] = s[k]
  BY <1>1, <1>4
<1>7. DOMAIN RemoveAt(s, i) = 1 .. Len(s) - 1 /\ DOMAIN s = 1 .. Len(s)
  BY <1>1, <1>4
<1> HIDE DEF RemoveAt
<1>8. ToSet(RemoveAt(s, i)) \subseteq ToSet(s)
  BY <1>6, <1>7 DEF ToSet
<1>9. ASSUME NEW k \in 1 .. Len(s), s[k] # s[i] PROVE s[k] \in ToSet(RemoveAt(s, i))
  BY <1>5, <1>7, <1>9 DEF ToSet
<1> QED
  BY <1>4, <1>7, <1>8, <1>9 DEF ToSet

LEMMA Appended ==
  ASSUME NEW S, NEW s \in Seq(S), NEW e \in S
  PROVE  /\ Append(s, e) \in Seq(S) /\ Len(Append(s, e)) = Len(s) + 1
         /\ ToSet(Append(s, e)) = ToSet(s) \cup {e}
<1>1. /\ Append(s, e) \in Seq(S) /\ Len(Append(s, e)) = Len(s) + 1 /\ Len(s) \in Nat
      /\ \A k \in 1 .. Len(s) : Append(s, e)[k] = s[k]
      /\ Append(s, e)[Len(s) + 1] = e
  OBVIOUS
<1>2. DOMAIN s = 1 .. Len(s) /\ DOMAIN Append(s, e) = 1 .. Len(s) + 1
  BY <1>1
<1> QED
  BY <1>1, <1>2 DEF ToSet

(* Before the first machine is created, all of it is so.                   *)
LEMMA BootStarts == BootInit => BootInv
<1> SUFFICES ASSUME BootInit PROVE BootInv
  OBVIOUS
<1>1. /\ MaxMachines \in Nat \ {0} /\ bootN \in 1 .. MaxMachines /\ bootIndex \in {0, bootN}
      /\ bootIndex \in Nat /\ bootIndex <= MaxMachines
  BY BootAssumption DEF BootInit
<1>2. bootRow = Row(bootIndex) /\ left = From(bootIndex, 0) /\ Len(left) = 0
  BY <1>1 DEF BootInit, Row, From
<1>3. bootRow \in Seq(Machine)
  BY <1>1, <1>2 DEF Row, Machine
<1>4. BootTypeOK
  BY <1>1, <1>3, BootAssumption DEF BootInit, BootTypeOK
<1>5. CreationSound
  BY <1>1, <1>2 DEF BootInit, CreationSound, Exists, From, Machine
<1>6. PollSound /\ BootComplete /\ BootRecorded /\ BootReachable
  BY <1>1 DEF BootInit, PollSound, BootComplete, BootRecorded, BootReachable
<1> QED
  BY <1>4, <1>5, <1>6 DEF BootInv

(* What the bounds on a launch say of its machines.                        *)
LEMMA LaunchBounds ==
  ASSUME BootTypeOK
  PROVE  /\ MaxMachines \in Nat \ {0} /\ bootN \in Nat \ {0} /\ bootIndex \in Nat
         /\ Launched \subseteq Machine /\ Machine \subseteq Nat
         /\ bootIndex + bootN <= 2 * MaxMachines
         /\ Len(left) \in Nat /\ Len(taken) \in Nat
         /\ bootN = 1 => Launched = {bootIndex}
<1>1. /\ MaxMachines \in Nat \ {0} /\ bootN \in 1 .. MaxMachines /\ bootIndex \in {0, bootN}
      /\ left \in Seq(Machine) /\ taken \in Seq(Machine)
  BY BootAssumption DEF BootTypeOK
<1>2. /\ bootN \in Nat \ {0} /\ bootIndex \in Nat /\ bootIndex + bootN <= 2 * MaxMachines
      /\ Len(left) \in Nat /\ Len(taken) \in Nat
  BY <1>1
<1>3. Launched \subseteq Machine /\ Machine \subseteq Nat
  BY <1>1, <1>2 DEF Launched, Machine
<1>4. bootN = 1 => Launched = {bootIndex}
  BY <1>2 DEF Launched
<1> QED
  BY <1>1, <1>2, <1>3, <1>4

(* The machine that is created is the next one.                            *)
LEMMA NextMachine ==
  ASSUME BootInv, bootPc = "create"
  PROVE  /\ (CHOOSE j \in Launched \ Begun : \A k \in Launched \ Begun : j <= k)
              = bootIndex + Len(left)
         /\ bootIndex + Len(left) \in Launched
<1>1. BootTypeOK /\ CreationSound
  BY DEF BootInv
<1>2. /\ bootN \in Nat /\ bootIndex \in Nat /\ Len(left) \in Nat /\ Len(left) < bootN
      /\ Launched \subseteq Machine /\ Machine \subseteq Nat
      /\ \A i \in Machine : Exists(i) <=> i < bootIndex + Len(left)
  BY <1>1, LaunchBounds DEF CreationSound
<1>3. /\ bootIndex + Len(left) \in Launched
      /\ \A j \in Launched : j \in Begun <=> j < bootIndex + Len(left)
  BY <1>2 DEF Launched, Begun
<1>4. /\ bootIndex + Len(left) \in Launched \ Begun
      /\ \A k \in Launched \ Begun : bootIndex + Len(left) <= k /\ k \in Nat
  BY <1>2, <1>3
<1> DEFINE Least(j) == j \in Launched \ Begun /\ \A k \in Launched \ Begun : j <= k
           c == CHOOSE j \in Launched \ Begun : \A k \in Launched \ Begun : j <= k
<1>5. Least(bootIndex + Len(left))
  BY <1>4
<1>6. Least(c)
  BY <1>5
<1>7. c = bootIndex + Len(left)
  <2>1. c <= bootIndex + Len(left) /\ bootIndex + Len(left) <= c /\ c \in Nat
    BY <1>4, <1>6
  <2> HIDE DEF c
  <2> QED
    BY <1>2, <2>1
<1> QED
  BY <1>3, <1>7

(* server_create goes through the machines in their order.                 *)
LEMMA CreateKept ==
  ASSUME BootInv, ServerCreate
  PROVE  BootInv'
<1> DEFINE i == bootIndex + Len(left)
           all == Append(left, i)
<1>1. BootTypeOK /\ CreationSound /\ PollSound
  BY DEF BootInv
<1>2. bootPc = "create"
  BY DEF ServerCreate
<1>3. /\ bootN \in Nat \ {0} /\ bootIndex \in Nat /\ MaxMachines \in Nat \ {0}
      /\ Len(left) \in Nat /\ Len(left) < bootN
      /\ Launched \subseteq Machine /\ Machine \subseteq Nat /\ bootIndex + bootN <= 2 * MaxMachines
      /\ \A j \in Machine : Exists(j) <=> j < i
      /\ bootRow = Row(bootIndex) /\ taken = << >> /\ active = 0 /\ at = 1
      /\ left = From(bootIndex, Len(left)) /\ i \in Launched
      /\ bootN = 1 => Launched = {bootIndex}
  BY <1>1, <1>2, LaunchBounds, NextMachine DEF CreationSound, From
<1>4. /\ nova' = [nova EXCEPT ![i] = "BUILD"] /\ left' = all
      /\ UNCHANGED <<bootN, bootNics, addresses, bootIndex, at, active, taken, mgmtIps, bootStatus>>
      /\ IF bootN = 1 THEN bootPc' = "record" /\ UNCHANGED bootRow
         ELSE IF Len(all) = bootN THEN bootPc' = "poll" /\ bootRow' = bootRow \o all
         ELSE UNCHANGED <<bootPc, bootRow>>
  BY NextMachine, <1>2 DEF ServerCreate
<1>5. all = From(bootIndex, Len(left) + 1) /\ Len(all) = Len(left) + 1 /\ all \in Seq(Machine)
  <2>1. all = From(bootIndex, Len(left) + 1)
    BY <1>3, FromIsRun
  <2>2. left \in Seq(Machine) /\ i \in Machine
    BY <1>1, <1>3 DEF BootTypeOK
  <2> QED
    BY <2>1, <2>2
<1> HIDE DEF i, all
<1>6. \A j \in Machine : Exists(j)' <=> j < i + 1
  <2>1. i \in Nat /\ i \in Machine /\ DOMAIN nova = Machine
    BY <1>1, <1>3 DEF BootTypeOK
  <2>2. ASSUME NEW j \in Machine PROVE nova'[j] = IF j = i THEN "BUILD" ELSE nova[j]
    BY <1>4, <2>1
  <2>3. ASSUME NEW j \in Machine PROVE j < i + 1 <=> j < i \/ j = i
    BY <1>3, <2>1
  <2> QED
    BY <1>3, <2>2, <2>3 DEF Exists
<1>7. /\ nova' \in [Machine -> {"none", "BUILD", "ACTIVE", "ERROR"}] /\ left' \in Seq(Machine)
      /\ \A j \in Machine : nova[j] = "ACTIVE" /\ j # i => nova'[j] = "ACTIVE"
  BY <1>1, <1>3, <1>4, <1>5 DEF BootTypeOK
<1>8. CASE bootN = 1
  <2>1. bootPc' = "record" /\ bootRow' = bootRow /\ Len(left) = 0
    BY <1>3, <1>4, <1>8
  <2>2. left' = <<bootIndex>>
    BY <1>3, <1>4, <1>5, <2>1 DEF From
  <2>3. BootTypeOK'
    BY <1>1, <1>4, <1>7, <2>1 DEF BootTypeOK
  <2>4. CreationSound'
    BY <1>3, <1>4, <1>6, <1>8, <2>1 DEF CreationSound, i, Machine, Exists
  <2>5. PollSound'
    BY <1>1, <1>3, <1>4, <1>8, <2>1, <2>2 DEF PollSound, Machine, Row
  <2> QED
    BY <2>1, <2>3, <2>4, <2>5 DEF BootInv, BootComplete, BootRecorded, BootReachable
<1>9. CASE bootN # 1 /\ Len(all) = bootN
  <2>1. bootPc' = "poll" /\ bootRow' = bootRow \o all /\ Len(left) + 1 = bootN
    BY <1>4, <1>5, <1>9
  <2>2. bootRow' = Row(bootIndex + bootN) /\ ToSet(left') = Launched /\ Len(left') = bootN
    BY <1>3, <1>4, <1>5, <2>1, FromIsRun, RowGoesOn DEF Launched
  <2>3. bootRow' \in Seq(Machine)
    BY <1>3, <2>2 DEF Row, Machine
  <2>4. BootTypeOK'
    BY <1>1, <1>3, <1>4, <1>7, <2>1, <2>2, <2>3 DEF BootTypeOK
  <2>5. CreationSound'
    BY <1>3, <1>4, <1>6, <2>1, <2>2 DEF CreationSound, i, Machine, Exists, Row
  <2>6. PollSound'
    <3>1. ToSet(taken') = {} /\ Len(taken') = 0
      BY <1>3, <1>4 DEF ToSet
    <3> QED
      BY <1>1, <1>3, <1>4, <1>9, <2>1, <2>2, <3>1 DEF PollSound, Machine, Launched
  <2>7. BootRecorded'
    <3>1. ToSet(bootRow') = 0 .. bootIndex + bootN - 1 /\ IsInjective(bootRow')
      BY <1>3, <2>2, RowNamesOnce
    <3>2. \A j \in Machine : Exists(j)' <=> j < bootIndex + bootN
      BY <1>4, <2>1, <2>5 DEF CreationSound
    <3>3. 0 .. bootIndex + bootN - 1 = {j \in Machine : j < bootIndex + bootN}
      BY <1>3 DEF Machine
    <3> QED
      BY <3>1, <3>2, <3>3 DEF BootRecorded
  <2> QED
    BY <2>1, <2>4, <2>5, <2>6, <2>7 DEF BootInv, BootComplete, BootReachable
<1>10. CASE bootN # 1 /\ Len(all) # bootN
  <2>1. bootPc' = "create" /\ bootRow' = bootRow /\ Len(left) + 1 < bootN
    BY <1>2, <1>3, <1>4, <1>5, <1>10
  <2>2. BootTypeOK'
    BY <1>1, <1>4, <1>7, <2>1 DEF BootTypeOK
  <2>3. left' = From(bootIndex, Len(left')) /\ Len(left') < bootN
    BY <1>4, <1>5, <2>1
  <2>4. CreationSound'
    BY <1>3, <1>4, <1>5, <1>6, <2>1, <2>3 DEF CreationSound, i, Machine, Exists, Row, From
  <2>5. PollSound'
    BY <1>1, <1>3, <1>4, <2>1 DEF PollSound, Machine
  <2> QED
    BY <2>1, <2>2, <2>4, <2>5 DEF BootInv, BootComplete, BootRecorded, BootReachable
<1> QED
  BY <1>8, <1>9, <1>10

(* A single machine is taken as it is, when it is up.                      *)
LEMMA RecordKept ==
  ASSUME BootInv, RecordSingle
  PROVE  BootInv'
<1>1. BootTypeOK /\ CreationSound /\ PollSound
  BY DEF BootInv
<1>2. /\ bootPc = "record" /\ bootRow' = bootRow \o left
      /\ UNCHANGED <<bootN, bootNics, nova, addresses, bootIndex, left, at, active, mgmtIps>>
      /\ \/ Up(left[1]) /\ bootPc' = "describe" /\ taken' = left /\ bootStatus' = bootStatus
         \/ bootPc' = "sleep" /\ taken' = taken /\ bootStatus' = bootStatus
  BY DEF RecordSingle, TakeSingle
<1>3. /\ bootN = 1 /\ bootIndex \in Nat /\ left = <<bootIndex>> /\ left[1] = bootIndex
      /\ taken = << >> /\ active = 0 /\ bootRow = Row(bootIndex)
      /\ Launched = {bootIndex} /\ bootIndex + 1 <= 2 * MaxMachines /\ MaxMachines \in Nat \ {0}
      /\ \A i \in Machine : Exists(i) <=> i < bootIndex + bootN
  BY <1>1, <1>2, LaunchBounds DEF PollSound, CreationSound
<1>4. bootRow' = Row(bootIndex + bootN)
  <2>1. left = From(bootIndex, 1)
    BY <1>3 DEF From
  <2> QED
    BY <1>2, <1>3, <2>1, RowGoesOn
<1>5. BootTypeOK'
  <2>1. bootRow' \in Seq(Machine)
    BY <1>3, <1>4 DEF Row, Machine
  <2> QED
    BY <1>1, <1>2, <2>1 DEF BootTypeOK
<1>6. CreationSound'
  BY <1>2, <1>3, <1>4 DEF CreationSound, Exists, Row
<1>7. PollSound'
  BY <1>1, <1>2, <1>3 DEF PollSound, Up
<1>8. BootComplete'
  <2>1. ToSet(<<bootIndex>>) = {bootIndex} /\ Len(<<bootIndex>>) = 1
    BY DEF ToSet
  <2> QED
    BY <1>2, <1>3, <2>1 DEF BootComplete, Launched, Up
<1>9. BootRecorded'
  <2>1. ToSet(bootRow') = 0 .. bootIndex + bootN - 1 /\ IsInjective(bootRow')
    BY <1>3, <1>4, RowNamesOnce
  <2>2. 0 .. bootIndex + bootN - 1 = {j \in Machine : j < bootIndex + bootN}
    BY <1>3 DEF Machine
  <2>3. \A i \in Machine : Exists(i)' <=> i < bootIndex + bootN
    BY <1>2, <1>3 DEF Exists
  <2> QED
    BY <2>1, <2>2, <2>3 DEF BootRecorded
<1> QED
  BY <1>2, <1>5, <1>6, <1>7, <1>8, <1>9 DEF BootInv, BootReachable

LEMMA PollSingleKept ==
  ASSUME BootInv, PollSingle
  PROVE  BootInv'
<1>1. BootTypeOK /\ CreationSound /\ PollSound /\ BootRecorded
  BY DEF BootInv
<1>2. /\ bootPc = "sleep" /\ bootPc' \in {"describe", "error"}
      /\ UNCHANGED <<bootN, bootNics, nova, addresses, bootIndex, bootRow, left, at, active, mgmtIps>>
      /\ bootPc' = "describe" => Up(left[1]) /\ taken' = left /\ bootStatus' = bootStatus
      /\ bootPc' = "error" => taken' = taken /\ bootStatus' = "ERROR"
  BY DEF PollSingle, TakeSingle
<1>3. /\ bootN = 1 /\ left = <<bootIndex>> /\ left[1] = bootIndex /\ taken = << >> /\ active = 0
      /\ Launched = {bootIndex}
  BY <1>1, <1>2, LaunchBounds DEF PollSound
<1>4. BootTypeOK'
  BY <1>1, <1>2 DEF BootTypeOK
<1>5. CreationSound' /\ BootRecorded'
  BY <1>1, <1>2 DEF CreationSound, BootRecorded, Exists
<1>6. PollSound'
  BY <1>1, <1>2, <1>3 DEF PollSound, Up
<1>7. BootComplete'
  <2>1. ToSet(<<bootIndex>>) = {bootIndex} /\ Len(<<bootIndex>>) = 1
    BY DEF ToSet
  <2> QED
    BY <1>2, <1>3, <2>1 DEF BootComplete, Launched, Up
<1> QED
  BY <1>2, <1>4, <1>5, <1>6, <1>7 DEF BootInv, BootReachable

(* An ACTIVE machine goes from the list to those taken; the list is used   *)
(* up when the counter says so, and not before.                            *)
LEMMA PollActiveKept ==
  ASSUME BootInv, PollActive
  PROVE  BootInv'
<1> DEFINE rest == RemoveAt(left, at)
           i == left[at]
<1>1. BootTypeOK /\ CreationSound /\ PollSound /\ BootRecorded
  BY DEF BootInv
<1>2. /\ bootPc = "poll" /\ nova[i] = "ACTIVE" /\ left' = rest /\ active' = active + 1
      /\ taken' = Append(taken, i) /\ at' = IF at + 1 > Len(rest) THEN 1 ELSE at + 1
      /\ bootPc' = IF at + 1 > Len(rest) /\ active + 1 = bootN /\ rest = << >>
                     THEN "describe" ELSE "poll"
      /\ UNCHANGED <<bootN, bootNics, nova, addresses, bootIndex, bootRow, mgmtIps, bootStatus>>
  BY DEF PollActive
<1>3. /\ bootN > 1 /\ bootN \in 1 .. MaxMachines /\ MaxMachines \in Nat \ {0}
      /\ left \in Seq(Machine) /\ taken \in Seq(Machine) /\ at \in DOMAIN left /\ at \in Nat \ {0}
      /\ i \in Machine /\ Len(left) \in Nat /\ Len(taken) \in Nat
      /\ ToSet(left) \cup ToSet(taken) = Launched /\ active = Len(taken)
      /\ Len(left) + Len(taken) = bootN /\ \A j \in ToSet(taken) : nova[j] = "ACTIVE"
  <2>1. /\ bootN \in 1 .. MaxMachines /\ MaxMachines \in Nat \ {0}
        /\ Len(left) \in Nat /\ Len(taken) \in Nat
    BY <1>1, LaunchBounds DEF BootTypeOK
  <2>2. left \in Seq(Machine) /\ taken \in Seq(Machine) /\ at \in DOMAIN left
    BY <1>1, <1>2 DEF BootTypeOK
  <2>3. at \in Nat \ {0} /\ i \in Machine
    BY <2>2
  <2> HIDE DEF i, rest
  <2> QED
    BY <1>1, <1>2, <2>1, <2>2, <2>3 DEF PollSound
<1>4. /\ rest \in Seq(Machine) /\ Len(rest) = Len(left) - 1
      /\ ToSet(rest) \cup {i} = ToSet(left)
  BY <1>3, Removed
<1>5. /\ taken' \in Seq(Machine) /\ Len(taken') = Len(taken) + 1
      /\ ToSet(taken') = ToSet(taken) \cup {i}
  BY <1>2, <1>3, Appended
<1> HIDE DEF rest, i
<1>6. ToSet(rest) \cup ToSet(taken') = Launched /\ Len(rest) + Len(taken') = bootN
      /\ active' = Len(taken') /\ \A j \in ToSet(taken') : nova'[j] = "ACTIVE"
  BY <1>2, <1>3, <1>4, <1>5
<1>7. rest = << >> <=> Len(rest) = 0
  <2>1. rest \in Seq(Machine)
    BY <1>4
  <2> QED
    BY <2>1, EmptySeq
<1>8. CASE bootPc' = "describe"
  <2>1. rest = << >> /\ ToSet(rest) = {} /\ Len(rest) = 0
    BY <1>2, <1>7, <1>8 DEF ToSet
  <2>2. ToSet(taken') = Launched /\ Len(taken') = bootN
    BY <1>3, <1>5, <1>6, <2>1
  <2>3. BootTypeOK'
    BY <1>1, <1>2, <1>3, <1>4, <1>5, <1>6, <1>8, <2>1, <2>2 DEF BootTypeOK
  <2>4. CreationSound' /\ BootRecorded'
    BY <1>1, <1>2, <1>8 DEF CreationSound, BootRecorded, Exists
  <2>5. PollSound'
    BY <1>1, <1>2, <1>3, <1>8 DEF PollSound
  <2>6. BootComplete'
    BY <1>2, <1>6, <2>2 DEF BootComplete, Launched
  <2> QED
    BY <1>8, <2>3, <2>4, <2>5, <2>6 DEF BootInv, BootReachable
<1>9. CASE bootPc' = "poll"
  <2>1. Len(rest) > 0
    <3>1. /\ at \in Nat /\ Len(left) \in Nat /\ Len(taken) \in Nat /\ Len(rest) = Len(left) - 1
          /\ active = Len(taken) /\ Len(left) + Len(taken) = bootN /\ at \in 1 .. Len(left)
      BY <1>3, <1>4
    <3>2. ASSUME Len(rest) = 0 PROVE active + 1 = bootN /\ at + 1 > Len(rest)
      <4>1. Len(left) = 1
        BY <3>1, <3>2
      <4>2. Len(taken) + 1 = bootN
        BY <3>1, <4>1
      <4> QED
        BY <3>1, <3>2, <4>2
    <3> QED
      BY <1>2, <1>7, <1>9, <3>1, <3>2
  <2>2. at' \in 1 .. Len(rest) /\ DOMAIN rest = 1 .. Len(rest) /\ Len(rest) <= MaxMachines
    BY <1>2, <1>3, <1>4, <2>1
  <2>3. active' \in 0 .. MaxMachines /\ at' \in 1 .. MaxMachines + 1
    BY <1>3, <1>4, <1>5, <1>6, <2>1, <2>2
  <2>4. BootTypeOK'
    BY <1>1, <1>2, <1>4, <1>5, <1>9, <2>2, <2>3 DEF BootTypeOK
  <2>5. CreationSound' /\ BootRecorded'
    BY <1>1, <1>2, <1>9 DEF CreationSound, BootRecorded, Exists
  <2>6. PollSound'
    BY <1>1, <1>2, <1>3, <1>6, <1>9 DEF PollSound, Launched
  <2> QED
    BY <1>9, <2>4, <2>5, <2>6 DEF BootInv, BootComplete, BootReachable
<1> QED
  BY <1>2, <1>8, <1>9

(* One in ERROR ends the loop, one in BUILD is passed over.                *)
LEMMA PollOtherKept ==
  ASSUME BootInv, PollError \/ PollBuild
  PROVE  BootInv'
<1>1. BootTypeOK /\ CreationSound /\ PollSound /\ BootRecorded
  BY DEF BootInv
<1>2. CASE PollError
  <2>1. BootTypeOK' /\ CreationSound' /\ PollSound' /\ BootRecorded'
    BY <1>1, <1>2 DEF PollError, BootTypeOK, CreationSound, PollSound, BootRecorded, Exists
  <2> QED
    BY <1>2, <2>1 DEF BootInv, PollError, BootComplete, BootReachable
<1>3. CASE PollBuild
  <2>1. /\ at \in 1 .. Len(left) /\ Len(left) \in Nat /\ DOMAIN left = 1 .. Len(left)
        /\ Len(left) <= MaxMachines /\ MaxMachines \in Nat
    <3>1. /\ left \in Seq(Machine) /\ at \in DOMAIN left /\ bootN \in 1 .. MaxMachines
          /\ Len(left) + Len(taken) = bootN /\ bootPc = "poll"
      BY <1>1, <1>3 DEF PollBuild, BootTypeOK, PollSound
    <3>2. MaxMachines \in Nat /\ Len(left) \in Nat /\ Len(taken) \in Nat
      BY <1>1, LaunchBounds
    <3> QED
      BY <3>1, <3>2
  <2>2. at' \in 1 .. Len(left) /\ at' \in 1 .. MaxMachines + 1
    <3>1. at' = IF at = Len(left) THEN 1 ELSE at + 1
      BY <1>3 DEF PollBuild
    <3>2. /\ Len(left) \in Nat /\ at \in Nat /\ 1 <= at /\ at <= Len(left)
          /\ Len(left) <= MaxMachines /\ MaxMachines \in Nat
      BY <2>1
    <3>3. CASE at = Len(left)
      BY <3>1, <3>2, <3>3
    <3>4. CASE at # Len(left)
      <4>1. at' = at + 1 /\ at < Len(left)
        BY <3>1, <3>2, <3>4
      <4> QED
        BY <3>2, <4>1
    <3> QED
      BY <3>3, <3>4
  <2>3. BootTypeOK'
    BY <1>1, <1>3, <2>1, <2>2 DEF PollBuild, BootTypeOK
  <2>4. CreationSound' /\ PollSound' /\ BootRecorded'
    BY <1>1, <1>3 DEF PollBuild, CreationSound, PollSound, BootRecorded, Exists, Launched
  <2> QED
    BY <1>3, <2>3, <2>4 DEF BootInv, PollBuild, BootComplete, BootReachable
<1> QED
  BY <1>2, <1>3

LEMMA DescribeKept ==
  ASSUME BootInv, Describe
  PROVE  BootInv'
<1>1. BootTypeOK /\ CreationSound /\ PollSound /\ BootRecorded /\ BootComplete
  BY DEF BootInv
<1>2. ToSet(taken) = Launched /\ Launched \subseteq Machine /\ (bootN = 1 => Launched = {bootIndex})
  BY <1>1, LaunchBounds DEF Describe, BootComplete
<1>3. BootTypeOK'
  BY <1>1, <1>2 DEF Describe, BootTypeOK
<1>4. CreationSound' /\ PollSound' /\ BootRecorded' /\ BootComplete'
  BY <1>1 DEF Describe, CreationSound, PollSound, BootRecorded, BootComplete, Exists, Launched
<1>5. BootReachable'
  <2> SUFFICES ASSUME bootN = 1
               PROVE  /\ \A i \in Launched : addresses[i] # {}
                      /\ bootNics = {Mgmt} => mgmtIps' = Launched
    BY DEF BootReachable, Describe, Launched
  <2>1. Launched = {bootIndex} /\ addresses[bootIndex] # {} /\ addresses[bootIndex] \subseteq bootNics
    BY <1>1, <1>2 DEF Describe, PollSound
  <2>2. mgmtIps' = {i \in Launched : Mgmt \in addresses[i]}
    BY <1>2 DEF Describe
  <2> QED
    BY <2>1, <2>2
<1> QED
  BY <1>3, <1>4, <1>5 DEF BootInv

(* What nova does of itself takes nothing back: a machine that is ACTIVE   *)
(* stays so, and addresses are added.                                      *)
LEMMA NovaKept ==
  ASSUME BootInv, NEW i \in Machine, NovaStep(i)
  PROVE  BootInv'
<1>1. BootTypeOK /\ CreationSound /\ PollSound /\ BootRecorded /\ BootComplete /\ BootReachable
  BY DEF BootInv
<1>2. CASE Build(i)
  <2>1. /\ \A j \in Machine : Exists(j)' <=> Exists(j)
        /\ \A j \in Machine : nova[j] = "ACTIVE" => nova'[j] = "ACTIVE"
        /\ nova' \in [Machine -> {"none", "BUILD", "ACTIVE", "ERROR"}]
    BY <1>1, <1>2 DEF Build, BootTypeOK, Exists
  <2>0. UNCHANGED <<bootN, bootNics, bootPc, addresses, bootIndex, bootRow, left, at, active,
                    taken, mgmtIps, bootStatus>>
    BY <1>2 DEF Build
  <2>2. BootTypeOK'
    BY <1>1, <2>1, <2>0 DEF BootTypeOK
  <2>3. CreationSound' /\ BootRecorded'
    BY <1>1, <2>1, <2>0 DEF CreationSound, BootRecorded
  <2>4. Launched \subseteq Machine /\ ToSet(taken) \subseteq Machine
    BY <1>1, LaunchBounds DEF BootTypeOK, ToSet
  <2>5. PollSound'
    <3>1. \A j \in ToSet(taken) : nova[j] = "ACTIVE" => nova'[j] = "ACTIVE"
      BY <2>1, <2>4
    <3> QED
      BY <1>1, <2>0, <3>1 DEF PollSound, Launched
  <2>6. BootComplete' /\ BootReachable'
    BY <1>1, <2>1, <2>4, <2>0 DEF BootComplete, BootReachable, Launched
  <2> QED
    BY <2>2, <2>3, <2>5, <2>6 DEF BootInv
<1>3. CASE Address(i)
  <2>1. /\ \A j \in Machine : addresses[j] \subseteq addresses'[j] /\ addresses'[j] \subseteq bootNics
        /\ addresses' \in [Machine -> SUBSET Net]
    BY <1>1, <1>3 DEF Address, BootTypeOK, PollSound
  <2>2. BootTypeOK'
    BY <1>1, <1>3, <2>1 DEF Address, BootTypeOK
  <2>3. CreationSound' /\ BootRecorded' /\ BootComplete'
    BY <1>1, <1>3 DEF Address, CreationSound, BootRecorded, BootComplete, Exists, Launched
  <2>4. Launched \subseteq Machine /\ bootIndex \in Launched
    BY <1>1, LaunchBounds DEF Launched
  <2>5. PollSound' /\ BootReachable'
    BY <1>1, <1>3, <2>1, <2>4 DEF Address, PollSound, BootReachable, Launched
  <2> QED
    BY <2>2, <2>3, <2>5 DEF BootInv
<1> QED
  BY <1>2, <1>3 DEF NovaStep

LEMMA BootStepKept ==
  ASSUME BootInv, [BootNext]_bootVars
  PROVE  BootInv'
<1>1. CASE UNCHANGED bootVars
  BY <1>1 DEF bootVars, BootInv, BootTypeOK, CreationSound, PollSound, BootComplete, BootRecorded,
              BootReachable, Exists, Launched
<1>2. CASE NovaRaises
  <2>1. BootTypeOK' /\ CreationSound' /\ PollSound'
    BY <1>2 DEF NovaRaises, BootInv, BootTypeOK, CreationSound, PollSound
  <2> QED
    BY <1>2, <2>1 DEF NovaRaises, BootInv, BootComplete, BootRecorded, BootReachable
<1> QED
  BY <1>1, <1>2, CreateKept, RecordKept, PollSingleKept, PollActiveKept, PollOtherKept,
     DescribeKept, NovaKept DEF BootNext, BootStep

-----------------------------------------------------------------------------
(* What services have on OpenStack besides their machines                  *)

(* A step of one service.                                                  *)
NetStep(s) ==
  \/ CreateService(s) \/ Creation(s) \/ CreateFails(s) \/ PuppetBuilt(s)
  \/ Deployment(s) \/ Deletion(s)

(* The ports services make are ports, with a network of the service's own, *)
(* or the network of managers, and the router is asked for networks too.   *)
LEMMA PortsTyped ==
  ASSUME NEW s \in Service
  PROVE  /\ FixedPort(s) \in Port /\ FixedPort(s).net \in NetsOf[s]
         /\ FixedPort(s).owner = s /\ FixedPort(s).kind = "fixed"
         /\ \A n \in NetsOf[s] : PortOf(s, n, "vm") \in Port
         /\ PortOf(s, ServiceNet, "stap") \in Port
         /\ MgmtOf[s] # NoNet => PortOf(s, MgmtOf[s], "vtap") \in Port
         /\ NetsOf[s] \subseteq Network /\ RoutedOf[s] \subseteq Network
<1>1. /\ NetsOf[s] \subseteq Network /\ RoutedOf[s] \subseteq NetsOf[s] /\ RoutedOf[s] # {}
      /\ MgmtOf[s] # NoNet => MgmtOf[s] \in NetsOf[s]
  BY NetAssumption
<1>2. (CHOOSE n \in NetsOf[s] : TRUE) \in NetsOf[s]
  BY <1>1
<1> HIDE DEF FixedPort
<1>3. \A n \in Network \cup {ServiceNet}, k \in Kind : PortOf(s, n, k) \in Port
  BY DEF PortOf, Port
<1>4. FixedPort(s).net \in NetsOf[s] /\ FixedPort(s).owner = s /\ FixedPort(s).kind = "fixed"
  BY <1>2 DEF FixedPort, PortOf
<1>5. FixedPort(s) \in Port
  BY <1>1, <1>2, <1>3 DEF FixedPort, Kind
<1> QED
  BY <1>1, <1>3, <1>4, <1>5 DEF Kind

(* A port that is added takes nothing away.                                *)
LEMMA PortAdded ==
  ASSUME NEW p, ports' = ports \cup {p}
  PROVE  /\ \A t \in Service, k \in Kind : Has(t, k) => Has(t, k)'
         /\ Has(p.owner, p.kind)'
  BY DEF Has


(* Every list and position of a service keeps its type.                    *)
LEMMA NetTypesKept ==
  ASSUME NetInv, NEW s \in Service, NetStep(s)
  PROVE  NetTypeOK'
<1>1. /\ NetTypeOK /\ PortsPlaced /\ PuppetKnown
      /\ \A u \in Service : KeysSound(u) /\ LaidSound(u) /\ ClearingSound(u)
  BY DEF NetInv
<1>2. CASE CreateService(s)
  BY <1>1, PortsTyped, <1>2, NetAssumption DEF NetTypeOK, CreateService, Goto, DelGoto, Refused,
     createVars, delVars
<1>3. CASE PuppetBuilt(s)
  BY <1>1, PortsTyped, <1>3, NetAssumption DEF NetTypeOK, PuppetBuilt, Goto, DelGoto, Refused,
     createVars, delVars
<1>4. CASE CreateFails(s)
  BY <1>1, PortsTyped, <1>4, NetAssumption DEF NetTypeOK, CreateFails, Goto, DelGoto, Refused,
     createVars, delVars
<1>5. CASE Creation(s)
  <2>1. ASSUME NEW n \in Network, RouteNetwork(s, n) PROVE NetTypeOK'
    <3>1. RouterOf[s] \in Router
      BY NetAssumption
    <3> QED
      BY <1>1, <2>1, <3>1 DEF NetTypeOK, RouteNetwork, Refused, delVars
  <2>2. CASE CfgEngine(s)
    BY <1>1, PortsTyped, <2>2, NetAssumption DEF NetTypeOK, CfgEngine, Goto, DelGoto, Refused,
       createVars, delVars
  <2>3. CASE PuppetReady(s)
    BY <1>1, PortsTyped, <2>3, NetAssumption DEF NetTypeOK, PuppetReady, Goto, DelGoto, Refused,
       createVars, delVars
  <2>4. CASE ParseAndStore(s)
    BY <1>1, PortsTyped, <2>4, NetAssumption DEF NetTypeOK, ParseAndStore, Goto, DelGoto,
       Refused, createVars, delVars
  <2> QED
    BY <1>5, <2>1, <2>2, <2>3, <2>4 DEF Creation
<1>6. CASE Deployment(s)
  <2>1. CASE BootMachine(s)
    BY <1>1, PortsTyped, <2>1, NetAssumption DEF NetTypeOK, BootMachine, Goto, DelGoto, Refused,
       createVars, delVars
  <2>2. CASE ManagerPort(s)
    BY <1>1, PortsTyped, <2>2, NetAssumption DEF NetTypeOK, ManagerPort, Goto, DelGoto, Refused,
       createVars, delVars
  <2>3. CASE DeployFails(s)
    BY <1>1, PortsTyped, <2>3, NetAssumption DEF NetTypeOK, DeployFails, Goto, DelGoto, Refused,
       createVars, delVars
  <2> QED
    BY <1>6, <2>1, <2>2, <2>3 DEF Deployment
<1>7. CASE Deletion(s)
  <2>1. CASE DeletePuppetInstance(s)
    BY <1>1, PortsTyped, <2>1, NetAssumption DEF NetTypeOK, DeletePuppetInstance, Goto, DelGoto,
       Refused, createVars, delVars
  <2>2. CASE DeleteVdus(s)
    BY <1>1, PortsTyped, <2>2, NetAssumption DEF NetTypeOK, DeleteVdus, Goto, DelGoto, Refused,
       createVars, delVars
  <2>3. CASE ListRouterPorts(s)
    BY <1>1, PortsTyped, <2>3, NetAssumption DEF NetTypeOK, ListRouterPorts, Goto, DelGoto,
       Refused, createVars, delVars
  <2>4. ASSUME NEW n \in Network, RemoveInterface(s, n) PROVE NetTypeOK'
    BY <1>1, PortsTyped, <2>4, NetAssumption DEF NetTypeOK, RemoveInterface, Goto, DelGoto,
       Refused, createVars, delVars
  <2>5. CASE InterfacesRemoved(s)
    BY <1>1, PortsTyped, <2>5, NetAssumption DEF NetTypeOK, InterfacesRemoved, Goto, DelGoto,
       Refused, createVars, delVars
  <2>6. CASE ListPorts(s)
    BY <1>1, PortsTyped, <2>6, NetAssumption DEF NetTypeOK, ListPorts, Goto, DelGoto, Refused,
       createVars, delVars
  <2>7. ASSUME NEW p \in delPorts[s], DeletePort(s, p) PROVE NetTypeOK'
    BY <1>1, PortsTyped, <2>7, NetAssumption DEF NetTypeOK, DeletePort, Goto, DelGoto, Refused,
       createVars, delVars
  <2>8. CASE DeleteRow(s)
    BY <1>1, PortsTyped, <2>8, NetAssumption DEF NetTypeOK, DeleteRow, Goto, DelGoto, Refused,
       createVars, delVars
  <2>9. CASE DeletionRaises(s)
    BY <1>1, PortsTyped, <2>9, NetAssumption DEF NetTypeOK, DeletionRaises, Goto, DelGoto,
       Refused, createVars, delVars
  <2> QED
    BY <1>7, <2>1, <2>2, <2>3, <2>4, <2>5, <2>6, <2>7, <2>8, <2>9 DEF Deletion
<1> QED
  BY <1>2, <1>3, <1>4, <1>5, <1>6, <1>7 DEF NetStep

(* Ports are made on the network that belongs to their kind.               *)
LEMMA PortsStayPlaced ==
  ASSUME NetInv, NEW s \in Service, NetStep(s)
  PROVE  PortsPlaced'
<1>1. /\ NetTypeOK /\ PortsPlaced /\ PuppetKnown
      /\ \A u \in Service : KeysSound(u) /\ LaidSound(u) /\ ClearingSound(u)
  BY DEF NetInv
<1>2. CASE CreateService(s)
  BY <1>1, <1>2, NetAssumption DEF NetTypeOK, PortsPlaced, CreateService, Goto, DelGoto,
     Refused, createVars, delVars
<1>3. CASE PuppetBuilt(s)
  BY <1>1, <1>3, NetAssumption DEF NetTypeOK, PortsPlaced, PuppetBuilt, Goto, DelGoto, Refused,
     createVars, delVars
<1>4. CASE CreateFails(s)
  BY <1>1, <1>4, NetAssumption DEF NetTypeOK, PortsPlaced, CreateFails, PortOf, FixedPort, Goto,
     DelGoto, Refused, createVars, delVars
<1>5. CASE Creation(s)
  BY <1>1, <1>5, NetAssumption DEF NetTypeOK, PortsPlaced, Creation, RouteNetwork, CfgEngine,
     PuppetReady, ParseAndStore, PortOf, FixedPort, Goto, DelGoto, Refused, createVars, delVars
<1>6. CASE Deployment(s)
  BY <1>1, <1>6, NetAssumption DEF NetTypeOK, PortsPlaced, Deployment, BootMachine, ManagerPort,
     DeployFails, PortOf, FixedPort, Goto, DelGoto, Refused, createVars, delVars
<1>7. CASE Deletion(s)
  BY <1>1, <1>7, NetAssumption DEF NetTypeOK, PortsPlaced, Deletion, DeletePuppetInstance,
     DeleteVdus, ListRouterPorts, RemoveInterface, InterfacesRemoved, ListPorts, DeletePort,
     DeleteRow, DeletionRaises, Goto, DelGoto, Refused, createVars, delVars
<1> QED
  BY <1>2, <1>3, <1>4, <1>5, <1>6, <1>7 DEF NetStep

(* A puppet master stays known until it or its request has ended.          *)
LEMMA PuppetsStayKnown ==
  ASSUME NetInv, NEW s \in Service, NetStep(s)
  PROVE  PuppetKnown'
<1>1. /\ NetTypeOK /\ PortsPlaced /\ PuppetKnown
      /\ \A u \in Service : KeysSound(u) /\ LaidSound(u) /\ ClearingSound(u)
  BY DEF NetInv
<1>2. CASE CreateService(s)
  BY <1>1, <1>2, NetAssumption DEF NetTypeOK, PuppetKnown, KeysSound, ClearingSound, Deleting,
     CreateService, Goto, DelGoto, Refused, createVars, delVars
<1>3. CASE PuppetBuilt(s)
  BY <1>1, <1>3, NetAssumption DEF NetTypeOK, PuppetKnown, KeysSound, ClearingSound, Deleting,
     PuppetBuilt, Goto, DelGoto, Refused, createVars, delVars
<1>4. CASE CreateFails(s)
  BY <1>1, <1>4, NetAssumption DEF NetTypeOK, PuppetKnown, KeysSound, ClearingSound, Deleting,
     CreateFails, Goto, DelGoto, Refused, createVars, delVars
<1>5. CASE Creation(s)
  BY <1>1, <1>5, NetAssumption DEF NetTypeOK, PuppetKnown, KeysSound, ClearingSound, Deleting,
     Creation, RouteNetwork, CfgEngine, PuppetReady, ParseAndStore, Goto, DelGoto, Refused,
     createVars, delVars
<1>6. CASE Deployment(s)
  BY <1>1, <1>6, NetAssumption DEF NetTypeOK, PuppetKnown, KeysSound, ClearingSound, Deleting,
     Deployment, BootMachine, ManagerPort, DeployFails, Goto, DelGoto, Refused, createVars,
     delVars
<1>7. CASE Deletion(s)
  BY <1>1, <1>7, NetAssumption DEF NetTypeOK, PuppetKnown, KeysSound, ClearingSound, Deleting,
     Deletion, DeletePuppetInstance, DeleteVdus, ListRouterPorts, RemoveInterface,
     InterfacesRemoved, ListPorts, DeletePort, DeleteRow, DeletionRaises, Goto, DelGoto,
     Refused, createVars, delVars
<1> QED
  BY <1>2, <1>3, <1>4, <1>5, <1>6, <1>7 DEF NetStep

(* The keys of preconfigure are gone through one by one.                   *)
LEMMA KeysKept ==
  ASSUME NetInv, NEW s \in Service, NetStep(s)
  PROVE  \A t \in Service : KeysSound(t)'
<1> SUFFICES ASSUME NEW t \in Service PROVE KeysSound(t)'
  OBVIOUS
<1>1. /\ NetTypeOK /\ PortsPlaced /\ PuppetKnown
      /\ \A u \in Service : KeysSound(u) /\ LaidSound(u) /\ ClearingSound(u)
  BY DEF NetInv
<1>2. CASE CreateService(s)
  BY <1>1, <1>2, NetAssumption DEF NetTypeOK, KeysSound, CreateService, Goto, DelGoto, Refused,
     createVars, delVars
<1>3. CASE PuppetBuilt(s)
  BY <1>1, <1>3, NetAssumption DEF NetTypeOK, KeysSound, PuppetBuilt, Goto, DelGoto, Refused,
     createVars, delVars
<1>4. CASE CreateFails(s)
  BY <1>1, <1>4, NetAssumption DEF NetTypeOK, KeysSound, CreateFails, Goto, DelGoto, Refused,
     createVars, delVars
<1>5. CASE Creation(s)
  BY <1>1, <1>5, NetAssumption DEF NetTypeOK, KeysSound, Creation, RouteNetwork, CfgEngine,
     PuppetReady, ParseAndStore, Goto, DelGoto, Refused, createVars, delVars
<1>6. CASE Deployment(s)
  BY <1>1, <1>6, NetAssumption DEF NetTypeOK, KeysSound, Deployment, BootMachine, ManagerPort,
     DeployFails, Goto, DelGoto, Refused, createVars, delVars
<1>7. CASE Deletion(s)
  BY <1>1, <1>7, NetAssumption DEF NetTypeOK, KeysSound, Deletion, DeletePuppetInstance,
     DeleteVdus, ListRouterPorts, RemoveInterface, InterfacesRemoved, ListPorts, DeletePort,
     DeleteRow, DeletionRaises, Goto, DelGoto, Refused, createVars, delVars
<1> QED
  BY <1>2, <1>3, <1>4, <1>5, <1>6, <1>7 DEF NetStep

(* A deletion takes from another service only what a network or a router   *)
(* of its own has, and then that one is a sharer.                          *)
LEMMA LaidKept ==
  ASSUME NetInv, NEW s \in Service, NetStep(s)
  PROVE  \A t \in Service : LaidSound(t)'
<1> SUFFICES ASSUME NEW t \in Service PROVE LaidSound(t)'
  OBVIOUS
<1>1. /\ NetTypeOK /\ PortsPlaced /\ PuppetKnown
      /\ \A u \in Service : KeysSound(u) /\ LaidSound(u) /\ ClearingSound(u)
  BY DEF NetInv
<1>2. CASE CreateService(s)
  BY <1>1, <1>2, NetAssumption DEF NetTypeOK, Port, LaidSound, KeysSound, ClearingSound,
     PortsPlaced, Quiet, Deleting, Sharers, Has, CreateService, Goto, DelGoto, Refused,
     createVars, delVars
<1>3. CASE PuppetBuilt(s)
  BY <1>1, <1>3, NetAssumption DEF NetTypeOK, Port, LaidSound, KeysSound, ClearingSound,
     PortsPlaced, Quiet, Deleting, Sharers, Has, PuppetBuilt, Goto, DelGoto, Refused,
     createVars, delVars
<1>4. CASE CreateFails(s)
  BY <1>1, <1>4, NetAssumption DEF NetTypeOK, Port, LaidSound, KeysSound, ClearingSound,
     PortsPlaced, Quiet, Deleting, Sharers, Has, CreateFails, PortOf, FixedPort, Goto, DelGoto,
     Refused, createVars, delVars
<1>5. CASE Creation(s)
  <2>1. ASSUME NEW n \in Network, RouteNetwork(s, n) PROVE LaidSound(t)'
    BY <1>1, <2>1, NetAssumption DEF NetTypeOK, Port, LaidSound, KeysSound, ClearingSound,
       PortsPlaced, Quiet, Deleting, Sharers, Has, RouteNetwork, Goto, DelGoto, Refused,
       createVars, delVars
  <2>2. CASE CfgEngine(s)
    BY <1>1, <2>2, NetAssumption DEF NetTypeOK, Port, LaidSound, KeysSound, ClearingSound,
       PortsPlaced, Quiet, Deleting, Sharers, Has, CfgEngine, Goto, DelGoto, Refused,
       createVars, delVars
  <2>3. CASE PuppetReady(s)
    BY <1>1, <2>3, NetAssumption DEF NetTypeOK, Port, LaidSound, KeysSound, ClearingSound,
       PortsPlaced, Quiet, Deleting, Sharers, Has, PuppetReady, Goto, DelGoto, Refused,
       createVars, delVars
  <2>4. CASE ParseAndStore(s)
    <3>1. /\ ports' = ports \cup {FixedPort(s)} /\ netPc' = [netPc EXCEPT ![s] = "boot"]
          /\ UNCHANGED <<toRoute, ifaces, delPc, netFault>> /\ netPc[s] = "preconfigure"
      BY <2>4 DEF ParseAndStore, Goto, delVars
    <3>2. Has(s, "fixed")' /\ \A u \in Service, k \in Kind : Has(u, k) => Has(u, k)'
      BY <3>1, PortAdded, PortsTyped
    <3> QED
      BY <1>1, <3>1, <3>2 DEF NetTypeOK, LaidSound, Quiet, Deleting, Sharers, Kind
  <2> QED
    BY <1>5, <2>1, <2>2, <2>3, <2>4 DEF Creation
<1>6. CASE Deployment(s)
  <2>1. ASSUME NEW p, NEW from \in {"boot", "stap", "vtap"}, NEW to,
               ports' = ports \cup {p}, p.owner = s, netPc[s] = from,
               netPc' = [netPc EXCEPT ![s] = to],
               UNCHANGED <<toRoute, ifaces, delPc, netFault>>,
               <<from, to, p.kind>> \in {<<"boot", "stap", "vm">>, <<"stap", "vtap", "stap">>,
                                        <<"vtap", "up", "vtap">>}
        PROVE  LaidSound(t)'
    <3>1. Has(s, p.kind)' /\ \A u \in Service, k \in Kind : Has(u, k) => Has(u, k)'
      BY <2>1, PortAdded
    <3>2. CASE t # s
      BY <1>1, <2>1, <3>1, <3>2 DEF NetTypeOK, LaidSound, Quiet, Deleting, Sharers, Kind
    <3>3. CASE t = s
      <4>1. netPc'[s] = to
        BY <1>1, <2>1 DEF NetTypeOK
      <4> QED
        BY <1>1, <2>1, <3>1, <3>3, <4>1 DEF LaidSound, Quiet, Deleting, Sharers, Kind
    <3> QED
      BY <3>2, <3>3
  <2>2. CASE BootMachine(s)
    <3>1. PICK n \in NetsOf[s] : ports' = ports \cup {PortOf(s, n, "vm")}
      BY <2>2 DEF BootMachine
    <3>2. PortOf(s, n, "vm").owner = s /\ PortOf(s, n, "vm").kind = "vm"
      BY DEF PortOf
    <3> QED
      BY <2>1, <2>2, <3>1, <3>2 DEF BootMachine, Goto, delVars
  <2>3. CASE ManagerPort(s)
    <3>1. /\ PortOf(s, ServiceNet, "stap").owner = s /\ PortOf(s, ServiceNet, "stap").kind = "stap"
          /\ PortOf(s, MgmtOf[s], "vtap").owner = s /\ PortOf(s, MgmtOf[s], "vtap").kind = "vtap"
      BY DEF PortOf
    <3>2. CASE /\ netPc[s] = "stap" /\ Goto(s, "vtap")
               /\ ports' = ports \cup {PortOf(s, ServiceNet, "stap")}
      BY <2>1, <2>3, <3>1, <3>2 DEF ManagerPort, Goto, delVars
    <3>3. CASE /\ netPc[s] = "vtap" /\ Goto(s, "up")
               /\ ports' = ports \cup {PortOf(s, MgmtOf[s], "vtap")}
      BY <2>1, <2>3, <3>1, <3>3 DEF ManagerPort, Goto, delVars
    <3> QED
      BY <2>3, <3>2, <3>3 DEF ManagerPort
  <2>4. CASE DeployFails(s)
    BY <1>1, <2>4 DEF NetTypeOK, LaidSound, Quiet, Deleting, Sharers, Has, DeployFails, Goto,
       Refused, delVars
  <2> QED
    BY <1>6, <2>2, <2>3, <2>4 DEF Deployment
<1>7. CASE Deletion(s)
  BY <1>1, <1>7, NetAssumption DEF NetTypeOK, Port, LaidSound, KeysSound, ClearingSound,
     PortsPlaced, Quiet, Deleting, Sharers, Has, Deletion, DeletePuppetInstance, DeleteVdus,
     ListRouterPorts, RemoveInterface, InterfacesRemoved, ListPorts, DeletePort, DeleteRow,
     DeletionRaises, Goto, DelGoto, Refused, createVars, delVars
<1> QED
  BY <1>2, <1>3, <1>4, <1>5, <1>6, <1>7 DEF NetStep

(* Nothing is added to what a deletion has on its lists: the deployment is *)
(* over, and another service has other networks and another router.        *)
LEMMA ClearingKept ==
  ASSUME NetInv, NEW s \in Service, NetStep(s)
  PROVE  \A t \in Service : ClearingSound(t)'
<1> SUFFICES ASSUME NEW t \in Service PROVE ClearingSound(t)'
  OBVIOUS
<1>1. /\ NetTypeOK /\ PortsPlaced /\ PuppetKnown
      /\ \A u \in Service : KeysSound(u) /\ LaidSound(u) /\ ClearingSound(u)
  BY DEF NetInv
<1>2. CASE CreateService(s)
  BY <1>1, <1>2, NetAssumption DEF NetTypeOK, Port, PuppetKnown, ClearingSound, Deleting,
     Sharers, CreateService, Goto, DelGoto, Refused, createVars, delVars
<1>3. CASE PuppetBuilt(s)
  BY <1>1, <1>3, NetAssumption DEF NetTypeOK, Port, PuppetKnown, ClearingSound, Deleting,
     Sharers, PuppetBuilt, Goto, DelGoto, Refused, createVars, delVars
<1>4. CASE CreateFails(s)
  BY <1>1, <1>4, NetAssumption DEF NetTypeOK, Port, PuppetKnown, ClearingSound, Deleting,
     Sharers, CreateFails, PortOf, FixedPort, Goto, DelGoto, Refused, createVars, delVars
<1>5. CASE Creation(s)
  BY <1>1, <1>5, NetAssumption DEF NetTypeOK, Port, PuppetKnown, ClearingSound, Deleting,
     Sharers, Creation, RouteNetwork, CfgEngine, PuppetReady, ParseAndStore, PortOf, FixedPort,
     Goto, DelGoto, Refused, createVars, delVars
<1>6. CASE Deployment(s)
  BY <1>1, <1>6, NetAssumption DEF NetTypeOK, Port, PuppetKnown, ClearingSound, Deleting,
     Sharers, Deployment, BootMachine, ManagerPort, DeployFails, PortOf, FixedPort, Goto,
     DelGoto, Refused, createVars, delVars
<1>7. CASE Deletion(s)
  BY <1>1, <1>7, NetAssumption DEF NetTypeOK, Port, PuppetKnown, ClearingSound, Deleting,
     Sharers, Deletion, DeletePuppetInstance, DeleteVdus, ListRouterPorts, RemoveInterface,
     InterfacesRemoved, ListPorts, DeletePort, DeleteRow, DeletionRaises, Goto, DelGoto,
     Refused, createVars, delVars
<1> QED
  BY <1>2, <1>3, <1>4, <1>5, <1>6, <1>7 DEF NetStep

(* Before anything is made, all of it is so.                               *)
LEMMA NetStarts == NetInit => NetInv
  BY NetAssumption
     DEF NetInit, NetInv, NetTypeOK, PortsPlaced, PuppetKnown, KeysSound, LaidSound, ClearingSound,
         Quiet, Deleting

(* Every step of a service keeps what is so of the networks of all.        *)
LEMMA NetStepKept ==
  ASSUME NetInv, [NetNext]_netVars
  PROVE  NetInv'
<1>1. CASE UNCHANGED netVars
  BY <1>1 DEF netVars, NetInv, NetTypeOK, PortsPlaced, PuppetKnown, KeysSound, LaidSound,
              ClearingSound, Quiet, Deleting, Has
<1>2. CASE NetNext
  <2>1. PICK s \in Service : NetStep(s)
    BY <1>2 DEF NetNext, NetStep
  <2> QED
    BY <2>1, NetTypesKept, PortsStayPlaced, PuppetsStayKnown, KeysKept, LaidKept, ClearingKept
       DEF NetInv
<1> QED
  BY <1>1, <1>2

(* What was laid for a service that is up is what the property names.      *)
LEMMA LaidIsKept == NetInv => NetKept
<1> SUFFICES ASSUME NetInv, NEW s \in Service, netPc[s] = "up", Quiet(s)
             PROVE  /\ {p.kind : p \in {q \in ports : q.owner = s}} = Kind
                    /\ s \notin netFault => \A n \in RoutedOf[s] : <<RouterOf[s], n>> \in ifaces
  BY DEF NetKept, Quiet
<1>1. /\ NetTypeOK /\ KeysSound(s) /\ LaidSound(s)
  BY DEF NetInv
<1>2. \A k \in Kind : Has(s, k)
  BY <1>1 DEF LaidSound, Kind
<1>3. \A p \in ports : p.kind \in Kind
  BY <1>1 DEF NetTypeOK, Port
<1>4. {p.kind : p \in {q \in ports : q.owner = s}} = Kind
  BY <1>2, <1>3 DEF Has
<1>5. toRoute[s] = {}
  BY <1>1 DEF KeysSound, NetTypeOK
<1>6. s \notin netFault => \A n \in RoutedOf[s] : <<RouterOf[s], n>> \in ifaces
  BY <1>1, <1>5 DEF LaidSound
<1> QED
  BY <1>4, <1>6

(* A deletion that is done has worked through its lists.                   *)
LEMMA ClearingIsDone == NetInv => NetCleared
<1> SUFFICES ASSUME NetInv, NEW s \in Service, delPc[s] = "done", s \notin netFault,
                    Sharers(s) = {}
             PROVE  /\ {p \in ports : p.owner = s} \subseteq {PortOf(s, ServiceNet, "stap")}
                    /\ \A n \in Network : <<RouterOf[s], n>> \notin ifaces
                    /\ puppet[s] \in {"none", "deleted"}
  BY DEF NetCleared
<1>1. NetTypeOK /\ PortsPlaced /\ ClearingSound(s)
  BY DEF NetInv
<1>2. ASSUME NEW p \in ports, p.owner = s PROVE p = PortOf(s, ServiceNet, "stap")
  <2>1. p.net \notin NetsOf[s] /\ p \in Port
    BY <1>1, <1>2 DEF ClearingSound, Deleting, NetTypeOK
  <2>2. p.kind = "stap" /\ p.net = ServiceNet
    BY <1>1, <1>2, <2>1 DEF PortsPlaced
  <2> QED
    BY <1>2, <2>1, <2>2 DEF Port, PortOf
<1>3. \A n \in Network : <<RouterOf[s], n>> \notin ifaces
  BY <1>1 DEF ClearingSound, Deleting
<1>4. puppet[s] \in {"none", "deleted"}
  BY <1>1 DEF ClearingSound, Deleting
<1> QED
  BY <1>2, <1>3, <1>4

-----------------------------------------------------------------------------
(* The parts together: each step is of one, and the others keep still.     *)

LEMMA TurnKept ==
  ASSUME BootInv, NetInv, SessionInv, LifeInv, ServerInv, [Next]_partVars
  PROVE  BootInv' /\ NetInv' /\ SessionInv' /\ LifeInv' /\ ServerInv'
<1>1. /\ [BootNext]_bootVars /\ [NetNext]_netVars /\ [SessionNext]_sessionVars
      /\ [LifeNext]_lifeVars /\ [ServerNext]_serverVars
  BY DEF Next, Others, partVars
<1> QED
  BY <1>1, BootStepKept, NetStepKept, SessionKept, LifeKept, ServerKept

LEMMA AllStart == Init => BootInv /\ NetInv /\ SessionInv /\ LifeInv /\ ServerInv
  BY BootStarts, NetStarts, SessionStarts, LifeStarts, ServerStarts DEF Init

(* A launch returns all of its machines, and the networks of services keep *)
(* what was laid and lose what was made, whatever nova and neutron do, for *)
(* every number of machines and every layout of networks and routers.      *)
THEOREM BringUpSafe == Spec => []BringUpTrue
<1>1. BootInv /\ NetInv => BringUpTrue
  BY LaidIsKept, ClearingIsDone DEF BringUpTrue
<1> QED
  BY <1>1, AllStart, TurnKept, PTL DEF Spec

(* A call of the client runs as often as it may and gives up when it must, *)
(* a service runs one loop however it is signalled, and a server that has  *)
(* started serves, for every number of retries, signals and processes.     *)
THEOREM ProcessesSafe == Spec => []ProcessesTrue
<1>1. SessionInv /\ LifeInv /\ ServerInv => ProcessesTrue
  BY DEF ProcessesTrue
<1> QED
  BY <1>1, AllStart, TurnKept, PTL DEF Spec

(***************************************************************************)
(* WorkerPool                                                              *)
(***************************************************************************)

USE PoolAssumption

(* Entries and acknowledgements are of units.                              *)
LEMMA Parts ==
  ASSUME PoolTypeOK
  PROVE  /\ \A k \in DOMAIN info : /\ k \in Id /\ info[k].unit \in Unit
                                  /\ info[k].result \in Status \cup {None}
         /\ \A i \in DOMAIN acks : acks[i][1] \in Unit
BY DEF PoolTypeOK, Entry

(* A result that is seen is one a driver returned.                         *)
LEMMA SeenResult ==
  ASSUME PoolTypeOK, ScanWhole, NEW k \in keys, info[k].result # None
  PROVE  k \in Id /\ k \in DOMAIN info /\ info[k].unit \in Unit /\ info[k].result \in Status
BY DEF PoolTypeOK, ScanWhole, Entry

(* A result is stored in the entry of the thread's identifier, whose unit  *)
(* stays what it was, or the thread ends with the lock.                    *)
LEMMA Stored ==
  ASSUME PoolTypeOK, NEW u \in Unit, StoreResult(u)
  PROVE  \/ /\ thrId[u] \in DOMAIN info
            /\ DOMAIN info' = DOMAIN info
            /\ \A k \in DOMAIN info : info'[k] =
                 IF k = thrId[u] THEN [unit |-> info[k].unit, result |-> result[u]] ELSE info[k]
            /\ monitor' = IF monitor = "waiting" THEN "notified" ELSE monitor
            /\ worker' = [worker EXCEPT ![u] = "over"] /\ UNCHANGED lock
         \/ /\ thrId[u] \notin DOMAIN info
            /\ lock' = u /\ worker' = [worker EXCEPT ![u] = "stuck"]
            /\ UNCHANGED <<info, monitor>>
<1>1. CASE thrId[u] \in DOMAIN info
  <2> DEFINE e == info[thrId[u]]
  <2>1. [e EXCEPT !.result = result[u]] = [unit |-> e.unit, result |-> result[u]]
    <3>1. e \in Entry
      BY <1>1 DEF PoolTypeOK
    <3> QED
      BY <3>1 DEF Entry
  <2>2. info' = [info EXCEPT ![thrId[u]] = [e EXCEPT !.result = result[u]]]
    BY <1>1 DEF StoreResult
  <2> HIDE DEF e
  <2>3. info' = [info EXCEPT ![thrId[u]] = [unit |-> e.unit, result |-> result[u]]]
    BY <2>1, <2>2
  <2> QED
    BY <1>1, <2>3 DEF StoreResult, e
<1> QED
  BY <1>1 DEF StoreResult

(* The steps of the handlers and the threads keep the types,               *)
LEMMA ThreadTypes ==
  ASSUME PoolTypeOK, NEW u \in Unit, Thread(u)
  PROVE  PoolTypeOK'
<1> USE DEF PoolTypeOK, Entry, monitorVars
<1>1. ASSUME NEW k \in Id, InvokeDriverThread(u, k) PROVE PoolTypeOK'
  BY <1>1 DEF InvokeDriverThread
<1>2. CASE StartThread(u)
  BY <1>2 DEF StartThread
<1>3. CASE ConfigureService(u)
  BY <1>3 DEF ConfigureService
<1>4. CASE StoreResult(u)
  <2>1. ASSUME NEW k \in DOMAIN info' PROVE info'[k] \in Entry
    <3>1. k \in DOMAIN info /\ info[k] \in Entry /\ info[k].unit \in Unit
      BY <1>4, Stored
    <3>2. [unit |-> info[k].unit, result |-> result[u]] \in Entry
      BY <3>1
    <3> QED
      BY <1>4, <3>1, <3>2, Stored
  <2> QED
    BY <1>4, <2>1, Stored DEF StoreResult
<1> QED
  BY <1>1, <1>2, <1>3, <1>4 DEF Thread

(* and so do those of the monitor.                                         *)
LEMMA MonitorTypes ==
  ASSUME PoolTypeOK, ScanWhole, MonitorStep \/ \E k \in keys : SendAckFails(k)
  PROVE  PoolTypeOK'
<1> USE DEF PoolTypeOK
<1>1. CASE MonitorStart \/ MonitorWait \/ MonitorWake
  BY <1>1 DEF MonitorStart, MonitorWait, MonitorWake
<1>2. CASE MonitorAcquire
  BY <1>2 DEF MonitorAcquire
<1>3. CASE ForgetThread
  BY <1>3 DEF ForgetThread
<1>4. CASE KillThread
  BY <1>4 DEF KillThread
<1>5. ASSUME NEW k \in keys, SkipThread(k) PROVE PoolTypeOK'
  BY <1>5 DEF SkipThread
<1>6. ASSUME NEW k \in keys, SendAck(k) PROVE PoolTypeOK'
  <2>1. <<info[k].unit, info[k].result>> \in Unit \X Status /\ k \in Id
    BY <1>6, SeenResult DEF SendAck
  <2>2. acks' \in Seq(Unit \X Status)
    BY <1>6, <2>1 DEF SendAck
  <2> QED
    BY <1>6, <2>1, <2>2 DEF SendAck
<1>7. ASSUME NEW k \in keys, SendAckFails(k) PROVE PoolTypeOK'
  BY <1>7 DEF SendAckFails
<1> QED
  BY <1>1, <1>2, <1>3, <1>4, <1>5, <1>6, <1>7 DEF MonitorStep

(* What the steps of the handlers and the threads do to the invariant. A   *)
(* new entry has no result, and takes the place of another's only when     *)
(* identifiers clash;                                                      *)
LEMMA InvokeKeeps ==
  ASSUME PoolInv, NEW u \in Unit, NEW k \in Id, InvokeDriverThread(u, k)
  PROVE  LockHeld' /\ ScanWhole' /\ EntriesOwned' /\ ResultsOwn' /\ LockReleased'
<1> USE DEF InvokeDriverThread, PoolInv, PoolTypeOK, Entry, monitorVars
<1>1. /\ info'[k].unit = u /\ info'[k].result = None
      /\ DOMAIN info' = DOMAIN info \cup {k}
      /\ \A j \in DOMAIN info : j # k => info'[j] = info[j]
  OBVIOUS
<1>2. LockHeld' /\ LockReleased'
  BY DEF LockHeld, LockReleased, None, Monitor
<1>3. ScanWhole'
  BY <1>1 DEF ScanWhole, NoMissedResult, Results, LockHeld, None, Monitor
<1>4. EntriesOwned'
  BY <1>1 DEF EntriesOwned, LockHeld, None, Monitor
<1>5. ResultsOwn'
  <2>1. \A v \in Unit : worker'[v] \in {"returning", "over", "stuck"} => result'[v] \in Status
    BY DEF ResultsOwn
  <2>2. ASSUME ~clash'
        PROVE  /\ k \notin DOMAIN info /\ worker[u] = "idle"
               /\ \A v \in Unit : worker[v] \in {"starting", "running", "returning"} =>
                    thrId[v] \in DOMAIN info /\ info[thrId[v]].unit = v
               /\ \A j \in Results : /\ worker[info[j].unit] = "over"
                                    /\ info[j].result = result[info[j].unit]
    BY <2>2 DEF ResultsOwn
  <2>3. ASSUME ~clash', NEW v \in Unit, worker'[v] \in {"starting", "running", "returning"}
        PROVE  thrId'[v] \in DOMAIN info' /\ info'[thrId'[v]].unit = v
    BY <1>1, <2>2, <2>3
  <2>4. ASSUME ~clash', NEW j \in Results'
        PROVE  worker'[info'[j].unit] = "over" /\ info'[j].result = result'[info'[j].unit]
    <3>1. j \in Results /\ info'[j] = info[j]
      BY <1>1, <2>4 DEF Results
    <3> QED
      BY <2>2, <2>4, <3>1
  <2> QED
    BY <2>1, <2>3, <2>4 DEF ResultsOwn
<1> QED
  BY <1>2, <1>3, <1>4, <1>5

(* a thread runs and gets its result;                                      *)
LEMMA RunKeeps ==
  ASSUME PoolInv, NEW u \in Unit, StartThread(u) \/ ConfigureService(u)
  PROVE  LockHeld' /\ ScanWhole' /\ EntriesOwned' /\ ResultsOwn' /\ LockReleased'
<1>1. PICK w \in {"running", "returning"} :
        /\ worker[u] = IF w = "running" THEN "starting" ELSE "running"
        /\ worker' = [worker EXCEPT ![u] = w]
        /\ w = "running" => UNCHANGED result
        /\ w = "returning" => \E s \in Status : result' = [result EXCEPT ![u] = s]
  BY DEF StartThread, ConfigureService
<1>2. UNCHANGED <<thrId, info, lock, monitor, keys, current, acks, clash>>
  BY DEF StartThread, ConfigureService, monitorVars
<1>3. /\ worker \in [Unit -> {"idle", "starting", "running", "returning", "over", "stuck"}]
      /\ result \in [Unit -> Status \cup {None}] /\ clash \in BOOLEAN
      /\ \A k \in DOMAIN info : info[k].unit \in Unit
      /\ \A i \in DOMAIN acks : acks[i][1] \in Unit
  BY Parts DEF PoolInv, PoolTypeOK
<1>4. LockHeld' /\ LockReleased'
  BY <1>1, <1>2, <1>3 DEF PoolInv, LockHeld, LockReleased
<1>5. ScanWhole'
  BY <1>2 DEF PoolInv, ScanWhole, NoMissedResult, Results
<1>6. EntriesOwned'
  BY <1>1, <1>2, <1>3 DEF PoolInv, EntriesOwned
<1>7. ResultsOwn'
  <2>1. \A v \in Unit : v # u => worker'[v] = worker[v] /\ result'[v] = result[v]
    BY <1>1, <1>3
  <2>2. worker'[u] = "returning" => result'[u] \in Status
    BY <1>1, <1>3
  <2>3. ASSUME ~clash, NEW k \in Results
        PROVE  worker'[info[k].unit] = "over" /\ info[k].result = result'[info[k].unit]
    <3>1. worker[info[k].unit] = "over" /\ info[k].unit # u /\ info[k].unit \in Unit
      BY <1>1, <1>3, <2>3 DEF PoolInv, ResultsOwn, Results
    <3> QED
      BY <2>1, <2>3, <3>1 DEF PoolInv, ResultsOwn
  <2>4. ASSUME ~clash, NEW v \in Unit, worker'[v] \in {"starting", "running", "returning"}
        PROVE  thrId[v] \in DOMAIN info /\ info[thrId[v]].unit = v
    BY <1>1, <2>1, <2>4 DEF PoolInv, ResultsOwn
  <2>5. \A v \in Unit : worker'[v] \in {"returning", "over", "stuck"} => result'[v] \in Status
    BY <1>1, <1>3, <2>1, <2>2 DEF PoolInv, ResultsOwn
  <2> QED
    BY <1>2, <1>3, <2>3, <2>4, <2>5 DEF ResultsOwn, Results
<1> QED
  BY <1>4, <1>5, <1>6, <1>7

(* its result is stored with the monitor notified, unless the entry is     *)
(* gone, which it is only after a clash.                                   *)
LEMMA StoreKeeps ==
  ASSUME PoolInv, NEW u \in Unit, StoreResult(u)
  PROVE  LockHeld' /\ ScanWhole' /\ EntriesOwned' /\ ResultsOwn' /\ LockReleased'
<1> PoolTypeOK
  BY DEF PoolInv
<1>1. worker[u] = "returning" /\ lock = None
      /\ UNCHANGED <<thrId, result, keys, current, acks, clash>>
  BY DEF StoreResult
<1>2. CASE thrId[u] \in DOMAIN info
  <2>1. /\ DOMAIN info' = DOMAIN info /\ UNCHANGED lock
        /\ monitor' = IF monitor = "waiting" THEN "notified" ELSE monitor
        /\ worker' = [worker EXCEPT ![u] = "over"]
        /\ \A k \in DOMAIN info : info'[k] =
             IF k = thrId[u] THEN [unit |-> info[k].unit, result |-> result[u]] ELSE info[k]
    BY <1>2, Stored
  <2>2. /\ \A k \in DOMAIN info : info'[k].unit = info[k].unit
        /\ \A k \in DOMAIN info :
             info'[k].result = IF k = thrId[u] THEN result[u] ELSE info[k].result
    BY <2>1
  <2>3. LockHeld' /\ LockReleased'
    BY <1>1, <2>1 DEF PoolInv, PoolTypeOK, LockHeld, LockReleased, None, Monitor
  <2>4. ScanWhole'
    BY <1>1, <2>1, <2>2 DEF PoolInv, PoolTypeOK, ScanWhole, NoMissedResult, Results,
                            LockHeld, None, Monitor
  <2>5. EntriesOwned'
    BY <1>1, <2>1, <2>2 DEF PoolInv, PoolTypeOK, Entry, EntriesOwned, LockHeld, None, Monitor
  <2>6. ResultsOwn'
    BY <1>1, <2>1, <2>2 DEF PoolInv, PoolTypeOK, Entry, ResultsOwn, Results
  <2> QED
    BY <2>3, <2>4, <2>5, <2>6
<1>3. CASE thrId[u] \notin DOMAIN info
  <2>1. /\ lock' = u /\ worker' = [worker EXCEPT ![u] = "stuck"]
        /\ UNCHANGED <<info, monitor>>
    BY <1>3, Stored
  <2>2. clash
    BY <1>1, <1>3 DEF PoolInv, ResultsOwn
  <2>3. LockHeld' /\ LockReleased'
    BY <1>1, <2>1, <2>2 DEF PoolInv, PoolTypeOK, LockHeld, LockReleased, None, Monitor
  <2>4. ScanWhole' /\ EntriesOwned'
    BY <1>1, <2>1 DEF PoolInv, PoolTypeOK, Entry, ScanWhole, NoMissedResult, Results, EntriesOwned
  <2>5. ResultsOwn'
    BY <1>1, <2>1, <2>2 DEF PoolInv, PoolTypeOK, ResultsOwn
  <2> QED
    BY <2>3, <2>4, <2>5
<1> QED
  BY <1>2, <1>3

(* What the steps of the monitor do to it.                                 *)
LEMMA MonitorKeeps ==
  ASSUME PoolInv, MonitorStep \/ \E k \in keys : SendAckFails(k)
  PROVE  (LockHeld /\ ScanWhole /\ EntriesOwned /\ ResultsOwn /\ LockReleased)'
<1> USE DEF PoolInv, PoolTypeOK, Entry, LockHeld, ScanWhole, EntriesOwned, ResultsOwn,
            LockReleased, Results, NoMissedResult, None, Monitor
<1>1. CASE MonitorStart \/ MonitorWait \/ MonitorWake
  BY <1>1 DEF MonitorStart, MonitorWait, MonitorWake
<1>2. CASE MonitorAcquire
  BY <1>2 DEF MonitorAcquire
<1>3. CASE ForgetThread
  BY <1>3 DEF ForgetThread, IsAlive
<1>4. CASE KillThread
  BY <1>4 DEF KillThread, IsAlive
<1>5. ASSUME NEW k \in keys, SkipThread(k)
      PROVE  (LockHeld /\ ScanWhole /\ EntriesOwned /\ ResultsOwn /\ LockReleased)'
  BY <1>5 DEF SkipThread
<1>6. ASSUME NEW k \in keys, SendAck(k)
      PROVE  (LockHeld /\ ScanWhole /\ EntriesOwned /\ ResultsOwn /\ LockReleased)'
  BY <1>6 DEF SendAck
<1>7. ASSUME NEW k \in keys, SendAckFails(k)
      PROVE  (LockHeld /\ ScanWhole /\ EntriesOwned /\ ResultsOwn /\ LockReleased)'
  BY <1>7 DEF SendAckFails
<1> QED
  BY <1>1, <1>2, <1>3, <1>4, <1>5, <1>6, <1>7 DEF MonitorStep

(* The initial state satisfies the invariant,                              *)
LEMMA InitPool == PoolInit => PoolInv
<1> SUFFICES ASSUME PoolInit PROVE PoolInv
  OBVIOUS
<1>1. DOMAIN info = {} /\ DOMAIN acks = {} /\ acks \in Seq(Unit \X Status)
  BY DEF PoolInit
<1>2. PoolTypeOK
  BY <1>1 DEF PoolInit, PoolTypeOK
<1>3. LockHeld /\ LockReleased
  BY DEF PoolInit, LockHeld, LockReleased, None, Monitor
<1>4. ScanWhole /\ EntriesOwned /\ ResultsOwn
  BY <1>1 DEF PoolInit, ScanWhole, NoMissedResult, Results, EntriesOwned, ResultsOwn
<1> QED
  BY <1>2, <1>3, <1>4 DEF PoolInv

(* and every step keeps it.                                                *)
LEMMA StepPool == PoolInv /\ [PoolNext]_poolVars => PoolInv'
<1> SUFFICES ASSUME PoolInv, [PoolNext]_poolVars PROVE PoolInv'
  OBVIOUS
<1>1. ASSUME NEW u \in Unit, Thread(u) PROVE PoolInv'
  <2>1. PoolTypeOK'
    BY <1>1, ThreadTypes DEF PoolInv
  <2>2. LockHeld' /\ ScanWhole' /\ EntriesOwned' /\ ResultsOwn' /\ LockReleased'
    BY <1>1, InvokeKeeps, RunKeeps, StoreKeeps DEF Thread
  <2> QED
    BY <2>1, <2>2 DEF PoolInv
<1>2. CASE MonitorStep \/ \E k \in keys : SendAckFails(k)
  BY <1>2, MonitorTypes, MonitorKeeps DEF PoolInv
<1>3. CASE UNCHANGED poolVars
  BY <1>3 DEF poolVars, PoolInv, PoolTypeOK, LockHeld, ScanWhole, NoMissedResult, Results,
              EntriesOwned, ResultsOwn, LockReleased
<1> QED
  BY <1>1, <1>2, <1>3 DEF PoolNext

-----------------------------------------------------------------------------
(* In every behaviour the lock is held where it should be, the entries are *)
(* of the threads they were made for, and a lock is only kept for ever     *)
(* after two threads were given one identifier.                            *)
THEOREM PoolSafe == PoolSpec => []PoolInv
BY InitPool, StepPool, PTL DEF PoolSpec

(* There is no lost wake-up: the monitor never waits while a result lies   *)
(* there unseen, whether or not its notify was lost.                       *)
THEOREM NothingMissed == PoolSpec => []NoMissedResult
<1>1. PoolInv => NoMissedResult
  BY DEF PoolInv, ScanWhole
<1> QED
  BY <1>1, PoolSafe, PTL

(* A step sends at most one acknowledgement, of a unit that had none.      *)
LEMMA AcksGrow ==
  ASSUME PoolInv, [PoolNext]_poolVars
  PROVE  \/ acks' = acks
         \/ \E k \in Results : /\ SendAck(k)
                              /\ acks' = Append(acks, <<info[k].unit, info[k].result>>)
                              /\ \A i \in DOMAIN acks : acks[i][1] # info[k].unit
<1>1. ASSUME NEW k \in keys, SendAck(k)
      PROVE  /\ k \in Results
             /\ acks' = Append(acks, <<info[k].unit, info[k].result>>)
             /\ \A i \in DOMAIN acks : acks[i][1] # info[k].unit
  BY <1>1 DEF SendAck, PoolInv, ScanWhole, EntriesOwned, Results
<1>2. ASSUME NEW u \in Unit, Thread(u) PROVE acks' = acks
  BY <1>2 DEF Thread, InvokeDriverThread, StartThread, ConfigureService, StoreResult, monitorVars
<1>3. CASE MonitorStep
  BY <1>1, <1>3 DEF MonitorStep, MonitorStart, MonitorAcquire, ForgetThread, KillThread,
                    MonitorWait, MonitorWake, SkipThread
<1> QED
  BY <1>2, <1>3 DEF PoolNext, SendAckFails, poolVars

(* No unit is acknowledged twice, however identifiers clash.               *)
THEOREM AckedOnceSafe == PoolSpec => []AckedOnce
<1>1. PoolInit => AckedOnce
  BY DEF PoolInit, AckedOnce
<1>2. PoolInv /\ AckedOnce /\ [PoolNext]_poolVars => AckedOnce'
  <2> SUFFICES ASSUME PoolInv, AckedOnce, [PoolNext]_poolVars PROVE AckedOnce'
    OBVIOUS
  <2>1. CASE acks' = acks
    BY <2>1 DEF AckedOnce
  <2>2. ASSUME NEW k \in Results,
               acks' = Append(acks, <<info[k].unit, info[k].result>>),
               \A i \in DOMAIN acks : acks[i][1] # info[k].unit
        PROVE  AckedOnce'
    <3>1. acks \in Seq(Unit \X Status) /\ <<info[k].unit, info[k].result>> \in Unit \X Status
      BY Parts DEF PoolInv, PoolTypeOK, Results
    <3>2. /\ DOMAIN acks' = 1 .. (Len(acks) + 1) /\ DOMAIN acks = 1 .. Len(acks)
          /\ \A i \in DOMAIN acks : acks'[i] = acks[i]
          /\ acks'[Len(acks) + 1] = <<info[k].unit, info[k].result>>
      BY <2>2, <3>1
    <3>3. acks'[Len(acks) + 1][1] = info[k].unit
      BY <3>2
    <3> QED
      BY <2>2, <3>1, <3>2, <3>3 DEF AckedOnce
  <2> QED
    BY <2>1, <2>2, AcksGrow
<1> QED
  BY <1>1, <1>2, PoolSafe, PTL DEF PoolSpec

-----------------------------------------------------------------------------
(* The refinement of ThreadReports *)

(* Until identifiers clash, a thread at work is not acknowledged yet.      *)
LEMMA AtWorkUnreported ==
  ASSUME PoolInv, ~clash, NEW u \in Unit, worker[u] \in {"starting", "running", "returning"}
  PROVE  \A i \in DOMAIN acks : acks[i][1] # u
<1> SUFFICES ASSUME NEW i \in DOMAIN acks, acks[i][1] = u PROVE FALSE
  OBVIOUS
<1>1. thrId[u] \in DOMAIN info /\ info[thrId[u]].unit = u
  BY DEF PoolInv, ResultsOwn
<1>2. thrId[u] = current /\ monitor \in {"sent", "broken"}
  BY <1>1 DEF PoolInv, EntriesOwned
<1>3. monitor = "sent"
  BY <1>2 DEF PoolInv, LockReleased
<1>4. worker[u] = "over"
  BY <1>1, <1>2, <1>3 DEF PoolInv, ScanWhole, ResultsOwn
<1> QED
  BY <1>4

(* A unit is seen as before when its worker, result and acknowledgements   *)
(* are.                                                                    *)
LEMMA SeenAs ==
  ASSUME NEW u \in Unit, UNCHANGED <<worker[u], result[u]>>,
         (\E i \in DOMAIN acks' : acks'[i][1] = u) <=> (\E i \in DOMAIN acks : acks[i][1] = u)
  PROVE  threadOf'[u] = threadOf[u]
BY DEF threadOf

(* What is seen changes for one unit alone.                                *)
LEMMA SeenChange ==
  ASSUME NEW u \in Unit, NEW s, threadOf'[u] = s,
         \A v \in Unit : v # u => threadOf'[v] = threadOf[v]
  PROVE  threadOf' = [threadOf EXCEPT ![u] = s]
<1>1. threadOf = [v \in Unit |-> threadOf[v]] /\ threadOf' = [v \in Unit |-> threadOf'[v]]
  BY DEF threadOf
<1> QED
  BY <1>1

(* The steps of a thread are its steps in ThreadReports, or are not seen.  *)
LEMMA ThreadSeen ==
  ASSUME PoolInv, NEW u \in Unit, Thread(u), ~clash'
  PROVE  Reports!Next \/ UNCHANGED <<threadOf, acks>>
<1>t. /\ worker \in [Unit -> {"idle", "starting", "running", "returning", "over", "stuck"}]
      /\ result \in [Unit -> Status \cup {None}]
  BY DEF PoolInv, PoolTypeOK
<1>1. UNCHANGED acks /\ ~clash
  <2>1. UNCHANGED acks
    BY DEF Thread, InvokeDriverThread, StartThread, ConfigureService, StoreResult, monitorVars
  <2>2. clash \in BOOLEAN /\ (clash => clash')
    BY DEF PoolInv, PoolTypeOK, Thread, InvokeDriverThread, StartThread, ConfigureService, StoreResult
  <2> QED
    BY <2>1, <2>2
<1>2. \A v \in Unit : v # u => UNCHANGED <<worker[v], result[v]>>
  BY <1>t DEF Thread, InvokeDriverThread, StartThread, ConfigureService, StoreResult, monitorVars
<1>3. \A v \in Unit : v # u => threadOf'[v] = threadOf[v]
  BY <1>1, <1>2, SeenAs
<1>4. ASSUME threadOf'[u] = threadOf[u] PROVE threadOf' = threadOf
  BY <1>3, <1>4 DEF threadOf
<1>5. ASSUME NEW k \in Id, InvokeDriverThread(u, k) PROVE Reports!Invoke(u)
  <2>1. worker[u] = "idle" /\ worker'[u] = "starting"
    BY <1>t, <1>5 DEF InvokeDriverThread
  <2>2. \A i \in DOMAIN acks : acks[i][1] # u
    BY <2>1 DEF PoolInv, EntriesOwned
  <2>3. threadOf[u] = "none" /\ threadOf'[u] = "running"
    BY <1>1, <2>1, <2>2 DEF threadOf
  <2>4. threadOf' = [threadOf EXCEPT ![u] = "running"]
    BY <1>3, <2>3, SeenChange
  <2> QED
    BY <1>1, <2>2, <2>3, <2>4 DEF Reports!Invoke
<1>6. CASE StartThread(u)
  <2>1. worker[u] = "starting" /\ worker'[u] = "running"
    BY <1>t, <1>6 DEF StartThread
  <2>2. \A i \in DOMAIN acks : acks[i][1] # u
    BY <1>1, <2>1, AtWorkUnreported
  <2>3. threadOf'[u] = threadOf[u]
    BY <1>1, <2>1, <2>2 DEF threadOf
  <2> QED
    BY <1>1, <1>4, <2>3
<1>7. CASE ConfigureService(u)
  <2>1. /\ worker[u] = "running" /\ worker'[u] = "returning"
        /\ result'[u] \in Status
    BY <1>t, <1>7 DEF ConfigureService
  <2>2. \A i \in DOMAIN acks : acks[i][1] # u
    BY <1>1, <2>1, AtWorkUnreported
  <2>3. threadOf[u] = "running" /\ threadOf'[u] = result'[u]
    BY <1>1, <2>1, <2>2 DEF threadOf
  <2>4. threadOf' = [threadOf EXCEPT ![u] = result'[u]]
    BY <1>3, <2>3, SeenChange
  <2>5. Reports!Return(u)
    BY <1>1, <2>1, <2>3, <2>4 DEF Reports!Return
  <2> QED
    BY <2>5 DEF Reports!Next
<1>8. CASE StoreResult(u)
  <2>1. /\ worker[u] = "returning" /\ worker'[u] \in {"over", "stuck"} /\ result' = result
    BY <1>t, <1>8 DEF StoreResult
  <2>2. threadOf'[u] = threadOf[u]
    BY <1>1, <2>1 DEF threadOf
  <2> QED
    BY <1>1, <1>4, <2>2
<1> QED
  BY <1>5, <1>6, <1>7, <1>8 DEF Thread, Reports!Next

(* Sending an acknowledgement reports its unit, with the result its own    *)
(* thread returned.                                                        *)
LEMMA AckSeen ==
  ASSUME PoolInv, ~clash, NEW k \in Results, SendAck(k),
         acks' = Append(acks, <<info[k].unit, info[k].result>>),
         \A i \in DOMAIN acks : acks[i][1] # info[k].unit
  PROVE  Reports!Next
<1> DEFINE u == info[k].unit
<1>1. /\ u \in Unit /\ worker[u] = "over" /\ info[k].result = result[u] /\ result[u] \in Status
  BY Parts DEF PoolInv, ResultsOwn, Results
<1>2. UNCHANGED <<worker, result>>
  BY DEF SendAck
<1>3. /\ DOMAIN acks' = 1 .. (Len(acks) + 1) /\ DOMAIN acks = 1 .. Len(acks)
      /\ Len(acks) \in Nat
      /\ \A i \in DOMAIN acks : acks'[i] = acks[i]
      /\ acks'[Len(acks) + 1] = <<u, result[u]>>
  <2>1. acks \in Seq(Unit \X Status) /\ <<u, result[u]>> \in Unit \X Status
    BY <1>1 DEF PoolInv, PoolTypeOK
  <2> QED
    BY <1>1, <2>1
<1>4. acks'[Len(acks) + 1][1] = u
  BY <1>3
<1>5. threadOf[u] = result[u]
  BY <1>1 DEF threadOf
<1>6. threadOf'[u] = "none"
  <2>1. \E i \in DOMAIN acks' : acks'[i][1] = u
    BY <1>3, <1>4
  <2> QED
    BY <1>1, <1>2, <2>1 DEF threadOf
<1>7. ASSUME NEW v \in Unit, v # u PROVE threadOf'[v] = threadOf[v]
  <2>1. (\E i \in DOMAIN acks' : acks'[i][1] = v) <=> (\E i \in DOMAIN acks : acks[i][1] = v)
    BY <1>3, <1>4, <1>7
  <2> QED
    BY <1>2, <2>1, SeenAs
<1>8. threadOf' = [threadOf EXCEPT ![u] = "none"]
  BY <1>1, <1>6, <1>7, SeenChange
<1>9. Reports!Report(u)
  BY <1>1, <1>5, <1>8 DEF Reports!Report
<1> QED
  BY <1>1, <1>9 DEF Reports!Next

(* As long as no identifier is given while it is in use, a unit runs,      *)
(* returns, and is reported once with the result of its own thread, which  *)
(* is what VNFManager takes for granted.                                   *)
THEOREM ReportsRefined == PoolSpec => Implements
<1>1. PoolInit => Reports!Init
  BY DEF PoolInit, Reports!Init, threadOf
<1>2. PoolInv /\ [PoolNext]_poolVars => [Reports!Next \/ clash']_<<threadOf, acks>>
  <2> SUFFICES ASSUME PoolInv, [PoolNext]_poolVars, ~clash'
               PROVE  Reports!Next \/ UNCHANGED <<threadOf, acks>>
    OBVIOUS
  <2>1. ASSUME NEW u \in Unit, Thread(u) PROVE Reports!Next \/ UNCHANGED <<threadOf, acks>>
    BY <2>1, ThreadSeen
  <2>2. CASE MonitorStep \/ (\E k \in keys : SendAckFails(k)) \/ UNCHANGED poolVars
    <3>1. UNCHANGED <<worker, result>> /\ clash' = clash
      BY <2>2 DEF MonitorStep, MonitorStart, MonitorAcquire, ForgetThread, KillThread,
           MonitorWait, MonitorWake, SkipThread, SendAck, SendAckFails, poolVars
    <3>2. CASE acks' = acks
      BY <3>1, <3>2 DEF threadOf
    <3> QED
      BY <3>1, <3>2, AcksGrow, AckSeen
  <2> QED
    BY <2>1, <2>2 DEF PoolNext
<1> QED
  BY <1>1, <1>2, PoolSafe, PTL DEF PoolSpec, Implements
=============================================================================
