----------------------------- MODULE VNFManager -----------------------------
(***************************************************************************)
(* The vnf-manager process of one network service: it configures the VDUs  *)
(* of the file it is started with, then serves configure_vdus and          *)
(* postConfigure; a thread per instance runs the driver, and the monitor   *)
(* thread acknowledges each thread that has a result. How the threads, the *)
(* monitor and their condition work together is the subject of WorkerPool; *)
(* here the monitor reports a finished thread in one step.                 *)
(***************************************************************************)
EXTENDS NetworkService

VARIABLES
  drvConf,   \* keys of self.drv_conf: the VDUs the manager knows
  complete,  \* the instances in drv_conf[vdu]['COMPLETE']
  todo,      \* units a handler has still to go through
  threads    \* launchd_threads_info: "none", "running" or the result

mgrVars == <<drvConf, complete, todo, threads>>

(* The manager's drivers, queue and threads keep their types.              *)
MgrTypeOK ==
  /\ drvConf \subseteq Vdu
  /\ complete \subseteq Inst
  /\ todo \subseteq Unit
  /\ threads \in [Unit -> {"none", "running", "COMPLETE", "ERROR"}]

MgrInit ==
  /\ drvConf = {} /\ complete = {} /\ todo = {}
  /\ threads = [u \in Unit |-> "none"]

Alive == mgrProc \in {"configuring", "started", "ready"}

(* The units of 'vdus' that configure_vdus works on: instances already     *)
(* COMPLETE are passed over.                                               *)
InitUnits(vdus) ==
  {u \in {"init"} \X (Inst \ complete) : VduOf[u[2]] \in vdus}

-----------------------------------------------------------------------------
(* configure_vdus in __init__, on the configuration file.                  *)
MgrStart ==
  /\ mgrProc = "starting"
  /\ drvConf' = bootConf /\ todo' = InitUnits(bootConf)
  /\ mgrProc' = "configuring"
  /\ UNCHANGED <<complete, threads, vm, done, bootConf, toMgr, lostCasts,
                 toPlugin>>

(* A driver of the file cannot be imported: the exception ends the process.*)
MgrStartFails ==
  /\ "descriptor" \in Faults
  /\ mgrProc = "starting" /\ bootConf \cap InitDriven # {}
  /\ mgrProc' = "dead"
  /\ UNCHANGED <<mgrVars, vm, done, bootConf, toMgr, lostCasts, toPlugin>>

(* __init__ returns, having started the monitor.                           *)
MgrConstructed ==
  /\ mgrProc = "configuring" /\ todo = {}
  /\ mgrProc' = "started"
  /\ UNCHANGED <<mgrVars, vm, done, bootConf, toMgr, lostCasts, toPlugin>>

(* The service starts and declares its queue.                              *)
MgrListen ==
  /\ mgrProc = "started"
  /\ mgrProc' = "ready"
  /\ UNCHANGED <<mgrVars, vm, done, bootConf, toMgr, lostCasts, toPlugin>>

(* VDUs already in drv_conf are skipped.                                   *)
ConfigureVdus(m) ==
  /\ mgrProc = "ready" /\ m \in toMgr /\ m.event = "init"
  /\ toMgr' = toMgr \ {m}
  /\ drvConf' = drvConf \cup m.vdus
  /\ todo' = todo \cup InitUnits(m.vdus \ drvConf)
  /\ UNCHANGED <<complete, threads, vm, done, mgrProc, bootConf, lostCasts,
                 toPlugin>>

(* A driver that cannot be imported ends the handler before it starts or   *)
(* reports anything; drv_conf may have been given the VDUs by then, if one *)
(* whose driver could be imported came first.                              *)
ConfigureVdusFails(m) ==
  /\ "descriptor" \in Faults
  /\ mgrProc = "ready" /\ m \in toMgr /\ m.event = "init"
  /\ (m.vdus \ drvConf) \cap InitDriven # {}
  /\ toMgr' = toMgr \ {m}
  /\ \/ UNCHANGED drvConf
     \/ /\ Cardinality(m.vdus \ drvConf) > 1
        /\ drvConf' = drvConf \cup m.vdus
  /\ UNCHANGED <<complete, todo, threads, vm, done, mgrProc, bootConf,
                 lostCasts, toPlugin>>

(* The instances postConfigure gets to: all of them, unless the driver     *)
(* cannot be imported or it meets one without a management address. The    *)
(* exception ends the handler; nothing is reported about the others.       *)
PostUnits(v) ==
  {S \in SUBSET UnitsOf("config", v) :
     \/ v \in drvConf /\ "descriptor" \in Faults
     \/ v \in drvConf /\ S = UnitsOf("config", v)
     \/ v \notin drvConf /\ S = {}}

PostConfigureCast(m) ==
  /\ mgrProc = "ready" /\ m \in toMgr /\ m.event = "config"
  /\ toMgr' = toMgr \ {m}
  /\ \E v \in m.vdus : \E S \in PostUnits(v) : todo' = todo \cup S
  /\ UNCHANGED <<drvConf, complete, threads, vm, done, mgrProc, bootConf,
                 lostCasts, toPlugin>>

-----------------------------------------------------------------------------
(* A VDU whose 'init' has no driver is acknowledged at once.               *)
AckWithoutDriver(u) ==
  /\ u[1] = "init" /\ VduOf[u[2]] \notin InitDriven
  /\ toPlugin' = toPlugin \cup {AckOf(u, "COMPLETE")}
  /\ complete' = complete \cup {u[2]}
  /\ done' = done \cup {u}
  /\ UNCHANGED threads

(* _configure_vdu catches what goes wrong before the thread starts, e.g.   *)
(* an instance without a management address.                               *)
AckFailure(u) ==
  /\ "descriptor" \in Faults
  /\ u[1] = "init" /\ VduOf[u[2]] \in InitDriven
  /\ toPlugin' = toPlugin \cup {AckOf(u, "ERROR")}
  /\ UNCHANGED <<complete, done, threads>>

InvokeDriverThread(u) ==
  /\ u[1] = "init" => VduOf[u[2]] \in InitDriven
  /\ threads' = [threads EXCEPT ![u] = "running"]
  /\ UNCHANGED <<toPlugin, complete, done>>

ConfigureInstance(u) ==
  /\ Alive /\ u \in todo
  /\ todo' = todo \ {u}
  /\ AckWithoutDriver(u) \/ AckFailure(u) \/ InvokeDriverThread(u)
  /\ UNCHANGED <<drvConf, vm, mgrProc, bootConf, toMgr, lostCasts>>

(* Mutant: what a driver raises is taken for success.                      *)
ConfigureServiceLenient(u) ==
  /\ Alive /\ threads[u] = "running"
  /\ threads' = [threads EXCEPT ![u] = "COMPLETE"]
  /\ done' = done \cup {u} \/ UNCHANGED done
  /\ UNCHANGED <<drvConf, complete, todo, vm, mgrProc, bootConf, toMgr,
                 lostCasts, toPlugin>>

(* The driver returns; _configure_service turns its exceptions to ERROR.   *)
ConfigureService(u) ==
  /\ Alive /\ threads[u] = "running"
  /\ \/ threads' = [threads EXCEPT ![u] = "COMPLETE"] /\ done' = done \cup {u}
     \/ /\ "driver" \in Faults
        /\ threads' = [threads EXCEPT ![u] = "ERROR"] /\ UNCHANGED done
  /\ UNCHANGED <<drvConf, complete, todo, vm, mgrProc, bootConf, toMgr,
                 lostCasts, toPlugin>>

(* Mutant: a reported thread is not forgotten.                             *)
MonitorAckAgain(u) ==
  /\ mgrProc \in {"started", "ready"}
  /\ threads[u] \in {"COMPLETE", "ERROR"}
  /\ toPlugin' = toPlugin \cup {AckOf(u, threads[u])}
  /\ UNCHANGED <<mgrVars, vm, done, mgrProc, bootConf, toMgr, lostCasts>>

(* The monitor reports a thread with a result and forgets it.              *)
MonitorAck(u) ==
  /\ mgrProc \in {"started", "ready"}
  /\ threads[u] \in {"COMPLETE", "ERROR"}
  /\ toPlugin' = toPlugin \cup {AckOf(u, threads[u])}
  /\ complete' = IF threads[u] = "COMPLETE" THEN complete \cup {u[2]} ELSE complete
  /\ threads' = [threads EXCEPT ![u] = "none"]
  /\ UNCHANGED <<drvConf, todo, vm, done, mgrProc, bootConf, toMgr, lostCasts>>

(* Nothing supervises the process.                                         *)
MgrCrash ==
  /\ "mgr" \in Faults /\ mgrProc \notin {"none", "dead"}
  /\ mgrProc' = "dead"
  /\ UNCHANGED <<mgrVars, vm, done, bootConf, toMgr, lostCasts, toPlugin>>

-----------------------------------------------------------------------------
Receive(m) ==
  ConfigureVdus(m) \/ ConfigureVdusFails(m) \/ PostConfigureCast(m)

Work(u) == ConfigureInstance(u) \/ ConfigureService(u) \/ MonitorAck(u)

MgrNext ==
  \/ MgrStart \/ MgrStartFails \/ MgrConstructed \/ MgrListen \/ MgrCrash
  \/ \E m \in toMgr : Receive(m)
  \/ \E u \in Unit : Work(u)
=============================================================================
