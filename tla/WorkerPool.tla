----------------------------- MODULE WorkerPool -----------------------------
(***************************************************************************)
(* The threads of a vnf-manager: one ImplThread per unit of work (an event *)
(* of an instance) and the monitor, which share launchd_threads_info under *)
(* a condition variable. The process is monkey-patched by eventlet: the    *)
(* threads are green, and one gives way to another where it waits for the  *)
(* lock, in a driver, in the cast of an acknowledgement, and in            *)
(* Thread.start. What lies between two such points is one step.            *)
(***************************************************************************)
EXTENDS Naturals, Sequences, FiniteSets, Functions

CONSTANTS
  Unit,    \* the units of work
  Id,      \* the thread identifiers: 4 hex digits of a random uuid
  Faults   \* "cast": an acknowledgement cannot be sent

Status == {"COMPLETE", "ERROR"}
None == "none"
Monitor == "monitor"

ASSUME PoolAssumption ==
  /\ Faults \subseteq {"cast"}
  /\ {None, Monitor} \cap (Unit \cup Id) = {}
  /\ None \notin Status

VARIABLES
  worker,  \* worker[u]: where the ImplThread of a unit is
  thrId,   \* thrId[u]: the identifier it was given
  result,  \* result[u]: what its driver returned
  info,    \* launchd_threads_info: by identifier, the unit and its result
  lock,    \* who holds the condition's lock
  monitor, \* where monitor_thread_pool is
  keys,    \* the identifiers its loop has still to look at
  current, \* the one whose acknowledgement is being sent
  acks,    \* the acknowledgements sent, in order
  clash    \* whether an identifier was given while it was in use

poolVars == <<worker, thrId, result, info, lock, monitor, keys, current, acks, clash>>

Entry == [unit : Unit, result : Status \cup {None}]

(* Entries, lock, workers and monitor keep their types.                    *)
PoolTypeOK ==
  /\ worker \in [Unit -> {"idle", "starting", "running", "returning", "over", "stuck"}]
  /\ thrId \in [Unit -> Id \cup {None}]
  /\ result \in [Unit -> Status \cup {None}]
  /\ DOMAIN info \subseteq Id /\ \A k \in DOMAIN info : info[k] \in Entry
  /\ lock \in {None, Monitor} \cup Unit
  /\ monitor \in {"new", "acquire", "scan", "sent", "waiting", "notified",
                   "dead", "broken"}
  /\ keys \subseteq Id
  /\ current \in Id \cup {None}
  /\ acks \in Seq(Unit \X Status)
  /\ clash \in BOOLEAN

PoolInit ==
  /\ worker = [u \in Unit |-> "idle"]
  /\ thrId = [u \in Unit |-> None]
  /\ result = [u \in Unit |-> None]
  /\ info = << >>
  /\ lock = None
  /\ monitor = "new" /\ keys = {} /\ current = None
  /\ acks = << >>
  /\ clash = FALSE

monitorVars == <<monitor, keys, current, acks>>

-----------------------------------------------------------------------------
(* The handlers and the threads they start *)

(* A handler enters the thread under an identifier nobody checks to be new.*)
InvokeDriverThread(u, k) ==
  /\ worker[u] = "idle" /\ lock = None
  /\ worker' = [worker EXCEPT ![u] = "starting"]
  /\ thrId' = [thrId EXCEPT ![u] = k]
  /\ info' = [j \in DOMAIN info \cup {k} |->
                IF j = k THEN [unit |-> u, result |-> None] ELSE info[j]]
  /\ clash' = (clash \/ k \in DOMAIN info)
  /\ UNCHANGED <<result, lock, monitorVars>>

(* Thread.start gives way until the thread runs.                           *)
StartThread(u) ==
  /\ worker[u] = "starting"
  /\ worker' = [worker EXCEPT ![u] = "running"]
  /\ UNCHANGED <<thrId, result, info, lock, monitorVars, clash>>

(* _configure_service: the driver returns, or raises and is given ERROR.   *)
ConfigureService(u) ==
  /\ worker[u] = "running"
  /\ worker' = [worker EXCEPT ![u] = "returning"]
  /\ \E s \in Status : result' = [result EXCEPT ![u] = s]
  /\ UNCHANGED <<thrId, info, lock, monitorVars, clash>>

(* Mutant: the result is stored and nobody is notified.                    *)
StoreResultQuietly(u) ==
  /\ worker[u] = "returning" /\ lock = None
  /\ thrId[u] \in DOMAIN info
  /\ info' = [info EXCEPT ![thrId[u]].result = result[u]]
  /\ worker' = [worker EXCEPT ![u] = "over"]
  /\ UNCHANGED <<thrId, result, lock, monitorVars, clash>>

(* Mutant: the result stored is COMPLETE whatever the driver returned.     *)
StoreResultComplete(u) ==
  /\ worker[u] = "returning" /\ lock = None
  /\ thrId[u] \in DOMAIN info
  /\ info' = [info EXCEPT ![thrId[u]].result = "COMPLETE"]
  /\ monitor' = IF monitor = "waiting" THEN "notified" ELSE monitor
  /\ worker' = [worker EXCEPT ![u] = "over"]
  /\ UNCHANGED <<thrId, result, lock, keys, current, acks, clash>>

(* The end of run: store the result and notify, under the lock. If the     *)
(* entry is gone, the KeyError ends the thread before it gives up the lock.*)
StoreResult(u) ==
  /\ worker[u] = "returning" /\ lock = None
  /\ \/ /\ thrId[u] \in DOMAIN info
        /\ info' = [info EXCEPT ![thrId[u]].result = result[u]]
        /\ monitor' = IF monitor = "waiting" THEN "notified" ELSE monitor
        /\ worker' = [worker EXCEPT ![u] = "over"]
        /\ UNCHANGED lock
     \/ /\ thrId[u] \notin DOMAIN info
        /\ lock' = u /\ worker' = [worker EXCEPT ![u] = "stuck"]
        /\ UNCHANGED <<info, monitor>>
  /\ UNCHANGED <<thrId, result, keys, current, acks, clash>>

-----------------------------------------------------------------------------
(* monitor_thread_pool *)

(* It is started once __init__ has been through its configuration.         *)
MonitorStart ==
  /\ monitor = "new" /\ monitor' = "acquire"
  /\ UNCHANGED <<worker, thrId, result, info, lock, keys, current, acks, clash>>

MonitorAcquire ==
  /\ monitor = "acquire" /\ lock = None
  /\ monitor' = "scan" /\ lock' = Monitor /\ keys' = DOMAIN info
  /\ UNCHANGED <<worker, thrId, result, info, current, acks, clash>>

(* Mutant: a thread without a result is forgotten too.                     *)
SkipThreadForgets(k) ==
  /\ monitor = "scan" /\ k \in keys /\ info[k].result = None
  /\ keys' = keys \ {k} /\ info' = [j \in DOMAIN info \ {k} |-> info[j]]
  /\ UNCHANGED <<worker, thrId, result, lock, monitor, current, acks, clash>>

SkipThread(k) ==
  /\ monitor = "scan" /\ k \in keys /\ info[k].result = None
  /\ keys' = keys \ {k}
  /\ UNCHANGED <<worker, thrId, result, info, lock, monitor, current, acks, clash>>

SendAck(k) ==
  /\ monitor = "scan" /\ k \in keys /\ info[k].result # None
  /\ acks' = Append(acks, <<info[k].unit, info[k].result>>)
  /\ monitor' = "sent" /\ current' = k
  /\ UNCHANGED <<worker, thrId, result, info, lock, keys, clash>>

(* The cast raises: the monitor ends, and the lock stays with it.          *)
SendAckFails(k) ==
  /\ "cast" \in Faults
  /\ monitor = "scan" /\ k \in keys /\ info[k].result # None
  /\ monitor' = "dead"
  /\ UNCHANGED <<worker, thrId, result, info, lock, keys, current, acks, clash>>

(* Mutant: a thread that was reported is not forgotten.                    *)
ForgetThreadLate ==
  /\ monitor = "sent"
  /\ keys' = keys \ {current} /\ current' = None
  /\ monitor' = "scan"
  /\ UNCHANGED <<worker, thrId, result, info, lock, acks, clash>>

(* Whether the thread of an entry has begun and not ended.                 *)
IsAlive(k) == worker[info[k].unit] \in {"running", "returning"}

ForgetThread ==
  /\ monitor = "sent" /\ ~IsAlive(current)
  /\ info' = [k \in DOMAIN info \ {current} |-> info[k]]
  /\ keys' = keys \ {current} /\ current' = None
  /\ monitor' = "scan"
  /\ UNCHANGED <<worker, thrId, result, lock, acks, clash>>

(* A thread that is reported and still alive is to be killed. Threads have *)
(* no such method: the exception ends the monitor, which keeps the lock.   *)
KillThread ==
  /\ monitor = "sent" /\ IsAlive(current)
  /\ monitor' = "broken"
  /\ UNCHANGED <<worker, thrId, result, info, lock, keys, current, acks, clash>>

(* condition.wait gives up the lock,                                       *)
MonitorWait ==
  /\ monitor = "scan" /\ keys = {}
  /\ monitor' = "waiting" /\ lock' = None
  /\ UNCHANGED <<worker, thrId, result, info, keys, current, acks, clash>>

(* and has it again when it returns; the loop gives it up once more.       *)
MonitorWake ==
  /\ monitor = "notified" /\ lock = None
  /\ monitor' = "acquire"
  /\ UNCHANGED <<worker, thrId, result, info, lock, keys, current, acks, clash>>

-----------------------------------------------------------------------------
Thread(u) ==
  \/ \E k \in Id : InvokeDriverThread(u, k)
  \/ StartThread(u) \/ ConfigureService(u) \/ StoreResult(u)

MonitorStep ==
  \/ MonitorStart \/ MonitorAcquire \/ ForgetThread \/ KillThread
  \/ MonitorWait \/ MonitorWake
  \/ \E k \in keys : SkipThread(k) \/ SendAck(k)

PoolNext ==
  \/ \E u \in Unit : Thread(u)
  \/ MonitorStep
  \/ \E k \in keys : SendAckFails(k)

PoolSpec == PoolInit /\ [][PoolNext]_poolVars

(* The green threads run when they can, and drivers return.                *)
FairPoolSpec ==
  /\ PoolSpec /\ WF_poolVars(MonitorStep)
  /\ \A u \in Unit : WF_poolVars(StartThread(u) \/ ConfigureService(u))
  /\ \A u \in Unit : SF_poolVars(StoreResult(u))

-----------------------------------------------------------------------------
Results == {k \in DOMAIN info : info[k].result # None}

(* A result never lies unseen: when the monitor waits and nobody has       *)
(* notified it, no entry has one.                                          *)
NoMissedResult == monitor = "waiting" => Results = {}

(* No instance is acknowledged twice, even when identifiers clash.         *)
AckedOnce == \A i, j \in DOMAIN acks : acks[i][1] = acks[j][1] => i = j

(* Nobody ends holding the lock, and with it the configuration of every    *)
(* instance, unless two threads were given the same identifier: neither a  *)
(* thread whose entry is gone nor a monitor that tries to kill a thread.   *)
LockReleased == lock \in Unit \/ monitor = "broken" => clash

(* Who holds the lock is where it is held: the monitor from its scan until *)
(* it waits or ends, a thread when it ended there.                         *)
LockHeld ==
  /\ lock = Monitor <=> monitor \in {"scan", "sent", "dead", "broken"}
  /\ \A u \in Unit : lock = u <=> worker[u] = "stuck"

(* The monitor has the results it has not seen before it, and waits only   *)
(* when it has seen them all.                                              *)
ScanWhole ==
  /\ keys \subseteq DOMAIN info
  /\ monitor \in {"scan", "sent"} => Results \subseteq keys
  /\ monitor = "sent" => current \in Results
  /\ NoMissedResult

(* An entry is of the thread that was last given its identifier, and a     *)
(* unit that was acknowledged has none left, but for the one in hand.      *)
EntriesOwned ==
  /\ \A k \in DOMAIN info : thrId[info[k].unit] = k /\ worker[info[k].unit] # "idle"
  /\ \A i \in DOMAIN acks :
       /\ worker[acks[i][1]] # "idle"
       /\ \A k \in DOMAIN info :
            info[k].unit = acks[i][1] => k = current /\ monitor \in {"sent", "broken"}

(* Until identifiers clash a thread at work has its entry, and what is     *)
(* stored there is the result of a thread that is over.                    *)
ResultsOwn ==
  /\ \A u \in Unit : worker[u] \in {"returning", "over", "stuck"} => result[u] \in Status
  /\ ~clash =>
       /\ \A u \in Unit : worker[u] \in {"starting", "running", "returning"} =>
            thrId[u] \in DOMAIN info /\ info[thrId[u]].unit = u
       /\ \A k \in Results :
            worker[info[k].unit] = "over" /\ info[k].result = result[info[k].unit]

(* The lock is never lost without a clash, with what makes it so: the      *)
(* invariant of the pool, which every step keeps.                          *)
PoolInv ==
  PoolTypeOK /\ LockHeld /\ ScanWhole /\ EntriesOwned /\ ResultsOwn /\ LockReleased

(* Every thread that is started is acknowledged, unless identifiers clash  *)
(* or an acknowledgement cannot be sent.                                   *)
EveryThreadAcked ==
  [](~clash /\ monitor # "dead") =>
    \A u \in Unit : worker[u] = "starting" ~> u \in {acks[i][1] : i \in DOMAIN acks}

(* A unit's thread, as who waits for its report sees it.                   *)
threadOf == [u \in Unit |->
  CASE worker[u] = "idle" \/ \E i \in DOMAIN acks : acks[i][1] = u -> "none"
    [] worker[u] \in {"starting", "running"} -> "running"
    [] OTHER -> result[u]]

Reports == INSTANCE ThreadReports WITH threads <- threadOf, reports <- acks

(* The threads and the monitor keep the promise of ThreadReports for as    *)
(* long as no identifier has been given while it was in use.               *)
Implements ==
  Reports!Init /\ [][Reports!Next \/ clash']_<<threadOf, acks>>
=============================================================================
