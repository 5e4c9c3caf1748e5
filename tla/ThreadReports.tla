---------------------------- MODULE ThreadReports ----------------------------
(***************************************************************************)
(* What the vnf-manager's threads and their monitor promise: a unit of     *)
(* work runs, returns a result, and is reported once, with that result.    *)
(* VNFManager takes them to do so in its steps InvokeDriverThread,         *)
(* ConfigureService and MonitorAck; WorkerPool is shown to do it.          *)
(***************************************************************************)
EXTENDS Sequences

CONSTANTS Unit, Status

VARIABLES
  threads,  \* "none", "running" or the result of each unit
  reports   \* the units reported and how, in order

vars == <<threads, reports>>

Init ==
  /\ threads = [u \in Unit |-> "none"]
  /\ reports = << >>

Invoke(u) ==
  /\ threads[u] = "none"
  /\ \A k \in DOMAIN reports : reports[k][1] # u
  /\ threads' = [threads EXCEPT ![u] = "running"]
  /\ UNCHANGED reports

Return(u) ==
  /\ threads[u] = "running"
  /\ \E s \in Status : threads' = [threads EXCEPT ![u] = s]
  /\ UNCHANGED reports

Report(u) ==
  /\ threads[u] \in Status
  /\ reports' = Append(reports, <<u, threads[u]>>)
  /\ threads' = [threads EXCEPT ![u] = "none"]

Next == \E u \in Unit : Invoke(u) \/ Return(u) \/ Report(u)

Spec == Init /\ [][Next]_vars
=============================================================================
