------------------------------ MODULE BootVdu ------------------------------
(***************************************************************************)
(* One launch of a VDU: server_create, the polling loop of _boot_vdu, and  *)
(* what _launch_vnfds notes of the machines. Deployment takes a launch for *)
(* two steps; this module has its loop, which removes from the list it     *)
(* goes through. Machine i is named after the VDU and i. The calls to nova *)
(* give way to other threads, those to the database do not.                *)
(***************************************************************************)
EXTENDS Naturals, Sequences, SequencesExt

CONSTANTS
  MaxMachines, \* the largest number of instances of a VDU
  Net,         \* the networks of a service
  Mgmt         \* the one over which machines are configured

ASSUME BootAssumption == MaxMachines \in Nat \ {0} /\ Mgmt \in Net

VARIABLES
  bootN,       \* num_instances of the VDU
  bootNics,    \* the networks its machines are attached to
  bootPc,      \* where _boot_vdu is
  nova,        \* nova[i]: what nova says of machine i
  addresses,   \* addresses[i]: the networks on which it has an address
  bootIndex,   \* the number of machines of earlier launches
  bootRow,     \* the instances column of the VDU's row
  left,        \* instances_list
  at,          \* the place of the for loop in it
  active,      \* instances_active
  taken,       \* the machines _boot_vdu returns
  mgmtIps,     \* the machines that have an entry in mgmt-ip
  bootStatus   \* the status of the service

bootVars == <<bootN, bootNics, bootPc, nova, addresses, bootIndex, bootRow, left, at,
              active, taken, mgmtIps, bootStatus>>

Machine == 0 .. 2 * MaxMachines - 1
Launched == bootIndex .. bootIndex + bootN - 1
Exists(i) == nova[i] # "none"

(* Every machine, list and counter of a launch keeps its type.             *)
BootTypeOK ==
  /\ bootN \in 1 .. MaxMachines
  /\ bootNics \subseteq Net
  /\ bootPc \in {"create", "record", "sleep", "poll", "describe", "done",
                  "error", "raised"}
  /\ nova \in [Machine -> {"none", "BUILD", "ACTIVE", "ERROR"}]
  /\ addresses \in [Machine -> SUBSET Net]
  /\ bootIndex \in {0, bootN}
  /\ bootRow \in Seq(Machine) /\ left \in Seq(Machine) /\ taken \in Seq(Machine)
  /\ at \in 1 .. MaxMachines + 1
  /\ bootPc = "poll" => at \in DOMAIN left
  /\ active \in 0 .. MaxMachines
  /\ mgmtIps \subseteq Machine
  /\ bootStatus \in {"PENDING", "ERROR"}

(* A VDU is launched for the first time, or once more (bootIndex > 0).     *)
BootInit ==
  /\ bootN \in 1 .. MaxMachines /\ bootIndex \in {0, bootN}
  /\ bootNics \in {s \in SUBSET Net : Mgmt \in s} /\ bootPc = "create"
  /\ nova = [i \in Machine |-> IF i < bootIndex THEN "ACTIVE" ELSE "none"]
  /\ addresses = [i \in Machine |-> IF i < bootIndex THEN bootNics ELSE {}]
  /\ bootRow = [i \in 1 .. bootIndex |-> i - 1]
  /\ left = << >> /\ at = 1 /\ active = 0
  /\ taken = << >> /\ mgmtIps = {} /\ bootStatus = "PENDING"

-----------------------------------------------------------------------------
(* nova *)

Build(i) ==
  /\ nova[i] = "BUILD"
  /\ \E s \in {"ACTIVE", "ERROR"} : nova' = [nova EXCEPT ![i] = s]
  /\ UNCHANGED <<bootN, bootNics, bootPc, addresses, bootIndex, bootRow, left, at,
                 active, taken, mgmtIps, bootStatus>>

Address(i) ==
  /\ nova[i] \in {"BUILD", "ACTIVE"}
  /\ \E n \in bootNics \ addresses[i] :
       addresses' = [addresses EXCEPT ![i] = @ \cup {n}]
  /\ UNCHANGED <<bootN, bootNics, bootPc, nova, bootIndex, bootRow, left, at, active,
                 taken, mgmtIps, bootStatus>>

-----------------------------------------------------------------------------
(* server_create: the machines of a launch one after the other. Their ids  *)
(* go into the row once all are created, and a single machine's only after *)
(* it has been looked at again.                                            *)
Begun == {i \in Launched : Exists(i)}

ServerCreate ==
  /\ bootPc = "create"
  /\ LET i == CHOOSE j \in Launched \ Begun :
                \A k \in Launched \ Begun : j <= k
         all == Append(left, i)
     IN /\ nova' = [nova EXCEPT ![i] = "BUILD"]
        /\ left' = all
        /\ IF bootN = 1
             THEN bootPc' = "record" /\ UNCHANGED bootRow
             ELSE IF Len(all) = bootN
               THEN bootPc' = "poll" /\ bootRow' = bootRow \o all
               ELSE UNCHANGED <<bootPc, bootRow>>
  /\ UNCHANGED <<bootN, bootNics, addresses, bootIndex, at, active, taken, mgmtIps,
                 bootStatus>>

(* A call to nova raises, and nothing in the thread catches it.            *)
NovaRaises ==
  /\ bootPc \in {"create", "record", "poll", "sleep", "describe"}
  /\ bootPc' = "raised"
  /\ UNCHANGED <<bootN, bootNics, nova, addresses, bootIndex, bootRow, left, at,
                 active, taken, mgmtIps, bootStatus>>

(* A single machine is waited for until it is ACTIVE with some address.    *)
Up(i) == nova[i] = "ACTIVE" /\ addresses[i] # {}

TakeSingle ==
  /\ Up(left[1])
  /\ bootPc' = "describe" /\ taken' = left
  /\ UNCHANGED bootStatus

RecordSingle ==
  /\ bootPc = "record"
  /\ bootRow' = bootRow \o left
  /\ \/ TakeSingle
     \/ ~Up(left[1]) /\ bootPc' = "sleep" /\ UNCHANGED <<taken, bootStatus>>
  /\ UNCHANGED <<bootN, bootNics, nova, addresses, bootIndex, left, at, active, mgmtIps>>

PollSingle ==
  /\ bootPc = "sleep"
  /\ \/ TakeSingle
     \/ /\ nova[left[1]] = "ERROR"
        /\ bootPc' = "error" /\ bootStatus' = "ERROR" /\ UNCHANGED taken
  /\ UNCHANGED <<bootN, bootNics, nova, addresses, bootIndex, bootRow, left, at, active,
                 mgmtIps>>

(* Mutant: the loop ends with the list, the while does not look at it.     *)
PollActiveOnce ==
  /\ bootPc = "poll" /\ nova[left[at]] = "ACTIVE"
  /\ LET rest == RemoveAt(left, at)
     IN /\ left' = rest
        /\ active' = active + 1
        /\ taken' = Append(taken, left[at])
        /\ at' = IF at + 1 > Len(rest) THEN 1 ELSE at + 1
        /\ bootPc' = IF at + 1 > Len(rest) THEN "describe" ELSE "poll"
  /\ UNCHANGED <<bootN, bootNics, nova, addresses, bootIndex, bootRow, mgmtIps, bootStatus>>

(* The for loop goes on to the next place of a list that has become        *)
(* shorter, and passes over a machine; the while loop comes back to it.    *)
PollActive ==
  /\ bootPc = "poll" /\ nova[left[at]] = "ACTIVE"
  /\ LET rest == RemoveAt(left, at)
     IN /\ left' = rest
        /\ active' = active + 1
        /\ taken' = Append(taken, left[at])
        /\ at' = IF at + 1 > Len(rest) THEN 1 ELSE at + 1
        /\ bootPc' = IF at + 1 > Len(rest) /\ active + 1 = bootN /\ rest = << >>
                       THEN "describe" ELSE "poll"
  /\ UNCHANGED <<bootN, bootNics, nova, addresses, bootIndex, bootRow, mgmtIps, bootStatus>>

(* Mutant: a machine in ERROR is waited for like one in BUILD.             *)
PollErrorSleeps ==
  /\ bootPc = "poll" /\ nova[left[at]] = "ERROR"
  /\ at' = IF at = Len(left) THEN 1 ELSE at + 1
  /\ UNCHANGED <<bootN, bootNics, bootPc, nova, addresses, bootIndex, bootRow, left,
                 active, taken, mgmtIps, bootStatus>>

PollError ==
  /\ bootPc = "poll" /\ nova[left[at]] = "ERROR"
  /\ bootPc' = "error" /\ bootStatus' = "ERROR"
  /\ UNCHANGED <<bootN, bootNics, nova, addresses, bootIndex, bootRow, left, at, active,
                 taken, mgmtIps>>

PollBuild ==
  /\ bootPc = "poll" /\ nova[left[at]] = "BUILD"
  /\ at' = IF at = Len(left) THEN 1 ELSE at + 1
  /\ UNCHANGED <<bootN, bootNics, bootPc, nova, addresses, bootIndex, bootRow, left,
                 active, taken, mgmtIps, bootStatus>>

(* The rest of _launch_vnfds: only what has an address on the management   *)
(* network by now has a mgmt-ip, which its configuration needs.            *)
Describe ==
  /\ bootPc = "describe"
  /\ mgmtIps' = {i \in ToSet(taken) : Mgmt \in addresses[i]}
  /\ bootPc' = "done"
  /\ UNCHANGED <<bootN, bootNics, nova, addresses, bootIndex, bootRow, left, at, active,
                 taken, bootStatus>>

-----------------------------------------------------------------------------
BootStep ==
  \/ ServerCreate \/ RecordSingle \/ PollSingle
  \/ PollActive \/ PollError \/ PollBuild \/ Describe

NovaStep(i) == Build(i) \/ Address(i)

BootNext == BootStep \/ NovaRaises \/ \E i \in Machine : NovaStep(i)

BootSpec == BootInit /\ [][BootNext]_bootVars

-----------------------------------------------------------------------------
(* The instances column when n machines were launched one after another;   *)
(* it names those of this launch from the end of its creation on, except   *)
(* that the id of a single machine comes with the first look at it.        *)
Row(n) == [k \in 1 .. n |-> k - 1]

(* Machines are created in the order of their numbers.                     *)
CreationSound ==
  /\ bootPc = "create" =>
       /\ left = [k \in 1 .. Len(left) |-> bootIndex + k - 1] /\ Len(left) < bootN
       /\ bootRow = Row(bootIndex) /\ taken = << >> /\ active = 0 /\ at = 1
       /\ \A i \in Machine : Exists(i) <=> i < bootIndex + Len(left)
  /\ bootPc \notin {"create", "raised"} => \A i \in Machine : Exists(i) <=> i < bootIndex + bootN
  /\ bootPc \in {"sleep", "poll", "describe", "done", "error"} => bootRow = Row(bootIndex + bootN)

(* A single machine stays in the list; of several each is in the list that *)
(* is polled or among those taken, and the counter is of these: the list   *)
(* is used up when it says that all are.                                   *)
PollSound ==
  /\ bootPc \in {"record", "sleep"} =>
       bootN = 1 /\ left = <<bootIndex>> /\ taken = << >> /\ active = 0
  /\ bootPc = "record" => bootRow = Row(bootIndex)
  /\ bootPc = "poll" =>
       /\ bootN > 1 /\ ToSet(left) \cup ToSet(taken) = Launched
       /\ active = Len(taken) /\ Len(left) + Len(taken) = bootN
       /\ \A i \in ToSet(taken) : nova[i] = "ACTIVE"
  /\ bootPc \in {"describe", "done"} /\ bootN = 1 => addresses[bootIndex] # {}
  /\ \A i \in Machine : addresses[i] \subseteq bootNics

(* Although it shrinks the list under the loop, _boot_vdu returns every    *)
(* machine of its launch, each once and each ACTIVE.                       *)
BootComplete ==
  bootPc \in {"describe", "done"} =>
    /\ ToSet(taken) = Launched /\ Len(taken) = bootN
    /\ \A i \in Launched : nova[i] = "ACTIVE"

(* Once a launch is past its creation, the row names every machine nova    *)
(* has of this VDU, each once: a deletion finds them all.                  *)
BootRecorded ==
  bootPc \in {"sleep", "poll", "describe", "done", "error"} =>
    /\ ToSet(bootRow) = {i \in Machine : Exists(i)}
    /\ IsInjective(bootRow)

(* A VDU of one machine is not up before the machine has an address: the   *)
(* one it is configured by, when it is attached to one network only.       *)
BootReachable ==
  bootPc = "done" /\ bootN = 1 =>
    /\ \A i \in Launched : addresses[i] # {}
    /\ bootNics = {Mgmt} => mgmtIps = Launched

(* All that is so of a launch, which every step keeps.                     *)
BootInv ==
  BootTypeOK /\ CreationSound /\ PollSound /\ BootComplete /\ BootRecorded /\ BootReachable

(* A launch that nova has begun ends, with its machines or with the        *)
(* service in ERROR.                                                       *)
BootEnds ==
  left # << >> ~>
    \/ bootPc \in {"done", "raised"}
    \/ bootPc = "error" /\ bootStatus = "ERROR"
=============================================================================
